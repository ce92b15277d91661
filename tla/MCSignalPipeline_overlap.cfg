SPECIFICATION Spec
CONSTANTS
  Deliveries = {d1, d2}
  Channels = {c1}
  Contents = {A, B}
  Groups = {g1}
  Routes = {r1, r2}
  GroupOf <- OneGroup
  MaxStrategies = 1
  TTL = 0
  MaxTime = 1
  Overlap = TRUE
  Trading = {TRUE}
  Faults = {"writeKey", "create", "save", "execute", "lostReply"}
  g1 = g1
  d1 = d1
  d2 = d2
  c1 = c1
  A = A
  B = B
  r1 = r1
  r2 = r2
SYMMETRY Symmetry
INVARIANTS TypeOK DroppedMeansTraded
CHECK_DEADLOCK FALSE

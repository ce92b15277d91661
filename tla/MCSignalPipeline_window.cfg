SPECIFICATION FairSpec
CONSTANTS
  Deliveries = {d1, d2}
  Channels = {c1}
  Contents = {A}
  Groups = {g1}
  Routes = {r1}
  GroupOf <- OneGroup
  MaxStrategies = 2
  TTL = 1
  MaxTime = 2
  Overlap = FALSE
  Trading = {TRUE, FALSE}
  Faults = {"lookup", "create", "execute"}
  g1 = g1
  d1 = d1
  d2 = d2
  c1 = c1
  A = A
  r1 = r1
INVARIANTS RepeatOutlivesKey
PROPERTIES Settles
CHECK_DEADLOCK FALSE

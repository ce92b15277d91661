SPECIFICATION Spec
CONSTANTS
  Deliveries = {d1, d2, d3}
  Channels = {c1}
  Contents = {A, B}
  Groups = {g1}
  Routes = {r1}
  GroupOf <- OneGroup
  MaxStrategies = 1
  TTL = 1
  MaxTime = 0
  Overlap = FALSE
  Trading = {TRUE}
  Faults = {}
  g1 = g1
  d1 = d1
  d2 = d2
  d3 = d3
  c1 = c1
  A = A
  B = B
  r1 = r1
INVARIANTS WindowDedup
CHECK_DEADLOCK FALSE

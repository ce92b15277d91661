SPECIFICATION Spec
CONSTANTS
  Orders = {1, 2}
  Checks = {c1, c2}
  Closers = {}
  Confirmations = 0
  Confirmed = 0
  MaxFaults = 1
  c1 = c1
  c2 = c2
SYMMETRY Symmetry
INVARIANTS TypeOK ClosedLiveExcused
CHECK_DEADLOCK FALSE

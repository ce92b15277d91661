SPECIFICATION Spec
CONSTANTS
  Orders = {o1}
  Modes = {"FULL"}
  Sides = {"sell"}
  Acks = {"open"}
  Faults = {}
  MaxCrashes = 0
  MaxDrops = 0
CHECK_DEADLOCK FALSE
INVARIANTS
  ProtectedMeansFilled

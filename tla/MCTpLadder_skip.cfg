SPECIFICATION Spec
CONSTANTS
  Orders = {o1, o2}
  Sizes = {2, 3}
  Distributions <- Even
  Foreigns = {0, 3}
  Calms = {TRUE}
  Faults = {}
  MaxFill = 3
  o1 = o1
  o2 = o2
SYMMETRY Symmetry
INVARIANTS SkippedNotSent
CHECK_DEADLOCK FALSE

SPECIFICATION Spec
CONSTANTS
  Orders = {o1, o2}
  Sizes = {60}
  Distributions <- Uneven
  Foreigns = {0, 1}
  Calms = {TRUE, FALSE}
  Faults = {"positions", "openOrders", "place"}
  MaxFill = 3
  o1 = o1
  o2 = o2
SYMMETRY Symmetry
INVARIANTS TypeOK LadderExact Covered PlanExact
CHECK_DEADLOCK FALSE

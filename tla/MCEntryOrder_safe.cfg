SPECIFICATION Spec
CONSTANTS
  Orders = {o1}
  Modes = {"FULL", "MULTI", "NOSL"}
  Sides = {"buy", "sell"}
  Acks = {"open", "filled", "cancelled"}
  Faults = {"createPlan", "migratePlan", "getOrder", "fillTimeout"}
  MaxCrashes = 2
  MaxDrops = 2
  o1 = o1
CHECK_DEADLOCK FALSE
INVARIANTS
  TypeOK ClaimExclusive ProtectedHasLadder PlanInv
PROPERTIES
  RestNeverDowngrades ClosedStaysClosed 

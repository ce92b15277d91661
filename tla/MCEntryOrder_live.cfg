SPECIFICATION FairSpec
CONSTANTS
  Orders = {o1}
  Modes = {"FULL", "MULTI", "NOSL"}
  Sides = {"buy", "sell"}
  Acks = {"open", "filled"}
  Faults = {"lostReply", "destroyPlan"}
  MaxCrashes = 0
  MaxDrops = 1
  o1 = o1
CHECK_DEADLOCK FALSE
PROPERTIES
  FillHandled

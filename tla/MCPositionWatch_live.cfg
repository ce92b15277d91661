SPECIFICATION FairSpec
CONSTANTS
  Orders = {1, 2}
  Checks = {}
  Closers = {k1}
  Confirmations = 1
  Confirmed = 0
  MaxFaults = 0
  k1 = k1
 
PROPERTY MonitorResolves
CHECK_DEADLOCK FALSE

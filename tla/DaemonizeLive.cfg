SPECIFICATION FairSpec
CONSTANTS
  u1 = u1
  u2 = u2
  Users <- OneUser
  Faults = {"fork II", "fork III", "TERM", "STOP"}
  SaveMask = FALSE
  MaxPids = 3
  MaxSegs = 1
  MaxFaults = 2
PROPERTIES
  WorkerReplaced
  CaughtUSR1Dies
CHECK_DEADLOCK FALSE

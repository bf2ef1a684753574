SPECIFICATION FairSpec
CONSTANTS
  u1 = u1
  u2 = u2
  Users <- OneUser
  Faults = {}
  SaveMask = FALSE
  MaxPids = 4
  MaxSegs = 1
  MaxFaults = 0
PROPERTIES
  DieOnUSR1
CHECK_DEADLOCK FALSE

SPECIFICATION Spec
CONSTANTS
  UserLimits <- Users
  SysLimit <- Host
  Fast = 2
  CALLOC_SIZE = 2
  CALLOC_MAX_COUNT = 3
  Offsets = 2
  MaxPids = 5
  OtherKeys = {0, 41, 128}
INVARIANTS
  TypeOK
  ReachWithinLimit
  HandedBack
PROPERTIES
  ProbeEnds
  NoOrphans
CHECK_DEADLOCK FALSE

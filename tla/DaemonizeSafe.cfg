SPECIFICATION Spec
CONSTANTS
  u1 = u1
  u2 = u2
  Users <- OneUser
  Faults = {"USR2", "TERM", "QUIT", "KILL", "STOP", "fork II", "fork III", "command"}
  SaveMask = FALSE
  MaxPids = 4
  MaxSegs = 2
  MaxFaults = 1
INVARIANTS
  TypeOK
  NoGhost
CHECK_DEADLOCK FALSE

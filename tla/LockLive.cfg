SPECIFICATION FairSpec
CONSTANTS
  p1 = p1
  p2 = p2
  p3 = p3
  Procs <- TwoProcs
  Sizes = {1}
  Expires = {0, 1}
  Timeouts <- Blocking
  SEMVMX = 2
  Crashes = FALSE
  MaxSets = 1
  MaxNow = 1
INVARIANTS
  LockExcludes
PROPERTIES
  CommandsReturn

SPECIFICATION Spec
CONSTANTS
  p1 = p1
  p2 = p2
  p3 = p3
  Procs <- TwoProcs
  Sizes = {1}
  Expires = {0}
  Timeouts <- Blocking
  SEMVMX = 2
  Crashes = TRUE
  MaxSets = 2
  MaxNow = 0
INVARIANTS
  TypeOK
  LockExcludes
SYMMETRY Symmetry

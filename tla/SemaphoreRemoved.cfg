SPECIFICATION Spec
CONSTANTS
  p1 = p1
  p2 = p2
  Procs <- TwoProcs
  Sizes = {1}
  Timeouts <- SomeTimeouts
  Persist = FALSE
  Disciplined = TRUE
  SEMVMX = 2
  MaxSets = 2
PROPERTIES
  LockSuccessMeansHeld

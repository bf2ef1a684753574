SPECIFICATION FairSpec
CONSTANTS
  p1 = p1
  p2 = p2
  p3 = p3
  Procs <- TwoProcs
  Sizes = {1}
  Expires = {0}
  Timeouts <- NoWait
  SEMVMX = 2
  Crashes = TRUE
  MaxSets = 1
  MaxNow = 0
PROPERTIES
  NonBlockingReturns

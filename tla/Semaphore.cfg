SPECIFICATION FairSpec
CONSTANTS
  p1 = p1
  p2 = p2
  Procs <- TwoProcs
  Sizes = {1, 2, 3}
  Timeouts <- AllTimeouts
  Persist = FALSE
  Disciplined = TRUE
  SEMVMX = 2
  MaxSets = 2
INVARIANTS
  IInv
  MutualExclusion
  NoLostUnit
  HolderCanUnlock
PROPERTIES
  ImplementsPool
  EveryWaitEnds
  PolledLockReturns

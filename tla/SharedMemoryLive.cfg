SPECIFICATION FairSpec
CONSTANTS
  p1 = p1
  p2 = p2
  p3 = p3
  Procs <- TwoProcs
  Values = {1}
  MaxSets = 2
  MaxSegs = 1
PROPERTIES
  AccessReturns

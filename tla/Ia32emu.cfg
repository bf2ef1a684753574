SPECIFICATION Spec
CONSTANTS
  W = 16
  Procs <- TwoProcs
  Values <- Words
  Commands <- Lines
  MaxRuns = 2
INVARIANTS
  TypeOK
  ShiftsDivide
  TestThenJump
  SerialWhenAlone
CHECK_DEADLOCK FALSE

SPECIFICATION Spec
CONSTANTS
  data    <- MCData
  Start   <- MCStart
  TestOps <- MCTestOps
  MaxTests = 1
  MaxLost  = 0
INVARIANT NamesAreTrue
CHECK_DEADLOCK FALSE

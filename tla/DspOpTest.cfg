SPECIFICATION Spec
CONSTANTS
  data    <- MCData
  Start   <- MCStart
  TestOps <- MCTestOps
  MaxTests = 2
  MaxLost  = 1
INVARIANTS
  StateComesBack
  ChangesAreShown
\* The session is over, or the bound on its operations reached.
CHECK_DEADLOCK FALSE

CONSTANTS
  Samples <- MCSamples
  Coefs <- MCCoefs
  Lags = {1, 2}
  FixedOne = 2
  BlockSize = 2
  MinBlock = 1
  MaxMerge = 2
  QuantSteps = {0, 3, 4}
  ResyncIntervals = {0, 3}
  MaxLen = 4
SPECIFICATION Spec
INVARIANTS
  ErrorBound
CHECK_DEADLOCK FALSE

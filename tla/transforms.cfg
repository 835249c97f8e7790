CONSTANTS
  Samples <- MCSamples
  Coefs <- MCCoefs
  Lags = {1, 2}
  FixedOne = 2
  BlockSize = 2
  MinBlock = 1
  MaxMerge = 2
  QuantSteps = {0, 3, 4}
  ResyncIntervals = {0, 3}
  MaxLen = 4
  Ratios <- MCRatios
  MaxRatio = 3
  Offsets = {0, 3}
  PantographBlockSize = 2
  TailCutoff = 2
  MaxCalls = 2
  Inputs <- MCInputs
  LiftSteps = {0, 1, 3}
SPECIFICATION AnySpec
INVARIANTS
  InLockstep
  DriftBounded
  LiftRoundTrip
  MemoryAccounted
  KernelsInBounds
CHECK_DEADLOCK FALSE

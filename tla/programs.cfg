CONSTANTS
  Texts <- MCTexts
  Digits = 3
  MaxDecimals = 2
  ShortDecimals = 1
  SafeLimit = 1000
  I32 = 1024
  CleanPercent = 50
  Scales <- MCScales
  MaxQuality = 2
  Qualities = {0, 1, 2, 3}
  MaxStep = 5
  CodecErrors <- MCErrors
  Budgets <- MCBudgets
  BatchSize = 2
  QueueDepth = 2
  Others = {"other"}
  MaxPoses = 4
  MaxFaults = 2
SPECIFICATION AnySpec
INVARIANTS
  RestoredClose
  SqueezeExact
  ValidatedRowsKept
  LargestWithinBudget
  PosesAccounted
  CallerSeesOwnError
PROPERTY PosesArrive
CHECK_DEADLOCK FALSE

CONSTANTS
  Base = 4
  MaxTotal = 9
  NumSymbols = 4
  Increment = 3
  MaxLen = 6
  RansL = 32
  MaxScale = 4
  DefaultScale = 3
  Slack = 4
  LaneChoices = {0, 2, 3}
  ScaleChoices = {0, 1, 2, 4}
  RansInputs <- MCRansInputs
  NumBytes = 3
  BlockSize = 9
  BwtInputs <- MCBwtInputs
SPECIFICATION AnySpec
INVARIANTS
  RoundTrip
  NeverCarries
  AlwaysDivisible
  RansExact
  BwtExact
PROPERTIES
  ImplementsInterval
  ImplementsTable
CHECK_DEADLOCK FALSE

CONSTANTS
  RodBlock = 2
  LiftBlock = 2
  BwtBlock = 3
  MaxElements = 5
  MaxDecoded = 35
  MaxLevels = 3
  BwtLimit = 5
  Counts = {0, 1, 2, 3, 4, 6}
  CodedSizes = {1, 3}
SPECIFICATION ContainerSpec
INVARIANTS
  ReadsWhatWasWritten
CHECK_DEADLOCK FALSE

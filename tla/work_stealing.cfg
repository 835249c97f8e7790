CONSTANTS
  NumWorkers = 3
  Clients = {c1}
  TasksEach = 4
  NoTask = NoTask
SPECIFICATION FairSpec
INVARIANTS
  EachTaskOnce
  SettledAfterJoin
PROPERTIES
  FuturesReady
  DestructorReturns
CHECK_DEADLOCK FALSE

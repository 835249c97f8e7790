CONSTANTS
  Workers = {w1, w2, w3}
  Callers = {c1, c2}
  MaxCount = 2
  NoTask = NoTask
SPECIFICATION FairSpec
INVARIANTS
  NoLostWakeup
  NoTaskOutlivesCall
  DrainedAtShutdown
PROPERTIES
  ImplementsLoop
  EveryoneReturns
CHECK_DEADLOCK FALSE

CONSTANTS
  Workers = {w1, w2}
  Callers = {c1, c2}
  MaxCount = 2
  NoTask = NoTask
SPECIFICATION Spec
INVARIANT NoTaskOutlivesFailedCall

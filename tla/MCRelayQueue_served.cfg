SPECIFICATION Spec
CONSTANTS
  h1 = h1
  h2 = h2
  h3 = h3
  u = u
  w1 = w1
  w2 = w2
  Rows = {h1, h2, u}
  Unhandled = {u}
  Workers = {w1, w2}
  BatchSize = 2
  MaxAttempt = 3
  MaxBackoff = 3
  SkipDelay = 1
INVARIANTS TypeOK AttemptsAreSpentOnFailures
PROPERTY ServedInTurn
CHECK_DEADLOCK FALSE

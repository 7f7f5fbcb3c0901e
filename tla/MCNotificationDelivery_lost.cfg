SPECIFICATION Spec
CONSTANTS
  e1 = e1
  e2 = e2
  w1 = w1
  w2 = w2
  None = None
  Events = {e1}
  Workers = {w1, w2}
  MaxAttempt = 2
  MaxFaults = 1
INVARIANT SentMeansNoticed
CHECK_DEADLOCK FALSE

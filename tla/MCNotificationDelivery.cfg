SPECIFICATION Spec
CONSTANTS
  e1 = e1
  e2 = e2
  w1 = w1
  w2 = w2
  None = None
  Events = {e1, e2}
  Workers = {w1, w2}
  MaxAttempt = 2
  MaxFaults = 3
INVARIANTS TypeOK NoticeAtMostOnce LossNeedsFault
CHECK_DEADLOCK FALSE

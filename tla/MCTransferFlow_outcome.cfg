SPECIFICATION FairSpec
CONSTANTS
  c1 = c1
  w1 = w1
  w2 = w2
  NONE = NONE
  Calls = {c1}
  AppOf <- OneApp
  Workers = {w1}
  BatchSize = 1
  MaxAttempt = 3
  MaxFaults = 0
  MayFail = FALSE
PROPERTIES
  OutcomeObserved
CHECK_DEADLOCK FALSE

SPECIFICATION FairSpec
CONSTANTS
  c1 = c1
  w1 = w1
  w2 = w2
  NONE = NONE
  Calls = {c1}
  AppOf <- OneApp
  Workers = {w1, w2}
  BatchSize = 2
  MaxAttempt = 2
  MaxFaults = 2
  MayFail = TRUE
PROPERTIES
  NothingForgotten
CHECK_DEADLOCK FALSE

SPECIFICATION Spec
CONSTANTS
  c1 = c1
  c2 = c2
  w1 = w1
  w2 = w2
  NONE = NONE
  Calls = {c1, c2}
  AppOf <- SameApp
  Workers = {w1, w2}
  BatchSize = 2
  MaxAttempt = 2
  MaxFaults = 2
  MayFail = TRUE
SYMMETRY CallWorkerSymmetry
INVARIANTS
  TypeOK
  OneOrderPerRequest
  SameAnswer
  NoticesTellHistory
  NeverAheadOfBank
  SentMeansDone
  OneJobEach
PROPERTIES
  StatusFollowsGraph
  KeepsPromise
CHECK_DEADLOCK FALSE

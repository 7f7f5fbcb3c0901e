SPECIFICATION Spec
CONSTANTS
  c1 = c1
  c2 = c2
  Callers = {c1, c2}
  FailureThreshold = 2
  ResetTimeout = 2
  RateNum = 1
  RateDen = 2
  MinRequests = 3
  WindowSize = 2
  HalfOpenMaxCalls = 1
  MaxTime = 4
  MaxResults = 4
INVARIANTS TypeOK CountsTheRun NeverStuck
PROPERTIES OpensForAReason ShutForResetTimeout
CHECK_DEADLOCK FALSE

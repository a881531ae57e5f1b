SPECIFICATION FairSpec
CONSTANTS
  n1 = n1
  n2 = n2
  r1 = r1
  r2 = r2
  None = None
  Sessions <- OneSession
  Requests <- TwoRequests
  Chunk = 2
  Watermark = 1
  Horizons <- ShortHorizon
  MaxAttempts = 1
PROPERTIES FailureIsHandled OperationsEnd PlansKeepComing
CHECK_DEADLOCK FALSE

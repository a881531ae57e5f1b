SPECIFICATION Spec
CONSTANTS
  n1 = n1
  n2 = n2
  r1 = r1
  r2 = r2
  None = None
  Sessions <- TwoSessions
  Requests <- TwoRequests
  Chunk = 2
  Watermark = 1
  Horizons <- ShortHorizon
  MaxAttempts = 1
INVARIANTS NoOrphanSession FrozenUntilOpened PlanIsCurrent SkipsWhatWasExecuted
SYMMETRY Interchangeable
CHECK_DEADLOCK FALSE

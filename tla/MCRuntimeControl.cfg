SPECIFICATION FairSpec
CONSTANTS
  r1 = r1
  r2 = r2
  f1 = f1
  a = a
  NoCall = NoCall
  Calls <- MCCalls
  Frames <- MCFrames
  Ids <- MCIds
  IdOf <- SharedId
  MaxActive = 2
  Size = 3
  Resettable = TRUE
  SessionResettable = TRUE
  RetryFailedReset = TRUE
INVARIANTS RunsOnLiveComponents ReverseOwnershipOrder ClosedHoldsNothing UncertainIsFenced
PROPERTIES IsAdmissionGate OnlyLegalTransitions ControlEnds
CHECK_DEADLOCK FALSE

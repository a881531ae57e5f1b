SPECIFICATION FairSpec
CONSTANTS
  s1 = s1
  u1 = u1
  u2 = u2
  Control = Control
  Nobody = Nobody
  Streams <- OneStream
  Users <- TwoUsers
  MaxStreams = 1
  RetryFailedReset = TRUE
INVARIANTS OneCallPerStream OnlyLapsesHarm
PROPERTIES ControlEnds
CHECK_DEADLOCK FALSE

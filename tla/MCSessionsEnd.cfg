SPECIFICATION FairSpec
CONSTANTS
  s1 = s1
  s2 = s2
  p1 = p1
  d1 = d1
  d2 = d2
  c1 = c1
  Nobody = Nobody
  Sessions <- OneSession
  Pipelines <- OnePipeline
  Dispatches <- TwoDispatches
  SessionOf <- OfOne
  Closers <- OneCloser
  MaxBoot = 2
PROPERTIES CompletedIsClosed ClosesEnd
CHECK_DEADLOCK FALSE

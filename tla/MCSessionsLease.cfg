SPECIFICATION Spec
CONSTANTS
  s1 = s1
  s2 = s2
  p1 = p1
  d1 = d1
  d2 = d2
  c1 = c1
  Nobody = Nobody
  Sessions <- TwoSessions
  Pipelines <- OnePipeline
  Dispatches <- TwoDispatches
  SessionOf <- OneEach
  Closers <- OneCloser
  MaxBoot = 2
INVARIANTS ServedIsRecorded DrainBarrier
PROPERTIES LeasesPipelines
SYMMETRY PairSymmetry
CHECK_DEADLOCK FALSE

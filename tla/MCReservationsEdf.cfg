CONSTANTS
  p1 = p1
  p2 = p2
  b1 = b1
  b2 = b2
  r1 = r1
  Policy = "edf"
  Dispatches = {d1, d2, d3}
  Pipelines = {p1}
  Resources = {r1}
  ResourceOf <- SharedResource
  Bindings = {b1}
  PipelineOf <- OneBindingEach
  Deadlines = {2, 3}
  Estimates = {1}
  MaxTime = 3
  MaxToken = 3
  MaxBoot = 1
SPECIFICATION Spec
SYMMETRY Symmetry
INVARIANTS QueueMirrorsTable EveryEntryOwned
PROPERTIES HandsOutTurns
CHECK_DEADLOCK FALSE

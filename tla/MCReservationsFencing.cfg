CONSTANTS
  p1 = p1
  p2 = p2
  b1 = b1
  b2 = b2
  r1 = r1
  Policy = "edf"
  Dispatches = {d1, d2}
  Pipelines = {p1, p2}
  Resources = {r1}
  ResourceOf <- SharedResource
  Bindings = {b1, b2}
  PipelineOf <- OneBindingEach
  Deadlines = {1}
  Estimates = {1}
  MaxTime = 1
  MaxToken = 2
  MaxBoot = 2
SPECIFICATION Spec
SYMMETRY Symmetry
INVARIANTS OnlyStraysOverlap NoFencedUnknown
PROPERTIES TurnIsLeft
CHECK_DEADLOCK FALSE

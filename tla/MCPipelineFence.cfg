SPECIFICATION FairSpec
CONSTANTS
  b1 = b1
  b2 = b2
  d1 = d1
  c1 = c1
  c2 = c2
  s1 = s1
  s2 = s2
  NoBinding = NoBinding
  Bindings <- TwoBindings
  Dispatches <- OneDispatch
  Closes <- TwoCloses
  Slots <- TwoSlots
INVARIANTS SlotsAreConserved DrainIsExclusive ControlCountsBarriers CloseReachesBinding
PROPERTIES PublishesBehindFence GoalsEnd
CHECK_DEADLOCK FALSE

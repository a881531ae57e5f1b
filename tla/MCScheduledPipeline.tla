------------------------- MODULE MCScheduledPipeline -------------------------
(* Instances of ScheduledPipeline for TLC: two bindings of the pipeline,   *)
(* one after the other, with a dispatch and two Closes of either.          *)
EXTENDS ScheduledPipeline

CONSTANTS b1, b2, d1, c1, c2, s1, s2

TwoBindings == {b1, b2}
OneDispatch == {d1}
TwoCloses == {c1, c2}
TwoSlots == {s1, s2}
=============================================================================

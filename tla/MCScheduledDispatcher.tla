----------------------- MODULE MCScheduledDispatcher ------------------------
(* Small instances of ScheduledDispatcher for TLC.                         *)
EXTENDS ScheduledDispatcher, TLC

CONSTANTS n1, n2, r1, r2

OneSession == {n1}
TwoSessions == {n1, n2}
TwoRequests == {r1, r2}
ShortHorizon == {1}
Interchangeable == Permutations({n1, n2}) \cup Permutations({r1, r2})
=============================================================================

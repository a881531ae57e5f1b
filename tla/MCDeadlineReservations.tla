----------------------- MODULE MCDeadlineReservations -----------------------
(* Small instances of DeadlineReservations for TLC.                        *)
EXTENDS DeadlineReservations, TLC

CONSTANTS p1, p2, b1, b2, r1

\* Every pipeline is configured on the same accelerator.
SharedResource == [p \in Pipelines |-> r1]
\* One binding on each pipeline.
OneBindingEach == [b \in Bindings |-> IF b = b1 THEN p1 ELSE p2]

\* Without is the filter of the standard module.
ASSUME WithoutIsSelectSeq ==
  \A n \in 0..4 : \A q \in [1..n -> 1..4] : \A S \in SUBSET (1..4) :
    Without(q, S) = SelectSeq(q, LAMBDA t : t \notin S)

Symmetry == Permutations(Dispatches)
=============================================================================

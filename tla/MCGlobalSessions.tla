-------------------------- MODULE MCGlobalSessions --------------------------
(* Instances of GlobalSessions for TLC.                                    *)
EXTENDS GlobalSessions, TLC

CONSTANTS s1, s2, p1, d1, d2, c1

TwoSessions == {s1, s2}
OnePipeline == {p1}
TwoDispatches == {d1, d2}
OneSession == {s1}
OneCloser == {c1}

\* Two dispatches of one session, or one of each.
OfOne == d1 :> s1 @@ d2 :> s1
OneEach == d1 :> s1 @@ d2 :> s2

\* Two sessions with a dispatch each are alike.
PairSymmetry ==
  {f \in Permutations(TwoSessions \cup TwoDispatches) :
     \A d \in TwoDispatches : f[d] \in TwoDispatches /\ f[OneEach[d]] = OneEach[f[d]]}
=============================================================================

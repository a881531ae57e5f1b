--------------------------- MODULE MCRuntimeHandle ---------------------------
(* Instances of RuntimeHandle for TLC: two requests that share an id, and  *)
(* a frame.                                                                *)
EXTENDS RuntimeHandle

CONSTANTS r1, r2, f1, a

MCCalls == {r1, r2, f1}
MCFrames == {f1}
MCIds == {a}
\* Every caller uses the same id.
SharedId == [c \in MCCalls |-> a]
=============================================================================

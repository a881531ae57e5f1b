-------------------------- MODULE MCRuntimeStreams --------------------------
(* An instance of RuntimeStreams for TLC: two threads that use the stream, *)
(* and the thread that resets and closes the runtime.                      *)
EXTENDS RuntimeStreams

CONSTANTS s1, u1, u2

OneStream == {s1}
TwoUsers == {u1, u2}
=============================================================================

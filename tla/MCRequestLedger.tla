--------------------------- MODULE MCRequestLedger ---------------------------
(* An instance of RequestLedger for TLC: three attempts at one dispatch, a *)
(* fourth with another payload, and a second dispatch of the session that  *)
(* crowds the record of the first one out.                                 *)
EXTENDS RequestLedger

CONSTANTS a1, a2, a3, ax, b1, ka, kb, s, p, q

MCGoals == {a1, a2, a3, ax, b1}
MCKeys == {ka, kb}
NoKeys == {}
MCKeyOf == [g \in MCGoals |-> IF g = b1 THEN kb ELSE ka]
MCPayloadOf == [g \in MCGoals |-> IF g = ax THEN q ELSE p]
MCSessionOf == [k \in MCKeys |-> s]
=============================================================================

---------------------------- MODULE AdmissionGate ----------------------------
(***************************************************************************)
(* What a drain barrier promises, whoever implements it: users enter only  *)
(* while the gate is open, and exclusive control (a reset, the release of  *)
(* resources) begins only behind a shut gate with nobody inside.           *)
(***************************************************************************)
CONSTANT Users

VARIABLES
  open,      \* new users are admitted
  inside,    \* users that have entered and not left
  exclusive  \* a control operation owns what the gate protects

gateVars == <<open, inside, exclusive>>

GateInit == open = FALSE /\ inside = {} /\ exclusive = FALSE

Enter(u) ==
  /\ open /\ u \notin inside
  /\ inside' = inside \cup {u}
  /\ UNCHANGED <<open, exclusive>>

Leave(u) ==
  /\ u \in inside
  /\ inside' = inside \ {u}
  /\ UNCHANGED <<open, exclusive>>

Shut == open /\ open' = FALSE /\ UNCHANGED <<inside, exclusive>>

Reopen ==
  /\ ~open /\ ~exclusive
  /\ open' = TRUE
  /\ UNCHANGED <<inside, exclusive>>

TakeControl ==
  /\ ~open /\ inside = {} /\ ~exclusive
  /\ exclusive' = TRUE
  /\ UNCHANGED <<open, inside>>

EndControl ==
  /\ exclusive
  /\ exclusive' = FALSE
  /\ open' \in BOOLEAN
  /\ UNCHANGED inside

GateNext ==
  \/ \E u \in Users : Enter(u) \/ Leave(u)
  \/ Shut \/ Reopen \/ TakeControl \/ EndControl

GateSpec == GateInit /\ [][GateNext]_gateVars

(* Exclusive control is exclusive: nobody is inside and nobody can enter.  *)
Exclusion == exclusive => inside = {} /\ ~open
=============================================================================

-------------------------- MODULE FencedPublication --------------------------
(***************************************************************************)
(* What a session fence promises to whoever shares one executor: it serves *)
(* one binding at a time, a result is published only on behalf of the      *)
(* binding that owns the executor at that moment, and a binding that has   *)
(* been retired never publishes again and never owns it again.             *)
(***************************************************************************)
CONSTANTS
  Bindings,
  Requests,
  Nobody      \* no binding

VARIABLES
  owner,     \* the binding the executor serves, or Nobody
  retired,   \* bindings whose Close has completed
  published  \* requests whose result was published, with their binding

fenceVars == <<owner, retired, published>>

FenceInit == owner = Nobody /\ retired = {} /\ published = {}

Own(b) ==
  /\ owner = Nobody /\ b \notin retired
  /\ owner' = b
  /\ UNCHANGED <<retired, published>>

Publish(q) ==
  /\ owner # Nobody
  /\ \A b \in Bindings : <<q, b>> \notin published
  /\ published' = published \cup {<<q, owner>>}
  /\ UNCHANGED <<owner, retired>>

Retire ==
  /\ owner # Nobody
  /\ owner' = Nobody
  /\ retired' = retired \cup {owner}
  /\ UNCHANGED published

FenceNext ==
  \/ \E b \in Bindings : Own(b)
  \/ \E q \in Requests : Publish(q)
  \/ Retire

FenceSpec == FenceInit /\ [][FenceNext]_fenceVars
=============================================================================

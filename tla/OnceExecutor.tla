---------------------------- MODULE OnceExecutor ----------------------------
(***************************************************************************)
(* What an idempotency ledger promises to those who retry a request under  *)
(* the same key: the request runs once at a time, and once it may have had *)
(* an effect it does not run again until the ledger has forgotten it.      *)
(***************************************************************************)
CONSTANT Requests

VARIABLES
  phase,       \* "fresh", "running", or "done": it may have had an effect
  forgotten    \* requests whose record has ever been given up

OnceInit ==
  /\ phase = [r \in Requests |-> "fresh"]
  /\ forgotten = {}

Begin(r) ==
  /\ phase[r] = "fresh" \/ (phase[r] = "done" /\ r \in forgotten')
  /\ phase' = [phase EXCEPT ![r] = "running"]

\* A run that had no effect leaves the request as it was before.
End(r) ==
  /\ phase[r] = "running"
  /\ \E p \in {"fresh", "done"} : phase' = [phase EXCEPT ![r] = p]

OnceNext ==
  /\ forgotten \subseteq forgotten'
  /\ \/ UNCHANGED phase
     \/ \E r \in Requests : Begin(r) \/ End(r)

OnceSpec == OnceInit /\ [][OnceNext]_<<phase, forgotten>>
=============================================================================

---------------------------- MODULE PipelineLease ----------------------------
(***************************************************************************)
(* What the owner of a set of exclusive pipelines promises: a pipeline is  *)
(* held by at most one session, only a binding of the holder may move in,  *)
(* one at a time, and the pipeline is given back only when it is empty: no *)
(* binding lives in it and none that was sent there can still move in.     *)
(***************************************************************************)
CONSTANTS
  Pipelines,
  Sessions,
  Bindings,
  SessionOf,   \* the session of each binding
  Nobody       \* no session

VARIABLES
  holder,   \* the session each pipeline is leased to, or Nobody
  tenants   \* the bindings that live in each pipeline or may still move in

leaseVars == <<holder, tenants>>

LeaseInit ==
  /\ holder = [p \in Pipelines |-> Nobody]
  /\ tenants = [p \in Pipelines |-> {}]

Grant(p, s) ==
  /\ holder[p] = Nobody
  /\ holder' = [holder EXCEPT ![p] = s]
  /\ UNCHANGED tenants

MoveIn(p, b) ==
  /\ holder[p] = SessionOf[b] /\ tenants[p] = {}
  /\ tenants' = [tenants EXCEPT ![p] = {b}]
  /\ UNCHANGED holder

MoveOut(p) ==
  /\ tenants' = [tenants EXCEPT ![p] = {}]
  /\ UNCHANGED holder

Return(p) ==
  /\ holder[p] # Nobody /\ tenants[p] = {}
  /\ holder' = [holder EXCEPT ![p] = Nobody]
  /\ UNCHANGED tenants

LeaseNext ==
  \E p \in Pipelines :
    \/ \E s \in Sessions : Grant(p, s)
    \/ \E b \in Bindings : MoveIn(p, b)
    \/ MoveOut(p)
    \/ Return(p)

LeaseSpec == LeaseInit /\ [][LeaseNext]_leaseVars
=============================================================================

------------------------ MODULE DeadlineReservations ------------------------
(***************************************************************************)
(* The priority-zero reservation table of the global inference scheduler   *)
(* (scheduler/deadline_reservations.py) together with the protocol that    *)
(* the scheduler node's dispatch threads follow when they use it           *)
(* (global_inference_scheduler_node.py) and what the pipeline processes do *)
(* with the goals that are dispatched to them (pipeline_policy_node.py).   *)
(*                                                                         *)
(* Every operation of the table runs under one lock and is one action.     *)
(* Between two of them a dispatch thread holds nothing: its reservation    *)
(* may have been expired by another waiter, reconciled by a Close drain,   *)
(* or fenced by a reboot of the pipeline.  A process admits a goal before  *)
(* the goal has a slot, and a Close waits for those that have one.         *)
(*                                                                         *)
(* A DeadlineReservation is immutable and outlives its entry in the table, *)
(* so the reservations handed out are kept in the sequence  issued , the   *)
(* token of a reservation is its index, and  table  is the set of tokens   *)
(* the table still holds.  Token 0 stands for None.                        *)
(***************************************************************************)
EXTENDS Naturals, Sequences, FiniteSets, QueueOps

CONSTANTS
  Policy,       \* "fifo" or "edf"
  Dispatches,   \* dispatch threads of the scheduler node
  Pipelines,    \* downstream pipelines
  Resources,    \* hardware resources
  ResourceOf,   \* the hardware resource each pipeline is configured on
  Bindings,     \* identities of (session, binding, incarnation)
  PipelineOf,   \* the pipeline each binding is opened on
  Deadlines,    \* absolute deadlines a request may carry
  Estimates,    \* execution estimates an offline profile may give (fifo only)
  MaxTime,      \* bound: the clock stops here
  MaxToken,     \* bound: reservations handed out
  MaxBoot       \* bound: process starts of one pipeline

ASSUME PolicyAssumption == Policy \in {"fifo", "edf"}
ASSUME ShapeAssumption ==
  /\ ResourceOf \in [Pipelines -> Resources]
  /\ PipelineOf \in [Bindings -> Pipelines]
  /\ Bindings # {}
ASSUME NumberAssumption ==
  /\ Deadlines \subseteq Nat
  /\ Estimates \subseteq Nat \ {0}
  /\ MaxTime \in Nat /\ MaxToken \in Nat /\ MaxBoot \in Nat

VARIABLES
  now,       \* monotonic clock
  issued,    \* every reservation handed out, indexed by token
  table,     \* tokens with an entry in _reservations
  queue,     \* _resource_tokens
  active,    \* _active_tokens
  unknown,   \* _unknown_tokens
  stage,     \* where each dispatch thread is
  aim,       \* binding and boot id a dispatch thread read before reserving
  held,      \* the local variable "reservation" of each dispatch thread
  observed,  \* _serving_status: boot of the last status message, whatever its reason
  trusted,   \* _trusted_status_cursors: boot the scheduler last trusted
  mistaken,  \* history: released as fenced although their boot was not trusted yet
  boot,      \* number of the running process of each pipeline
  inflight,  \* tokens whose dispatch goal has not reached its pipeline yet
  admitted,  \* tokens whose goal is admitted and has no execution slot yet
  working,   \* tokens that hold a slot and may be executing on the hardware
  closed     \* <<binding, boot>> whose Close has drained at the pipeline

tableVars    == <<issued, table, queue, active, unknown>>
threadVars   == <<stage, aim, held>>
statusVars   == <<observed, trusted>>
goalVars     == <<inflight, admitted, working>>
pipelineVars == <<boot, goalVars, closed>>
vars == <<now, tableVars, threadVars, statusVars, mistaken, pipelineVars>>

NoToken == 0
NoAim == [binding |-> CHOOSE b \in Bindings : TRUE, boot |-> 0]

Reservation ==
  [binding: Bindings, boot: Nat, deadline: Nat, start: Nat, finish: Nat]

Tokens == 1..Len(issued)

Pipeline(t) == PipelineOf[issued[t].binding]
Resource(t) == ResourceOf[Pipeline(t)]

\* estimate_ns of a reservation; 0 when it carries no estimate.
Estimate(t) == issued[t].finish - issued[t].start

-----------------------------------------------------------------------------
(* Helpers of the table.                                                   *)

\* (Mutant) The removal forgets _active_tokens.
RemoveKeepingActive(S) ==
  /\ table' = table \ S
  /\ unknown' = unknown \ S
  /\ queue' = [r \in Resources |-> Without(queue[r], S)]
  /\ active' = active

\* _remove_locked and _remove_resource_token_locked for every token of S.
Remove(S) ==
  /\ table' = table \ S
  /\ unknown' = unknown \ S
  /\ queue' = [r \in Resources |-> Without(queue[r], S)]
  /\ active' = [r \in Resources |-> IF active[r] \in S THEN NoToken ELSE active[r]]

\* The key of the sort: absolute deadline, then token (stable FIFO).
SortsBefore(rs, t, u) ==
  \/ rs[t].deadline < rs[u].deadline
  \/ rs[t].deadline = rs[u].deadline /\ t < u

\* The order in which the policy serves t and u.
Precedes(rs, t, u) == IF Policy = "edf" THEN SortsBefore(rs, t, u) ELSE t < u

\* The elements of S listed in sort order.
Listings(rs, S) ==
  { q \in [1..Cardinality(S) -> S] :
      \A i, j \in DOMAIN q : i < j => SortsBefore(rs, q[i], q[j]) }

\* (Mutant) An EDF table that does not re-sort.
EnqueueUnsorted(rs, r, t) == queue' = [queue EXCEPT ![r] = Append(@, t)]

\* append, then _sort_waiting_locked: the active token stays in front.
Enqueue(rs, r, t) ==
  LET q == Append(queue[r], t)
      waiting == Elements(q) \ {active[r]}
      front == IF active[r] = NoToken THEN <<>> ELSE <<active[r]>>
  IN IF Policy = "edf"
     THEN \E w \in Listings(rs, waiting) : queue' = [queue EXCEPT ![r] = front \o w]
     ELSE queue' = [queue EXCEPT ![r] = q]

\* _expire_waiting_locked: waiting tokens of r whose deadline has passed.
Expired(r) ==
  { t \in Elements(queue[r]) : t # active[r] /\ issued[t].deadline <= now }

\* try_reserve refuses a resource that holds uncertain work.
Uncertain(r) == \E t \in Elements(queue[r]) : t \in unknown

\* (Mutant) Estimates are placed at the current time.
EstimatedTailNow(r) == now

\* Where the estimated schedule of a resource ends.
EstimatedTail(r) ==
  LET finishes == {issued[t].finish : t \in {u \in Elements(queue[r]) : Estimate(u) > 0}}
      later == {f \in finishes : f >= now}
  IN IF later = {} THEN now ELSE CHOOSE f \in later : \A g \in later : g <= f

-----------------------------------------------------------------------------
Init ==
  /\ now = 0
  /\ issued = <<>>
  /\ table = {}
  /\ queue = [r \in Resources |-> <<>>]
  /\ active = [r \in Resources |-> NoToken]
  /\ unknown = {}
  /\ stage = [d \in Dispatches |-> "idle"]
  /\ aim = [d \in Dispatches |-> NoAim]
  /\ held = [d \in Dispatches |-> NoToken]
  /\ observed = [p \in Pipelines |-> 1]
  /\ trusted = [p \in Pipelines |-> 1]
  /\ mistaken = {}
  /\ boot = [p \in Pipelines |-> 1]
  /\ inflight = {}
  /\ admitted = {}
  /\ working = {}
  /\ closed = {}

Tick ==
  /\ now < MaxTime
  /\ now' = now + 1
  /\ UNCHANGED <<tableVars, threadVars, statusVars, mistaken, pipelineVars>>

\* The thread leaves this candidate, for the next one or with a result.
GiveUp(d) ==
  /\ stage' = [stage EXCEPT ![d] = "idle"]
  /\ aim' = [aim EXCEPT ![d] = NoAim]
  /\ held' = [held EXCEPT ![d] = NoToken]

(* The dispatch thread picks a candidate: it reads the boot id from the    *)
(* observed serving status, without the status lock, and takes the         *)
(* session's binding (which is open).  The boot may be newer than the      *)
(* trusted one, and it is used later, when the reservation is made and     *)
(* when it is marked.                                                      *)
PickCandidate(d) ==
  /\ stage[d] = "idle"
  /\ \E b \in Bindings :
       LET choice == [binding |-> b, boot |-> observed[PipelineOf[b]]]
       IN /\ <<b, choice.boot>> \notin closed
          /\ aim' = [aim EXCEPT ![d] = choice]
  /\ stage' = [stage EXCEPT ![d] = "picked"]
  /\ UNCHANGED <<now, tableVars, held, statusVars, mistaken, pipelineVars>>

(* try_reserve, admitted.  est is 0 without a profile.                     *)
Reserve(d, deadline, est) ==
  LET r == ResourceOf[PipelineOf[aim[d].binding]]
      start == IF est = 0 THEN now ELSE EstimatedTail(r)
      new == [binding |-> aim[d].binding, boot |-> aim[d].boot,
              deadline |-> deadline, start |-> start, finish |-> start + est]
      t == Len(issued) + 1
  IN /\ stage[d] = "picked"
     /\ t <= MaxToken
     /\ deadline > now
     /\ ~Uncertain(r)
     /\ est # 0 => new.finish <= deadline
     /\ issued' = Append(issued, new)
     /\ table' = table \cup {t}
     /\ Enqueue(issued', r, t)
     /\ held' = [held EXCEPT ![d] = t]
     /\ stage' = [stage EXCEPT ![d] = "waiting"]
     /\ UNCHANGED <<now, active, unknown, aim, statusVars, mistaken, pipelineVars>>

(* try_reserve, refused: the thread moves on to the next candidate.  The   *)
(* reasons (deadline passed, uncertain work, estimate too late) and the    *)
(* checks before it (stale status, busy pipeline) all leave no trace.      *)
Refuse(d) ==
  /\ stage[d] = "picked"
  /\ GiveUp(d)
  /\ UNCHANGED <<now, tableVars, statusVars, mistaken, pipelineVars>>

-----------------------------------------------------------------------------
(* One pass of the loop in wait_for_turn; between two passes the condition *)
(* is released.  An answer other than "ready" ends in release(), which     *)
(* finds nothing left to release.                                          *)

WaitReleased(d) ==
  /\ stage[d] = "waiting"
  /\ held[d] \notin table
  /\ GiveUp(d)
  /\ UNCHANGED <<now, tableVars, statusVars, mistaken, pipelineVars>>

WaitCanceled(d) ==
  /\ stage[d] = "waiting"
  /\ held[d] \in table
  /\ Remove({held[d]})
  /\ GiveUp(d)
  /\ UNCHANGED <<now, issued, statusVars, mistaken, pipelineVars>>

\* The deadline has passed, or the estimate no longer fits in front of it.
TooLate(t) == now >= issued[t].deadline \/ now + Estimate(t) > issued[t].deadline

\* (Mutant) The expired waiter leaves its entry behind.
WaitExpiredLeaky(d) ==
  /\ stage[d] = "waiting"
  /\ held[d] \in table
  /\ TooLate(held[d])
  /\ GiveUp(d)
  /\ UNCHANGED <<now, tableVars, statusVars, mistaken, pipelineVars>>

WaitExpired(d) ==
  /\ stage[d] = "waiting"
  /\ held[d] \in table
  /\ TooLate(held[d])
  /\ Remove({held[d]})
  /\ GiveUp(d)
  /\ UNCHANGED <<now, issued, statusVars, mistaken, pipelineVars>>

(* A pass that outlives its deadline checks: the other waiting tokens are  *)
(* expired first, then the thread claims the turn if the resource is free  *)
(* and it is at the head, and waits for another pass otherwise.            *)
WaitPass(d) ==
  LET t == held[d]
      r == Resource(t)
      left == Without(queue[r], Expired(r))
      claims == active[r] = NoToken /\ left # <<>> /\ Head(left) = t
  IN /\ stage[d] = "waiting"
     /\ t \in table
     /\ ~TooLate(t)
     /\ table' = table \ Expired(r)
     /\ unknown' = unknown \ Expired(r)
     /\ queue' = [queue EXCEPT ![r] = left]
     /\ active' = IF claims THEN [active EXCEPT ![r] = t] ELSE active
     /\ stage' = IF claims \/ active[r] = t THEN [stage EXCEPT ![d] = "turn"] ELSE stage
     /\ UNCHANGED <<now, issued, aim, held, statusVars, mistaken, pipelineVars>>

-----------------------------------------------------------------------------
(* What the thread does with the turn.                                     *)

\* The open or dispatch goal leaves for the pipeline.
Send(d) ==
  /\ stage[d] = "turn"
  /\ inflight' = inflight \cup {held[d]}
  /\ stage' = [stage EXCEPT ![d] = "sent"]
  /\ UNCHANGED <<now, tableVars, aim, held, statusVars, mistaken, boot, admitted, working,
                 closed>>

(* The outcome is known: the work has not started (a goal that was not     *)
(* sent or was rejected) or has completed.  release().                     *)
Settle(d) ==
  /\ stage[d] \in {"turn", "sent"}
  /\ held[d] \notin inflight \cup admitted \cup working
  /\ Remove({held[d]})
  /\ GiveUp(d)
  /\ UNCHANGED <<now, issued, statusVars, mistaken, pipelineVars>>

\* (Mutant) Uncertain work is released like finished work.
MarkUnknownReleases(d) ==
  /\ stage[d] \in {"turn", "sent"}
  /\ Remove({held[d]})
  /\ GiveUp(d)
  /\ UNCHANGED <<now, issued, statusVars, mistaken, pipelineVars>>

\* (Mutant) The trusted boot is not consulted.
MarkUnknownUnfenced(d) ==
  /\ stage[d] \in {"turn", "sent"}
  /\ unknown' = unknown \cup ({held[d]} \cap table)
  /\ GiveUp(d)
  /\ UNCHANGED <<now, issued, table, queue, active, statusVars, mistaken, pipelineVars>>

(* The outcome is unknown: a timeout, a lost or invalid answer, or an      *)
(* exception.  _mark_reservation_unknown holds the status lock across both *)
(* branches: a request whose boot is not the trusted one is released as    *)
(* fenced, any other keeps its resource.  mark_unknown ignores a token     *)
(* that left the table.                                                    *)
MarkUnknown(d) ==
  LET t == held[d]
      fenced == trusted[Pipeline(t)] # aim[d].boot
      newer == aim[d].boot > trusted[Pipeline(t)]
  IN /\ stage[d] \in {"turn", "sent"}
     /\ \/ /\ fenced
           /\ Remove({t})
        \/ /\ ~fenced
           /\ unknown' = unknown \cup ({t} \cap table)
           /\ UNCHANGED <<table, queue, active>>
     /\ mistaken' = IF newer THEN mistaken \cup {t} ELSE mistaken
     /\ GiveUp(d)
     /\ UNCHANGED <<now, issued, statusVars, pipelineVars>>

(* _record_drained_binding after a validated Close answer, of an ordinary  *)
(* Close or of the cleanup after a late Open: reconcile_binding drops      *)
(* every reservation that carries the drained identity.                    *)
ReconcileBinding(b, e) ==
  /\ <<b, e>> \in closed
  /\ Remove({t \in table : issued[t].binding = b /\ issued[t].boot = e})
  /\ UNCHANGED <<now, issued, threadVars, statusVars, mistaken, pipelineVars>>

(* A serving status arrives: the callback stores it before it looks at the *)
(* reason not to trust it, and returns if there is one.                    *)
ObserveStatus(p) ==
  /\ \E e \in observed[p] + 1 .. boot[p] : observed' = [observed EXCEPT ![p] = e]
  /\ UNCHANGED <<now, tableVars, threadVars, trusted, mistaken, pipelineVars>>

\* (Mutant) A new boot of one pipeline clears the uncertain work of all.
TrustBootClearsAll(p) ==
  /\ trusted[p] # observed[p]
  /\ Remove(unknown)
  /\ trusted' = [trusted EXCEPT ![p] = observed[p]]
  /\ UNCHANGED <<now, issued, threadVars, observed, mistaken, pipelineVars>>

(* The status of a new process is trustworthy: still under the status lock *)
(* reconcile_pipeline clears the pipeline's uncertain reservations, and    *)
(* the cursor moves on.                                                    *)
TrustBoot(p) ==
  /\ trusted[p] # observed[p]
  /\ Remove({t \in unknown : Pipeline(t) = p})
  /\ trusted' = [trusted EXCEPT ![p] = observed[p]]
  /\ UNCHANGED <<now, issued, threadVars, observed, mistaken, pipelineVars>>

-----------------------------------------------------------------------------
(* The pipeline processes.                                                 *)

\* _validate_scheduled_binding_goal: the goal names the running process and
\* a binding that is open.
Admits(t) ==
  /\ issued[t].boot = boot[Pipeline(t)]
  /\ <<issued[t].binding, issued[t].boot>> \notin closed

(* A goal arrives, possibly long after its sender stopped waiting for it,  *)
(* and is validated and admitted, or refused.                              *)
Accept(t) ==
  /\ t \in inflight
  /\ inflight' = inflight \ {t}
  /\ admitted' = IF Admits(t) THEN admitted \cup {t} ELSE admitted
  /\ UNCHANGED <<now, tableVars, threadVars, statusVars, mistaken, boot, working, closed>>

(* The admitted goal takes a slot without blocking and goes on to its      *)
(* inference.  Nothing asks again whether the binding is still open.       *)
TakeSlot(t) ==
  /\ t \in admitted
  /\ admitted' = admitted \ {t}
  /\ working' = working \cup {t}
  /\ UNCHANGED <<now, tableVars, threadVars, statusVars, mistaken, boot, inflight, closed>>

\* It was canceled, or every slot is taken: NOT_STARTED.
NoSlot(t) ==
  /\ t \in admitted
  /\ admitted' = admitted \ {t}
  /\ UNCHANGED <<now, tableVars, threadVars, statusVars, mistaken, boot, inflight, working,
                 closed>>

Finish(t) ==
  /\ t \in working
  /\ working' = working \ {t}
  /\ UNCHANGED <<now, tableVars, threadVars, statusVars, mistaken, boot, inflight, admitted,
                 closed>>

(* A Close acquires every slot of the process, resets it and unbinds.  It  *)
(* does not wait for goals that are admitted and have no slot.             *)
Drain(b) ==
  LET e == boot[PipelineOf[b]]
  IN /\ <<b, e>> \notin closed
     /\ \A t \in working : Pipeline(t) # PipelineOf[b]
     /\ closed' = closed \cup {<<b, e>>}
     /\ UNCHANGED <<now, tableVars, threadVars, statusVars, mistaken, boot, goalVars>>

\* The process is restarted; its work ends with it.
Reboot(p) ==
  /\ boot[p] < MaxBoot
  /\ boot' = [boot EXCEPT ![p] = @ + 1]
  /\ admitted' = {t \in admitted : Pipeline(t) # p}
  /\ working' = {t \in working : Pipeline(t) # p}
  /\ UNCHANGED <<now, tableVars, threadVars, statusVars, mistaken, inflight, closed>>

-----------------------------------------------------------------------------
ReserveAny(d) ==
  \E deadline \in Deadlines :
    \E est \in IF Policy = "fifo" THEN Estimates ELSE {0} : Reserve(d, deadline, est)

\* (Mutant) The loop does not look at the deadline again.
PollWithoutDeadline(d) == WaitReleased(d) \/ WaitPass(d)

\* A pass of the loop that no cancellation interrupts.
Poll(d) == WaitReleased(d) \/ WaitExpired(d) \/ WaitPass(d)

Next ==
  \/ Tick
  \/ \E d \in Dispatches :
       \/ PickCandidate(d) \/ ReserveAny(d) \/ Refuse(d)
       \/ Poll(d) \/ WaitCanceled(d)
       \/ Send(d) \/ Settle(d) \/ MarkUnknown(d)
  \/ \E b \in Bindings : \E e \in 1..MaxBoot : ReconcileBinding(b, e)
  \/ \E b \in Bindings : Drain(b)
  \/ \E p \in Pipelines : ObserveStatus(p) \/ TrustBoot(p) \/ Reboot(p)
  \/ \E t \in Tokens : Accept(t) \/ TakeSlot(t) \/ NoSlot(t) \/ Finish(t)

Spec == Init /\ [][Next]_vars

(* The clock advances and a waiting thread keeps polling: wait_for_turn    *)
(* waits at most 50 ms before its next pass.  Nobody has to cancel.        *)
Fairness == WF_vars(Tick) /\ \A d \in Dispatches : WF_vars(Poll(d))

FairSpec == Spec /\ Fairness

-----------------------------------------------------------------------------
(* What the table and its callers promise.                                 *)

TypeOK ==
  /\ now \in 0..MaxTime
  /\ issued \in Seq(Reservation)
  /\ table \subseteq Tokens
  /\ queue \in [Resources -> Seq(Tokens)]
  /\ active \in [Resources -> {NoToken} \cup Tokens]
  /\ unknown \subseteq table
  /\ stage \in [Dispatches -> {"idle", "picked", "waiting", "turn", "sent"}]
  /\ aim \in [Dispatches -> [binding: Bindings, boot: Nat]]
  /\ held \in [Dispatches -> {NoToken} \cup Tokens]
  /\ observed \in [Pipelines -> Nat]
  /\ trusted \in [Pipelines -> Nat]
  /\ mistaken \subseteq Tokens
  /\ boot \in [Pipelines -> Nat]
  /\ inflight \subseteq Tokens
  /\ admitted \subseteq Tokens
  /\ working \subseteq Tokens
  /\ closed \subseteq Bindings \X Nat

(* The two ways in which the scheduler lets go of an entry although its    *)
(* work may still execute: the Close of its binding has drained while the  *)
(* goal was admitted and had no slot, or the outcome was unknown and the   *)
(* boot it was sent to not trusted yet.                                    *)
Stray(t) == t \in mistaken \/ <<issued[t].binding, issued[t].boot>> \in closed

(* Two reserved dispatches execute on one hardware resource at the same    *)
(* time only if one of them is a stray, whatever else is lost, late,       *)
(* cancelled, expired or rebooted: nothing but the two gaps that Stray     *)
(* names breaks the exclusion the table exists for.                        *)
OnlyStraysOverlap ==
  \A t, u \in working :
    Resource(t) = Resource(u) /\ t # u => Stray(t) \/ Stray(u)

(* Uncertain ownership never outlives the process it is about: a fenced    *)
(* request must not reintroduce UNKNOWN after the new process is trusted,  *)
(* or the resource would be refused for ever.                              *)
NoFencedUnknown ==
  \A t \in unknown : issued[t].boot = trusted[Pipeline(t)]

(* No entry is leaked: each is either uncertain or in the hands of a       *)
(* thread that will still release it.                                      *)
EveryEntryOwned ==
  \A t \in table : t \in unknown \/ \E d \in Dispatches : held[d] = t

(* The queue of a resource lists exactly its entries, each once, and the   *)
(* holder of the turn is at the head.                                      *)
QueueMirrorsTable ==
  \A r \in Resources :
    /\ Elements(queue[r]) = {t \in table : Resource(t) = r}
    /\ Len(queue[r]) = Cardinality(Elements(queue[r]))
    /\ active[r] # NoToken => queue[r] # <<>> /\ Head(queue[r]) = active[r]

(* The turn is granted in policy order: no work still waiting for the      *)
(* resource precedes the work that gets it (by token for fifo, by deadline *)
(* then token for edf), and none whose deadline has passed is granted.     *)
GrantsInOrder ==
  [][ \A r \in Resources :
        active[r] = NoToken /\ active'[r] # NoToken =>
          /\ issued[active'[r]].deadline > now
          /\ \A t \in table' \ {active'[r]} : Resource(t) = r =>
               Precedes(issued, active'[r], t) ]_vars

\* The goal of t is admitted or executing, or will be admitted when it arrives.
MayExecute(t) == t \in admitted \cup working \/ (t \in inflight /\ Admits(t))

(* A turn is non-preemptible: it passes from its holder only to nobody,    *)
(* and no expiry, cancellation, boot or late answer takes it from work     *)
(* that may still execute, other than the strays (release, mark_unknown,   *)
(* reconcile_binding, reconcile_pipeline).                                 *)
TurnIsLeft ==
  [][ \A r \in Resources : \A t \in Tokens :
        active[r] = t /\ active'[r] # t =>
          /\ active'[r] = NoToken
          /\ MayExecute(t) => Stray(t)' ]_vars

(* "Once a reservation owns the resource it is non-preemptible; newly      *)
(* arriving work cannot bypass it" (deadline_reservations.py): the table   *)
(* implements Turnstile.  A vacant turn goes to the first of the line,     *)
(* which newcomers join without changing the places of others, and nobody  *)
(* takes a turn that is held, whatever expires or is reconciled.           *)
Line == [r \in Resources |-> {t \in table : Resource(t) = r}]
ServedBefore == {pair \in Tokens \X Tokens : Precedes(issued, pair[1], pair[2])}
Turns == INSTANCE Turnstile WITH
  Nobody <- NoToken,
  line   <- Line,
  before <- ServedBefore,
  turn   <- active
HandsOutTurns == Turns!TurnstileSpec

(* The offline schedule of fifo admission: the estimated intervals of the  *)
(* entries of one resource do not overlap, later ones start later, and     *)
(* each ends before its deadline.                                          *)
EstimatedScheduleFits ==
  \A t, u \in table :
    /\ Estimate(t) > 0 => issued[t].finish <= issued[t].deadline
    /\ t < u /\ Resource(t) = Resource(u) /\ Estimate(t) > 0 /\ Estimate(u) > 0
         => issued[t].finish <= issued[u].start

(* Every call of wait_for_turn returns.                                    *)
WaitEnds == \A d \in Dispatches : stage[d] = "waiting" ~> stage[d] # "waiting"

=============================================================================

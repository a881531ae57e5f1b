-------------------------- MODULE ScheduledPipeline --------------------------
(***************************************************************************)
(* One boot of a pipeline process under the scheduler: the goal threads    *)
(* that execute private Open, Dispatch and Close goals                     *)
(* (pipeline_policy_node.py, _scheduled_*_once) around the session         *)
(* controller they share (scheduler/session_controller.py).                *)
(*                                                                         *)
(* Every controller method runs under the controller's lock and is one     *)
(* action.  What the threads read and write outside it is not protected    *)
(* by any lock: the bound identity, the last drained binding, and the      *)
(* execution slots, so each such access is an action of its own.           *)
(*                                                                         *)
(* Of the Global scheduler this module has what a pipeline sees of         *)
(* GlobalSessions: it owns one binding of the pipeline at a time, and lets *)
(* go of it when an Open is answered NOT_STARTED or a Close is answered    *)
(* with success. A goal it has sent may arrive at any later time or never. *)
(* A binding belongs to one session and is opened once, so a binding also  *)
(* stands for its session and Open goal.                                   *)
(***************************************************************************)
EXTENDS Naturals, FiniteSets

CONSTANTS
  Bindings,        \* bindings the Global scheduler may open here
  Dispatches,      \* dispatch goals
  Closes,          \* close goals, the retries and late cleanups included
  NoBinding,       \* None
  Slots            \* permits of _scheduled_operation_slots

ASSUME BindingAssumption == NoBinding \notin Bindings
ASSUME SlotAssumption == Slots # {} /\ IsFiniteSet(Slots)
ASSUME FiniteAssumption == IsFiniteSet(Bindings) /\ IsFiniteSet(Dispatches) /\ IsFiniteSet(Closes)

\* public_capacity of session_control: the configuration accepts only one.
ControlCapacity == 1

\* public_capacity of action_generation, which also sizes the semaphore.
ActionCapacity == Cardinality(Slots)

VARIABLES
  state,       \* _state of the controller
  quarantine,  \* _quarantine
  product,     \* _product_session_id
  productGen,  \* _product_generation
  fence,       \* _fence_generation
  control,     \* _in_flight[SESSION_CONTROL]
  action,      \* _in_flight[ACTION_GENERATION]
  identity,    \* _scheduled_binding_identity
  closed,      \* _scheduled_closed_binding: {} is None, {NoBinding} a record of None
  free,        \* permits nobody holds
  open,        \* where the Open goal of each binding is
  generation,  \* pipeline generation each Open was given
  dispatch,    \* where each dispatch goal is
  target,      \* the binding each dispatch goal is for
  answer,      \* the result a dispatch goal has settled on
  held,        \* the permit each dispatch goal holds: {} or one
  close,       \* where each close goal is
  subject,     \* the binding each close goal is for
  wildcard,    \* the close goal carries generation zero
  permits,     \* the permits each close goal has acquired
  reply,       \* the result of each close goal
  owned,       \* the binding the Global scheduler owns here
  drained      \* (history) bindings whose finish_close succeeded

controllerVars == <<state, quarantine, product, productGen, fence, control, action>>
nodeVars       == <<identity, closed, free>>
openVars       == <<open, generation>>
dispatchVars   == <<dispatch, target, answer, held>>
closeVars      == <<close, subject, wildcard, permits, reply>>
vars == <<controllerVars, nodeVars, openVars, dispatchVars, closeVars, owned, drained>>

OpenStages ==
  {"unsent", "sent", "checked", "begun", "bound", "reset", "broken",
   "not_started", "failed", "opened"}
DispatchStages ==
  {"unsent", "sent", "checked", "admitted", "holding", "inferring", "inferred",
   "uncertain", "fresh", "leaving", "done"}
CloseStages ==
  {"unsent", "sent", "missed", "checked", "seen", "draining", "reset", "broken",
   "finished", "recorded", "ending", "done"}

\* _next_generation_locked
NextGeneration == (IF fence > productGen THEN fence ELSE productGen) + 1

-----------------------------------------------------------------------------
Init ==
  /\ state = "IDLE" /\ quarantine = FALSE /\ product = NoBinding
  /\ productGen = 0 /\ fence = 0 /\ control = 0 /\ action = 0
  /\ identity = NoBinding /\ closed = {} /\ free = Slots
  /\ open = [b \in Bindings |-> "unsent"] /\ generation = [b \in Bindings |-> 0]
  /\ dispatch = [d \in Dispatches |-> "unsent"]
  /\ target = [d \in Dispatches |-> NoBinding]
  /\ answer = [d \in Dispatches |-> "none"]
  /\ held = [d \in Dispatches |-> {}]
  /\ close = [c \in Closes |-> "unsent"]
  /\ subject = [c \in Closes |-> NoBinding]
  /\ wildcard = [c \in Closes |-> FALSE]
  /\ permits = [c \in Closes |-> {}]
  /\ reply = [c \in Closes |-> "none"]
  /\ owned = NoBinding /\ drained = {}

-----------------------------------------------------------------------------
(* The Global scheduler.                                                   *)

SendOpen(b) ==
  /\ owned = NoBinding /\ open[b] = "unsent"
  /\ owned' = b
  /\ open' = [open EXCEPT ![b] = "sent"]
  /\ UNCHANGED <<controllerVars, nodeVars, generation, dispatchVars, closeVars, drained>>

SendDispatch(d) ==
  /\ dispatch[d] = "unsent"
  /\ owned # NoBinding /\ open[owned] = "opened"
  /\ dispatch' = [dispatch EXCEPT ![d] = "sent"]
  /\ target' = [target EXCEPT ![d] = owned]
  /\ UNCHANGED <<controllerVars, nodeVars, openVars, answer, held, closeVars, owned, drained>>

\* Generation zero cleans up an Open whose result the scheduler lacks.
SendClose(c, b, w) ==
  /\ close[c] = "unsent" /\ open[b] # "unsent"
  /\ ~w => owned = b /\ open[b] = "opened"
  /\ close' = [close EXCEPT ![c] = "sent"]
  /\ subject' = [subject EXCEPT ![c] = b]
  /\ wildcard' = [wildcard EXCEPT ![c] = w]
  /\ UNCHANGED <<controllerVars, nodeVars, openVars, dispatchVars, permits, reply, owned, drained>>

LearnNotOpened ==
  /\ owned # NoBinding /\ open[owned] = "not_started"
  /\ owned' = NoBinding
  /\ UNCHANGED <<controllerVars, nodeVars, openVars, dispatchVars, closeVars, drained>>

\* The closed generation of a not-needed answer is zero, which the
\* scheduler accepts only in answer to generation zero.
LearnClosed(c) ==
  /\ close[c] = "done" /\ subject[c] = owned
  /\ \/ reply[c] \in {"drained", "replayed"}
     \/ reply[c] = "not_needed" /\ wildcard[c]
  /\ owned' = NoBinding
  /\ UNCHANGED <<controllerVars, nodeVars, openVars, dispatchVars, closeVars, drained>>

GlobalStep ==
  \/ \E b \in Bindings : SendOpen(b)
  \/ \E d \in Dispatches : SendDispatch(d)
  \/ \E c \in Closes, b \in Bindings, w \in BOOLEAN : SendClose(c, b, w)
  \/ LearnNotOpened
  \/ \E c \in Closes : LearnClosed(c)

-----------------------------------------------------------------------------
(* Open goals.                                                             *)

OpenReturns(b, result) == open' = [open EXCEPT ![b] = result]

\* (Mutant) An Open is not compared with the identity still bound.
CheckOpenUnbound(b) ==
  /\ open[b] = "sent"
  /\ OpenReturns(b, "checked")
  /\ UNCHANGED <<controllerVars, nodeVars, generation, dispatchVars, closeVars, owned, drained>>

\* _validate_scheduled_binding_goal(allow_unopened=True), then the deadline,
\* which may have passed for any goal.
CheckOpen(b) ==
  /\ open[b] = "sent"
  /\ \/ identity \in {NoBinding, b} /\ OpenReturns(b, "checked")
     \/ OpenReturns(b, "not_started")
  /\ UNCHANGED <<controllerVars, nodeVars, generation, dispatchVars, closeVars, owned, drained>>

\* begin_open may take the session slot.
Openable ==
  /\ control < ControlCapacity
  /\ state \notin {"ACTIVE", "RESETTING", "CLOSING"}
  /\ ~(state = "FAILED" /\ quarantine)

BeginOpen(b) ==
  /\ open[b] = "checked"
  /\ IF Openable
     THEN /\ state' = "RESETTING"
          /\ product' = b
          /\ fence' = NextGeneration
          /\ control' = control + 1
          /\ generation' = [generation EXCEPT ![b] = NextGeneration]
          /\ OpenReturns(b, "begun")
     ELSE /\ OpenReturns(b, "not_started")
          /\ UNCHANGED <<state, product, fence, control, generation>>
  /\ UNCHANGED <<quarantine, productGen, action, nodeVars, dispatchVars, closeVars, owned, drained>>

Bind(b) ==
  /\ open[b] = "begun"
  /\ identity' = b
  /\ OpenReturns(b, "bound")
  /\ UNCHANGED <<controllerVars, closed, free, generation, dispatchVars, closeVars, owned, drained>>

Inferring == {d \in Dispatches : dispatch[d] = "inferring"}

\* The whole-graph reset succeeds only once the runtime has no execution.
ResetForOpen(b) ==
  /\ open[b] = "bound"
  /\ \/ Inferring = {} /\ OpenReturns(b, "reset")
     \/ OpenReturns(b, "broken")
  /\ UNCHANGED <<controllerVars, nodeVars, generation, dispatchVars, closeVars, owned, drained>>

\* finish_open raises unless the state is RESETTING; the handler swallows it.
FinishOpen(b) ==
  /\ open[b] \in {"reset", "broken"}
  /\ IF state = "RESETTING"
     THEN /\ control' = control - 1
          /\ IF open[b] = "reset"
             THEN /\ productGen' = fence
                  /\ state' = "ACTIVE" /\ quarantine' = FALSE
                  /\ OpenReturns(b, "opened")
             ELSE /\ state' = "FAILED" /\ quarantine' = TRUE
                  /\ OpenReturns(b, "failed")
                  /\ UNCHANGED productGen
     ELSE /\ OpenReturns(b, "failed")
          /\ UNCHANGED <<state, quarantine, productGen, control>>
  /\ UNCHANGED <<product, fence, action, nodeVars, generation, dispatchVars, closeVars, owned, drained>>

OpenStep(b) == CheckOpen(b) \/ BeginOpen(b) \/ Bind(b) \/ ResetForOpen(b) \/ FinishOpen(b)

-----------------------------------------------------------------------------
(* Dispatch goals.                                                         *)

DispatchGoes(d, stage) == dispatch' = [dispatch EXCEPT ![d] = stage]

Settle(d, result, stage) ==
  /\ answer' = [answer EXCEPT ![d] = result]
  /\ DispatchGoes(d, stage)

\* The binding guard, then the checks that need no session.
CheckDispatch(d) ==
  /\ dispatch[d] = "sent"
  /\ \/ identity = target[d] /\ DispatchGoes(d, "checked") /\ UNCHANGED answer
     \/ Settle(d, "not_started", "done")
  /\ UNCHANGED <<controllerVars, nodeVars, openVars, target, held, closeVars, owned, drained>>

\* release_in_flight
ReleaseAction == action' = IF action > 0 THEN action - 1 ELSE action

Admissible(d) ==
  /\ state = "ACTIVE"
  /\ product = target[d]
  /\ productGen = generation[target[d]]
  /\ action < ActionCapacity

Admit(d) ==
  /\ dispatch[d] = "checked"
  /\ IF Admissible(d)
     THEN action' = action + 1 /\ DispatchGoes(d, "admitted") /\ UNCHANGED answer
     ELSE Settle(d, "not_started", "done") /\ UNCHANGED action
  /\ UNCHANGED <<state, quarantine, product, productGen, fence, control, nodeVars, openVars,
                 target, held, closeVars, owned, drained>>

\* (Mutant) Execution does not take a slot.
TakeSlotFreely(d) ==
  /\ dispatch[d] = "admitted"
  /\ DispatchGoes(d, "holding")
  /\ UNCHANGED <<controllerVars, identity, closed, free, openVars, target, answer, held, closeVars,
                 owned, drained>>

\* acquire(blocking=False); without a slot, or when the goal has been
\* canceled before, the admission is given back.
TakeSlot(d) ==
  /\ dispatch[d] = "admitted"
  /\ \/ /\ \E permit \in free :
             free' = free \ {permit} /\ held' = [held EXCEPT ![d] = {permit}]
        /\ DispatchGoes(d, "holding") /\ UNCHANGED <<action, answer>>
     \/ Settle(d, "not_started", "done") /\ ReleaseAction /\ UNCHANGED <<free, held>>
  /\ UNCHANGED <<state, quarantine, product, productGen, fence, control, identity, closed,
                 openVars, target, closeVars, owned, drained>>

\* Sampling, a cancellation or the deadline may end it before the backend.
Infer(d) ==
  /\ dispatch[d] = "holding"
  /\ \/ DispatchGoes(d, "inferring") /\ UNCHANGED answer
     \/ Settle(d, "not_started", "leaving")
  /\ UNCHANGED <<controllerVars, nodeVars, openVars, target, held, closeVars, owned, drained>>

InferEnds(d) ==
  /\ dispatch[d] = "inferring"
  /\ \/ DispatchGoes(d, "inferred") /\ UNCHANGED answer
     \/ \E result \in {"not_started", "failed"} : Settle(d, result, "leaving")
     \/ Settle(d, "unknown", "uncertain")
  /\ UNCHANGED <<controllerVars, nodeVars, openVars, target, held, closeVars, owned, drained>>

\* mark_failed_quarantine
MarkFailed(d) ==
  /\ dispatch[d] = "uncertain"
  /\ state' = "FAILED" /\ quarantine' = TRUE
  /\ DispatchGoes(d, "leaving")
  /\ UNCHANGED <<product, productGen, fence, control, action, nodeVars, openVars, target, answer, held,
                 closeVars, owned, drained>>

\* (Mutant) The completion is not compared with the fence.
CompleteUnfenced(d) ==
  /\ dispatch[d] = "inferred"
  /\ DispatchGoes(d, "fresh")
  /\ UNCHANGED <<controllerVars, nodeVars, openVars, target, answer, held, closeVars, owned, drained>>

\* is_stale_generation: a completion that crossed a fence, or whose goal
\* has been canceled, is dropped.
Complete(d) ==
  /\ dispatch[d] = "inferred"
  /\ \/ Settle(d, "failed", "leaving")
     \/ generation[target[d]] >= fence /\ DispatchGoes(d, "fresh") /\ UNCHANGED answer
  /\ UNCHANGED <<controllerVars, nodeVars, openVars, target, held, closeVars, owned, drained>>

\* The result is encoded and set after the comparison, still in the slot.
PublishResult(d) ==
  /\ dispatch[d] = "fresh"
  /\ \E result \in {"success", "failed"} : Settle(d, result, "leaving")
  /\ UNCHANGED <<controllerVars, nodeVars, openVars, target, held, closeVars, owned, drained>>

\* The finally clause.
Leave(d) ==
  /\ dispatch[d] = "leaving"
  /\ free' = free \cup held[d]
  /\ held' = [held EXCEPT ![d] = {}]
  /\ ReleaseAction
  /\ DispatchGoes(d, "done")
  /\ UNCHANGED <<state, quarantine, product, productGen, fence, control, identity, closed,
                 openVars, target, answer, closeVars, owned, drained>>

DispatchStep(d) ==
  \/ CheckDispatch(d) \/ Admit(d) \/ TakeSlot(d) \/ Infer(d) \/ InferEnds(d)
  \/ MarkFailed(d) \/ Complete(d) \/ PublishResult(d) \/ Leave(d)

-----------------------------------------------------------------------------
(* Close goals.                                                            *)

CloseGoes(c, stage) == close' = [close EXCEPT ![c] = stage]

Reply(c, result) ==
  /\ reply' = [reply EXCEPT ![c] = result]
  /\ CloseGoes(c, "done")

\* The last drained binding is confirmed without another drain.  A record
\* of no binding makes the comparison raise: the outcome is unknown.
Replay(c) ==
  /\ close[c] = "sent"
  /\ \/ subject[c] \in closed /\ Reply(c, "replayed")
     \/ NoBinding \in closed /\ Reply(c, "unknown")
     \/ closed \cap {subject[c], NoBinding} = {} /\ CloseGoes(c, "missed") /\ UNCHANGED reply
  /\ UNCHANGED <<controllerVars, nodeVars, openVars, dispatchVars, subject, wildcard, permits,
                 owned, drained>>

CheckClose(c) ==
  /\ close[c] = "missed"
  /\ \/ identity = subject[c] /\ CloseGoes(c, "checked") /\ UNCHANGED reply
     \/ Reply(c, "not_started")
  /\ UNCHANGED <<controllerVars, nodeVars, openVars, dispatchVars, subject, wildcard, permits,
                 owned, drained>>

\* The snapshot of the controller still names the session.
SeeSession(c) ==
  /\ close[c] = "checked"
  /\ IF product = subject[c]
     THEN CloseGoes(c, "seen") /\ UNCHANGED reply
     ELSE Reply(c, "not_started")
  /\ UNCHANGED <<controllerVars, nodeVars, openVars, dispatchVars, subject, wildcard, permits,
                 owned, drained>>

\* begin_close accepts the goal.
Closable(c) ==
  /\ control < ControlCapacity
  /\ state \notin {"IDLE", "CLOSING"}
  /\ wildcard[c] \/ productGen = generation[subject[c]]

\* (Mutant) begin_close does not count the running barriers.
BeginCloseUncounted(c) ==
  /\ close[c] = "seen"
  /\ state # "IDLE" /\ (wildcard[c] \/ productGen = generation[subject[c]])
  /\ state' = "CLOSING"
  /\ fence' = NextGeneration
  /\ control' = control + 1
  /\ CloseGoes(c, "draining")
  /\ UNCHANGED <<quarantine, product, productGen, action, nodeVars, openVars, dispatchVars,
                 subject, wildcard, permits, reply, owned, drained>>

BeginClose(c) ==
  /\ close[c] = "seen" /\ Closable(c)
  /\ state' = "CLOSING"
  /\ fence' = NextGeneration
  /\ control' = control + 1
  /\ CloseGoes(c, "draining")
  /\ UNCHANGED <<quarantine, product, productGen, action, nodeVars, openVars, dispatchVars,
                 subject, wildcard, permits, reply, owned, drained>>

\* The refusals of begin_close, in its order.
RefuseClose(c) ==
  /\ close[c] = "seen" /\ ~Closable(c)
  /\ Reply(c, IF control < ControlCapacity /\ state = "IDLE" THEN "not_needed" ELSE "not_started")
  /\ UNCHANGED <<controllerVars, nodeVars, openVars, dispatchVars, subject, wildcard, permits,
                 owned, drained>>

\* One turn of _acquire_scheduled_drain_slots.
AcquirePermit(c) ==
  /\ close[c] = "draining" /\ permits[c] # Slots
  /\ \E permit \in free :
       free' = free \ {permit} /\ permits' = [permits EXCEPT ![c] = @ \cup {permit}]
  /\ UNCHANGED <<controllerVars, identity, closed, openVars, dispatchVars, close, subject, wildcard,
                 reply, owned, drained>>

\* (Mutant) A drain that times out keeps the slots it has.
DrainExpiresHolding(c) ==
  /\ close[c] = "draining" /\ permits[c] # Slots
  /\ permits' = [permits EXCEPT ![c] = {}]
  /\ CloseGoes(c, "broken")
  /\ UNCHANGED <<controllerVars, nodeVars, openVars, dispatchVars, subject, wildcard,
                 reply, owned, drained>>

DrainExpires(c) ==
  /\ close[c] = "draining" /\ permits[c] # Slots
  /\ free' = free \cup permits[c]
  /\ permits' = [permits EXCEPT ![c] = {}]
  /\ CloseGoes(c, "broken")
  /\ UNCHANGED <<controllerVars, identity, closed, openVars, dispatchVars, subject, wildcard,
                 reply, owned, drained>>

ResetForClose(c) ==
  /\ close[c] = "draining" /\ permits[c] = Slots
  /\ \/ Inferring = {} /\ CloseGoes(c, "reset")
     \/ CloseGoes(c, "broken")
  /\ UNCHANGED <<controllerVars, nodeVars, openVars, dispatchVars, subject, wildcard, permits,
                 reply, owned, drained>>

\* finish_close(success=True) raises unless the state is CLOSING.
FinishClose(c) ==
  /\ close[c] = "reset"
  /\ IF state = "CLOSING"
     THEN /\ state' = "IDLE" /\ quarantine' = FALSE
          /\ productGen' = fence
          /\ product' = NoBinding
          /\ control' = control - 1
          /\ drained' = drained \cup ({product} \ {NoBinding})
          /\ CloseGoes(c, "finished")
     ELSE /\ CloseGoes(c, "broken")
          /\ UNCHANGED <<state, quarantine, productGen, product, control, drained>>
  /\ UNCHANGED <<fence, action, nodeVars, openVars, dispatchVars, subject, wildcard, permits,
                 reply, owned>>

\* finish_close(success=False) in the handler, its own error swallowed.
FailClose(c) ==
  /\ close[c] = "broken"
  /\ IF state = "CLOSING"
     THEN state' = "FAILED" /\ quarantine' = TRUE /\ control' = control - 1
     ELSE UNCHANGED <<state, quarantine, control>>
  /\ reply' = [reply EXCEPT ![c] = "failed"]
  /\ CloseGoes(c, "ending")
  /\ UNCHANGED <<productGen, product, fence, action, nodeVars, openVars, dispatchVars,
                 subject, wildcard, permits, owned, drained>>

RecordClosed(c) ==
  /\ close[c] = "finished"
  /\ closed' = {identity}
  /\ CloseGoes(c, "recorded")
  /\ UNCHANGED <<controllerVars, identity, free, openVars, dispatchVars, subject, wildcard,
                 permits, reply, owned, drained>>

Unbind(c) ==
  /\ close[c] = "recorded"
  /\ identity' = NoBinding
  /\ reply' = [reply EXCEPT ![c] = "drained"]
  /\ CloseGoes(c, "ending")
  /\ UNCHANGED <<controllerVars, closed, free, openVars, dispatchVars, subject, wildcard,
                 permits, owned, drained>>

\* The finally clause gives the slots back.
EndClose(c) ==
  /\ close[c] = "ending"
  /\ free' = free \cup permits[c]
  /\ permits' = [permits EXCEPT ![c] = {}]
  /\ CloseGoes(c, "done")
  /\ UNCHANGED <<controllerVars, identity, closed, openVars, dispatchVars, subject, wildcard,
                 reply, owned, drained>>

\* What a Close does of its own accord: all but running into its deadline.
CloseWork(c) ==
  \/ Replay(c) \/ CheckClose(c) \/ SeeSession(c) \/ BeginClose(c) \/ RefuseClose(c)
  \/ AcquirePermit(c) \/ ResetForClose(c) \/ FinishClose(c) \/ FailClose(c)
  \/ RecordClosed(c) \/ Unbind(c) \/ EndClose(c)

CloseStep(c) == CloseWork(c) \/ DrainExpires(c)

-----------------------------------------------------------------------------
Next ==
  \/ GlobalStep
  \/ \E b \in Bindings : OpenStep(b)
  \/ \E d \in Dispatches : DispatchStep(d)
  \/ \E c \in Closes : CloseStep(c)

\* A goal that arrived is executed by a thread of the node to its end, and
\* no drain has to run into its deadline for that.
Fairness ==
  /\ \A b \in Bindings : WF_vars(open[b] # "sent" /\ OpenStep(b))
  /\ \A d \in Dispatches : WF_vars(dispatch[d] # "sent" /\ DispatchStep(d))
  /\ \A c \in Closes : WF_vars(close[c] # "sent" /\ CloseWork(c))

Spec == Init /\ [][Next]_vars
FairSpec == Spec /\ Fairness

-----------------------------------------------------------------------------
(* Properties.                                                             *)

(* Type invariant of every variable of the module.                         *)
TypeOK ==
  /\ state \in {"IDLE", "RESETTING", "ACTIVE", "FAILED", "CLOSING"}
  /\ quarantine \in BOOLEAN
  /\ product \in Bindings \cup {NoBinding}
  /\ productGen \in Nat /\ fence \in Nat
  /\ control \in 0..ControlCapacity /\ action \in 0..ActionCapacity
  /\ identity \in Bindings \cup {NoBinding} /\ closed \subseteq Bindings \cup {NoBinding}
  /\ free \subseteq Slots
  /\ open \in [Bindings -> OpenStages] /\ generation \in [Bindings -> Nat]
  /\ dispatch \in [Dispatches -> DispatchStages]
  /\ target \in [Dispatches -> Bindings \cup {NoBinding}]
  /\ answer \in [Dispatches -> {"none", "not_started", "failed", "unknown", "success"}]
  /\ held \in [Dispatches -> SUBSET Slots]
  /\ close \in [Closes -> CloseStages]
  /\ subject \in [Closes -> Bindings \cup {NoBinding}]
  /\ wildcard \in [Closes -> BOOLEAN]
  /\ permits \in [Closes -> SUBSET Slots]
  /\ reply \in [Closes -> {"none", "not_started", "not_needed", "replayed", "unknown", "failed", "drained"}]
  /\ owned \in Bindings \cup {NoBinding} /\ drained \subseteq Bindings

(* The pipeline serves bindings one at a time, and a dispatch reports      *)
(* success only for the binding it serves at that moment: the comparison   *)
(* of _scheduled_dispatch_once with the fence, made before the result is   *)
(* set and outside the controller's lock, is enough because the execution  *)
(* slot keeps a Close from completing in between.                          *)
Fence == INSTANCE FencedPublication
  WITH Requests <- Dispatches, Nobody <- NoBinding, owner <- product, retired <- drained,
       published <- {<<d, target[d]>> : d \in {e \in Dispatches : answer[e] = "success"}}

PublishesBehindFence == Fence!FenceSpec

(* The Opens and Closes between begin_open or begin_close and the matching *)
(* finish.                                                                 *)
OpenBarrier(b) == open[b] \in {"begun", "bound", "reset", "broken"}
CloseBarrier(c) == close[c] \in {"draining", "reset", "broken"}

Barriers ==
  {<<"open", b>> : b \in {x \in Bindings : OpenBarrier(x)}}
    \cup {<<"close", c>> : c \in {x \in Closes : CloseBarrier(x)}}

(* The outcome of an inference was unknown.  The goal thread then fails the *)
(* controller whatever Open or Close is under way, which gives up on it.   *)
Doubtful == \E d \in Dispatches : answer[d] = "unknown"

(* Without doubt the session-control count is the number of running        *)
(* barriers: an Open or a Close that finds it exhausted waits for one that *)
(* runs.                                                                   *)
ControlCountsBarriers == ~Doubtful => control = Cardinality(Barriers)

(* Without doubt, what the pipeline keeps is within reach of a Close unless *)
(* an Open or a Close is running: the identity that every Close is compared with names  *)
(* the session that is served, and there is one when the pipeline is       *)
(* FAILED, so that the quarantine can be cleared.  Session and identity    *)
(* are written one after the other, and a second Close may run in between. *)
CloseReachesBinding ==
  ~Doubtful /\ Barriers = {} =>
    /\ state = "ACTIVE" => identity = product
    /\ state = "FAILED" => identity # NoBinding

(* A whole-graph drain barrier and an inference never overlap: once a      *)
(* Close holds every execution slot nothing it will reset is running.      *)
DrainIsExclusive ==
  \A c \in Closes : permits[c] = Slots => Inferring = {}

(* No path of a goal, the failing ones included, loses an execution slot   *)
(* or returns one twice: each is free or held by exactly one goal.         *)
SlotsAreConserved ==
  /\ \A permit \in Slots :
       \/ permit \in free
       \/ \E d \in Dispatches : permit \in held[d]
       \/ \E c \in Closes : permit \in permits[c]
  /\ \A d \in Dispatches : free \cap held[d] = {}
  /\ \A c \in Closes : free \cap permits[c] = {}
  /\ \A d \in Dispatches, c \in Closes : held[d] \cap permits[c] = {}
  /\ \A d, e \in Dispatches : d # e => held[d] \cap held[e] = {}
  /\ \A c, e \in Closes : c # e => permits[c] \cap permits[e] = {}

(* Every Open, Dispatch and Close goal that began executing ends, without  *)
(* the help of a deadline: the drain barrier waits for dispatches that     *)
(* never wait for anything, and never for another drain barrier.           *)
GoalsEnd ==
  /\ \A b \in Bindings :
       open[b] \notin {"unsent", "sent"} ~> open[b] \in {"not_started", "failed", "opened"}
  /\ \A d \in Dispatches : dispatch[d] \notin {"unsent", "sent"} ~> dispatch[d] = "done"
  /\ \A c \in Closes : close[c] \notin {"unsent", "sent"} ~> close[c] = "done"
=============================================================================

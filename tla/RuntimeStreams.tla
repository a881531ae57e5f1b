--------------------------- MODULE RuntimeStreams ---------------------------
(***************************************************************************)
(* The streams of a stateful ModelRuntimeHandle (unified_runtime/handle.py)*)
(* of scope "stream": open_stream, step, reset_stream and close_stream run *)
(* in any threads against each other and against the reset and close of    *)
(* the runtime, which drain the steps and then reset or close every stream.*)
(*                                                                         *)
(* Each step is one section of the code under _condition, or a call of the *)
(* streaming runtime between two of them.  A stream's control_lock is      *)
(* taken in the step that enters the section below it and given back in    *)
(* the step that leaves the last one.  The holder of _control_lock is the  *)
(* caller  Control; it calls the stream operations like everybody else.    *)
(***************************************************************************)
EXTENDS Naturals, FiniteSets, RuntimeLifecycle

CONSTANTS
  Streams,           \* the streams the streaming runtime may hand out
  Users,             \* threads that call stream operations
  Control,           \* the thread that holds _control_lock
  Nobody,
  MaxStreams,        \* _max_open_streams of a per_stream bank
  RetryFailedReset   \* assembly.retry_failed_reset

ASSUME StreamAssumption ==
  /\ IsFiniteSet(Streams) /\ IsFiniteSet(Users)
  /\ Control \notin Users /\ Nobody \notin Users \cup {Control}
  /\ MaxStreams \in Nat \ {0} /\ RetryFailedReset \in BOOLEAN

VARIABLES
  exclusive,    \* _state_bank_mode is "runtime_exclusive"
  resettable,   \* _resettable
  lifecycle,    \* _state
  admission,    \* _admission_open
  state,        \* the state of each stream's record, "NONE" before there is one
  active,       \* active_step and active_thread: the user who steps
  resetting,    \* streams with the flag  resetting
  closing,      \* streams with the flag  closing
  lock,         \* the holder of each control_lock
  call,         \* where each caller is
  at,           \* the stream it is at, if it is not idle
  saw,          \* the local "was_reset_required" of reset_stream
  owns,         \* the local "runtime_resetting" of reset_stream
  control,      \* where reset() or close() of the runtime is
  todo,         \* the records of its loop that are left
  previous,     \* the local "previous" of reset()
  tainted,      \* streams with an uncertain outcome since their last reset
  closed,       \* streams that have ever been closed
  lapsed        \* an operation went on although its checks no longer held

shape     == <<exclusive, resettable>>
gateVars  == <<lifecycle, admission>>
flagVars  == <<resetting, closing>>
callVars  == <<call, at>>
localVars == <<saw, owns>>
loopVars  == <<control, todo, previous>>
ghostVars == <<tainted, closed, lapsed>>
vars == <<shape, gateVars, state, active, flagVars, lock, callVars, localVars, loopVars, ghostVars>>

Callers == Users \cup {Control}

StreamStates == {"OPEN", "STEPPING", "RESET_REQUIRED", "RESETTING", "FAILED", "CLOSED"}

Places ==
  {"idle", "opening", "opened", "step_found", "step_checked", "stepping", "step_failed",
   "reset_found", "reset_waits", "resetting", "close_found", "close_waits", "closing"}

\* Where a caller has a call of the streaming runtime for its stream under way.
AtBackend == {"stepping", "step_failed", "resetting", "closing"}

Init ==
  /\ exclusive \in BOOLEAN /\ resettable \in BOOLEAN
  /\ lifecycle = "READY" /\ admission = TRUE
  /\ state = [s \in Streams |-> "NONE"]
  /\ active = [s \in Streams |-> Nobody]
  /\ resetting = {} /\ closing = {}
  /\ lock = [s \in Streams |-> Nobody]
  /\ call = [c \in Callers |-> "idle"]
  /\ at = [c \in Callers |-> Nobody]
  /\ saw = [c \in Callers |-> FALSE]
  /\ owns = [c \in Callers |-> FALSE]
  /\ control = "idle" /\ todo = {} /\ previous = "READY"
  /\ tainted = {} /\ closed = {} /\ lapsed = FALSE

-----------------------------------------------------------------------------
Capacity == IF exclusive THEN 1 ELSE MaxStreams

OpenStreams == {s \in Streams : state[s] \notin {"NONE", "CLOSED"}}

\* _stream_openings, as the callers it counts.
Openings == {u \in Users : call[u] \in {"opening", "opened"}}

Quiescent == Openings = {} /\ \A s \in Streams : active[s] = Nobody

Admits == lifecycle = "READY" /\ admission

Goes(c, p) == call' = [call EXCEPT ![c] = p] /\ UNCHANGED at

Enters(c, p, s) ==
  /\ call[c] = "idle"
  /\ call' = [call EXCEPT ![c] = p] /\ at' = [at EXCEPT ![c] = s]

Leaves(c) ==
  call' = [call EXCEPT ![c] = "idle"] /\ at' = [at EXCEPT ![c] = Nobody]

\* Back from a stream operation.  The loop of reset() ends with the first
\* failure, the loop of close() goes on.
Back(c, ok) ==
  /\ Leaves(c)
  /\ saw' = [saw EXCEPT ![c] = FALSE]
  /\ IF c = Control
     THEN /\ todo' = todo \ {at[c]}
          /\ control' = IF control = "resetting" /\ ~ok THEN "failing" ELSE control
     ELSE UNCHANGED <<todo, control>>
  /\ UNCHANGED previous

-----------------------------------------------------------------------------
(* open_stream: a place is reserved, the streaming runtime is called, and  *)
(* the record is put into the table if the runtime still admits it.        *)

OpenReserves(u) ==
  /\ call[u] = "idle" /\ Admits
  /\ Cardinality(OpenStreams) + Cardinality(Openings) < Capacity
  /\ Goes(u, "opening")
  /\ UNCHANGED <<shape, gateVars, state, active, flagVars, lock, localVars, loopVars, ghostVars>>

\* The streaming runtime has handed out a stream it has not handed out before.
OpenInserts(u) ==
  /\ call[u] = "opening" /\ Admits
  /\ \E s \in Streams : state[s] = "NONE" /\ state' = [state EXCEPT ![s] = "OPEN"]
  /\ Goes(u, "opened")
  /\ UNCHANGED <<shape, gateVars, active, flagVars, lock, localVars, loopVars, ghostVars>>

\* The streaming runtime refuses, or the runtime has stopped admitting and
\* the backend stream is closed again.
OpenFails(u) ==
  /\ call[u] = "opening" /\ Leaves(u)
  /\ UNCHANGED <<shape, gateVars, state, active, flagVars, lock, localVars, loopVars, ghostVars>>

OpenReturns(u) ==
  /\ call[u] = "opened" /\ Leaves(u)
  /\ UNCHANGED <<shape, gateVars, state, active, flagVars, lock, localVars, loopVars, ghostVars>>

-----------------------------------------------------------------------------
(* step: the record is resolved, checked, and marked in three sections.    *)

Resolvable(s) == state[s] \notin {"NONE", "CLOSED"}

StepResolves(u, s) ==
  /\ Resolvable(s)
  /\ Enters(u, "step_found", s)
  /\ UNCHANGED <<shape, gateVars, state, active, flagVars, lock, localVars, loopVars, ghostVars>>

Unoccupied(s) == active[s] = Nobody /\ s \notin resetting \cup closing

StepChecks(u) ==
  /\ call[u] = "step_found"
  /\ IF Admits /\ state[at[u]] \notin {"RESET_REQUIRED", "FAILED"} /\ Unoccupied(at[u])
     THEN Goes(u, "step_checked") ELSE Leaves(u)
  /\ UNCHANGED <<shape, gateVars, state, active, flagVars, lock, localVars, loopVars, ghostVars>>

\* (Mutant) The flags are trusted as they were checked.
StepStartsUnseen(u) ==
  LET s == at[u] IN
    /\ call[u] = "step_checked"
    /\ active' = [active EXCEPT ![s] = u]
    /\ state' = [state EXCEPT ![s] = "STEPPING"]
    /\ Goes(u, "stepping")
    /\ lapsed' = (lapsed \/ ~Admits \/ state[s] # "OPEN")
    /\ UNCHANGED <<shape, gateVars, flagVars, lock, localVars, loopVars, tainted, closed>>

StepStarts(u) ==
  LET s == at[u] IN
    /\ call[u] = "step_checked" /\ Unoccupied(s)
    /\ active' = [active EXCEPT ![s] = u]
    /\ state' = [state EXCEPT ![s] = "STEPPING"]
    /\ Goes(u, "stepping")
    /\ lapsed' = (lapsed \/ ~Admits \/ state[s] # "OPEN")
    /\ UNCHANGED <<shape, gateVars, flagVars, lock, localVars, loopVars, tainted, closed>>

\* The stream is occupied by now, or the deadline has passed.
StepGivesUp(u) ==
  /\ call[u] = "step_checked" /\ Leaves(u)
  /\ UNCHANGED <<shape, gateVars, state, active, flagVars, lock, localVars, loopVars, ghostVars>>

\* _handle_stream_failure for an outcome that is not known.
StepUncertain(u) ==
  LET s == at[u]
      target == IF resettable THEN "RESET_REQUIRED" ELSE "FAILED"
  IN
    /\ call[u] = "stepping" /\ Goes(u, "step_failed")
    /\ state' = [state EXCEPT ![s] = IF exclusive THEN target ELSE "RESET_REQUIRED"]
    /\ lifecycle' = IF exclusive /\ lifecycle = "READY" THEN target ELSE lifecycle
    /\ admission' = (admission /\ ~exclusive)
    /\ tainted' = tainted \cup {s}
    /\ UNCHANGED <<shape, active, flagVars, lock, localVars, loopVars, closed, lapsed>>

\* The finally clause.
StepEnds(u) ==
  LET s == at[u] IN
    /\ call[u] \in {"stepping", "step_failed"} /\ Leaves(u)
    /\ active' = [active EXCEPT ![s] = Nobody]
    /\ state' = [state EXCEPT ![s] = IF @ = "STEPPING" THEN "OPEN" ELSE @]
    /\ UNCHANGED <<shape, gateVars, flagVars, lock, localVars, loopVars, ghostVars>>

-----------------------------------------------------------------------------
(* reset_stream, called by a user or from the loop of reset().             *)

ResetResolves(u, s) ==
  /\ Resolvable(s)
  /\ Enters(u, "reset_found", s)
  /\ saw' = [saw EXCEPT ![u] = state[s] = "RESET_REQUIRED"]
  /\ UNCHANGED <<shape, gateVars, state, active, flagVars, lock, owns, loopVars, ghostVars>>

Resettable(c) ==
  /\ lifecycle \notin {"CLOSED", "CLOSING", "FAILED"}
  /\ c = Control \/ lifecycle # "RESETTING"
  /\ state[at[c]] # "FAILED"

\* The stream is idle and is marked; a runtime_exclusive bank takes the
\* runtime along.
MarkReset(c) ==
  LET s == at[c]
      along == lifecycle = "RESET_REQUIRED" /\ exclusive
  IN
    /\ active[s] = Nobody
    /\ lock' = [lock EXCEPT ![s] = c]
    /\ resetting' = resetting \cup {s}
    /\ state' = [state EXCEPT ![s] = "RESETTING"]
    /\ lifecycle' = IF along THEN "RESETTING" ELSE lifecycle
    /\ admission' = (admission /\ ~along)
    /\ owns' = [owns EXCEPT ![c] = along]
    /\ lapsed' = (lapsed \/ state[s] = "CLOSED")
    /\ Goes(c, "resetting")
    /\ UNCHANGED <<shape, active, closing, saw, loopVars, tainted, closed>>

ResetMarks(c) ==
  /\ call[c] = "reset_found" /\ lock[at[c]] = Nobody
  /\ Resettable(c) /\ MarkReset(c)

ResetWaits(c) ==
  /\ call[c] = "reset_found" /\ lock[at[c]] = Nobody
  /\ Resettable(c) /\ active[at[c]] # Nobody
  /\ lock' = [lock EXCEPT ![at[c]] = c] /\ Goes(c, "reset_waits")
  /\ UNCHANGED <<shape, gateVars, state, active, flagVars, localVars, loopVars, ghostVars>>

ResetRefused(c) ==
  /\ call[c] = "reset_found" /\ lock[at[c]] = Nobody
  /\ ~Resettable(c) /\ Back(c, FALSE)
  /\ UNCHANGED <<shape, gateVars, state, active, flagVars, lock, owns, ghostVars>>

ResetProceeds(c) == call[c] = "reset_waits" /\ MarkReset(c)

\* A drain of one stream runs into its deadline.
WaitExpires(c) ==
  /\ call[c] \in {"reset_waits", "close_waits"} /\ active[at[c]] # Nobody
  /\ lock' = [lock EXCEPT ![at[c]] = Nobody]
  /\ Back(c, FALSE)
  /\ UNCHANGED <<shape, gateVars, state, active, flagVars, owns, ghostVars>>

\* The stream is left in state  left  and a runtime that was taken along in
\* state  target; a transition that is not legal raises before the admission
\* is set.
FinishReset(c, left, target, ok) ==
  LET s == at[c]
      moves == owns[c] /\ target \in LegalTransitions[lifecycle]
  IN
    /\ state' = [state EXCEPT ![s] = left]
    /\ resetting' = resetting \ {s}
    /\ lock' = [lock EXCEPT ![s] = Nobody]
    /\ lifecycle' = IF moves THEN target ELSE lifecycle
    /\ admission' = IF moves THEN target = "READY" ELSE admission
    /\ owns' = [owns EXCEPT ![c] = FALSE]
    /\ Back(c, ok)
    /\ UNCHANGED <<shape, active, closing, closed>>

ResetSucceeds(c) ==
  /\ call[c] = "resetting" /\ resettable
  /\ FinishReset(c, "OPEN", "READY", TRUE)
  /\ tainted' = tainted \ {at[c]}
  /\ UNCHANGED lapsed

\* (Mutant) A reset that was canceled before it began leaves the stream open.
ResetFailsOpen(c) ==
  /\ call[c] = "resetting" /\ resettable
  /\ \E left \in {"FAILED", "OPEN"} : FinishReset(c, left, "FAILED", FALSE)
  /\ UNCHANGED <<tainted, lapsed>>

\* The streaming runtime fails, or the deadline passes before it is called.
ResetFails(c) ==
  /\ call[c] = "resetting" /\ resettable
  /\ \E left \in {"FAILED", "RESET_REQUIRED"} : FinishReset(c, left, "FAILED", FALSE)
  /\ UNCHANGED <<tainted, lapsed>>

\* A runtime that cannot reset gives the stream back as it was resolved.
ResetUnsupported(c) ==
  /\ call[c] = "resetting" /\ ~resettable
  /\ FinishReset(c, IF saw[c] THEN "RESET_REQUIRED" ELSE "OPEN", "FAILED", FALSE)
  /\ lapsed' = (lapsed \/ (at[c] \in tainted /\ ~saw[c]))
  /\ UNCHANGED tainted

-----------------------------------------------------------------------------
(* close_stream and _close_stream_record.                                  *)

CloseResolves(u, s) ==
  /\ Resolvable(s)
  /\ Enters(u, "close_found", s)
  /\ UNCHANGED <<shape, gateVars, state, active, flagVars, lock, localVars, loopVars, ghostVars>>

MarkClosing(c) ==
  LET s == at[c] IN
    /\ active[s] = Nobody
    /\ lock' = [lock EXCEPT ![s] = c]
    /\ closing' = closing \cup {s}
    /\ Goes(c, "closing")
    /\ UNCHANGED <<shape, gateVars, state, active, resetting, localVars, loopVars, ghostVars>>

CloseMarks(c) ==
  /\ call[c] = "close_found" /\ lock[at[c]] = Nobody
  /\ state[at[c]] # "CLOSED" /\ MarkClosing(c)

CloseWaits(c) ==
  /\ call[c] = "close_found" /\ lock[at[c]] = Nobody
  /\ state[at[c]] # "CLOSED" /\ active[at[c]] # Nobody
  /\ lock' = [lock EXCEPT ![at[c]] = c] /\ Goes(c, "close_waits")
  /\ UNCHANGED <<shape, gateVars, state, active, flagVars, localVars, loopVars, ghostVars>>

CloseUnneeded(c) ==
  /\ call[c] = "close_found" /\ lock[at[c]] = Nobody
  /\ state[at[c]] = "CLOSED" /\ Back(c, TRUE)
  /\ UNCHANGED <<shape, gateVars, state, active, flagVars, lock, owns, ghostVars>>

CloseProceeds(c) == call[c] = "close_waits" /\ MarkClosing(c)

\* CLOSED whatever the streaming runtime says.
CloseReturns(c) ==
  LET s == at[c] IN
    /\ call[c] = "closing"
    /\ state' = [state EXCEPT ![s] = "CLOSED"]
    /\ closing' = closing \ {s}
    /\ lock' = [lock EXCEPT ![s] = Nobody]
    /\ closed' = closed \cup {s}
    /\ Back(c, TRUE)
    /\ UNCHANGED <<shape, gateVars, active, resetting, owns, tainted, lapsed>>

-----------------------------------------------------------------------------
(* reset() and close() of the runtime.                                     *)

stays == <<shape, state, active, flagVars, lock, localVars, ghostVars>>

\* The wait of _wait_quiescent_locked and the snapshot of the records; what
\* comes next is one of  on.
Drains(wait, on) ==
  IF Quiescent THEN control' \in on /\ todo' = OpenStreams
               ELSE control' = wait /\ UNCHANGED todo

AfterReset == {"resetting", "failing"}

\* (Mutant) The admission stays open while reset() drains.
RuntimeResetBeginsOpen ==
  /\ control = "idle" /\ resettable /\ lifecycle \in {"READY", "RESET_REQUIRED"}
  /\ Drains("reset_drain", AfterReset) /\ previous' = lifecycle
  /\ UNCHANGED <<stays, gateVars, callVars>>

RuntimeResetBegins ==
  /\ control = "idle" /\ resettable /\ lifecycle \in {"READY", "RESET_REQUIRED"}
  /\ Drains("reset_drain", AfterReset) /\ previous' = lifecycle
  /\ lifecycle' = "RESETTING" /\ admission' = FALSE
  /\ UNCHANGED <<stays, callVars>>

RuntimeResetTimesOut ==
  /\ control = "reset_drain" /\ ~Quiescent
  /\ control' = "idle"
  /\ lifecycle' = previous /\ admission' = (previous = "READY")
  /\ UNCHANGED <<stays, callVars, todo, previous>>

RuntimeCloseBegins ==
  /\ control = "idle" /\ lifecycle # "CLOSED"
  /\ Drains("close_drain", {"closing"})
  /\ lifecycle' = "CLOSING" /\ admission' = FALSE
  /\ UNCHANGED <<stays, callVars, previous>>

RuntimeCloseTimesOut ==
  /\ control = "close_drain" /\ ~Quiescent
  /\ control' = "idle"
  /\ UNCHANGED <<stays, gateVars, callVars, todo, previous>>

RuntimeDrained ==
  /\ Quiescent
  /\ \/ control = "reset_drain" /\ Drains("reset_drain", AfterReset)
     \/ control = "close_drain" /\ Drains("close_drain", {"closing"})
  /\ UNCHANGED <<stays, gateVars, call, at, previous>>

\* The next record of the loop, which reset_stream resolves once more.
RuntimeResets(s) ==
  /\ control = "resetting" /\ s \in todo /\ ResetResolves(Control, s)

\* It has been closed since the snapshot.
RuntimeMisses(s) ==
  /\ control = "resetting" /\ s \in todo /\ call[Control] = "idle"
  /\ ~Resolvable(s) /\ control' = "failing"
  /\ UNCHANGED <<stays, gateVars, callVars, todo, previous>>

RuntimeCloses(s) ==
  /\ control = "closing" /\ s \in todo /\ Enters(Control, "close_found", s)
  /\ UNCHANGED <<stays, gateVars, loopVars>>

RuntimeResetDone ==
  /\ control = "resetting" /\ todo = {}
  /\ lifecycle' = IF lifecycle = "RESETTING" THEN "READY" ELSE lifecycle
  /\ admission' = TRUE /\ control' = "idle"
  /\ UNCHANGED <<stays, callVars, todo, previous>>

\* A stream, or another component of the runtime, could not be reset.
RuntimeResetFails ==
  /\ control = "failing" \/ (control = "resetting" /\ todo = {})
  /\ lifecycle' = IF lifecycle # "RESETTING" THEN lifecycle
                  ELSE IF RetryFailedReset THEN "RESET_REQUIRED" ELSE "FAILED"
  /\ admission' = FALSE /\ control' = "idle" /\ todo' = {}
  /\ UNCHANGED <<stays, call, at, previous>>

\* A component may keep resources, which leaves the close to be retried.
RuntimeCloseDone ==
  /\ control = "closing" /\ todo = {}
  /\ lifecycle' \in {"CLOSED", "CLOSING"} /\ control' = "idle"
  /\ UNCHANGED <<stays, admission, callVars, todo, previous>>

-----------------------------------------------------------------------------
UserBegins(u) ==
  OpenReserves(u) \/ \E s \in Streams :
    StepResolves(u, s) \/ ResetResolves(u, s) \/ CloseResolves(u, s)

UserWork(u) ==
  \/ OpenInserts(u) \/ OpenFails(u) \/ OpenReturns(u)
  \/ StepChecks(u) \/ StepStarts(u) \/ StepGivesUp(u) \/ StepUncertain(u) \/ StepEnds(u)

StreamControl(c) ==
  \/ ResetMarks(c) \/ ResetWaits(c) \/ ResetRefused(c) \/ ResetProceeds(c)
  \/ ResetSucceeds(c) \/ ResetFails(c) \/ ResetUnsupported(c)
  \/ CloseMarks(c) \/ CloseWaits(c) \/ CloseUnneeded(c) \/ CloseProceeds(c) \/ CloseReturns(c)

RuntimeBegins == RuntimeResetBegins \/ RuntimeCloseBegins

RuntimeWork ==
  \/ RuntimeDrained
  \/ \E s \in Streams : RuntimeResets(s) \/ RuntimeMisses(s) \/ RuntimeCloses(s)
  \/ RuntimeResetDone \/ RuntimeResetFails \/ RuntimeCloseDone

Expires == RuntimeResetTimesOut \/ RuntimeCloseTimesOut \/ \E c \in Callers : WaitExpires(c)

Next ==
  \/ \E u \in Users : UserBegins(u) \/ UserWork(u)
  \/ \E c \in Callers : StreamControl(c)
  \/ RuntimeBegins \/ RuntimeWork \/ Expires

Spec == Init /\ [][Next]_vars

(* The threads go on, and the calls of the streaming runtime return.  No   *)
(* drain has to run into its deadline, which may be unbounded.             *)
Fairness ==
  /\ \A u \in Users : WF_vars(UserWork(u))
  /\ \A c \in Callers : WF_vars(StreamControl(c))
  /\ WF_vars(RuntimeWork)

FairSpec == Spec /\ Fairness

-----------------------------------------------------------------------------
TypeOK ==
  /\ exclusive \in BOOLEAN /\ resettable \in BOOLEAN
  /\ lifecycle \in {"READY", "RESET_REQUIRED", "RESETTING", "FAILED", "CLOSING", "CLOSED"}
  /\ admission \in BOOLEAN
  /\ state \in [Streams -> StreamStates \cup {"NONE"}]
  /\ active \in [Streams -> Users \cup {Nobody}]
  /\ resetting \subseteq Streams /\ closing \subseteq Streams
  /\ lock \in [Streams -> Callers \cup {Nobody}]
  /\ call \in [Callers -> Places]
  /\ at \in [Callers -> Streams \cup {Nobody}]
  /\ saw \in [Callers -> BOOLEAN] /\ owns \in [Callers -> BOOLEAN]
  /\ control \in {"idle", "reset_drain", "resetting", "failing", "close_drain", "closing"}
  /\ todo \subseteq Streams /\ previous \in {"READY", "RESET_REQUIRED"}
  /\ tainted \subseteq Streams /\ closed \subseteq Streams /\ lapsed \in BOOLEAN

(* The streaming runtime serves one call for a stream at a time, whatever  *)
(* steps, resets, closes and controls of the runtime race: the reentrancy  *)
(* flags and control_lock of step, reset_stream and _close_stream_record.  *)
OneCallPerStream ==
  \A c, d \in Callers :
    call[c] \in AtBackend /\ call[d] \in AtBackend /\ at[c] = at[d] => c = d

(* The loop of reset() and close() finds nothing under way (the barrier of *)
(* _wait_quiescent_locked).                                                *)
ControlIsQuiet == control \in {"resetting", "closing"} => Quiescent

(* A stream whose state is not known is not stepped until a reset of it    *)
(* has succeeded (_handle_stream_failure).                                 *)
UncertainWaits ==
  \A s \in tainted : state[s] \in {"RESET_REQUIRED", "RESETTING", "FAILED", "CLOSED"}

ClosedStaysClosed == \A s \in closed : state[s] = "CLOSED"

WithinCapacity ==
  Cardinality(OpenStreams) + Cardinality({u \in Users : call[u] = "opening"}) <= Capacity

(* Everything the checks of step and reset_stream are for holds as long as *)
(* no operation goes on that passed its checks before they ceased to hold: *)
(* the gap between two sections is the only hole.                          *)
OnlyLapsesHarm ==
  lapsed \/ (ControlIsQuiet /\ UncertainWaits /\ ClosedStaysClosed /\ WithinCapacity)

(* "stream_closed": the streaming runtime is not asked to step a stream    *)
(* that has been closed.                                                   *)
ClosedIsNotStepped == \A u \in Users : call[u] = "stepping" => at[u] \notin closed

(* Every reset() and close() of the runtime that has begun ends although   *)
(* the users never stop calling and no deadline is set.                    *)
ControlEnds == control # "idle" ~> control = "idle"
=============================================================================

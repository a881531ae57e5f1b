---------------------------- MODULE RuntimeHandle ----------------------------
(***************************************************************************)
(* ModelRuntimeHandle (unified_runtime/handle.py) of a request-scoped      *)
(* runtime: its lifecycle, the admission of requests and frames, the       *)
(* drain barrier of reset and close, the load of the owned components with *)
(* its rollback, and their release.                                        *)
(*                                                                         *)
(* Each step is one section of the code under _condition, or one call to   *)
(* a dependency.  _control_lock lets one reset or close run at a time and  *)
(* only one load can leave CREATED, so  control  and  loader  say where    *)
(* they are.  Counters of active work are the sets of the calls they count.*)
(***************************************************************************)
EXTENDS Naturals, FiniteSets, RuntimeLifecycle

CONSTANTS
  Calls,              \* callers of execute and submit_frame
  Frames,             \* those that submit frames
  Ids,                \* request ids
  IdOf,               \* the request id of each caller
  NoCall,
  MaxActive,          \* _max_active_executions
  Size,               \* number of owned components, loaded in order 1..Size
  Resettable,         \* the assembly declares the runtime resettable
  SessionResettable,  \* the loaded session says it can be reset
  RetryFailedReset    \* assembly.retry_failed_reset

ASSUME CallAssumption ==
  /\ Frames \subseteq Calls
  /\ IdOf \in [Calls -> Ids]
  /\ NoCall \notin Calls
ASSUME ShapeAssumption ==
  /\ MaxActive \in Nat \ {0} /\ Size \in Nat \ {0}
  /\ Resettable \in BOOLEAN /\ SessionResettable \in BOOLEAN
  /\ RetryFailedReset \in BOOLEAN

VARIABLES
  lifecycle,    \* _state
  admission,    \* _admission_open
  resettable,   \* _resettable
  loading,      \* _loading
  loader,       \* where load() is
  attempted,    \* components that load() has loaded
  loaded,       \* _loaded_entries: the components 1..loaded
  released,     \* _released_ids
  resource,     \* what happened to each component
  control,      \* where the holder of _control_lock is
  previous,     \* the local "previous" of reset()
  cursor,       \* next entry that _release_entries visits
  entries,      \* the local "entries_to_release" of close()
  unloaded,     \* the local "release_unloaded" of close()
  call,         \* where each caller is
  contexts,     \* _execution_contexts
  cancelled,    \* calls whose cancellation token is set
  doubt         \* what is known of an uncertain outcome since the last reset

loadVars    == <<resettable, loading, loader, attempted>>
ownerVars   == <<loaded, released, resource, cursor>>
controlVars == <<control, previous, entries, unloaded>>
callVars    == <<call, contexts, cancelled>>
vars == <<lifecycle, admission, loadVars, ownerVars, controlVars, callVars, doubt>>

Components == 1..Size

\* The calls counted by _active_executions.
Active == {c \in Calls : call[c] # "idle"}

\* What _wait_quiescent_locked waits for in a request-scoped runtime.
Busy == Active # {} \/ loading

Init ==
  /\ lifecycle = "CREATED" /\ admission = FALSE
  /\ resettable = Resettable
  /\ loading = FALSE /\ loader = "off" /\ attempted = 0
  /\ loaded = 0 /\ released = {} /\ resource = [i \in Components |-> "raw"] /\ cursor = 0
  /\ control = "none" /\ previous = "READY" /\ entries = 0 /\ unloaded = FALSE
  /\ call = [c \in Calls |-> "idle"]
  /\ contexts = [x \in Ids |-> NoCall]
  /\ cancelled = {}
  /\ doubt = "none"

-----------------------------------------------------------------------------
(* One turn of _release_entries: the component at the cursor is skipped    *)
(* when it was released before, and released otherwise.  Any error but a   *)
(* pending one counts as released; Released leaves the cursor on the       *)
(* component below.                                                        *)

Released ==
  /\ released' = released \cup {cursor}
  /\ resource' = [resource EXCEPT ![cursor] =
                    IF cursor \in released THEN @
                    ELSE IF @ = "released" THEN "released_twice" ELSE "released"]
  /\ cursor' = cursor - 1

\* The release raised an error with close_pending: the loop stops here.
StillPending ==
  /\ cursor \notin released
  /\ UNCHANGED <<released, resource, cursor>>

-----------------------------------------------------------------------------
(* load().                                                                 *)

LoadBegin ==
  /\ lifecycle = "CREATED"
  /\ lifecycle' = "LOADING"
  /\ loading' = TRUE
  /\ loader' = "attempting"
  /\ UNCHANGED <<admission, resettable, attempted, ownerVars, controlVars, callVars, doubt>>

LoadEntry ==
  /\ loader = "attempting" /\ attempted < Size /\ lifecycle # "CLOSING"
  /\ attempted' = attempted + 1
  /\ resource' = [resource EXCEPT ![attempted + 1] = "live"]
  /\ UNCHANGED <<lifecycle, admission, resettable, loading, loader, loaded, released, cursor,
                 controlVars, callVars, doubt>>

\* A component fails to load, or close() has interrupted the load.
LoadInterrupted ==
  /\ loader = "attempting"
  /\ attempted < Size \/ lifecycle # "LOADING"
  /\ loader' = "rollback"
  /\ cursor' = attempted
  /\ UNCHANGED <<lifecycle, admission, resettable, loading, attempted, loaded, released, resource,
                 controlVars, callVars, doubt>>

\* (Mutant) The end of the load does not look at the lifecycle.
LoadDoneUnchecked ==
  /\ loader = "attempting" /\ attempted = Size
  /\ loaded' = attempted
  /\ admission' = TRUE
  /\ lifecycle' = "READY"
  /\ resettable' = (resettable \/ (RetryFailedReset /\ SessionResettable))
  /\ loader' = "loaded"
  /\ UNCHANGED <<loading, attempted, released, resource, cursor, controlVars, callVars, doubt>>

LoadDone ==
  /\ loader = "attempting" /\ attempted = Size /\ lifecycle = "LOADING"
  /\ loaded' = attempted
  /\ admission' = TRUE
  /\ lifecycle' = "READY"
  /\ resettable' = (resettable \/ (RetryFailedReset /\ SessionResettable))
  /\ loader' = "loaded"
  /\ UNCHANGED <<loading, attempted, released, resource, cursor, controlVars, callVars, doubt>>

LoadReturns ==
  /\ loader = "loaded"
  /\ loading' = FALSE
  /\ loader' = "off"
  /\ UNCHANGED <<lifecycle, admission, resettable, attempted, ownerVars, controlVars, callVars, doubt>>

RollbackEntry ==
  /\ loader = "rollback" /\ cursor > 0
  /\ \/ Released /\ UNCHANGED loader
     \/ StillPending /\ loader' = "pending"
  /\ UNCHANGED <<lifecycle, admission, resettable, loading, attempted, loaded,
                 controlVars, callVars, doubt>>

\* (Mutant) What the rollback could not release is forgotten.
LoadFailsForgetful ==
  /\ loader = "pending" \/ (loader = "rollback" /\ cursor = 0)
  /\ admission' = FALSE
  /\ lifecycle' = IF lifecycle \in {"CLOSING", "CLOSED"} THEN lifecycle ELSE "FAILED"
  /\ loading' = FALSE
  /\ loader' = "off"
  /\ UNCHANGED <<resettable, attempted, loaded, released, resource, cursor, controlVars, callVars, doubt>>

LoadFails ==
  /\ loader = "pending" \/ (loader = "rollback" /\ cursor = 0)
  /\ admission' = FALSE
  /\ loaded' = IF loader = "pending" THEN attempted ELSE loaded
  /\ lifecycle' = IF lifecycle \in {"CLOSING", "CLOSED"} THEN lifecycle ELSE "FAILED"
  /\ loading' = FALSE
  /\ loader' = "off"
  /\ UNCHANGED <<resettable, attempted, released, resource, cursor, controlVars, callVars, doubt>>

-----------------------------------------------------------------------------
(* execute() and submit_frame().                                           *)

\* (Mutant) The admission of requests forgets the lifecycle.
AdmitsRegardless(c) ==
  LET kind == IF c \in Frames THEN Frames ELSE Calls \ Frames
  IN /\ lifecycle \in {"READY", "RESETTING"}
     /\ Cardinality(Active \cap kind) < IF c \in Frames THEN 3 ELSE MaxActive
     /\ c \in Frames \/ Active \cap Frames # {} => contexts[IdOf[c]] = NoCall

\* The tests of _register_execution: lifecycle, limit of the kind, and the
\* request id when a frame is involved.
Admits(c) ==
  LET kind == IF c \in Frames THEN Frames ELSE Calls \ Frames
  IN /\ lifecycle = "READY" /\ admission
     /\ Cardinality(Active \cap kind) < IF c \in Frames THEN 3 ELSE MaxActive
     /\ c \in Frames \/ Active \cap Frames # {} => contexts[IdOf[c]] = NoCall

\* _register_execution
Register(c) ==
  /\ call[c] = "idle"
  /\ Admits(c)
  /\ call' = [call EXCEPT ![c] = "admitted"]
  /\ contexts' = [contexts EXCEPT ![IdOf[c]] = c]
  /\ cancelled' = cancelled \ {c}
  /\ UNCHANGED <<lifecycle, admission, loadVars, ownerVars, controlVars, doubt>>

\* The backend is called, unless a check or the submission fails first.
Start(c) ==
  /\ call[c] = "admitted"
  /\ \/ /\ c \in Frames \/ c \notin cancelled
        /\ call' = [call EXCEPT ![c] = "running"]
     \/ call' = [call EXCEPT ![c] = "ended"]
  /\ UNCHANGED <<lifecycle, admission, loadVars, ownerVars, controlVars, contexts, cancelled, doubt>>

\* The backend returns: with a known outcome, or started and unknown.
Return(c) ==
  /\ call[c] = "running"
  /\ \E outcome \in {"ended", "uncertain"} : call' = [call EXCEPT ![c] = outcome]
  /\ UNCHANGED <<lifecycle, admission, loadVars, ownerVars, controlVars, contexts, cancelled, doubt>>

\* Where the lifecycle goes when an outcome is uncertain.
RecoveryState == IF resettable THEN "RESET_REQUIRED" ELSE "FAILED"

\* (Mutant) The uncertain failure is only recorded.
ApplyUncertainIgnored(c) ==
  /\ call[c] = "uncertain"
  /\ call' = [call EXCEPT ![c] = "ended"]
  /\ doubt' = "open"
  /\ UNCHANGED <<lifecycle, admission, loadVars, ownerVars, controlVars, contexts, cancelled>>

\* _apply_uncertain_request_failure: ignored unless the runtime is READY.
ApplyUncertain(c) ==
  /\ call[c] = "uncertain"
  /\ lifecycle' = IF lifecycle = "READY" THEN RecoveryState ELSE lifecycle
  /\ admission' = (admission /\ lifecycle # "READY")
  /\ call' = [call EXCEPT ![c] = "ended"]
  /\ doubt' = "open"
  /\ UNCHANGED <<loadVars, ownerVars, controlVars, contexts, cancelled>>

\* _release_execution: the context is removed under its id, whoever's it is.
Release(c) ==
  /\ call[c] = "ended"
  /\ call' = [call EXCEPT ![c] = "idle"]
  /\ contexts' = [contexts EXCEPT ![IdOf[c]] = NoCall]
  /\ UNCHANGED <<lifecycle, admission, loadVars, ownerVars, controlVars, cancelled, doubt>>

\* cancel(request_id)
Cancel(x) ==
  /\ contexts[x] # NoCall
  /\ cancelled' = cancelled \cup {contexts[x]}
  /\ UNCHANGED <<lifecycle, admission, loadVars, ownerVars, controlVars, call, contexts, doubt>>

\* mark_reset_required: an outcome observed outside, once the runtime loaded.
MarkResetRequired ==
  /\ lifecycle \notin {"CREATED", "LOADING"}
  /\ lifecycle' = IF lifecycle = "READY" THEN RecoveryState ELSE lifecycle
  /\ admission' = FALSE
  /\ doubt' = "open"
  /\ UNCHANGED <<loadVars, ownerVars, controlVars, callVars>>

-----------------------------------------------------------------------------
(* reset().  A runtime that cannot be reset answers at once and changes    *)
(* nothing.                                                                *)

\* (Mutant) The drain begins with the admission still open.
ResetBeginOpen ==
  /\ control = "none" /\ resettable
  /\ lifecycle \in {"READY", "RESET_REQUIRED"}
  /\ previous' = lifecycle
  /\ control' = "reset_drain"
  /\ UNCHANGED <<lifecycle, admission, loadVars, ownerVars, entries, unloaded, callVars, doubt>>

ResetBegin ==
  /\ control = "none" /\ resettable
  /\ lifecycle \in {"READY", "RESET_REQUIRED"}
  /\ previous' = lifecycle
  /\ admission' = FALSE
  /\ lifecycle' = "RESETTING"
  /\ control' = "reset_drain"
  /\ UNCHANGED <<loadVars, ownerVars, entries, unloaded, callVars, doubt>>

\* The state from before the drain is restored, and with READY whatever was
\* uncertain in the meantime is forgotten.
ResetTimesOut ==
  /\ control = "reset_drain" /\ Busy
  /\ lifecycle' = previous
  /\ admission' = (previous = "READY")
  /\ doubt' = IF previous = "READY" /\ doubt = "open" THEN "forgotten" ELSE doubt
  /\ control' = "none"
  /\ UNCHANGED <<loadVars, ownerVars, previous, entries, unloaded, callVars>>

ResetDrained ==
  /\ control = "reset_drain" /\ ~Busy
  /\ control' = "resetting"
  /\ UNCHANGED <<lifecycle, admission, loadVars, ownerVars, previous, entries, unloaded, callVars, doubt>>

ResetDone ==
  /\ control = "resetting"
  /\ lifecycle' = "READY"
  /\ admission' = TRUE
  /\ doubt' = "none"
  /\ control' = "none"
  /\ UNCHANGED <<loadVars, ownerVars, previous, entries, unloaded, callVars>>

\* A component fails to reset, or the deadline expires before or after.
ResetFails ==
  /\ control = "resetting"
  /\ lifecycle' = IF RetryFailedReset THEN "RESET_REQUIRED" ELSE "FAILED"
  /\ admission' = FALSE
  /\ control' = "none"
  /\ UNCHANGED <<loadVars, ownerVars, previous, entries, unloaded, callVars, doubt>>

-----------------------------------------------------------------------------
(* close().                                                                *)

CloseBegin ==
  /\ control = "none" /\ lifecycle # "CLOSED"
  /\ unloaded' = \/ lifecycle = "CREATED"
                 \/ lifecycle = "CLOSING" /\ ~loading /\ loaded = 0
  /\ admission' = FALSE
  /\ lifecycle' = "CLOSING"
  /\ control' = "close_drain"
  /\ UNCHANGED <<loadVars, ownerVars, previous, entries, callVars, doubt>>

\* CLOSING is kept so that a later close can retry the drain.
CloseTimesOut ==
  /\ control = "close_drain" /\ Busy
  /\ control' = "none"
  /\ UNCHANGED <<lifecycle, admission, loadVars, ownerVars, previous, entries, unloaded, callVars, doubt>>

\* (Mutant) The drain waits for the load but not for executions.
CloseDrainedActive ==
  LET count == IF loaded > 0 THEN loaded ELSE IF unloaded THEN Size ELSE 0
  IN /\ control = "close_drain" /\ ~loading
     /\ entries' = count
     /\ cursor' = count
     /\ control' = "closing"
     /\ UNCHANGED <<lifecycle, admission, loadVars, loaded, released, resource, previous, unloaded,
                    callVars, doubt>>

CloseDrained ==
  LET count == IF loaded > 0 THEN loaded ELSE IF unloaded THEN Size ELSE 0
  IN /\ control = "close_drain" /\ ~Busy
     /\ entries' = count
     /\ cursor' = count
     /\ control' = "closing"
     /\ UNCHANGED <<lifecycle, admission, loadVars, loaded, released, resource, previous, unloaded,
                    callVars, doubt>>

\* (Mutant) The loop goes on after an error that left the resource pending.
CloseEntryGoesOn ==
  /\ control = "closing" /\ cursor > 0
  /\ \/ Released
     \/ cursor \notin released /\ cursor' = cursor - 1 /\ UNCHANGED <<released, resource>>
  /\ UNCHANGED <<loaded, control, lifecycle, admission, loadVars, previous, entries, unloaded, callVars, doubt>>

\* A pending resource keeps the entries for a later close.
CloseEntry ==
  /\ control = "closing" /\ cursor > 0
  /\ \/ Released /\ UNCHANGED <<loaded, control>>
     \/ StillPending /\ loaded' = entries /\ control' = "none"
  /\ UNCHANGED <<lifecycle, admission, loadVars, previous, entries, unloaded, callVars, doubt>>

CloseDone ==
  /\ control = "closing" /\ cursor = 0
  /\ loaded' = 0
  /\ admission' = FALSE
  /\ lifecycle' = "CLOSED"
  /\ control' = "none"
  /\ UNCHANGED <<loadVars, released, resource, cursor, previous, entries, unloaded, callVars, doubt>>

-----------------------------------------------------------------------------
LoadStep ==
  LoadEntry \/ LoadInterrupted \/ LoadDone \/ LoadReturns \/ RollbackEntry \/ LoadFails

CallStep(c) == Start(c) \/ Return(c) \/ ApplyUncertain(c) \/ Release(c)

ControlStep ==
  ResetDrained \/ ResetDone \/ ResetFails \/ CloseDrained \/ CloseEntry \/ CloseDone

Next ==
  \/ LoadBegin \/ LoadStep
  \/ \E c \in Calls : Register(c) \/ CallStep(c)
  \/ \E x \in Ids : Cancel(x)
  \/ MarkResetRequired
  \/ ResetBegin \/ ResetTimesOut \/ CloseBegin \/ CloseTimesOut
  \/ ControlStep

Spec == Init /\ [][Next]_vars

(* Calls to the backend and to the components return, and a thread that    *)
(* can run does: the drain loop looks again at least every 50 ms.  Nobody  *)
(* has to call anything, and no deadline has to expire.                    *)
Fairness ==
  /\ WF_vars(LoadStep)
  /\ WF_vars(ControlStep)
  /\ \A c \in Calls : WF_vars(CallStep(c))

FairSpec == Spec /\ Fairness

-----------------------------------------------------------------------------
TypeOK ==
  /\ lifecycle \in LifecycleStates
  /\ admission \in BOOLEAN /\ resettable \in BOOLEAN /\ loading \in BOOLEAN
  /\ unloaded \in BOOLEAN /\ doubt \in {"none", "open", "forgotten"}
  /\ loader \in {"off", "attempting", "loaded", "rollback", "pending"}
  /\ attempted \in 0..Size /\ loaded \in 0..Size /\ entries \in 0..Size /\ cursor \in 0..Size
  /\ released \subseteq Components
  /\ resource \in [Components -> {"raw", "live", "released", "released_twice"}]
  /\ control \in {"none", "reset_drain", "resetting", "close_drain", "closing"}
  /\ previous \in {"READY", "RESET_REQUIRED"}
  /\ call \in [Calls -> {"idle", "admitted", "running", "uncertain", "ended"}]
  /\ contexts \in [Ids -> Calls \cup {NoCall}]
  /\ cancelled \subseteq Calls

(* "Only READY accepts requests; the handle stops admission before reset   *)
(* and close and waits for active executions" (README.md, lifecycle): the  *)
(* handle is a drain barrier around its backend.                           *)
Gate == INSTANCE AdmissionGate WITH
  Users     <- Calls,
  open      <- lifecycle = "READY" /\ admission,
  inside    <- Active,
  exclusive <- control \in {"resetting", "closing"}
IsAdmissionGate == Gate!GateSpec

(* A request executes on a complete set of live components: none is still  *)
(* to be loaded, being rolled back or released.                            *)
RunsOnLiveComponents ==
  \A c \in Calls : call[c] = "running" => \A i \in Components : resource[i] = "live"

(* Components are released in the reverse of the order they were loaded    *)
(* in, across rollbacks, pending releases and retries: a released one      *)
(* never has a live one above it, which may use what it provided.          *)
ReverseOwnershipOrder ==
  \A i, j \in Components : i < j /\ resource[i] = "released" => resource[j] # "live"

\* No component is released twice.
ReleasedOnce == \A i \in Components : resource[i] # "released_twice"

\* A closed runtime holds nothing: every component that was loaded has been
\* released, however the load and the earlier attempts to close ended.
ClosedHoldsNothing ==
  lifecycle = "CLOSED" => \A i \in Components : resource[i] # "live"

\* No interleaving of the operations attempts a transition that
\* _transition_locked refuses, which would end an operation half-way.
OnlyLegalTransitions ==
  [][lifecycle' # lifecycle => lifecycle' \in LegalTransitions[lifecycle]]_vars

(* After an uncertain outcome the runtime does not execute again before a  *)
(* reset has completed.  The one way around it is a reset whose drain runs *)
(* into its deadline: it restores READY although an outcome has become     *)
(* uncertain while it waited.                                              *)
UncertainIsFenced == lifecycle = "READY" /\ admission => doubt # "open"

\* A reset or a close that has begun ends: the drain is not starved by new
\* requests.
ControlEnds == control # "none" ~> control = "none"
=============================================================================

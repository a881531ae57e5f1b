------------------------- MODULE ScheduledDispatcher -------------------------
(* The client of the Global scheduler on a robot:                          *)
(* src/src/action_dispatch/action_dispatch/scheduled_action_dispatcher_    *)
(* node.py, with the two stores of active_plan.py and the alignment of     *)
(* chunk_planning.py.  It owns one session at a time, asks for a chunk of  *)
(* actions when its plan runs low, executes one action per tick, and on a  *)
(* failure, a stop or a restart freezes the robot before it closes.        *)
(*                                                                         *)
(* One action is one section under _state_lock, or one answer.  The        *)
(* lifecycle lock is held by one operation at a time: operation says which *)
(* and where it is, "none" that the lock is free.  Opens are answered by a *)
(* callback that runs in several sections; openCall[n] says where that of  *)
(* session n is.  Of the scheduler the module has its answers: it may      *)
(* refuse, execute late, fail, or have its answer lost.                    *)
(*                                                                         *)
(* Left out: the admission of a runtime provider, shutdown, navigation     *)
(* mode, the deadline of readiness, and the content of actions.            *)
EXTENDS Naturals, FiniteSets

CONSTANTS
  Sessions,    \* identifiers of sessions; every Open takes a fresh one
  Requests,    \* identifiers of requests under way; bounds those not answered
  None,        \* no session, no request
  Chunk,       \* actions in the chunk of a result
  Watermark,   \* _watermark: ask for a chunk when no more actions remain
  Horizons,    \* execution horizons that a result may carry
  MaxAttempts  \* _retry_max_attempts

ASSUME DispatcherAssumption ==
  /\ None \notin Sessions \cup Requests
  /\ Chunk \in Nat \ {0} /\ Watermark \in Nat /\ MaxAttempts \in Nat
  /\ Horizons \subseteq 1..Chunk

VARIABLES
  state,        \* _state
  session,      \* _session_id
  generation,   \* _session_generation: 0 not known yet; the scheduler gives 1
  pendingOpen,  \* _pending_open_session_id
  closeAfter,   \* _close_after_open
  closing,      \* _close_in_progress
  closeOf,      \* _close_identity, of the last Close
  closeOk,      \* _close_success
  operation,    \* who holds _lifecycle_lock, and where it is
  pending,      \* _pending_failure
  drained,      \* what _drain_pending_failure has taken out
  openCall,     \* where the callback of each Open is
  inflight,     \* _inflight_request_id
  startLength,  \* _plan_length_at_inference_start
  wants,        \* the control loop has decided to ask for a chunk
  smoothing,    \* _smoothing_enabled
  plan,         \* the stores: _smoothed_plan (TRUE) and _queue_plan (FALSE)
  request,      \* where each request is
  requestOf,    \* the session it was sent for
  attempts,     \* how often it has been retried
  executed,     \* history: actions executed since its observation
  remote        \* what the scheduler has of each session

lifecycleVars == <<state, session, generation, pendingOpen, closeAfter>>
closeVars == <<closing, closeOf, closeOk>>
failureVars == <<pending, drained>>
planVars == <<startLength, smoothing, plan, executed>>
requestVars == <<request, requestOf, attempts>>
vars == <<lifecycleVars, closeVars, operation, failureVars, openCall, inflight,
          wants, planVars, requestVars, remote>>

NoFailure == [request |-> None, session |-> None, generation |-> 0]
NoClose == [session |-> None, generation |-> 0]
Idle == [kind |-> "none", phase |-> "none", safe |-> TRUE, ok |-> TRUE]
EmptyPlan == [length |-> 0, mark |-> Watermark, of |-> None]
Active == plan[smoothing]

Init ==
  /\ state = "WAITING_READY" /\ session = None /\ generation = 0
  /\ pendingOpen = None /\ closeAfter = FALSE
  /\ closing = FALSE /\ closeOf = NoClose /\ closeOk = FALSE
  /\ operation = Idle /\ pending = NoFailure /\ drained = NoFailure
  /\ openCall = [n \in Sessions |-> "unused"] /\ remote = [n \in Sessions |-> "none"]
  /\ inflight = None /\ startLength = 0 /\ executed = 0 /\ wants = FALSE
  /\ smoothing \in BOOLEAN /\ plan = [b \in BOOLEAN |-> EmptyPlan]
  /\ request = [r \in Requests |-> "done"] /\ requestOf = [r \in Requests |-> None]
  /\ attempts = [r \in Requests |-> 0]

-----------------------------------------------------------------------------
(* What several operations do.                                             *)

\* what is only read while a request is in flight is forgotten with it
ForgetRequest == inflight' = None /\ startLength' = 0 /\ executed' = 0

\* _clear_plans_locked and _clear_inflight_locked
ClearPlans == plan' = [b \in BOOLEAN |-> EmptyPlan] /\ ForgetRequest

Current(r) == state = "ACTIVE" /\ inflight = r /\ requestOf[r] = session /\ generation = 1

\* the section of _open_admitted_session and the Open it sends
Open(n) ==
  /\ openCall[n] = "unused"
  /\ state' = "OPENING" /\ session' = n /\ pendingOpen' = n /\ closeAfter' = FALSE
  /\ openCall' = [openCall EXCEPT ![n] = "sent"]
  /\ remote' = [remote EXCEPT ![n] = "pending"]
  /\ ClearPlans
  /\ UNCHANGED <<generation, closeVars, failureVars, wants, smoothing, requestVars>>

\* _begin_close_session for a session that is there
BeginClose ==
  /\ ClearPlans
  /\ closing' = TRUE
  /\ IF closing THEN UNCHANGED <<state, closeOf, closeOk>>
     ELSE /\ state' = "CLOSING" /\ closeOk' = FALSE
          /\ closeOf' = [session |-> session, generation |-> generation]

\* the freeze of _safe_stop
Freeze ==
  /\ state' = IF state \in {"STOPPED", "FAILED"} THEN state ELSE "CLOSING"
  /\ ClearPlans
  /\ UNCHANGED <<session, generation, pendingOpen, closeAfter, closeVars, wants, smoothing, remote>>

\* a failure still concerns the dispatcher
Concerns(f) ==
  /\ session = f.session /\ generation = f.generation
  /\ f.request # None => Current(f.request)

\* (Mutant) A failure that finds the lifecycle lock taken is dropped.
TryFailureOrDrop(f) ==
  \/ /\ ~Concerns(f) \/ operation.kind # "none" \/ (f.request = None /\ state = "FAILED")
     /\ UNCHANGED <<lifecycleVars, closeVars, operation, pending, inflight, wants, planVars, remote>>
  \/ /\ Concerns(f) /\ operation.kind = "none"
     /\ f.request # None \/ state # "FAILED"
     /\ operation' = [Idle EXCEPT !.kind = "fail", !.phase = "frozen"]
     /\ Freeze
     /\ UNCHANGED pending

\* _try_failure: a failure that still concerns the dispatcher takes the
\* lifecycle lock and freezes, or waits in the mailbox for the lock
TryFailure(f) ==
  \/ /\ ~Concerns(f) \/ (operation.kind = "none" /\ f.request = None /\ state = "FAILED")
     /\ UNCHANGED <<lifecycleVars, closeVars, operation, pending, inflight, wants, planVars, remote>>
  \/ /\ Concerns(f) /\ operation.kind # "none"
     /\ pending' = f
     /\ UNCHANGED <<lifecycleVars, closeVars, operation, inflight, wants, planVars, remote>>
  \/ /\ Concerns(f) /\ operation.kind = "none"
     /\ f.request # None \/ state # "FAILED"
     /\ operation' = [Idle EXCEPT !.kind = "fail", !.phase = "frozen"]
     /\ Freeze
     /\ UNCHANGED pending

-----------------------------------------------------------------------------
(* The lifecycle services.                                                 *)

\* _readiness_poll: the scheduler has answered that it is ready
ReadinessOpens(n) == state = "WAITING_READY" /\ Open(n) /\ UNCHANGED operation

StartOpens(n) ==
  /\ operation.kind = "none" /\ state = "STOPPED"
  /\ operation' = [Idle EXCEPT !.kind = "start", !.phase = "opening"]
  /\ Open(n)

\* a restart needs a session to open at its end
Stops(kind) ==
  /\ operation.kind = "none"
  /\ kind = "restart" => \E n \in Sessions : openCall[n] = "unused"
  /\ operation' = [Idle EXCEPT !.kind = kind, !.phase = "frozen"]
  /\ Freeze
  /\ UNCHANGED <<failureVars, openCall, requestVars>>

\* the rest of _safe_stop and the first section of _close_session_sync
Settle ==
  /\ operation.phase = "frozen"
  /\ ClearPlans
  /\ \E safe \in BOOLEAN :
       IF session # None /\ pendingOpen = session /\ generation = 0
       THEN /\ closeAfter' = TRUE /\ state' = "CLOSING"
            /\ operation' = [operation EXCEPT !.phase = "settling", !.safe = safe]
       ELSE /\ operation' = [operation EXCEPT !.phase = "settled", !.safe = safe]
            /\ UNCHANGED <<closeAfter, state>>
  /\ UNCHANGED <<session, generation, pendingOpen, closeVars, failureVars, openCall, wants,
                 smoothing, requestVars, remote>>

\* the wait for the Open of a session is over; Close it
OperationCloses ==
  /\ operation.phase = "settled" \/ (operation.phase = "settling" /\ pendingOpen = None)
  /\ IF session = None
     THEN /\ ClearPlans
          /\ operation' = [operation EXCEPT !.phase = "ending"]
          /\ UNCHANGED <<state, closeVars>>
     ELSE /\ BeginClose
          /\ operation' = [operation EXCEPT !.phase = "closing"]
  /\ UNCHANGED <<session, generation, pendingOpen, closeAfter, failureVars, openCall, wants,
                 smoothing, requestVars, remote>>

\* the operation is woken by the end of the Close and reads how it went
OperationClosed ==
  /\ operation.phase = "closed"
  /\ operation' = [operation EXCEPT !.phase = "ending", !.ok = closeOk]
  /\ UNCHANGED <<lifecycleVars, closeVars, failureVars, openCall, inflight, wants, planVars,
                 requestVars, remote>>

\* a wait of _close_session_sync runs into its timeout
OperationTimesOut ==
  /\ operation.phase \in {"settling", "closing"}
  /\ operation' = [operation EXCEPT !.phase = "ending", !.ok = FALSE]
  /\ UNCHANGED <<lifecycleVars, closeVars, failureVars, openCall, inflight, wants, planVars,
                 requestVars, remote>>

Clean == operation.safe /\ operation.ok

OperationEnds ==
  /\ operation.phase = "ending" /\ ~(operation.kind = "restart" /\ Clean)
  /\ state' = IF operation.kind = "stop" /\ Clean THEN "STOPPED" ELSE "FAILED"
  /\ operation' = Idle
  /\ IF operation.kind = "restart" THEN plan' = [b \in BOOLEAN |-> EmptyPlan]
     ELSE UNCHANGED plan
  /\ UNCHANGED <<session, generation, pendingOpen, closeAfter, closeVars, failureVars, openCall,
                 inflight, wants, startLength, smoothing, executed, requestVars, remote>>

RestartOpens(n) ==
  /\ operation.phase = "ending" /\ operation.kind = "restart" /\ Clean
  /\ operation' = [operation EXCEPT !.phase = "opening"]
  /\ Open(n)

\* start and restart return when the Open has completed, or time out
OpenWaitEnds ==
  /\ operation.phase = "opening" /\ operation' = Idle
  /\ UNCHANGED <<lifecycleVars, closeVars, failureVars, openCall, inflight, wants, planVars,
                 requestVars, remote>>
OperationStep ==
  \/ Settle \/ OperationCloses \/ OperationClosed \/ OperationEnds
  \/ \E n \in Sessions : RestartOpens(n)
  \/ pendingOpen = None /\ OpenWaitEnds

-----------------------------------------------------------------------------
(* The callback of an Open.                                                *)

Tracks(n) == pendingOpen = n /\ session = n

\* (Mutant) Only a stop that waits for the Open keeps it from becoming ACTIVE.
OpenSucceedsLate(n) ==
  /\ openCall[n] = "sent" /\ remote[n] \in {"open", "closed"}
  /\ IF ~Tracks(n)
     THEN /\ openCall' = [openCall EXCEPT ![n] = "answered"]
          /\ UNCHANGED <<state, generation>>
     ELSE /\ generation' = 1
          /\ IF closeAfter
             THEN /\ openCall' = [openCall EXCEPT ![n] = "late"]
                  /\ UNCHANGED state
             ELSE /\ openCall' = [openCall EXCEPT ![n] = "answered"]
                  /\ state' = "ACTIVE"
  /\ UNCHANGED <<session, pendingOpen, closeAfter, closeVars, operation, failureVars, inflight,
                 wants, planVars, requestVars, remote>>

OpenSucceeds(n) ==
  /\ openCall[n] = "sent" /\ remote[n] \in {"open", "closed"}
  /\ IF ~Tracks(n)
     THEN /\ openCall' = [openCall EXCEPT ![n] = "answered"]
          /\ UNCHANGED <<state, generation>>
     ELSE /\ generation' = 1
          /\ IF closeAfter \/ state # "OPENING"
             THEN /\ openCall' = [openCall EXCEPT ![n] = "late"]
                  /\ UNCHANGED state
             ELSE /\ openCall' = [openCall EXCEPT ![n] = "answered"]
                  /\ state' = "ACTIVE"
  /\ UNCHANGED <<session, pendingOpen, closeAfter, closeVars, operation, failureVars, inflight,
                 wants, planVars, requestVars, remote>>

\* (Mutant) Nobody who waits for the Open is told.
OpenNotStartedQuietly(n) ==
  /\ openCall[n] = "sent" /\ remote[n] = "refused"
  /\ openCall' = [openCall EXCEPT ![n] = "done"]
  /\ IF Tracks(n)
     THEN /\ state' = IF state = "OPENING" THEN "STOPPED" ELSE state
          /\ session' = None /\ generation' = 0 /\ closeAfter' = FALSE
     ELSE UNCHANGED <<state, session, generation, closeAfter>>
  /\ UNCHANGED <<pendingOpen, closeVars, operation, failureVars, inflight, wants, planVars,
                 requestVars, remote>>

OpenNotStarted(n) ==
  /\ openCall[n] = "sent" /\ remote[n] = "refused"
  /\ openCall' = [openCall EXCEPT ![n] = "answered"]
  /\ IF Tracks(n)
     THEN /\ state' = IF state = "OPENING" THEN "STOPPED" ELSE state
          /\ session' = None /\ generation' = 0 /\ closeAfter' = FALSE
     ELSE UNCHANGED <<state, session, generation, closeAfter>>
  /\ UNCHANGED <<pendingOpen, closeVars, operation, failureVars, inflight, wants, planVars,
                 requestVars, remote>>

\* the answer is lost, or tells of a failure whose effect is not known
OpenUnknown(n) ==
  /\ openCall[n] = "sent"
  /\ openCall' = [openCall EXCEPT ![n] = IF Tracks(n) THEN "lost" ELSE "answered"]
  /\ UNCHANGED <<lifecycleVars, closeVars, operation, failureVars, inflight, wants, planVars,
                 requestVars, remote>>

\* _complete_pending_open wakes those who wait for the Open, before anything
\* else that the callback does
CompleteOpen(n) ==
  /\ openCall[n] \in {"answered", "late", "lost"}
  /\ openCall' = [openCall EXCEPT ![n] =
                    CASE @ = "answered" -> "done" [] @ = "late" -> "compensating" [] @ = "lost" -> "failing"]
  /\ pendingOpen' = IF pendingOpen = n THEN None ELSE pendingOpen
  /\ UNCHANGED <<state, session, generation, closeAfter, closeVars, operation, failureVars, inflight,
                 wants, planVars, requestVars, remote>>

\* the session came too late: Close it, unless it is gone or was replaced
Compensate(n) ==
  /\ openCall[n] = "compensating"
  /\ openCall' = [openCall EXCEPT ![n] = "done"]
  /\ IF session = n /\ generation = 1 THEN BeginClose
     ELSE UNCHANGED <<state, closeVars, inflight, startLength, plan, executed>>
  /\ UNCHANGED <<session, generation, pendingOpen, closeAfter, operation, failureVars, wants,
                 smoothing, requestVars, remote>>

\* _fail_and_close for the Open of session n
OpenFails(n) ==
  /\ openCall[n] = "failing"
  /\ openCall' = [openCall EXCEPT ![n] = "failed"]
  /\ TryFailure([request |-> None, session |-> n, generation |-> generation])
  /\ UNCHANGED <<drained, requestVars>>

OpenWork(n) ==
  OpenSucceeds(n) \/ OpenNotStarted(n) \/ OpenUnknown(n) \/ CompleteOpen(n) \/ Compensate(n) \/ OpenFails(n)

-----------------------------------------------------------------------------
(* The end of a Close, and the mailbox of failures.                        *)

\* (Mutant) The session is forgotten however its Close went.
FinishCloseAnyway(ok) ==
  /\ closing /\ closing' = FALSE /\ closeOk' = ok /\ closeAfter' = FALSE
  /\ closeOf' = NoClose
  /\ IF session = closeOf.session /\ closeOf.generation \in {0, generation}
     THEN session' = None /\ generation' = 0
     ELSE UNCHANGED <<session, generation>>
  /\ operation' = IF operation.phase = "closing" THEN [operation EXCEPT !.phase = "closed"] ELSE operation
  /\ UNCHANGED <<state, pendingOpen, failureVars, openCall, inflight, wants, planVars, requestVars>>

\* _finish_close_session
FinishClose(ok) ==
  /\ closing /\ closing' = FALSE /\ closeOk' = ok /\ closeAfter' = FALSE
  /\ closeOf' = NoClose
  /\ IF ok /\ session = closeOf.session /\ closeOf.generation \in {0, generation}
     THEN session' = None /\ generation' = 0
     ELSE UNCHANGED <<session, generation>>
  /\ operation' = IF operation.phase = "closing" THEN [operation EXCEPT !.phase = "closed"] ELSE operation
  /\ UNCHANGED <<state, pendingOpen, failureVars, openCall, inflight, wants, planVars, requestVars>>

CloseSucceeds ==
  /\ FinishClose(TRUE)
  /\ remote[closeOf.session] \in {"open", "closed"}
  /\ remote' = [remote EXCEPT ![closeOf.session] = "closed"]

\* it fails, or has its answer lost
CloseFails ==
  /\ FinishClose(FALSE)
  /\ \/ UNCHANGED remote
     \/ /\ remote[closeOf.session] = "open"
        /\ remote' = [remote EXCEPT ![closeOf.session] = "closed"]

\* _drain_pending_failure, every 10 ms
DrainFailure ==
  /\ pending # NoFailure /\ drained = NoFailure
  /\ drained' = pending /\ pending' = NoFailure
  /\ UNCHANGED <<lifecycleVars, closeVars, operation, openCall, inflight, wants, planVars, requestVars, remote>>
RetryFailure ==
  /\ drained # NoFailure
  /\ drained' = NoFailure
  /\ TryFailure(drained)
  /\ UNCHANGED <<openCall, requestVars>>

-----------------------------------------------------------------------------
(* The control loop and its requests.                                      *)

\* (Mutant) A plan that has come down to its watermark is not low yet.
TickBelow ==
  /\ ~wants /\ state = "ACTIVE"
  /\ Active.length < Active.mark /\ inflight = None
  /\ wants' = TRUE
  /\ UNCHANGED <<lifecycleVars, closeVars, operation, failureVars, openCall, inflight, planVars,
                 requestVars, remote>>

\* _control_loop: the first section
Tick ==
  /\ ~wants /\ state = "ACTIVE"
  /\ Active.length <= Active.mark /\ inflight = None
  /\ wants' = TRUE
  /\ UNCHANGED <<lifecycleVars, closeVars, operation, failureVars, openCall, inflight, planVars,
                 requestVars, remote>>

Free(r) ==
  /\ request[r] \in {"done", "failed"} /\ inflight # r
  /\ pending.request # r /\ drained.request # r

\* _request_dispatch of the control loop
RequestDispatch ==
  /\ wants /\ wants' = FALSE
  /\ IF state = "ACTIVE" /\ inflight = None
     THEN \E r \in Requests :
       /\ Free(r)
       /\ inflight' = r /\ startLength' = Active.length /\ executed' = 0
       /\ request' = [request EXCEPT ![r] = "sent"]
       /\ requestOf' = [requestOf EXCEPT ![r] = session]
       /\ attempts' = [attempts EXCEPT ![r] = 0]
     ELSE UNCHANGED <<inflight, startLength, executed, requestVars>>
  /\ UNCHANGED <<lifecycleVars, closeVars, operation, failureVars, openCall, smoothing, plan, remote>>

\* _execute_next_action
Execute ==
  /\ ~wants /\ state = "ACTIVE" /\ Active.length > 0
  /\ plan' = [plan EXCEPT ![smoothing].length = @ - 1]
  /\ executed' = IF inflight = None THEN executed ELSE executed + 1
  /\ UNCHANGED <<lifecycleVars, closeVars, operation, failureVars, openCall, inflight, wants,
                 startLength, smoothing, requestVars, remote>>

\* _toggle_smoothing_cb: a disabled smoother is discarded, the queue is kept
Toggle ==
  /\ smoothing' = ~smoothing
  /\ plan' = IF smoothing THEN [plan EXCEPT ![TRUE] = EmptyPlan] ELSE plan
  /\ startLength' = IF inflight = None THEN startLength
                    ELSE startLength + plan[~smoothing].length - Active.length
  /\ UNCHANGED <<lifecycleVars, closeVars, operation, failureVars, openCall, inflight, wants,
                 executed, requestVars, remote>>

Forget(r) ==
  /\ request' = [request EXCEPT ![r] = "done"]
  /\ requestOf' = [requestOf EXCEPT ![r] = None]
  /\ attempts' = [attempts EXCEPT ![r] = 0]
Drop(r) ==
  /\ Forget(r)
  /\ UNCHANGED <<lifecycleVars, closeVars, operation, failureVars, openCall, inflight, wants,
                 planVars, remote>>

\* _fail_current_request
RequestFails(r) ==
  /\ request' = [request EXCEPT ![r] = "failed"]
  /\ TryFailure([request |-> r, session |-> session, generation |-> generation])
  /\ UNCHANGED <<drained, openCall, requestOf, attempts>>

\* the result of a request that is still current is decoded without the lock
ResultArrives(r) ==
  /\ request[r] = "sent" /\ Current(r)
  /\ request' = [request EXCEPT ![r] = "decoding"]
  /\ UNCHANGED <<lifecycleVars, closeVars, operation, failureVars, openCall, inflight, wants,
                 planVars, requestOf, attempts, remote>>

\* the actions executed since the observation are skipped; a horizon, unless
\* it is 0, cuts the chunk short and has the next one requested only when it
\* is used up
Skipped == IF startLength > Active.length THEN startLength - Active.length ELSE 0
Least(a, b) == IF a < b THEN a ELSE b
Stop(h) == IF h = 0 THEN Chunk ELSE h
Planned(r, h) ==
  [length |-> Stop(h) - Least(Skipped, Stop(h)),
   mark |-> IF h = 0 THEN Watermark ELSE 0, of |-> requestOf[r]]

\* (Mutant) The result is not compared once more after the decoding.
AcceptUnchecked(r) ==
  /\ request[r] = "decoding"
  /\ \E h \in Horizons \cup {0} : plan' = [plan EXCEPT ![smoothing] = Planned(r, h)]
  /\ ForgetRequest /\ Forget(r)
  /\ UNCHANGED <<lifecycleVars, closeVars, operation, failureVars, openCall, wants, smoothing, remote>>

\* the second section of _enqueue_chunk
Accept(r) ==
  /\ request[r] = "decoding" /\ Current(r)
  /\ \E h \in Horizons \cup {0} : plan' = [plan EXCEPT ![smoothing] = Planned(r, h)]
  /\ ForgetRequest /\ Forget(r)
  /\ UNCHANGED <<lifecycleVars, closeVars, operation, failureVars, openCall, wants, smoothing, remote>>

\* a recoverable NOT_STARTED is tried again after a pause
ResultNotStarted(r) ==
  /\ request[r] = "sent" /\ Current(r) /\ attempts[r] < MaxAttempts
  /\ request' = [request EXCEPT ![r] = "waiting"]
  /\ UNCHANGED <<lifecycleVars, closeVars, operation, failureVars, openCall, inflight, wants,
                 planVars, requestOf, attempts, remote>>

\* (Mutant) A retry starts to count the executed actions anew.
RetryFromHere(r) ==
  /\ request[r] = "waiting" /\ state = "ACTIVE" /\ inflight = r
  /\ request' = [request EXCEPT ![r] = "sent"]
  /\ requestOf' = [requestOf EXCEPT ![r] = session]
  /\ attempts' = [attempts EXCEPT ![r] = @ + 1]
  /\ startLength' = Active.length
  /\ UNCHANGED <<lifecycleVars, closeVars, operation, failureVars, openCall, inflight, wants,
                 smoothing, plan, executed, remote>>

\* _request_dispatch of the retry timer: a new identifier for the observation
\* and the deadline of the old one, of which nothing is under way any more
Retry(r) ==
  /\ request[r] = "waiting" /\ state = "ACTIVE" /\ inflight = r
  /\ request' = [request EXCEPT ![r] = "sent"]
  /\ requestOf' = [requestOf EXCEPT ![r] = session]
  /\ attempts' = [attempts EXCEPT ![r] = @ + 1]
  /\ UNCHANGED <<lifecycleVars, closeVars, operation, failureVars, openCall, inflight, wants,
                 planVars, remote>>
RetryDropped(r) ==
  /\ request[r] = "waiting" /\ ~(state = "ACTIVE" /\ inflight = r)
  /\ Forget(r)
  /\ IF inflight = r THEN ForgetRequest ELSE UNCHANGED <<inflight, startLength, executed>>
  /\ UNCHANGED <<lifecycleVars, closeVars, operation, failureVars, openCall, wants, smoothing,
                 plan, remote>>

\* the answer is a failure, UNKNOWN, rejected or not to be retried; the chunk
\* is not valid; or the deadline has passed before the retry
Failing(r) == request[r] \in {"sent", "decoding", "waiting"} /\ Current(r)

RequestWork(r) ==
  \/ ResultArrives(r) \/ Accept(r) \/ ResultNotStarted(r) \/ Retry(r) \/ RetryDropped(r)
  \/ Failing(r) /\ RequestFails(r)
  \/ request[r] \in {"sent", "decoding"} /\ ~Current(r) /\ Drop(r)

-----------------------------------------------------------------------------
(* The scheduler.                                                          *)

Serve(n) ==
  /\ remote[n] = "pending"
  /\ \E answer \in {"open", "refused"} : remote' = [remote EXCEPT ![n] = answer]
  /\ UNCHANGED <<lifecycleVars, closeVars, operation, failureVars, openCall, inflight, wants,
                 planVars, requestVars>>

Next ==
  \/ \E n \in Sessions : ReadinessOpens(n) \/ StartOpens(n) \/ OpenWork(n) \/ Serve(n)
  \/ Stops("stop") \/ Stops("restart")
  \/ OperationStep \/ OperationTimesOut \/ OpenWaitEnds
  \/ CloseSucceeds \/ CloseFails \/ DrainFailure \/ RetryFailure
  \/ Tick \/ RequestDispatch \/ Execute \/ Toggle
  \/ \E r \in Requests : RequestWork(r)

Spec == Init /\ [][Next]_vars

\* the scheduler answers, if only with the loss of the answer, and the threads
\* of the operations, the callbacks, the timers and the control loop run
FairSpec ==
  /\ Spec
  /\ \A n \in Sessions : WF_vars(OpenWork(n))
  /\ WF_vars(OperationStep) /\ WF_vars(CloseSucceeds \/ CloseFails)
  /\ WF_vars(DrainFailure \/ RetryFailure) /\ WF_vars(Tick \/ RequestDispatch)
  /\ \A r \in Requests : WF_vars(RequestWork(r))

-----------------------------------------------------------------------------
States == {"WAITING_READY", "OPENING", "ACTIVE", "CLOSING", "STOPPED", "FAILED"}
Phases == {"none", "opening", "frozen", "settling", "settled", "closing", "closed", "ending"}
Failures ==
  [request : Requests \cup {None}, session : Sessions \cup {None}, generation : {0, 1}]

TypeOK ==
  /\ state \in States /\ session \in Sessions \cup {None} /\ generation \in {0, 1}
  /\ pendingOpen \in Sessions \cup {None} /\ closeAfter \in BOOLEAN
  /\ closing \in BOOLEAN /\ closeOk \in BOOLEAN
  /\ closeOf \in [session : Sessions \cup {None}, generation : {0, 1}]
  /\ operation \in [kind : {"none", "start", "stop", "restart", "fail"}, phase : Phases,
                    safe : BOOLEAN, ok : BOOLEAN]
  /\ pending \in Failures /\ drained \in Failures
  /\ openCall \in [Sessions -> {"unused", "sent", "answered", "late", "lost", "compensating",
                                "failing", "failed", "done"}]
  /\ remote \in [Sessions -> {"none", "pending", "refused", "open", "closed"}]
  /\ inflight \in Requests \cup {None} /\ startLength \in Nat /\ executed \in Nat
  /\ wants \in BOOLEAN /\ smoothing \in BOOLEAN
  /\ plan \in [BOOLEAN -> [length : 0..Chunk, mark : {0, Watermark}, of : Sessions \cup {None}]]
  /\ request \in [Requests -> {"sent", "decoding", "waiting", "failed", "done"}]
  /\ requestOf \in [Requests -> Sessions \cup {None}]
  /\ attempts \in [Requests -> 0..MaxAttempts]

(* Every session that the scheduler has, or may come to have, is the one   *)
(* the dispatcher has on record, and a dispatcher that is STOPPED has left *)
(* none behind: whatever answers come late, are lost, or cross a stop.     *)
NoOrphanSession ==
  /\ \A n \in Sessions : remote[n] \in {"pending", "open"} => session = n
  /\ state = "STOPPED" => session = None

(* From the freeze of a stop, a restart or a failure to the next Open      *)
(* nothing makes the dispatcher ACTIVE, an Open that succeeds meanwhile    *)
(* included, and no plan is left that it could execute.                    *)
FrozenUntilOpened ==
  operation.kind \in {"stop", "restart", "fail"} /\ operation.phase # "opening" =>
    /\ state \notin {"OPENING", "ACTIVE"}
    /\ inflight = None /\ \A b \in BOOLEAN : plan[b].length = 0

(* A plan comes from the session that is on record: a chunk that was under *)
(* way, or being decoded, when the session ended is not executed.          *)
PlanIsCurrent == \A b \in BOOLEAN : plan[b].length > 0 => plan[b].of = session

(* What Accept skips is what was executed since the observation, across    *)
(* retries and toggles in between.                                         *)
SkipsWhatWasExecuted == inflight # None => startLength = Active.length + executed

(* A failure of the current request, or of the Open of the session, ends   *)
(* the request, or the session, even if the lifecycle lock was taken.      *)
FailureIsHandled ==
  /\ \A r \in Requests : request[r] = "failed" ~> ~Current(r)
  /\ \A n \in Sessions : openCall[n] = "failed" ~> (session # n \/ state = "FAILED")

(* Operations end, without their timeouts, as long as the scheduler        *)
(* answers.                                                                *)
OperationsEnd == operation.kind # "none" ~> operation.kind = "none"

(* An ACTIVE dispatcher that has run out of actions gets new ones, or      *)
(* fails: it does not hold the last action for ever.                       *)
PlansKeepComing == (state = "ACTIVE" /\ Active.length = 0) ~> (state # "ACTIVE" \/ Active.length > 0)
=============================================================================

---------------------------- MODULE GlobalSessions ----------------------------
(***************************************************************************)
(* The logical sessions of the Global scheduler and their bindings of      *)
(* pipelines (scheduler/global_scheduler_core.py), with the threads of     *)
(* global_inference_scheduler_node.py that drive them: dispatches, which   *)
(* bind a pipeline lazily, Closes, which drain a session, the cleanup of   *)
(* an Open that is accepted too late, and the status callback, which       *)
(* reconciles with a restarted pipeline process.                           *)
(*                                                                         *)
(* Every method of the core runs under its lock and is one action; between *)
(* two of them the other threads run.  A thread reads an answer and hands  *)
(* it to the core in one step, since the answer no longer changes.         *)
(*                                                                         *)
(* Of the pipeline processes this module has what ScheduledPipeline models *)
(* in detail (pipeline_policy_node.py, _scheduled_*_once): one binding at  *)
(* a time, everything of another boot refused, and a Close that succeeds   *)
(* leaves its binding drained. Goals to them may be executed at any later  *)
(* time or never, and their answers may be lost.                           *)
(*                                                                         *)
(* A dispatch opens at most one binding of a pipeline and a session holds  *)
(* at most one binding of a pipeline, so the dispatch stands for the id of *)
(* the bindings it creates.  Session ids are not used again.               *)
(***************************************************************************)
EXTENDS Naturals

CONSTANTS
  Sessions,
  Pipelines,
  Dispatches,   \* threads of ScheduledDispatchInfer goals
  SessionOf,    \* the session each dispatch is for
  Closers,      \* threads that execute _close_once: goals and sweeps
  Nobody,       \* no session, binding or pipeline
  MaxBoot       \* bound: processes of a pipeline

ASSUME NobodyAssumption ==
  Nobody \notin Sessions /\ Nobody \notin Dispatches /\ Nobody \notin Pipelines
ASSUME SessionOfAssumption == SessionOf \in [Dispatches -> Sessions]

VARIABLES
  session,         \* state of each SessionRecord, "NONE" before and "GONE" after it
  binding,         \* state of the binding of a session to a pipeline
  bindingId,       \* its binding_id: the dispatch that created it
  bindingBoot,     \* its expected_boot_id
  closeRequested,  \* sessions with close_requested
  retryPending,    \* sessions with close_retry_pending
  unresolved,      \* sessions with unresolved_cleanup
  terminal,        \* keys of _session_terminal_ns
  inFlight,        \* in_flight_requests of all sessions, by dispatch
  quarantined,     \* _quarantined_pipelines
  status,          \* boot of the last message in _serving_status
  trusted,         \* boot in _trusted_status_cursors
  pc,              \* where each dispatch is
  at,              \* the candidate it is trying
  left,            \* the candidates of its plan it has not tried
  seen,            \* the boot it has read for its candidate
  unknown,         \* dispatches that answered UNKNOWN
  open,            \* its Open goal of the candidate
  late,            \* dispatches that gave up waiting for the goal's acceptance
  cleanup,         \* the Close goal of _cleanup_late_open
  close,           \* where each closer is
  subject,         \* the session it closes
  calling,         \* the pipeline it is calling
  copy,            \* ids of the bindings close_bindings returned to it
  copyBoot,        \* and their boots
  goal,            \* its Close goal of each pipeline
  failure,         \* what went wrong with its Close goals so far
  completed,       \* closers that answered COMPLETED
  boot,            \* the running process of each pipeline
  served,          \* the binding the process serves
  drained          \* the last binding it drained

flagVars     == <<closeRequested, retryPending, unresolved, terminal>>
bindingVars  == <<binding, bindingId, bindingBoot>>
coreVars     == <<session, bindingVars, flagVars, inFlight, quarantined>>
statusVars   == <<status, trusted>>
dispatchVars == <<pc, at, left, seen, unknown>>
openVars     == <<open, late, cleanup>>
runVars      == <<subject, calling, copy, copyBoot, goal, failure, completed>>
closeVars    == <<close, runVars>>
pipelineVars == <<boot, served, drained>>
vars == <<coreVars, statusVars, dispatchVars, openVars, closeVars, pipelineVars>>

SessionStates == {"NONE", "ACTIVE", "CLOSING", "CLOSED", "QUARANTINED", "GONE"}
BindingStates == {"NONE", "OPENING", "ACTIVE", "CLOSING", "QUARANTINED"}
DispatchStages ==
  {"idle", "next", "observed", "waiting", "reobserved", "prepared", "opening",
   "bound", "dispatching", "leaving", "done"}
CloseStages == {"idle", "settling", "expired", "settled", "draining", "calling", "done"}
GoalStates == {"none", "sent", "succeeded", "failed", "refused"}

-----------------------------------------------------------------------------
(* Helpers of the core.                                                    *)

Known(s) == session[s] \notin {"NONE", "GONE"}
Busy(s) == \E d \in inFlight : SessionOf[d] = s
Bound(s, p) == binding[s][p] # "NONE"
HasBindings(s) == \E p \in Pipelines : Bound(s, p)

OwnedByOther(p, s) == \E r \in Sessions \ {s} : Bound(r, p)

\* _retain_drained_failure_locked, the last thing a method does; u is the
\* set of sessions with unresolved_cleanup it has come to.
RetainDrainedFailure(s, u) ==
  IF /\ session'[s] = "QUARANTINED"
     /\ \A p \in Pipelines : binding'[s][p] = "NONE"
     /\ \A d \in inFlight' : SessionOf[d] # s
  THEN unresolved' = u \ {s} /\ terminal' = terminal \cup {s}
  ELSE unresolved' = u /\ terminal' = terminal

Forget(s, p) ==
  /\ binding' = [binding EXCEPT ![s][p] = "NONE"]
  /\ bindingId' = [bindingId EXCEPT ![s][p] = Nobody]
  /\ bindingBoot' = [bindingBoot EXCEPT ![s][p] = 0]

\* mark_session_failed: P are the pipelines it names.
MarkSessionFailed(s, P) ==
  IF Known(s)
  THEN /\ session' = [session EXCEPT ![s] = "QUARANTINED"]
       /\ unresolved' = unresolved \cup {s}
       /\ binding' = [binding EXCEPT ![s] = [p \in Pipelines |->
            IF p \in P /\ Bound(s, p) THEN "QUARANTINED" ELSE binding[s][p]]]
       /\ quarantined' = quarantined \cup {p \in P : Bound(s, p)}
       /\ UNCHANGED <<bindingId, bindingBoot, closeRequested, retryPending, terminal,
                      inFlight>>
  ELSE UNCHANGED coreVars

\* record_binding_close_success, for whichever binding of the pipeline.
RecordBindingClosed(s, p) ==
  IF Known(s)
  THEN /\ Forget(s, p)
       /\ UNCHANGED <<session, closeRequested, retryPending, inFlight>>
       /\ RetainDrainedFailure(s, unresolved)
       /\ quarantined' =
            IF \E r \in unresolved' : binding'[r][p] # "NONE"
            THEN quarantined ELSE quarantined \ {p}
  ELSE UNCHANGED coreVars

\* record_close_complete: success=True, or success=False, unresolved=True.
RecordCloseComplete(s, success) ==
  IF ~Known(s) THEN UNCHANGED coreVars
  ELSE
  /\ UNCHANGED <<bindingVars, closeRequested, retryPending, inFlight, quarantined>>
  /\ IF success /\ ~HasBindings(s) /\ ~Busy(s)
     THEN /\ session' = [session EXCEPT ![s] = "CLOSED"]
          /\ unresolved' = unresolved \ {s}
          /\ terminal' = terminal \cup {s}
     ELSE /\ session' = [session EXCEPT ![s] = "QUARANTINED"]
          /\ IF ~success \/ HasBindings(s)
             THEN unresolved' = unresolved \cup {s} /\ UNCHANGED terminal
             ELSE RetainDrainedFailure(s, unresolved \ {s})

-----------------------------------------------------------------------------
Init ==
  /\ session = [s \in Sessions |-> "NONE"]
  /\ binding = [s \in Sessions |-> [p \in Pipelines |-> "NONE"]]
  /\ bindingId = [s \in Sessions |-> [p \in Pipelines |-> Nobody]]
  /\ bindingBoot = [s \in Sessions |-> [p \in Pipelines |-> 0]]
  /\ closeRequested = {} /\ retryPending = {} /\ unresolved = {} /\ terminal = {}
  /\ inFlight = {} /\ quarantined = {}
  /\ status = [p \in Pipelines |-> 1] /\ trusted = [p \in Pipelines |-> 1]
  /\ pc = [d \in Dispatches |-> "idle"]
  /\ at = [d \in Dispatches |-> Nobody]
  /\ left = [d \in Dispatches |-> {}]
  /\ seen = [d \in Dispatches |-> 0]
  /\ unknown = {}
  /\ open = [d \in Dispatches |-> "none"]
  /\ late = {}
  /\ cleanup = [d \in Dispatches |-> "none"]
  /\ close = [c \in Closers |-> "idle"]
  /\ subject = [c \in Closers |-> Nobody]
  /\ calling = [c \in Closers |-> Nobody]
  /\ copy = [c \in Closers |-> [p \in Pipelines |-> Nobody]]
  /\ copyBoot = [c \in Closers |-> [p \in Pipelines |-> 0]]
  /\ goal = [c \in Closers |-> [p \in Pipelines |-> "none"]]
  /\ failure = [c \in Closers |-> {}]
  /\ completed = {}
  /\ boot = [p \in Pipelines |-> 1]
  /\ served = [p \in Pipelines |-> Nobody]
  /\ drained = [p \in Pipelines |-> Nobody]

-----------------------------------------------------------------------------
(* Open: a logical session binds nothing yet.                              *)

Purgeable ==
  {s \in terminal \ unresolved : ~HasBindings(s) /\ ~Busy(s)}

\* Purges those of the terminal sessions whose retention is over, whatever
\* becomes of the Open: a session that exists is answered as it is.
OpenSession(s) ==
  \E P \in SUBSET (Purgeable \ {s}) :
    /\ session' = [r \in Sessions |->
         IF r \in P THEN "GONE"
         ELSE IF r = s /\ session[s] = "NONE" THEN "ACTIVE" ELSE session[r]]
    /\ terminal' = terminal \ P
    /\ closeRequested' = closeRequested \ P
    /\ retryPending' = retryPending \ P
    /\ UNCHANGED <<bindingVars, unresolved, inFlight, quarantined, statusVars, dispatchVars,
                   openVars, closeVars, pipelineVars>>

-----------------------------------------------------------------------------
(* A dispatch: _dispatch_once.                                             *)

\* left are the candidates of the plan whose status will allow their use.
Begin(d) ==
  /\ pc[d] = "idle" /\ session[SessionOf[d]] = "ACTIVE"
  /\ inFlight' = inFlight \cup {d}
  /\ \E plan \in SUBSET Pipelines : left' = [left EXCEPT ![d] = plan]
  /\ pc' = [pc EXCEPT ![d] = "next"]
  /\ UNCHANGED <<session, bindingVars, flagVars, quarantined, statusVars, at, seen, unknown,
                 openVars, closeVars, pipelineVars>>

\* The next candidate: its boot is read without the status lock.
ReadBoot(d) ==
  /\ pc[d] = "next"
  /\ \E p \in left[d] :
       /\ at' = [at EXCEPT ![d] = p]
       /\ left' = [left EXCEPT ![d] = @ \ {p}]
       /\ seen' = [seen EXCEPT ![d] = status[p]]
  /\ pc' = [pc EXCEPT ![d] = "observed"]
  /\ open' = [open EXCEPT ![d] = "none"]
  /\ UNCHANGED <<coreVars, statusVars, unknown, late, cleanup, closeVars, pipelineVars>>

Goes(d, stage) ==
  /\ pc' = [pc EXCEPT ![d] = stage]
  /\ UNCHANGED <<at, left, seen, unknown>>

\* The request is answered; what is left of its plan is not tried.
Answered(d) ==
  /\ pc' = [pc EXCEPT ![d] = "leaving"]
  /\ left' = [left EXCEPT ![d] = {}]
  /\ UNCHANGED <<at, seen>>

Answers(d) == Answered(d) /\ UNCHANGED unknown
AnswersUnknown(d) == Answered(d) /\ unknown' = unknown \cup {d}

Exhausted(d) ==
  /\ pc[d] = "next" /\ left[d] = {}
  /\ Answers(d)
  /\ UNCHANGED <<coreVars, statusVars, openVars, closeVars, pipelineVars>>

\* prepare_dispatch_candidate
PrepareFails(d) ==
  /\ pc[d] \in {"observed", "reobserved"}
  /\ session[SessionOf[d]] # "ACTIVE"
  /\ Answers(d)
  /\ UNCHANGED <<coreVars, statusVars, openVars, closeVars, pipelineVars>>

Preparing(d) ==
  /\ pc[d] \in {"observed", "reobserved"}
  /\ session[SessionOf[d]] = "ACTIVE"

\* The candidate is skipped; an OPENING binding is waited for only once.
PrepareSkips(d) ==
  /\ Preparing(d)
  /\ LET s == SessionOf[d]
         p == at[d]
     IN  \/ p \in quarantined
         \/ binding[s][p] = "ACTIVE" /\ bindingBoot[s][p] # seen[d]
         \/ binding[s][p] = "OPENING" /\ pc[d] = "reobserved"
         \/ binding[s][p] \in {"CLOSING", "QUARANTINED"}
         \/ ~Bound(s, p) /\ OwnedByOther(p, s)
  /\ Goes(d, "next")
  /\ UNCHANGED <<coreVars, statusVars, openVars, closeVars, pipelineVars>>

PrepareUses(d) ==
  /\ Preparing(d) /\ at[d] \notin quarantined
  /\ binding[SessionOf[d]][at[d]] = "ACTIVE"
  /\ bindingBoot[SessionOf[d]][at[d]] = seen[d]
  /\ Goes(d, "bound")
  /\ UNCHANGED <<coreVars, statusVars, openVars, closeVars, pipelineVars>>

PrepareWaits(d) ==
  /\ Preparing(d) /\ at[d] \notin quarantined
  /\ pc[d] = "observed" /\ binding[SessionOf[d]][at[d]] = "OPENING"
  /\ Goes(d, "waiting")
  /\ UNCHANGED <<coreVars, statusVars, openVars, closeVars, pipelineVars>>

\* (Mutant) A binding another session is still closing does not count.
PrepareOpensEarly(d) ==
  LET s == SessionOf[d]
      p == at[d]
  IN  /\ Preparing(d) /\ p \notin quarantined
      /\ ~Bound(s, p)
      /\ \A r \in Sessions \ {s} : binding[r][p] \notin {"OPENING", "ACTIVE", "QUARANTINED"}
      /\ binding' = [binding EXCEPT ![s][p] = "OPENING"]
      /\ bindingId' = [bindingId EXCEPT ![s][p] = d]
      /\ bindingBoot' = [bindingBoot EXCEPT ![s][p] = seen[d]]
      /\ Goes(d, "prepared")
      /\ UNCHANGED <<session, flagVars, inFlight, quarantined, statusVars, openVars,
                     closeVars, pipelineVars>>

PrepareOpens(d) ==
  LET s == SessionOf[d]
      p == at[d]
  IN  /\ Preparing(d) /\ p \notin quarantined
      /\ ~Bound(s, p) /\ ~OwnedByOther(p, s)
      /\ binding' = [binding EXCEPT ![s][p] = "OPENING"]
      /\ bindingId' = [bindingId EXCEPT ![s][p] = d]
      /\ bindingBoot' = [bindingBoot EXCEPT ![s][p] = seen[d]]
      /\ Goes(d, "prepared")
      /\ UNCHANGED <<session, flagVars, inFlight, quarantined, statusVars, openVars,
                     closeVars, pipelineVars>>

\* wait_for_binding_open, after which the boot is read again.
AwaitOpen(d) ==
  /\ pc[d] = "waiting" /\ binding[SessionOf[d]][at[d]] # "OPENING"
  /\ seen' = [seen EXCEPT ![d] = status[at[d]]]
  /\ pc' = [pc EXCEPT ![d] = "reobserved"]
  /\ UNCHANGED <<coreVars, statusVars, at, left, unknown, openVars, closeVars,
                 pipelineVars>>

AwaitTimesOut(d) ==
  /\ pc[d] = "waiting" /\ binding[SessionOf[d]][at[d]] = "OPENING"
  /\ Goes(d, "next")
  /\ UNCHANGED <<coreVars, statusVars, openVars, closeVars, pipelineVars>>

\* (Mutant) Gives up whatever binding is there.
ReleaseAny(d) ==
  /\ Forget(SessionOf[d], at[d])
  /\ UNCHANGED <<session, flagVars, inFlight, quarantined>>

\* release_binding_open(not_started=True)
ReleaseBinding(d) ==
  /\ IF binding[SessionOf[d]][at[d]] = "OPENING"
     THEN Forget(SessionOf[d], at[d])
     ELSE UNCHANGED bindingVars
  /\ UNCHANGED <<session, flagVars, inFlight, quarantined>>

\* Capacity, the reservation or its turn is refused, or the Open goal could
\* not be sent; a canceled request does not try another candidate.
Refuse(d) ==
  /\ pc[d] = "prepared"
  /\ ReleaseBinding(d)
  /\ left' \in {left, [left EXCEPT ![d] = {}]}
  /\ pc' = [pc EXCEPT ![d] = "next"]
  /\ UNCHANGED <<statusVars, at, seen, unknown, openVars, closeVars, pipelineVars>>

SendOpen(d) ==
  /\ pc[d] = "prepared"
  /\ open' = [open EXCEPT ![d] = "sent"]
  /\ Goes(d, "opening")
  /\ UNCHANGED <<coreVars, statusVars, late, cleanup, closeVars, pipelineVars>>

OpenNotStarted(d) ==
  /\ pc[d] = "opening" /\ open[d] = "refused"
  /\ ReleaseBinding(d)
  /\ Goes(d, "next")
  /\ UNCHANGED <<statusVars, openVars, closeVars, pipelineVars>>

OpenFails(d) ==
  /\ pc[d] = "opening" /\ open[d] = "failed"
  /\ MarkSessionFailed(SessionOf[d], {at[d]})
  /\ Answers(d)
  /\ UNCHANGED <<statusVars, openVars, closeVars, pipelineVars>>

\* (Mutant) Without an answer the Open is taken not to have started.
OpenUnknownReleased(d) ==
  /\ pc[d] = "opening"
  /\ ReleaseBinding(d)
  /\ late' \in {late, late \cup {d}}
  /\ AnswersUnknown(d)
  /\ UNCHANGED <<statusVars, open, cleanup, closeVars, pipelineVars>>

\* No answer in time, or an error; only a goal whose acceptance was not
\* learned in time is cleaned up when it is accepted after all.
OpenUnknown(d) ==
  /\ pc[d] = "opening"
  /\ MarkSessionFailed(SessionOf[d], {at[d]})
  /\ late' \in {late, late \cup {d}}
  /\ AnswersUnknown(d)
  /\ UNCHANGED <<statusVars, open, cleanup, closeVars, pipelineVars>>

\* record_binding_open_success: Close has raced, or the binding is used.
OpenSucceeds(d) ==
  LET s == SessionOf[d]
      p == at[d]
      mine == binding[s][p] = "OPENING" /\ bindingId[s][p] = d
      raced == s \in closeRequested \/ (binding[s][p] = "OPENING" /\ ~mine)
  IN  /\ pc[d] = "opening" /\ open[d] = "succeeded"
      /\ IF mine
         THEN /\ binding' = [binding EXCEPT ![s][p] = "ACTIVE"]
              /\ session' = [session EXCEPT ![s] = IF s \in closeRequested THEN "CLOSING" ELSE @]
         ELSE UNCHANGED <<binding, session>>
      /\ IF raced THEN Answers(d) ELSE Goes(d, "bound")
      /\ UNCHANGED <<bindingId, bindingBoot, flagVars, inFlight, quarantined, statusVars,
                     openVars, closeVars, pipelineVars>>

\* _dispatch_bound_pipeline looks the binding up again; without one it
\* raises, and the request ends with an unknown outcome.
ReadBinding(d) ==
  /\ pc[d] = "bound"
  /\ IF Bound(SessionOf[d], at[d]) THEN Goes(d, "dispatching") ELSE AnswersUnknown(d)
  /\ UNCHANGED <<coreVars, statusVars, openVars, closeVars, pipelineVars>>

DispatchNotStarted(d) ==
  /\ pc[d] = "dispatching"
  /\ Goes(d, "next")
  /\ UNCHANGED <<coreVars, statusVars, openVars, closeVars, pipelineVars>>

DispatchCompletes(d) ==
  /\ pc[d] = "dispatching"
  /\ Answers(d)
  /\ UNCHANGED <<coreVars, statusVars, openVars, closeVars, pipelineVars>>

\* (Mutant) An error on the way out leaves the request counted.
DispatchUnknownCounted(d) ==
  /\ pc[d] = "dispatching"
  /\ MarkSessionFailed(SessionOf[d], {at[d]})
  /\ Goes(d, "done")
  /\ UNCHANGED <<statusVars, openVars, closeVars, pipelineVars>>

DispatchUnknown(d) ==
  /\ pc[d] = "dispatching"
  /\ MarkSessionFailed(SessionOf[d], {at[d]})
  /\ AnswersUnknown(d)
  /\ UNCHANGED <<statusVars, openVars, closeVars, pipelineVars>>

\* record_request_terminal, in the finally clause.
Leave(d) ==
  /\ pc[d] = "leaving"
  /\ inFlight' = inFlight \ {d}
  /\ UNCHANGED <<session, bindingVars, closeRequested, retryPending, quarantined>>
  /\ RetainDrainedFailure(SessionOf[d], unresolved)
  /\ Goes(d, "done")
  /\ UNCHANGED <<statusVars, openVars, closeVars, pipelineVars>>

\* What a dispatch does of its own accord: all but running out of time.
DispatchWork(d) ==
  \/ ReadBoot(d) \/ Exhausted(d) \/ PrepareFails(d) \/ PrepareSkips(d) \/ PrepareUses(d)
  \/ PrepareWaits(d) \/ PrepareOpens(d) \/ AwaitOpen(d) \/ Refuse(d) \/ SendOpen(d)
  \/ OpenNotStarted(d) \/ OpenFails(d) \/ OpenSucceeds(d) \/ ReadBinding(d)
  \/ DispatchNotStarted(d) \/ DispatchCompletes(d) \/ DispatchUnknown(d) \/ Leave(d)

-----------------------------------------------------------------------------
(* _cleanup_late_open: an Open accepted after its caller gave up is closed *)
(* with generation zero once it has a result.                              *)

SendCleanup(d) ==
  /\ d \in late /\ open[d] \in {"succeeded", "failed"} /\ cleanup[d] = "none"
  /\ cleanup' = [cleanup EXCEPT ![d] = "sent"]
  /\ UNCHANGED <<coreVars, statusVars, dispatchVars, open, late, closeVars, pipelineVars>>

CleanupDrained(d) ==
  /\ cleanup[d] = "succeeded"
  /\ RecordBindingClosed(SessionOf[d], at[d])
  /\ cleanup' = [cleanup EXCEPT ![d] = "recorded"]
  /\ UNCHANGED <<statusVars, dispatchVars, open, late, closeVars, pipelineVars>>

CleanupCompletes(d) ==
  /\ cleanup[d] = "recorded"
  /\ RecordCloseComplete(SessionOf[d], TRUE)
  /\ cleanup' = [cleanup EXCEPT ![d] = "done"]
  /\ UNCHANGED <<statusVars, dispatchVars, open, late, closeVars, pipelineVars>>

CleanupStep(d) == SendCleanup(d) \/ CleanupDrained(d) \/ CleanupCompletes(d)

-----------------------------------------------------------------------------
(* A Close: _close_once, for a goal or for the idle sweep.                 *)

CloseGoes(c, stage) == close' = [close EXCEPT ![c] = stage]

\* A goal that may still be executed is all that outlives the Close.
CloseEnds(c) ==
  LET sent(p) == goal[c][p] = "sent"
  IN  /\ CloseGoes(c, "done")
      /\ subject' = [subject EXCEPT ![c] = Nobody]
      /\ calling' = [calling EXCEPT ![c] = Nobody]
      /\ failure' = [failure EXCEPT ![c] = {}]
      /\ goal' = [goal EXCEPT ![c] = [p \in Pipelines |-> IF sent(p) THEN @[p] ELSE "none"]]
      /\ copy' = [copy EXCEPT ![c] = [p \in Pipelines |-> IF sent(p) THEN @[p] ELSE Nobody]]
      /\ copyBoot' = [copyBoot EXCEPT ![c] = [p \in Pipelines |-> IF sent(p) THEN @[p] ELSE 0]]

\* begin_close; a Close that is under way refuses another one.
BeginClose(c, s) ==
  /\ close[c] = "idle" /\ Known(s)
  /\ session[s] = "CLOSING" /\ s \in closeRequested => s \in retryPending
  /\ IF session[s] = "CLOSED"
     THEN UNCHANGED <<session, closeRequested, retryPending>>
     ELSE /\ session' = [session EXCEPT ![s] = "CLOSING"]
          /\ closeRequested' = closeRequested \cup {s}
          /\ retryPending' = retryPending \ {s}
  /\ subject' = [subject EXCEPT ![c] = s]
  /\ CloseGoes(c, "settling")
  /\ UNCHANGED <<bindingVars, unresolved, terminal, inFlight, quarantined, statusVars,
                 dispatchVars, openVars, calling, copy, copyBoot, goal, failure, completed,
                 pipelineVars>>

Settled(s) == ~Busy(s) /\ \A p \in Pipelines : binding[s][p] # "OPENING"

\* (Mutant) Waits for the Opens only.
SettleOpens(c) ==
  /\ close[c] = "settling"
  /\ \A p \in Pipelines : binding[subject[c]][p] # "OPENING"
  /\ CloseGoes(c, "settled")
  /\ UNCHANGED <<coreVars, statusVars, dispatchVars, openVars, runVars, pipelineVars>>

\* wait_for_bindings_to_settle
Settle(c) ==
  /\ close[c] = "settling"
  /\ Settled(subject[c])
  /\ CloseGoes(c, "settled")
  /\ UNCHANGED <<coreVars, statusVars, dispatchVars, openVars, runVars, pipelineVars>>

\* It gives up only when it has found the session still unsettled, and
\* the session is marked after that.
SettleTimesOut(c) ==
  /\ close[c] = "settling" /\ ~Settled(subject[c])
  /\ CloseGoes(c, "expired")
  /\ UNCHANGED <<coreVars, statusVars, dispatchVars, openVars, runVars, pipelineVars>>

CloseExpires(c) ==
  /\ close[c] = "expired"
  /\ MarkSessionFailed(subject[c], Pipelines)
  /\ CloseEnds(c)
  /\ UNCHANGED <<statusVars, dispatchVars, openVars, completed, pipelineVars>>

CloseBindings(c) ==
  LET s == subject[c]
      closing == {p \in Pipelines : binding[s][p] \in {"ACTIVE", "QUARANTINED", "CLOSING"}}
  IN  /\ close[c] = "settled"
      /\ binding' = [binding EXCEPT ![s] = [p \in Pipelines |->
           IF p \in closing THEN "CLOSING" ELSE binding[s][p]]]
      /\ copy' = [copy EXCEPT ![c] = [p \in Pipelines |->
           IF p \in closing THEN bindingId[s][p] ELSE Nobody]]
      /\ copyBoot' = [copyBoot EXCEPT ![c] = [p \in Pipelines |->
           IF p \in closing THEN bindingBoot[s][p] ELSE 0]]
      /\ CloseGoes(c, "draining")
      /\ UNCHANGED <<session, bindingId, bindingBoot, flagVars, inFlight, quarantined,
                     statusVars, dispatchVars, openVars, subject, calling, goal, failure,
                     completed, pipelineVars>>

\* The pipelines whose Close goal is still to be sent, and the one called.
Remaining(c) == {p \in Pipelines : copy[c][p] # Nobody /\ goal[c][p] = "none"}

SendClose(c, p) ==
  /\ close[c] = "draining" /\ p \in Remaining(c)
  /\ goal' = [goal EXCEPT ![c][p] = "sent"]
  /\ calling' = [calling EXCEPT ![c] = p]
  /\ CloseGoes(c, "calling")
  /\ UNCHANGED <<coreVars, statusVars, dispatchVars, openVars, subject, copy, copyBoot,
                 failure, completed, pipelineVars>>

\* Refused, or not sent for want of a server or of time.
CloseRefused(c, p) ==
  /\ close[c] = "calling" /\ calling[c] = p /\ goal[c][p] = "refused"
  /\ failure' = [failure EXCEPT ![c] = @ \cup {"not_started"}]
  /\ CloseGoes(c, "draining")
  /\ UNCHANGED <<coreVars, statusVars, dispatchVars, openVars, subject, calling, copy,
                 copyBoot, goal, completed, pipelineVars>>

\* (Mutant) The failure of one pipeline is forgotten at the next.
CloseFailsQuietly(c, p) ==
  /\ close[c] = "calling" /\ calling[c] = p /\ goal[c][p] = "failed"
  /\ MarkSessionFailed(subject[c], {p})
  /\ CloseGoes(c, "draining")
  /\ UNCHANGED <<statusVars, dispatchVars, openVars, runVars, pipelineVars>>

CloseFails(c, p) ==
  /\ close[c] = "calling" /\ calling[c] = p /\ goal[c][p] = "failed"
  /\ MarkSessionFailed(subject[c], {p})
  /\ failure' = [failure EXCEPT ![c] = @ \cup {"failed"}]
  /\ CloseGoes(c, "draining")
  /\ UNCHANGED <<statusVars, dispatchVars, openVars, subject, calling, copy, copyBoot, goal,
                 completed, pipelineVars>>

CloseDrained(c, p) ==
  /\ close[c] = "calling" /\ calling[c] = p /\ goal[c][p] = "succeeded"
  /\ RecordBindingClosed(subject[c], p)
  /\ CloseGoes(c, "draining")
  /\ UNCHANGED <<statusVars, dispatchVars, openVars, runVars, pipelineVars>>

CloseUnknown(c, p) ==
  /\ close[c] = "calling" /\ calling[c] = p
  /\ MarkSessionFailed(subject[c], {p})
  /\ failure' = [failure EXCEPT ![c] = @ \cup {"unknown"}]
  /\ CloseGoes(c, "draining")
  /\ UNCHANGED <<statusVars, dispatchVars, openVars, subject, calling, copy, copyBoot, goal,
                 completed, pipelineVars>>

\* record_close_not_started
RecordCloseNotStarted(s) ==
  IF Known(s)
  THEN /\ session' = [session EXCEPT ![s] = "CLOSING"]
       /\ retryPending' = retryPending \cup {s}
       /\ unresolved' = IF HasBindings(s) THEN unresolved \cup {s} ELSE unresolved \ {s}
       /\ UNCHANGED <<bindingVars, closeRequested, terminal, inFlight, quarantined>>
  ELSE UNCHANGED coreVars

\* The gravest of the answers decides: unknown, failed, not started.
FinishClose(c) ==
  LET s == subject[c]
  IN  /\ close[c] = "draining" /\ Remaining(c) = {}
      /\ \/ /\ failure[c] \cap {"unknown", "failed"} # {}
            /\ RecordCloseComplete(s, FALSE)
            /\ UNCHANGED completed
         \/ /\ failure[c] = {"not_started"}
            /\ RecordCloseNotStarted(s)
            /\ UNCHANGED completed
         \/ /\ failure[c] = {}
            /\ RecordCloseComplete(s, TRUE)
            /\ completed' = completed \cup {c}
      /\ CloseEnds(c)
      /\ UNCHANGED <<statusVars, dispatchVars, openVars, pipelineVars>>

\* What a Close does of its own accord: all but running out of time.
CloseWork(c) ==
  \/ Settle(c) \/ CloseExpires(c) \/ CloseBindings(c) \/ FinishClose(c)
  \/ \E p \in Pipelines :
       SendClose(c, p) \/ CloseRefused(c, p) \/ CloseFails(c, p) \/ CloseDrained(c, p)

-----------------------------------------------------------------------------
(* The status callback, under the status lock.                             *)

\* A message of the process that runs now is stored before it is acted on.
StatusArrives(p) ==
  /\ status[p] = trusted[p] /\ status[p] # boot[p]
  /\ status' = [status EXCEPT ![p] = boot[p]]
  /\ UNCHANGED <<coreVars, trusted, dispatchVars, openVars, closeVars, pipelineVars>>

\* reconcile_pipeline_boot, then the trusted cursor moves.
Reconcile(p) ==
  LET fenced == {s \in Sessions : Bound(s, p) /\ bindingBoot[s][p] # status[p]}
      failed == {s \in fenced : session[s] # "ACTIVE" \/ s \in closeRequested \/ Busy(s)}
      owning == {s \in failed : \E q \in Pipelines \ {p} : Bound(s, q)}
  IN  /\ status[p] # trusted[p]
      /\ trusted' = [trusted EXCEPT ![p] = status[p]]
      /\ binding' = [s \in Sessions |->
           IF s \in fenced THEN [binding[s] EXCEPT ![p] = "NONE"] ELSE binding[s]]
      /\ bindingId' = [s \in Sessions |->
           IF s \in fenced THEN [bindingId[s] EXCEPT ![p] = Nobody] ELSE bindingId[s]]
      /\ bindingBoot' = [s \in Sessions |->
           IF s \in fenced THEN [bindingBoot[s] EXCEPT ![p] = 0] ELSE bindingBoot[s]]
      /\ session' = [s \in Sessions |-> IF s \in failed THEN "QUARANTINED" ELSE session[s]]
      /\ unresolved' = (unresolved \ failed) \cup owning
      /\ terminal' = terminal \cup {s \in failed \ owning : ~Busy(s)}
      /\ quarantined' = quarantined \ {p}
      /\ UNCHANGED <<closeRequested, retryPending, inFlight, status, dispatchVars, openVars,
                     closeVars, pipelineVars>>

-----------------------------------------------------------------------------
(* The pipeline processes.                                                 *)

\* Refused for its boot, for a binding that is served, or out of capacity.
RefuseOpen(d) ==
  /\ open[d] = "sent"
  /\ open' = [open EXCEPT ![d] = "refused"]
  /\ UNCHANGED <<coreVars, statusVars, dispatchVars, late, cleanup, closeVars,
                 pipelineVars>>

ExecuteOpen(d) ==
  /\ open[d] = "sent" /\ seen[d] = boot[at[d]] /\ served[at[d]] = Nobody
  /\ \E result \in {"succeeded", "failed"} : open' = [open EXCEPT ![d] = result]
  /\ served' = [served EXCEPT ![at[d]] = d]
  /\ UNCHANGED <<coreVars, statusVars, dispatchVars, late, cleanup, closeVars, boot,
                 drained>>

\* What becomes of a Close goal for binding b of boot i: a drained binding
\* is remembered, and its Close succeeds again.
Drain(p, b, i, result) ==
  \/ result = "refused" /\ UNCHANGED pipelineVars
  \/ /\ i = boot[p] /\ served[p] = b /\ result = "failed"
     /\ UNCHANGED pipelineVars
  \/ /\ i = boot[p] /\ served[p] = b /\ result = "succeeded"
     /\ served' = [served EXCEPT ![p] = Nobody]
     /\ drained' = [drained EXCEPT ![p] = b]
     /\ UNCHANGED boot
  \/ /\ i = boot[p] /\ served[p] # b /\ drained[p] = b /\ result = "succeeded"
     /\ UNCHANGED pipelineVars

ExecuteClose(c, p) ==
  /\ goal[c][p] = "sent"
  /\ \E result \in GoalStates :
       /\ Drain(p, copy[c][p], copyBoot[c][p], result)
       /\ goal' = [goal EXCEPT ![c][p] = result]
  /\ UNCHANGED <<coreVars, statusVars, dispatchVars, openVars, close, subject, calling,
                 copy, copyBoot, failure, completed>>

ExecuteCleanup(d) ==
  /\ cleanup[d] = "sent"
  /\ \E result \in GoalStates :
       /\ Drain(at[d], d, seen[d], result)
       /\ cleanup' = [cleanup EXCEPT ![d] = result]
  /\ UNCHANGED <<coreVars, statusVars, dispatchVars, open, late, closeVars>>

Reboot(p) ==
  /\ boot[p] < MaxBoot
  /\ boot' = [boot EXCEPT ![p] = @ + 1]
  /\ served' = [served EXCEPT ![p] = Nobody]
  /\ drained' = [drained EXCEPT ![p] = Nobody]
  /\ UNCHANGED <<coreVars, statusVars, dispatchVars, openVars, closeVars>>

-----------------------------------------------------------------------------
DispatchStep(d) ==
  \/ Begin(d) \/ DispatchWork(d) \/ AwaitTimesOut(d) \/ OpenUnknown(d)
  \/ RefuseOpen(d) \/ ExecuteOpen(d) \/ CleanupStep(d) \/ ExecuteCleanup(d)

CloserStep(c) ==
  \/ \E s \in Sessions : BeginClose(c, s)
  \/ CloseWork(c) \/ SettleTimesOut(c)
  \/ \E p \in Pipelines : CloseUnknown(c, p) \/ ExecuteClose(c, p)

PipelineStep(p) == StatusArrives(p) \/ Reconcile(p) \/ Reboot(p)

Next ==
  \/ \E s \in Sessions : OpenSession(s)
  \/ \E d \in Dispatches : DispatchStep(d)
  \/ \E c \in Closers : CloserStep(c)
  \/ \E p \in Pipelines : PipelineStep(p)

\* A thread that has begun runs on, and a pipeline answers the goals it is
\* sent; no deadline needs to expire.
Fairness ==
  /\ \A d \in Dispatches : WF_vars(DispatchWork(d)) /\ WF_vars(RefuseOpen(d) \/ ExecuteOpen(d))
  /\ \A c \in Closers :
       WF_vars(CloseWork(c)) /\ WF_vars(\E p \in Pipelines : ExecuteClose(c, p))

Spec == Init /\ [][Next]_vars
FairSpec == Spec /\ Fairness

-----------------------------------------------------------------------------
(* Properties.                                                             *)

(* Type invariant: every variable has its type, and a binding is there     *)
(* with all of its identity or not at all.                                 *)
TypeOK ==
  /\ session \in [Sessions -> SessionStates]
  /\ binding \in [Sessions -> [Pipelines -> BindingStates]]
  /\ bindingId \in [Sessions -> [Pipelines -> Dispatches \cup {Nobody}]]
  /\ bindingBoot \in [Sessions -> [Pipelines -> Nat]]
  /\ \A s \in Sessions, p \in Pipelines : bindingId[s][p] = Nobody <=> binding[s][p] = "NONE"
  /\ closeRequested \subseteq Sessions /\ retryPending \subseteq Sessions
  /\ unresolved \subseteq Sessions /\ terminal \subseteq Sessions
  /\ inFlight \subseteq Dispatches /\ quarantined \subseteq Pipelines
  /\ status \in [Pipelines -> Nat] /\ trusted \in [Pipelines -> Nat]
  /\ pc \in [Dispatches -> DispatchStages]
  /\ at \in [Dispatches -> Pipelines \cup {Nobody}]
  /\ left \in [Dispatches -> SUBSET Pipelines]
  /\ seen \in [Dispatches -> Nat]
  /\ unknown \subseteq Dispatches
  /\ open \in [Dispatches -> GoalStates]
  /\ late \subseteq Dispatches
  /\ cleanup \in [Dispatches -> GoalStates \cup {"recorded", "done"}]
  /\ close \in [Closers -> CloseStages]
  /\ subject \in [Closers -> Sessions \cup {Nobody}]
  /\ calling \in [Closers -> Pipelines \cup {Nobody}]
  /\ copy \in [Closers -> [Pipelines -> Dispatches \cup {Nobody}]]
  /\ copyBoot \in [Closers -> [Pipelines -> Nat]]
  /\ goal \in [Closers -> [Pipelines -> GoalStates]]
  /\ failure \in [Closers -> SUBSET {"unknown", "failed", "not_started"}]
  /\ completed \subseteq Closers
  /\ boot \in [Pipelines -> Nat]
  /\ served \in [Pipelines -> Dispatches \cup {Nobody}]
  /\ drained \in [Pipelines -> Dispatches \cup {Nobody}]

(* The bindings a pipeline process serves, or would still let in.          *)
Tenants(p) ==
  {d \in Dispatches : \/ served[p] = d
                      \/ at[d] = p /\ open[d] = "sent" /\ seen[d] = boot[p]}

(* The session that has a binding of the pipeline.                         *)
Holder(p) == IF \E s \in Sessions : Bound(s, p)
             THEN CHOOSE s \in Sessions : Bound(s, p) ELSE Nobody

(* The core leases every pipeline to one session at a time, whatever is    *)
(* late, lost, unknown, closed twice or rebooted, and lets go of it only   *)
(* when no Open it has sent can take effect any more and nothing is served *)
(* there: no process is ever opened by two bindings at once.               *)
Lease == INSTANCE PipelineLease
  WITH Bindings <- Dispatches, holder <- [p \in Pipelines |-> Holder(p)],
       tenants <- [p \in Pipelines |-> Tenants(p)]

LeasesPipelines == Lease!LeaseSpec

(* A binding a process serves is never lost: the session it was opened for *)
(* still has it on record, so a Close will reach it.                       *)
ServedIsRecorded ==
  \A p \in Pipelines, d \in Dispatches : served[p] = d => bindingId[SessionOf[d]][p] = d

(* Close is a drain barrier: once it has settled, no dispatch of the       *)
(* session is under way until the Close is over, even when a second Close  *)
(* of the session runs beside it.                                          *)
DrainBarrier ==
  \A c \in Closers :
    close[c] \in {"settled", "draining", "calling"} => \A d \in inFlight : SessionOf[d] # subject[c]

(* A Close that answers COMPLETED has closed the session: no binding is    *)
(* left that it did not drain, whoever else was at work on the session.    *)
CompletedIsClosed ==
  [][\A c \in completed' \ completed : session'[subject[c]] \in {"CLOSED", "GONE"}]_vars

(* After an unknown outcome the session admits nothing any more, on every  *)
(* path that ends with one.                                                *)
UnknownIsQuarantined ==
  \A d \in unknown : session[SessionOf[d]] # "ACTIVE"

(* Every Close that has begun ends although no deadline expires: it waits  *)
(* for dispatches, which wait for pipelines or for the Open of another     *)
(* dispatch, and none of them waits for a Close.                           *)
ClosesEnd == \A c \in Closers : close[c] # "idle" ~> close[c] = "done"
=============================================================================

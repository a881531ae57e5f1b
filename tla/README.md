# Formal model of the IB-Robot inference scheduler

IB-Robot connects policies (vision-language-action models) to robots. Most of the repository is data:
tensors, images, kinematics, configuration. The control that is hard to get right sits between the
robot and the accelerator: a dispatcher on the robot asks a Global scheduler for chunks of actions, the
scheduler admits sessions and dispatches onto pipeline processes, a pipeline process serves one session
at a time under a generation fence, and a runtime handle guards an accelerator that must never be
reset, closed or shared while it executes. All of them are multi-threaded Python guarded by short
critical sections, and every interesting mistake lies between two of them. This directory holds TLA+
models of that control, TLC runs on small instances, and TLAPS proofs for every instance.

Paths below are relative to `src/src/inference_service/inference_service/` unless they start with `src/`.

## 1. The system

| Component | State | Operations | Interacts with |
| --- | --- | --- | --- |
| Robot dispatcher, `src/src/action_dispatch` | session, Open and Close under way, failure mailbox, two plan stores, the request in flight | start, stop, restart, safe stop, control loop, results, retries, toggle of the smoothing | ROS actions of the Global node; the robot's controllers |
| Global node, `global_inference_scheduler_node.py` | observed statuses, trusted boot cursors, a table of downstream operations | action callbacks open, dispatch, close; status callbacks; cleanup of late Opens; idle sweep | ROS actions to the pipelines; the session core; the reservation table |
| Global session core, `scheduler/global_scheduler_core.py` | sessions, bindings, quarantined pipelines | open, prepare a dispatch candidate, record results, begin and complete close, reconcile a boot, purge | called by every callback of the node |
| Reservation table, `scheduler/deadline_reservations.py` | entries, one queue and one turn per hardware resource, the tokens of uncertain work | `try_reserve`, `wait_for_turn`, `mark_unknown`, `release`, `reconcile_binding`, `reconcile_pipeline` | called by the dispatch threads, Close callbacks and status callbacks of the Global node |
| Ledger and idempotency, `scheduler/ledger.py`, `scheduler/action_idempotency.py` | one entry per request key: a run, or its terminal result | resolve, wait, set terminal, discard, evict | in front of every Open, Dispatch and Close of both nodes |
| Pipeline session controller, `scheduler/session_controller.py` | state, fence and product generations, in-flight counts, quarantine | begin and finish open, admit, begin and finish close, mark failed | the goal threads of the policy node |
| Policy node, scheduled path, `pipeline_policy_node.py` | bound identity, last drained binding, execution slots | private Open, Dispatch, Close goals | the controller; the runtime through the pipeline |
| Runtime handle, `unified_runtime/handle.py` | lifecycle, admission, active executions, owned components, cancellation contexts, stream records | `load`, `execute`, `submit_frame`, `cancel`, `reset`, `close`; `open_stream`, `step`, `reset_stream`, `close_stream` | sessions and backends below it, the pipeline above it |
| Skill library and agent, `src/src/agent` | executions, plans | run, cancel, replay | clients of the robot's actions |

`PROJECT.json` lists every other part of the repository with the reason it is left out, and every
hazard of the modelled parts at its line.

What is hard about the modelled parts, and what makes each correct:

* **Dispatcher.** Lifecycle services, the callbacks of three kinds of goals, timers and the control loop
  share one lock for short sections and one for a whole operation. Correct means: no session that the
  scheduler may have is forgotten; after the freeze of a stop nothing runs before the next Open; a plan
  is that of the current session and skips exactly what was executed meanwhile; failures are handled
  whoever is busy, and operations end.
* **Sessions.** Dispatch threads bind pipelines lazily while Closes drain, pipelines restart and answers
  are late or lost. Correct means: a pipeline is leased to one session, let go of only when nothing of it
  can take effect; a Close drains everything the session has, and ends.
* **Reservations.** A dispatch thread reads a boot id, reserves, waits for its turn, sends and learns
  (or does not learn) the outcome; between two of these steps it holds no lock, and its entry may be
  expired by another waiter, dropped by a Close, or fenced by a reboot. Correct means: reserved
  dispatches do not overlap on a resource, outside two gaps that can be named (section 5); turns follow
  the policy; entries of work whose outcome is unknown block the resource until the process they were
  sent to is known to be gone.
* **Ledger.** Retries join, are answered, or run again, while entries are discarded and evicted. Correct
  means: one run at a time, none after a possible effect while it is remembered, answers that are true.
* **Scheduled pipeline.** The controller's critical sections are small; the identity, the record of
  the last Close and the slots are touched outside them. Correct means: a result is published only
  for the binding being served; a drain is a barrier; no path loses a slot or a control count; a
  session that exists can be closed.
* **Runtime handle.** Admission, drain barriers, deadlines on control operations, partial failure of
  loads and releases, steps and resets of streams. Correct means: requests execute only on a complete set
  of live components, control operations are exclusive, everything acquired is released once and in
  reverse order, and an uncertain outcome fences the runtime.

## 2. The modules

| Module | Models | Kind |
| --- | --- | --- |
| `ScheduledDispatcher` | the robot's dispatcher, its plan stores and the alignment of chunks | specification |
| `GlobalSessions` | the session core and the threads of the node that drive it; refines `PipelineLease` | specification |
| `PipelineLease` | what the owner of exclusive pipelines promises | abstract specification |
| `DeadlineReservations` | the table, the dispatch threads that use it, the pipeline processes that execute; refines `Turnstile` | specification |
| `Turnstile` | what turns on shared resources promise | abstract specification |
| `QueueOps` | `_remove_resource_token_locked`: a sequence without some of its elements | operators, no recursion |
| `RequestLedger` | the ledger and `execute_resolved_action`; refines `OnceExecutor` | specification |
| `OnceExecutor` | what an idempotency ledger promises to those who retry | abstract specification |
| `ScheduledPipeline` | controller and goal threads of one pipeline process; refines `FencedPublication` | specification |
| `FencedPublication` | what a session fence promises | abstract specification |
| `RuntimeHandle` | load, one-shot calls and controls of the handle; refines `AdmissionGate` | specification |
| `RuntimeStreams` | the streams of a stateful handle against its controls | specification |
| `AdmissionGate` | what a drain barrier promises | abstract specification |
| `RuntimeLifecycle` | the transition table both handle modules use | operators |
| `MC...` | small instances, symmetry sets | for TLC |
| `...Proofs` (eight) | theorems | for TLAPS |

How they fit together: each module has a small model of its neighbours, translated from the code of the
neighbour and reduced to what the module can tell apart. `ScheduledDispatcher` has one of the Global
scheduler (it refuses, executes late, or has its answer lost), `GlobalSessions` and
`DeadlineReservations` one of the pipelines, `ScheduledPipeline` one of the Global scheduler and of the
runtime. What is assumed of a neighbour is what its own module is checked for: a pipeline serves one
binding and refuses everything of another boot (`PublishesBehindFence`), a whole-graph reset succeeds
only when nothing infers (`IsAdmissionGate`), a binding is leased to one session (`LeasesPipelines`).
`GlobalSessions` and `DeadlineReservations` are two views of the same threads: the first has no
hardware, the second no sessions; a status callback reconciles both.

Common conventions: one action per critical section or per call of a dependency; a program counter
per thread (`stage`, `pc`, `call`, `open`, `dispatch`, `close`, `operation`); sets of calls where the
code has counters, so that a count that leaks shows as a member that should not be there; operators
marked *(Mutant)* are plausible bugs, used by no specification, and substituted one at a time to see
that a property notices.

### ScheduledDispatcher

The variables are the fields of the node, next to the names they model. `operation` is the holder of
`_lifecycle_lock` and where it is (`frozen`, `settling`, `settled`, `closing`, `closed`, `ending`,
`opening`); `openCall[n]` where the callback of the Open of session `n` is, `request[r]` where a request
is. `Stops` is the freeze of a stop or a restart, `TryFailure` that of a failure, which waits in
`pending` when the lock is taken. `Settle`, `OperationCloses`, `OperationClosed` and `OperationEnds` are
the rest of `_safe_stop` and `_close_session_sync`; the safety command's outcome is a choice. The Open
callback is four sections (`OpenSucceeds`, `OpenNotStarted` or `OpenUnknown`, then `CompleteOpen`, which
wakes the waiters first, then `Compensate` or `OpenFails`). `Tick`, `RequestDispatch` and `Execute` are
the control loop; `ResultArrives` and `Accept` the two sections around the decoding; `Planned` is the
alignment and the horizon of `chunk_planning.py`. A plan is its length, its watermark and the session
the request was sent for.

Facts the model shows and a reader may not expect: a success that comes after a stop has run into its
timeout leaves the dispatcher `CLOSING` until another stop; an Open whose answer is lost is closed with
generation 0, and if it never opened the Close fails and the dispatcher stays `FAILED`; smoothing that
is switched off and on again resumes the queue that was kept; there is no timeout of a request on this
side, so a result that never comes leaves the robot holding until it is stopped. `PlansKeepComing`
therefore rests on an answering scheduler.

Abstractions: a value that is only read while a request is in flight (`startLength`, `executed`) is
forgotten with it, as `closeOf` is with its Close; a retry keeps its slot in `Requests` (the code takes
a new identifier, and nothing of the old one is under way); the scheduler's generation is 1, as
`global_scheduler_core.py` gives it; the execution of a Close and its answer are one step, which may
lose the answer.

### GlobalSessions

`session`, `binding`, `bindingId`, `bindingBoot`, `closeRequested`, `retryPending`, `unresolved`,
`terminal`, `inFlight` and `quarantined` are the core; `status` and `trusted` the cursors of the node.
`pc[d]` follows `_dispatch_once` from the plan of candidates through the wait for another dispatch's
Open, the preparation, the Open and the dispatch, with `Leave` as the finally clause; `close[c]` follows
`_close_once`: begin, wait until settled, visit the bindings, finish, and its timeouts. `late` and
`cleanup` are the Opens accepted after their dispatch gave up, and the Closes that
`_cleanup_late_open` sends. `served` and `drained` are what the policy node of a pipeline keeps
(`pipeline_policy_node.py`): the identity it serves and its last drained one. `open`, `goal` and
`cleanup` are goals on their way: they may be executed at any later time, or never.

The dispatch that creates a binding is its identifier. Session identifiers are not used again. Left out:
idle deadline, affinity, cursors, cancellation on its way to a pipeline.

### RequestLedger

An entry is named by the goal that created it; `older` orders the terminal ones for eviction. `Resolve`
evicts and then answers, joins or creates; the run lies between two critical sections; `Settle`,
`Discard`, `Woken` and `WaitExpires` (which give the place back, `Release`) are the rest. `evicted` is history.
The digest of a payload is a member of a small set.

Facts: `discard_terminal` removes whatever terminal entry is under its key by then; a waiter of an
entry that was discarded gives its place back to the entry that replaced it, so the cap on waiters may
be exceeded by those of former entries; a duplicate that finds the cap reached is told NOT_STARTED
although the run it would have joined may complete. The caps on Open records are in the model, and the
instance is too small to reach them.

### DeadlineReservations

`issued` holds every reservation handed out (the token is the index: reservations are immutable and
outlive their entries), `table`, `queue`, `active`, `unknown` are `_reservations`, `_resource_tokens`,
`_active_tokens`, `_unknown_tokens`. `Reserve`, `WaitPass`/`WaitReleased`/`WaitExpired`/`WaitCanceled`
(one pass of the wait loop), `MarkUnknown`, `Settle`, `ReconcileBinding` and `TrustBoot` are the
operations. A status message is two steps: `ObserveStatus` stores it (`_serving_status`, node line 429)
before its reason is looked at, `TrustBoot` reconciles and moves the cursor (436). `PickCandidate` is the
unlocked read of the boot id (line 1194), which takes the *observed* boot and may therefore be ahead of
the trusted one; the value is used later, by `Reserve` and by `MarkUnknown`. `mistaken` is history: the
tokens `MarkUnknown` released as fenced although their boot was newer than the trusted one, not older.

A goal goes through `inflight`, `admitted` and `working` as in `pipeline_policy_node.py`. In flight it may
arrive at any later time or never. `Accept` validates and admits it when it names the running boot and an
open binding (2461-2553, `Admits`); `TakeSlot` takes the execution slot without asking for the binding
again (2554), `NoSlot` is the refusal; `Finish` is the end of the inference. A Close waits for the slots
and not for the admissions (`Drain`, 2740-2760), so that a whole Close and its reconciliation fit between
`Accept` and `TakeSlot`. A process may restart at any time (`Reboot`), which ends its admissions and work.

Assumptions: status messages of a former process are not observed after one of a later process; a
whole-graph reset succeeds only when nothing infers, which is why a Close drains a process that holds no
slot; the binding of a dispatch is already open.

`Stray` names the entries the scheduler lets go of although their work may still execute: those released
by mistake, and those whose binding is closed at the boot they were sent to. `OnlyStraysOverlap` says
that two works execute on one resource at the same time only if one of them is a stray, and
`TurnIsLeft` that a turn passes from its holder only to nobody, and from work that may still execute
only when the work is a stray. They are what the code gives; that work is *never* concurrent is not true
of it (section 5).

The promise of the table is `Turnstile` (`HandsOutTurns`): "once a reservation owns the resource it is
non-preemptible; newly arriving work cannot bypass it" (class docstring, lines 37-38). It is about lines,
their order and turns; what executes is the matter of the two properties above. `GrantsInOrder` adds that
nobody too late is granted the turn; it is proved and, with its order part in `Turnstile`, not checked by
a run of its own.

### ScheduledPipeline

`state`, `quarantine`, `product`, `productGen`, `fence`, `control`, `action` are the controller's
fields; `identity`, `closed`, `free` the node's. `held` and `permits` say which slot each goal holds: the
semaphore of the code counts, the model names the permits, so that a double release is visible. The
actions of a goal follow its handler line by line: validate, admit, take a slot, infer, mark failed,
compare with the fence, publish, leave; validate, begin, acquire the slots one by one, reset, finish,
record, unbind, end. Where the handler swallows an exception of `finish_open` or `finish_close` the
action has that branch.

Neighbours: the Global scheduler (`GlobalStep`) owns one binding of the pipeline at a time, sends goals
that arrive late or never, sends Closes of generation zero for opens whose result it lacks, and lets go
of a binding when its Open did not start or its Close succeeded (and only with the generations
`_validate_downstream_result` accepts): what `LeasesPipelines` establishes. The runtime is `Inferring`.

Abstractions: a binding is opened once and stands for its session and its Open goal (the ledgers in
front of the handlers deduplicate retries); observation sampling, cancellation and encoding are
outcomes of the step they end; the lease, capacities in status messages and publication of the status
are left out. `ControlCapacity` is 1, as the configuration requires.

### RuntimeHandle and RuntimeStreams

`RuntimeHandle`: `lifecycle`, `admission`, `resettable`, `loading` are the fields of that name;
`attempted`, `loaded`, `released`, `cursor`, `entries` are the local and shared lists of owned
components that `load`, its rollback, `close` and `_release_entries` walk; `call` is where each caller of
`execute` or `submit_frame` is; `contexts` is `_execution_contexts`. `resource` records what really
happened to each component and `doubt` whether an outcome is uncertain, or was forgotten by a drain that
ran into its deadline: both are history, read by no guard.

`RuntimeStreams`: a record per stream with its state, `active` step, flags and `control_lock`; `call[c]`
and `at[c]` are where each thread is; `control` and `todo` are the loops of `reset` and `close` over the
records; `saw` and `owns` are locals of `reset_stream` that outlive a critical section. `lapsed` is
history: an operation has gone on although the checks it made in an earlier section no longer hold.
Both banks (one state per stream, or one for the runtime) and both kinds of reset are initial choices.
Assumed: the runtime is stateful and loaded; a provider hands out fresh stream identifiers, so
`stream_id_conflict` does not happen; no callback re-enters the handle from its own thread; the loops
visit the open records in any order.

## 3. What the runs check

Properties are defined at the end of each specification with a comment of their own. Types are proved
(section 4) and not checked again by TLC. Times are of an idle machine with two workers.

| Run | Instance | Checks | States, time |
| --- | --- | --- | --- |
| `reservations_edf` | edf, 3 dispatches, 1 pipeline, deadlines 2 and 3 | `QueueMirrorsTable`, `EveryEntryOwned`, `HandsOutTurns` | 300k, 50 s |
| `reservations_fencing` | edf, 2 dispatches, 2 pipelines on 1 resource, 2 boots each | `OnlyStraysOverlap`, `NoFencedUnknown`, `TurnIsLeft` | 1.71M, 90 s |
| `reservations_fifo` | fifo, 2 dispatches, estimates 1 and 2, fair | `EstimatedScheduleFits`, `WaitEnds` | 839k, 180 s |
| `runtime_control` | 2 requests sharing an id with a frame, 3 components, retried resets, control deadlines, fair | `RunsOnLiveComponents`, `ReverseOwnershipOrder`, `ClosedHoldsNothing`, `UncertainIsFenced`, `IsAdmissionGate`, `OnlyLegalTransitions`, `ControlEnds` | 35k, 7 s |
| `pipeline_fence` | 2 bindings, 1 dispatch, 2 closes, 2 slots, fair | `SlotsAreConserved`, `DrainIsExclusive`, `ControlCountsBarriers`, `CloseReachesBinding`, `PublishesBehindFence`, `GoalsEnd` | 162k, 40 s |
| `sessions_lease` | 2 sessions with a dispatch each, 1 pipeline, 2 boots, 1 closer | `ServedIsRecorded`, `DrainBarrier`, `LeasesPipelines` | 741k, 60 s |
| `sessions_end` | 1 session with 2 dispatches, 1 pipeline, 2 boots, 1 closer, fair | `CompletedIsClosed`, `ClosesEnd` | 144k, 25 s |
| `ledger` | 4 attempts at one request (one with another payload), a second request, 2 waiters, 2 entries, 1 terminal, fair | `CompletedIsTrue`, `NoPlaceIsLost`, `RunsAtMostOnce`, `GoalsAnswered` | 232k, 50 s |
| `streams` | 1 stream, 2 threads, the control of the runtime, both banks, fair | `OneCallPerStream`, `OnlyLapsesHarm`, `ControlEnds` | 87k, 17 s |
| `streams_closed` | the same | `ClosedIsNotStepped`: violated, see section 5 | - |
| `dispatcher_sessions` | 2 sessions, 2 requests, chunk 2, watermark 1, horizon 1, 1 retry | `NoOrphanSession`, `FrozenUntilOpened`, `PlanIsCurrent`, `SkipsWhatWasExecuted` | 299k, 10 s |
| `dispatcher_progress` | the same with 1 session, fair | `FailureIsHandled`, `OperationsEnd`, `PlansKeepComing` | 16k, 9 s |

**Bounds and why they are enough.** `MaxTime` stops the clock at the last deadline, so that every entry
can expire, waiting or holding the turn. `MaxToken` bounds the reservations handed out to three: each of
three dispatches reserves, or one of two does so again; it is two in the fencing run, whose hazards are
those of one work that is let go of and of the next one. `MaxBoot = 2` gives a pipeline one restart, the
least for a goal to arrive at a process it was not meant for; two pipelines on one resource are the
least for a boot of one to affect the uncertain work of the other. Three waiters are the least for a
queue with a holder, a head and one behind it (the fifo run, which keeps two, is about pairs of
intervals). Two components would already order a release; three let a pending one stop in the middle.
Two closes, two slots and two bindings are the least for one Close to finish inside another, for two
drains to hold half of the slots each, and for a late completion to meet the next session. Two sessions
are the least for a pipeline to be leased away, or for the dispatcher to meet the late answer of a
former Open; two dispatches of one session the least for one to wait for the Open of the other. Three
attempts with one payload are a run, a duplicate and a retry after it; the second request evicts the
first. In the dispatcher a chunk of two is cut by the horizon of one, and the watermark of one lies
between. Two sessions that are bound to two pipelines, and two Closes of one session, are beyond these
instances: they are covered by the proofs only. One stream shows every race of one record; an instance
with two streams (4.7M states) satisfies the invariants of the `streams` run too.

Deadlock checking is off in every run: threads end, bounds stop the clock, and a state in which all
goals are answered is a proper end. That threads are not stuck is what the liveness properties say.

**Fairness.** All of it is weak.

* Reservations: time passes, and `wait_for_turn` waits at most 50 ms before it looks again (line 167);
  none is given to cancellation, release or reconciliation.
* Runtime: backends and components return, and the drain loop looks again every 50 ms
  (handle.py 1041-1047); nobody has to call anything. The streams have the same for steps and controls
  that have begun.
* Pipeline: each goal's thread runs once it has begun, and inferences return; the executor has four
  threads more than there are execution slots (`_pipeline_executor_threads`), and only one Close at a time waits for
  slots. A goal that was only sent need not arrive. `DrainExpires` is not fair: `GoalsEnd` does not
  rest on deadlines.
* Sessions: a thread that has begun goes on, and a pipeline answers a goal or the answer is lost; nobody
  has to begin a Close or a restart, and the timeouts of a Close are not fair.
* Ledger: a run ends, and a thread that was woken goes on; the deadline of a waiter need not come.
* Dispatcher: the timers and callbacks run, and the scheduler answers a Close, if only with the loss of
  the answer, and a request in one of its ways; the timeouts of operations are not fair.

## 4. What is proved

All theorems hold for every value of the constants under the named assumptions next to the constants'
declarations (shapes of functions, positive numbers, finite sets). Each module defines an inductive
invariant `IInv`, proves it action by action, and derives the properties from it.

* **`ScheduledDispatcherProofs`**: `TypeCorrect`, `NoSessionIsLost` (`NoOrphanSession`), `FreezeHolds`
  (`FrozenUntilOpened`), `PlansAreCurrent` and `AlignmentIsExact` (`SkipsWhatWasExecuted`). That no session
  is lost needs more than the record: an Open that is not answered yet can still be waited for and its
  session is not ACTIVE (`Recorded`), a Close under way is that of the session on record and its Open is
  answered (`Closing`), and an operation past its Close with success has no session (`Ended`). The types
  need the alignment: that the remembered length stays a natural number across toggles is
  `SkipsWhatWasExecuted`.
* **`GlobalSessionsProofs`**: `TypeCorrect`, `ServedOnRecord` (`ServedIsRecorded`), `CloseIsBarrier`
  (`DrainBarrier`), `UnknownStaysOut`, `CompletedClosed` (`CompletedIsClosed`) and `ImplementsLease`
  (refinement of `PipelineLease`), for every number of sessions, pipelines, dispatches and closers. `IInv`
  says at which stage a goal can be where (`GoalInv`), that what is known of a boot is never newer than the
  process (`BootInv`), that whatever lives in a pipeline, or may still move in, is the binding on record
  and of the running boot (`ViableInv`), and that a Close without a failure has drained, or has yet to
  drain, all that is left (`RemainderInv`).
* **`DeadlineReservationsProofs`**: `InductiveInvariant`, `Exclusive` (`OnlyStraysOverlap`) and
  `FencedUnknownReleased` (`NoFencedUnknown`). That only strays overlap is not inductive: it follows
  because all work that is admitted, executes or could still be admitted, strays aside, holds the turn of
  its resource. `IInv` therefore says who holds the turn while a goal waits, is in flight, admitted, at
  work or uncertain (`TurnHeld`, `SentInTurn`), that the trusted boot is at most the observed one, that at
  most the running one, and a boot a thread has read at most the observed one (`BootsOrdered`), that two threads
  never share an entry (`HeldOnce`), and as much of the queue as the turn needs (`QueueOfResource`). So what
  is released as fenced is of a former process, or a mistake on record (`FencedIsOldOrMistaken`).
  The types are `TypeCorrect`. `Typed`, the part of them that `IInv` needs, leaves out the bound of the
  clock and the drained bindings, which `Bounds` adds.

  The queues have an invariant of their own on top of it, `QueueInv` (`QueueInvariant`): the line of a
  resource lists exactly its entries (`QueueLists`), the holder of the turn is one of them
  (`TurnListed`), and of two places in a line the earlier one is the holder's or comes first in the order
  of the policy (`QueueOrdered`). As nothing comes before itself, the last part also says that nothing is
  listed twice. `QueueMirrors` (`QueueMirrorsTable`) follows. It is inductive because
  `StepKinds` leaves four kinds of steps to look at: those that do not touch the table, removals of
  entries that may not execute any more or are strays, a pass of a waiter and a reservation. The same case
  distinction gives `GrantsOrdered` (`GrantsInOrder`: the head that takes a vacant turn precedes the whole line, and a pass
  that takes it is not too late) and `TurnKept` (`TurnIsLeft`). `EntriesOwned` (`EveryEntryOwned`) is
  inductive over `IInv`: a thread that gives up its candidate has removed its entry or found it gone or
  recorded it. `ScheduleFits` (`EstimatedScheduleFits`) needs `QueueInv`: only because the line lists every
  entry of the resource does a new interval begin after all of them (`TailCovers`).

  `ImplementsTurnstile` (`HandsOutTurns`) puts the order together: the table and the threads refine
  `Turnstile`, with the entries of a resource as its line, the sort key as the order and `_active_tokens`
  as the turns. A removal is a departure (`RemovalDeparts`), a pass is a departure of the expired or takes
  the turn (`PassTakesTurn`, by `GrantStep`), a reservation joins (`ReserveJoins`). `Turnstile` says
  nothing of deadlines, owners and execution: the other properties do.
* **`QueueOpsProofs`** has the lemmas about `Without` and the listings of the sort: `Without` keeps the
  elements outside the removed set, once each and in their order (`WithoutKeeps`, which counts the
  kept positions below a position: `UptoCount`, `NthProperties`), and a listing of as many distinct
  elements as a set has lists all of the set (`ListsAll`).
* **`RequestLedgerProofs`**: `LedgerInvariant`, `TypeCorrect`, `CompletionsAreTrue` (`CompletedIsTrue`),
  `PlacesAreKept` (`NoPlaceIsLost`) and `ImplementsOnce` (refinement of `OnceExecutor`). The key conjunct is
  `EffectsAreRemembered`: a run that may have had an effect is under its key unless the key was evicted;
  it needs that the entry a run is about to discard is still its own as long as nothing was evicted.
* **`ScheduledPipelineProofs`**: `PipelineInvariant`, `TypeCorrect`, `NoSlotIsLost` (`SlotsAreConserved`),
  `DrainIsABarrier` (`DrainIsExclusive`), `ImplementsFence` (refinement of `FencedPublication`),
  `ControlIsCounted` (`ControlCountsBarriers`) and `BindingIsReached` (`CloseReachesBinding`). The key conjuncts are `AdmittedBehindFence` (an admitted
  dispatch is behind the fence or belongs to the binding being served) and `FreshIsServed` (a completion
  that passed the comparison stays valid until it is published, because it holds a slot a Close would
  need). `ControlIsCounted` adds an invariant of its own on the single running barrier, and `DoubtInv`:
  a dispatch in doubt is on record as answered UNKNOWN. `BindingIsReached` goes on from there: session and
  identity are written by different steps, so `ReachInv` follows one binding through them. The scheduler
  has one binding under way (`OneAtATime`), an Open past its checks meets no identity but its own
  (`OpensBind`), a session that is there has its identity (`ServedIsBound`), and of the Closes at most one
  is between the end of the session and the reset of the identity, which is then that of a drained binding
  (`ClosesDrain`). A second Close that runs in between therefore never resets the identity of a session
  that is served.
* **`RuntimeHandleProofs`**: `RuntimeInvariant`, `TypeCorrect`, `OnLiveComponents` (`RunsOnLiveComponents`),
  `ReleaseIsOrderly` (`ReverseOwnershipOrder`), `ClosedIsEmpty` (`ClosedHoldsNothing`), `TransitionsAreLegal` (`OnlyLegalTransitions`),
  `ImplementsGate` (refinement of `AdmissionGate`), `ControlIsExclusive` and `UncertaintyFenced`
  (`UncertainIsFenced`). The invariant ties the phases of the loader and of the control operation to the
  lifecycle (`LoaderPhase`, `ControlPhase`), says that running calls are backed by live components
  (`Backed`) and who owns each live component (`ReleasePhase`).
* **`RuntimeStreamsProofs`**: `StreamsInvariant`, `TypeCorrect`, `ServesOneCall` (`OneCallPerStream`) and
  `LapsesAreTheOnlyHole` (`OnlyLapsesHarm`): capacity, the quiet of a drain, the wait after an uncertain
  outcome and the end of a closed stream can only be broken by an operation that goes on with checks of
  an earlier section. `Located`, `Stepped` and `Held` say what a caller may rely on where it is, `Gated` who
  may open the admission again.

Every safety invariant, action property and refinement that a run checks is proved. The strengthenings were
checked by TLC before they were proved; `QueueInv` (with `EveryEntryOwned` and `EstimatedScheduleFits`)
and `HandsOutTurns` hold on the three instances of the reservations, `~Doubtful => ReachInv` on that of the pipeline.

Only model-checked, because liveness under fairness and `ENABLED` are out of the prover's reach:
`WaitEnds`, `ControlEnds` of the handle and of the streams, `GoalsEnd`, `ClosesEnd`, `GoalsAnswered`,
`FailureIsHandled`, `OperationsEnd` and `PlansKeepComing`. The order of `Enqueue` is a relation (a
listing in the order of the key) and not the sorting algorithm, which is Python's.

## 5. Findings, and what the models show besides

One run ends in a counterexample; the account with the quoted line is in `PROJECT.json`.

* `streams_closed`: `step` checks the stream in one section (handle.py:1469) and marks the step active in
  a later one (handle.py:1529) that looks at the flags only. If `close_stream` completes in between, the
  closed stream of the provider is stepped, and the record becomes OPEN again.

Other behaviours of the code that contradict nothing it states. Each can be seen in the models:

* A dispatch admitted by a pipeline, but not yet holding its slot, when a Close begins, executes after
  the Close has answered (pipeline_policy_node.py:2557). Its result is fenced, which is proved; its
  execution is not, and the Global scheduler meanwhile believes the hardware free. If it ends unknown,
  it leaves a FAILED controller with no bound identity, which only a restart clears.
* A dispatch reads the boot id from a status that may not be trusted yet (node line 1194). If its outcome
  is then unknown before the cursor has moved, `_mark_reservation_unknown` (line 1555) compares for
  equality, takes the newer boot for a fenced one and releases the resource, while the new process may be
  executing the work. This and the previous item are the two disjuncts of `Stray`: `OnlyStraysOverlap` and
  `TurnIsLeft` say that there is no third way.
* An unknown outcome during a Close moves the controller to FAILED; both calls of `finish_close` raise,
  and the session-control count is not given back (session_controller.py:264). This is why
  `ControlCountsBarriers` and `CloseReachesBinding` are conditional on `~Doubtful`.
* A Close that names a generation can be answered with the zero/zero success reserved to generation zero
  (pipeline_policy_node.py:2722).
* A drain of the handle that runs into its deadline goes back to READY although an outcome was marked
  uncertain meanwhile (handle.py:1077); `UncertainIsFenced` names this one way out (`doubt = "forgotten"`).
* Two executions that share a request id: the release of one removes the cancellation context of the other
  (handle.py:772).
* The boot id a dispatch has read may be older than the reconciliation that runs before it binds: the
  binding stays tied to a boot that is gone until a Close clears it.

## 6. Not modelled

* **Two machine-checked views are not composed into one state machine.** `GlobalSessions` and
  `DeadlineReservations` share their threads; their product is beyond TLC, and what crosses between them
  (a boot id, the release of an entry after a Close) is in both.
* Of the modelled components: the idle sweep (a Close nobody asked for), status publication, the wire
  validation, lease clocks, the capacities in status messages; runtime admission, shutdown and navigation
  mode of the dispatcher, its former path and the step barrier of benchmarks; `operations.py` and
  `idempotency.py` beyond the key they produce. `PROJECT.json` says which for each component.
* The runtime behind the handle (staged executor, distributed sessions, backends, codecs), video streams,
  perception, drivers, kinematics, configuration, manifests, conversion tools: data, input and output, or
  sequential code that unit tests reach. They are nearly all of the repository's lines, and no state
  machine of theirs is shared between actors.
* The execution store of the skill library and the plan store of the agent are state machines that could
  still be modelled.

## 7. Plan

1. The execution store of the skill library (retention, replay, restart), then the agent's plan store.
2. The idle sweep in `GlobalSessions`; shutdown and the admission of a provider in `ScheduledDispatcher`.
3. Proofs: an abstract specification of the dispatcher (plans of one session at a time) that
   `ScheduledDispatcher` implements; then the modules of item 1.
4. The dispatcher against `GlobalSessions` instead of its own small model of the scheduler.

## 8. Running it

`tlc -config MCReservationsEdf.cfg MCDeadlineReservations.tla` checks a run (the pairs are in
`PROJECT.json`); `tlapm DeadlineReservationsProofs.tla` checks a proof module.

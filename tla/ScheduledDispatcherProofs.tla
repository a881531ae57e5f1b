---------------------- MODULE ScheduledDispatcherProofs ----------------------
(***************************************************************************)
(* What is proved of ScheduledDispatcher for every set of sessions and     *)
(* requests, every chunk, watermark and horizons.  The inductive invariant *)
(* ties the record of the session to what is under way for it: the answer  *)
(* of its Open (Recorded), its Close (Closing), and the operation that has *)
(* the lifecycle lock (Holder, Ended), and says that there is no plan but  *)
(* in an ACTIVE dispatcher (Planless).                                     *)
(***************************************************************************)
EXTENDS ScheduledDispatcher, TLAPS

\* TypeOK in parts, and that a retry is one of those left.
Plans == [length : 0..Chunk, mark : {0, Watermark}, of : Sessions \cup {None}]
SessionTypes ==
  /\ state \in States /\ session \in Sessions \cup {None} /\ generation \in {0, 1}
  /\ pendingOpen \in Sessions \cup {None} /\ closeAfter \in BOOLEAN
CloseTypes ==
  /\ closing \in BOOLEAN /\ closeOk \in BOOLEAN
  /\ closeOf \in [session : Sessions \cup {None}, generation : {0, 1}]
OperationTypes ==
  operation \in [kind : {"none", "start", "stop", "restart", "fail"}, phase : Phases,
                 safe : BOOLEAN, ok : BOOLEAN]
FailureTypes == pending \in Failures /\ drained \in Failures
OpenTypes ==
  /\ openCall \in [Sessions -> {"unused", "sent", "answered", "late", "lost", "compensating",
                                "failing", "failed", "done"}]
  /\ remote \in [Sessions -> {"none", "pending", "refused", "open", "closed"}]
PlanTypes ==
  /\ inflight \in Requests \cup {None} /\ startLength \in Nat /\ executed \in Nat
  /\ wants \in BOOLEAN /\ smoothing \in BOOLEAN /\ plan \in [BOOLEAN -> Plans]
RequestTypes ==
  /\ request \in [Requests -> {"sent", "decoding", "waiting", "failed", "done"}]
  /\ requestOf \in [Requests -> Sessions \cup {None}]
  /\ attempts \in [Requests -> 0..MaxAttempts]
  /\ \A r \in Requests : request[r] = "waiting" => attempts[r] < MaxAttempts
Types ==
  /\ SessionTypes /\ CloseTypes /\ OperationTypes /\ FailureTypes /\ OpenTypes
  /\ PlanTypes /\ RequestTypes

\* Only a start or a restart is ever past its Close.
Holder ==
  /\ operation.kind = "none" <=> operation.phase = "none"
  /\ operation.kind = "start" => operation.phase = "opening"

Freezing == operation.phase \notin {"none", "opening"}

\* While an operation freezes there is nothing that could run.
Frozen ==
  Freezing => /\ state \in {"CLOSING", "STOPPED", "FAILED"}
              /\ inflight = None /\ \A b \in BOOLEAN : plan[b].length = 0

\* The session on record is the one the scheduler may have, and an Open that
\* is not answered yet can still be waited for.
Recorded ==
  /\ session = None => generation = 0
  /\ state \in {"WAITING_READY", "STOPPED"} => session = None
  /\ \A n \in Sessions :
       /\ remote[n] \in {"pending", "open"} => session = n
       /\ openCall[n] = "sent" /\ session = n =>
            pendingOpen = n /\ generation = 0 /\ state # "ACTIVE"

\* A Close that is under way is that of the session on record.
Closing ==
  closing =>
    /\ session # None /\ session = closeOf.session /\ closeOf.generation \in {0, generation}
    /\ ~closeOk /\ state \in {"CLOSING", "FAILED"}
    /\ openCall[session] # "sent"

\* What the phases of an operation say of the session it closes.
Ended ==
  /\ operation.phase = "settled" /\ session # None => openCall[session] # "sent"
  /\ operation.phase = "closed" /\ closeOk => session = None
  /\ operation.phase = "ending" /\ operation.ok => session = None

Planless == state # "ACTIVE" => \A b \in BOOLEAN : plan[b].length = 0

IInv ==
  /\ Types /\ Holder /\ Frozen /\ Recorded /\ Closing /\ Ended /\ Planless
  /\ PlanIsCurrent /\ SkipsWhatWasExecuted

USE DispatcherAssumption

\* The parts of the types together.
LEMMA TypeParts == Types => TypeOK
  BY DEF TypeOK, Types, SessionTypes, CloseTypes, OperationTypes, FailureTypes, OpenTypes,
         PlanTypes, RequestTypes, Plans

\* The plans at the start.
LEMMA EmptyPlans == [b \in BOOLEAN |-> EmptyPlan] \in [BOOLEAN -> Plans]
<1>1. EmptyPlan \in Plans
  BY DEF EmptyPlan, Plans
<1> QED BY <1>1

\* The active plan is a plan.
LEMMA ActiveType ==
  ASSUME Types
  PROVE  /\ Active \in Plans /\ Active.length \in 0..Chunk
         /\ \A b \in BOOLEAN : plan[b] \in Plans /\ plan[b].length \in Nat
<1>1. smoothing \in BOOLEAN /\ plan \in [BOOLEAN -> Plans]
  BY DEF Types, PlanTypes
<1>2. \A b \in BOOLEAN : plan[b] \in Plans
  BY <1>1
<1>3. \A p \in Plans : p.length \in 0..Chunk
  BY DEF Plans
<1> QED BY <1>1, <1>2, <1>3 DEF Active

\* The dispatcher starts without a session and without a plan.
LEMMA InitIInv == Init => IInv
<1> SUFFICES ASSUME Init PROVE IInv
  OBVIOUS
<1> USE DEF Init, Idle, NoClose, NoFailure, EmptyPlan
<1>1. SessionTypes /\ CloseTypes /\ OperationTypes /\ FailureTypes
  BY DEF SessionTypes, States, CloseTypes, OperationTypes, Phases, FailureTypes, Failures
<1>2. OpenTypes /\ RequestTypes
  BY DEF OpenTypes, RequestTypes
<1>3. PlanTypes
  BY EmptyPlans DEF PlanTypes
<1>4. Holder /\ Frozen /\ Recorded /\ Closing /\ Ended /\ Planless
  BY DEF Holder, Frozen, Freezing, Recorded, Closing, Ended, Planless
<1>5. PlanIsCurrent /\ SkipsWhatWasExecuted
  BY DEF PlanIsCurrent, SkipsWhatWasExecuted
<1> QED BY <1>1, <1>2, <1>4, <1>5, <1>3 DEF IInv, Types

-----------------------------------------------------------------------------
(* Types.                                                                  *)

\* Every step keeps the types.
LEMMA TypeNext ==
  ASSUME Types, SkipsWhatWasExecuted, [Next]_vars
  PROVE  Types'
<1>1. ASSUME NEW n \in Sessions, ReadinessOpens(n) PROVE Types'
  <2>1. SessionTypes'
    BY <1>1 DEF ReadinessOpens, Open, ClearPlans, ForgetRequest, EmptyPlan, Types,
       SessionTypes, States, lifecycleVars, closeVars, failureVars, planVars,
       requestVars
  <2>2. OpenTypes'
    BY <1>1 DEF ReadinessOpens, Open, ClearPlans, ForgetRequest, EmptyPlan, Types,
       OpenTypes, lifecycleVars, closeVars, failureVars, planVars, requestVars
  <2>3. PlanTypes'
    BY <1>1, EmptyPlans DEF ReadinessOpens, Open, ClearPlans, ForgetRequest, Types,
       PlanTypes, lifecycleVars, closeVars, failureVars, planVars, requestVars
  <2>4. CloseTypes' /\ OperationTypes' /\ FailureTypes' /\ RequestTypes'
    BY <1>1 DEF ReadinessOpens, Open, ClearPlans, ForgetRequest, EmptyPlan, Types,
       CloseTypes, OperationTypes, FailureTypes, RequestTypes, lifecycleVars,
       closeVars, failureVars, planVars, requestVars
  <2> QED BY <2>1, <2>2, <2>3, <2>4 DEF Types
<1>2. ASSUME NEW n \in Sessions, StartOpens(n) PROVE Types'
  <2>1. SessionTypes'
    BY <1>2 DEF StartOpens, Open, Idle, ClearPlans, ForgetRequest, EmptyPlan, Types,
       SessionTypes, States, lifecycleVars, closeVars, failureVars, planVars,
       requestVars
  <2>2. OperationTypes'
    BY <1>2 DEF StartOpens, Open, Idle, ClearPlans, ForgetRequest, EmptyPlan, Types,
       OperationTypes, Phases, CloseTypes, lifecycleVars, closeVars, failureVars,
       planVars, requestVars
  <2>3. OpenTypes'
    BY <1>2 DEF StartOpens, Open, Idle, ClearPlans, ForgetRequest, EmptyPlan, Types,
       OpenTypes, lifecycleVars, closeVars, failureVars, planVars, requestVars
  <2>4. PlanTypes'
    BY <1>2, EmptyPlans DEF StartOpens, Open, Idle, ClearPlans, ForgetRequest,
       Types, PlanTypes, lifecycleVars, closeVars, failureVars, planVars,
       requestVars
  <2>5. CloseTypes' /\ FailureTypes' /\ RequestTypes'
    BY <1>2 DEF StartOpens, Open, Idle, ClearPlans, ForgetRequest, EmptyPlan, Types,
       CloseTypes, FailureTypes, RequestTypes, lifecycleVars, closeVars,
       failureVars, planVars, requestVars
  <2> QED BY <2>1, <2>2, <2>3, <2>4, <2>5 DEF Types
<1>3. ASSUME Stops("stop") PROVE Types'
  <2>1. SessionTypes'
    BY <1>3 DEF Stops, Freeze, Idle, ClearPlans, ForgetRequest, EmptyPlan, Types,
       SessionTypes, States, lifecycleVars, closeVars, failureVars, planVars,
       requestVars
  <2>2. OperationTypes'
    BY <1>3 DEF Stops, Freeze, Idle, ClearPlans, ForgetRequest, EmptyPlan, Types,
       OperationTypes, Phases, CloseTypes, lifecycleVars, closeVars, failureVars,
       planVars, requestVars
  <2>3. PlanTypes'
    BY <1>3, EmptyPlans DEF Stops, Freeze, Idle, ClearPlans, ForgetRequest, Types,
       PlanTypes, lifecycleVars, closeVars, failureVars, planVars, requestVars
  <2>4. CloseTypes' /\ FailureTypes' /\ OpenTypes' /\ RequestTypes'
    BY <1>3 DEF Stops, Freeze, Idle, ClearPlans, ForgetRequest, EmptyPlan, Types,
       CloseTypes, FailureTypes, OpenTypes, RequestTypes, lifecycleVars, closeVars,
       failureVars, planVars, requestVars
  <2> QED BY <2>1, <2>2, <2>3, <2>4 DEF Types
<1>4. ASSUME Stops("restart") PROVE Types'
  <2>1. SessionTypes'
    BY <1>4 DEF Stops, Freeze, Idle, ClearPlans, ForgetRequest, EmptyPlan, Types,
       SessionTypes, States, lifecycleVars, closeVars, failureVars, planVars,
       requestVars
  <2>2. OperationTypes'
    BY <1>4 DEF Stops, Freeze, Idle, ClearPlans, ForgetRequest, EmptyPlan, Types,
       OperationTypes, Phases, CloseTypes, lifecycleVars, closeVars, failureVars,
       planVars, requestVars
  <2>3. PlanTypes'
    BY <1>4, EmptyPlans DEF Stops, Freeze, Idle, ClearPlans, ForgetRequest, Types,
       PlanTypes, lifecycleVars, closeVars, failureVars, planVars, requestVars
  <2>4. CloseTypes' /\ FailureTypes' /\ OpenTypes' /\ RequestTypes'
    BY <1>4 DEF Stops, Freeze, Idle, ClearPlans, ForgetRequest, EmptyPlan, Types,
       CloseTypes, FailureTypes, OpenTypes, RequestTypes, lifecycleVars, closeVars,
       failureVars, planVars, requestVars
  <2> QED BY <2>1, <2>2, <2>3, <2>4 DEF Types
<1>5. ASSUME Settle PROVE Types'
  <2>1. SessionTypes'
    BY <1>5 DEF Settle, ClearPlans, ForgetRequest, EmptyPlan, Types, SessionTypes,
       States, lifecycleVars, closeVars, failureVars, planVars, requestVars
  <2>2. OperationTypes'
    BY <1>5 DEF Settle, ClearPlans, ForgetRequest, EmptyPlan, Types, OperationTypes,
       Phases, CloseTypes, lifecycleVars, closeVars, failureVars, planVars,
       requestVars
  <2>3. PlanTypes'
    BY <1>5, EmptyPlans DEF Settle, ClearPlans, ForgetRequest, Types, PlanTypes,
       lifecycleVars, closeVars, failureVars, planVars, requestVars
  <2>4. CloseTypes' /\ FailureTypes' /\ OpenTypes' /\ RequestTypes'
    BY <1>5 DEF Settle, ClearPlans, ForgetRequest, EmptyPlan, Types, CloseTypes,
       FailureTypes, OpenTypes, RequestTypes, lifecycleVars, closeVars, failureVars,
       planVars, requestVars
  <2> QED BY <2>1, <2>2, <2>3, <2>4 DEF Types
<1>6. ASSUME OperationCloses PROVE Types'
  <2>1. SessionTypes'
    BY <1>6 DEF OperationCloses, BeginClose, ClearPlans, ForgetRequest, EmptyPlan,
       Types, SessionTypes, States, lifecycleVars, closeVars, failureVars, planVars,
       requestVars
  <2>2. CloseTypes'
    <3>1. CASE closing
      BY <1>6, <3>1 DEF OperationCloses, BeginClose, ClearPlans, ForgetRequest, Types, CloseTypes, closeVars
    <3>2. CASE ~closing /\ UNCHANGED closeVars
      BY <3>2 DEF Types, CloseTypes, closeVars
    <3>3. CASE ~closing /\ BeginClose
      <4>1. closing' = TRUE /\ closeOk' = FALSE
        BY <3>3 DEF BeginClose
      <4>2. closeOf' = [session |-> session, generation |-> generation]
        BY <3>3 DEF BeginClose
      <4> QED BY <4>1, <4>2 DEF Types, CloseTypes, SessionTypes
    <3> QED BY <1>6, <3>1, <3>2, <3>3 DEF OperationCloses, closeVars
  <2>3. OperationTypes'
    BY <1>6 DEF OperationCloses, BeginClose, ClearPlans, ForgetRequest, EmptyPlan,
       Types, OperationTypes, Phases, CloseTypes, lifecycleVars, closeVars,
       failureVars, planVars, requestVars
  <2>4. PlanTypes'
    BY <1>6, EmptyPlans DEF OperationCloses, BeginClose, ClearPlans, ForgetRequest,
       Types, PlanTypes, lifecycleVars, closeVars, failureVars, planVars,
       requestVars
  <2>5. FailureTypes' /\ OpenTypes' /\ RequestTypes'
    BY <1>6 DEF OperationCloses, BeginClose, ClearPlans, ForgetRequest, EmptyPlan,
       Types, FailureTypes, OpenTypes, RequestTypes, lifecycleVars, closeVars,
       failureVars, planVars, requestVars
  <2> QED BY <2>1, <2>2, <2>3, <2>4, <2>5 DEF Types
<1>7. ASSUME OperationClosed PROVE Types'
  <2>1. OperationTypes'
    BY <1>7 DEF OperationClosed, Types, OperationTypes, Phases, CloseTypes,
       lifecycleVars, closeVars, failureVars, planVars, requestVars
  <2>2. SessionTypes' /\ CloseTypes' /\ FailureTypes' /\ OpenTypes' /\ PlanTypes' /\ RequestTypes'
    BY <1>7 DEF OperationClosed, Types, SessionTypes, CloseTypes, FailureTypes,
       OpenTypes, PlanTypes, RequestTypes, lifecycleVars, closeVars, failureVars,
       planVars, requestVars
  <2> QED BY <2>1, <2>2 DEF Types
<1>8. ASSUME OperationEnds PROVE Types'
  <2>1. SessionTypes'
    BY <1>8 DEF OperationEnds, Clean, Idle, EmptyPlan, Types, SessionTypes, States,
       lifecycleVars, closeVars, failureVars, planVars, requestVars
  <2>2. OperationTypes'
    BY <1>8 DEF OperationEnds, Clean, Idle, EmptyPlan, Types, OperationTypes,
       Phases, CloseTypes, lifecycleVars, closeVars, failureVars, planVars,
       requestVars
  <2>3. PlanTypes'
    BY <1>8, EmptyPlans DEF OperationEnds, Clean, Idle, Types, PlanTypes,
       lifecycleVars, closeVars, failureVars, planVars, requestVars
  <2>4. CloseTypes' /\ FailureTypes' /\ OpenTypes' /\ RequestTypes'
    BY <1>8 DEF OperationEnds, Clean, Idle, EmptyPlan, Types, CloseTypes,
       FailureTypes, OpenTypes, RequestTypes, lifecycleVars, closeVars, failureVars,
       planVars, requestVars
  <2> QED BY <2>1, <2>2, <2>3, <2>4 DEF Types
<1>9. ASSUME NEW n \in Sessions, RestartOpens(n) PROVE Types'
  <2>1. SessionTypes'
    BY <1>9 DEF RestartOpens, Clean, Open, ClearPlans, ForgetRequest, EmptyPlan,
       Types, SessionTypes, States, lifecycleVars, closeVars, failureVars, planVars,
       requestVars
  <2>2. OperationTypes'
    BY <1>9 DEF RestartOpens, Clean, Open, ClearPlans, ForgetRequest, EmptyPlan,
       Types, OperationTypes, Phases, CloseTypes, lifecycleVars, closeVars,
       failureVars, planVars, requestVars
  <2>3. OpenTypes'
    BY <1>9 DEF RestartOpens, Clean, Open, ClearPlans, ForgetRequest, EmptyPlan,
       Types, OpenTypes, lifecycleVars, closeVars, failureVars, planVars,
       requestVars
  <2>4. PlanTypes'
    BY <1>9, EmptyPlans DEF RestartOpens, Clean, Open, ClearPlans, ForgetRequest,
       Types, PlanTypes, lifecycleVars, closeVars, failureVars, planVars,
       requestVars
  <2>5. CloseTypes' /\ FailureTypes' /\ RequestTypes'
    BY <1>9 DEF RestartOpens, Clean, Open, ClearPlans, ForgetRequest, EmptyPlan,
       Types, CloseTypes, FailureTypes, RequestTypes, lifecycleVars, closeVars,
       failureVars, planVars, requestVars
  <2> QED BY <2>1, <2>2, <2>3, <2>4, <2>5 DEF Types
<1>10. ASSUME OpenWaitEnds PROVE Types'
  <2>1. OperationTypes'
    BY <1>10 DEF OpenWaitEnds, Idle, Types, OperationTypes, Phases, CloseTypes,
       lifecycleVars, closeVars, failureVars, planVars, requestVars
  <2>2. SessionTypes' /\ CloseTypes' /\ FailureTypes' /\ OpenTypes' /\ PlanTypes' /\ RequestTypes'
    BY <1>10 DEF OpenWaitEnds, Idle, Types, SessionTypes, CloseTypes, FailureTypes,
       OpenTypes, PlanTypes, RequestTypes, lifecycleVars, closeVars, failureVars,
       planVars, requestVars
  <2> QED BY <2>1, <2>2 DEF Types
<1>11. ASSUME OperationTimesOut PROVE Types'
  <2>1. OperationTypes'
    BY <1>11 DEF OperationTimesOut, Types, OperationTypes, Phases, CloseTypes,
       lifecycleVars, closeVars, failureVars, planVars, requestVars
  <2>2. SessionTypes' /\ CloseTypes' /\ FailureTypes' /\ OpenTypes' /\ PlanTypes' /\ RequestTypes'
    BY <1>11 DEF OperationTimesOut, Types, SessionTypes, CloseTypes, FailureTypes,
       OpenTypes, PlanTypes, RequestTypes, lifecycleVars, closeVars, failureVars,
       planVars, requestVars
  <2> QED BY <2>1, <2>2 DEF Types
<1>12. ASSUME NEW n \in Sessions, OpenSucceeds(n) PROVE Types'
  <2>1. SessionTypes'
    BY <1>12 DEF OpenSucceeds, Tracks, Types, SessionTypes, States, lifecycleVars,
       closeVars, failureVars, planVars, requestVars
  <2>2. OpenTypes'
    BY <1>12 DEF OpenSucceeds, Tracks, Types, OpenTypes, lifecycleVars, closeVars,
       failureVars, planVars, requestVars
  <2>3. CloseTypes' /\ OperationTypes' /\ FailureTypes' /\ PlanTypes' /\ RequestTypes'
    BY <1>12 DEF OpenSucceeds, Tracks, Types, CloseTypes, OperationTypes,
       FailureTypes, PlanTypes, RequestTypes, lifecycleVars, closeVars, failureVars,
       planVars, requestVars
  <2> QED BY <2>1, <2>2, <2>3 DEF Types
<1>13. ASSUME NEW n \in Sessions, OpenNotStarted(n) PROVE Types'
  <2>1. SessionTypes'
    BY <1>13 DEF OpenNotStarted, Tracks, Types, SessionTypes, States, lifecycleVars,
       closeVars, failureVars, planVars, requestVars
  <2>2. OpenTypes'
    BY <1>13 DEF OpenNotStarted, Tracks, Types, OpenTypes, lifecycleVars, closeVars,
       failureVars, planVars, requestVars
  <2>3. CloseTypes' /\ OperationTypes' /\ FailureTypes' /\ PlanTypes' /\ RequestTypes'
    BY <1>13 DEF OpenNotStarted, Tracks, Types, CloseTypes, OperationTypes,
       FailureTypes, PlanTypes, RequestTypes, lifecycleVars, closeVars, failureVars,
       planVars, requestVars
  <2> QED BY <2>1, <2>2, <2>3 DEF Types
<1>14. ASSUME NEW n \in Sessions, OpenUnknown(n) PROVE Types'
  <2>1. OpenTypes'
    BY <1>14 DEF OpenUnknown, Tracks, Types, OpenTypes, lifecycleVars, closeVars,
       failureVars, planVars, requestVars
  <2>2. SessionTypes' /\ CloseTypes' /\ OperationTypes' /\ FailureTypes' /\ PlanTypes' /\ RequestTypes'
    BY <1>14 DEF OpenUnknown, Tracks, Types, SessionTypes, CloseTypes,
       OperationTypes, FailureTypes, PlanTypes, RequestTypes, lifecycleVars,
       closeVars, failureVars, planVars, requestVars
  <2> QED BY <2>1, <2>2 DEF Types
<1>15. ASSUME NEW n \in Sessions, CompleteOpen(n) PROVE Types'
  <2>1. SessionTypes'
    BY <1>15 DEF CompleteOpen, Types, SessionTypes, States, lifecycleVars,
       closeVars, failureVars, planVars, requestVars
  <2>2. OpenTypes'
    BY <1>15 DEF CompleteOpen, Types, OpenTypes, lifecycleVars, closeVars,
       failureVars, planVars, requestVars
  <2>3. CloseTypes' /\ OperationTypes' /\ FailureTypes' /\ PlanTypes' /\ RequestTypes'
    BY <1>15 DEF CompleteOpen, Types, CloseTypes, OperationTypes, FailureTypes,
       PlanTypes, RequestTypes, lifecycleVars, closeVars, failureVars, planVars,
       requestVars
  <2> QED BY <2>1, <2>2, <2>3 DEF Types
<1>16. ASSUME NEW n \in Sessions, Compensate(n) PROVE Types'
  <2>1. SessionTypes'
    BY <1>16 DEF Compensate, BeginClose, ClearPlans, ForgetRequest, EmptyPlan,
       Types, SessionTypes, States, lifecycleVars, closeVars, failureVars, planVars,
       requestVars
  <2>2. CloseTypes'
    <3>1. CASE closing
      BY <1>16, <3>1 DEF Compensate, BeginClose, ClearPlans, ForgetRequest, Types, CloseTypes, closeVars
    <3>2. CASE ~closing /\ UNCHANGED closeVars
      BY <3>2 DEF Types, CloseTypes, closeVars
    <3>3. CASE ~closing /\ BeginClose
      <4>1. closing' = TRUE /\ closeOk' = FALSE
        BY <3>3 DEF BeginClose
      <4>2. closeOf' = [session |-> session, generation |-> generation]
        BY <3>3 DEF BeginClose
      <4> QED BY <4>1, <4>2 DEF Types, CloseTypes, SessionTypes
    <3> QED BY <1>16, <3>1, <3>2, <3>3 DEF Compensate, closeVars
  <2>3. OpenTypes'
    BY <1>16 DEF Compensate, BeginClose, ClearPlans, ForgetRequest, EmptyPlan,
       Types, OpenTypes, lifecycleVars, closeVars, failureVars, planVars,
       requestVars
  <2>4. PlanTypes'
    BY <1>16, EmptyPlans DEF Compensate, BeginClose, ClearPlans, ForgetRequest,
       Types, PlanTypes, lifecycleVars, closeVars, failureVars, planVars,
       requestVars
  <2>5. OperationTypes' /\ FailureTypes' /\ RequestTypes'
    BY <1>16 DEF Compensate, BeginClose, ClearPlans, ForgetRequest, EmptyPlan,
       Types, OperationTypes, FailureTypes, RequestTypes, lifecycleVars, closeVars,
       failureVars, planVars, requestVars
  <2> QED BY <2>1, <2>2, <2>3, <2>4, <2>5 DEF Types
<1>17. ASSUME NEW n \in Sessions, OpenFails(n) PROVE Types'
  <2>1. SessionTypes'
    BY <1>17 DEF OpenFails, TryFailure, Freeze, Concerns, Idle, NoFailure,
       ClearPlans, ForgetRequest, EmptyPlan, Types, SessionTypes, States,
       lifecycleVars, closeVars, failureVars, planVars, requestVars
  <2>2. OperationTypes'
    BY <1>17 DEF OpenFails, TryFailure, Freeze, Concerns, Idle, NoFailure,
       ClearPlans, ForgetRequest, EmptyPlan, Types, OperationTypes, Phases,
       CloseTypes, lifecycleVars, closeVars, failureVars, planVars, requestVars
  <2>3. FailureTypes'
    BY <1>17 DEF OpenFails, TryFailure, Freeze, Concerns, Idle, NoFailure,
       ClearPlans, ForgetRequest, EmptyPlan, Types, FailureTypes, Failures,
       SessionTypes, lifecycleVars, closeVars, failureVars, planVars, requestVars
  <2>4. OpenTypes'
    BY <1>17 DEF OpenFails, TryFailure, Freeze, Concerns, Idle, NoFailure,
       ClearPlans, ForgetRequest, EmptyPlan, Types, OpenTypes, lifecycleVars,
       closeVars, failureVars, planVars, requestVars
  <2>5. PlanTypes'
    BY <1>17, EmptyPlans DEF OpenFails, TryFailure, Freeze, Concerns, Idle,
       NoFailure, ClearPlans, ForgetRequest, Types, PlanTypes, lifecycleVars,
       closeVars, failureVars, planVars, requestVars
  <2>6. CloseTypes' /\ RequestTypes'
    BY <1>17 DEF OpenFails, TryFailure, Freeze, Concerns, Idle, NoFailure,
       ClearPlans, ForgetRequest, EmptyPlan, Types, CloseTypes, RequestTypes,
       lifecycleVars, closeVars, failureVars, planVars, requestVars
  <2> QED BY <2>1, <2>2, <2>3, <2>4, <2>5, <2>6 DEF Types
<1>18. ASSUME CloseSucceeds PROVE Types'
  <2>1. SessionTypes'
    BY <1>18 DEF CloseSucceeds, FinishClose, NoClose, Types, SessionTypes, States,
       lifecycleVars, closeVars, failureVars, planVars, requestVars
  <2>2. CloseTypes'
    BY <1>18 DEF CloseSucceeds, FinishClose, NoClose, Types, CloseTypes,
       SessionTypes, lifecycleVars, closeVars, failureVars, planVars, requestVars
  <2>3. OperationTypes'
    BY <1>18 DEF CloseSucceeds, FinishClose, NoClose, Types, OperationTypes, Phases,
       CloseTypes, lifecycleVars, closeVars, failureVars, planVars, requestVars
  <2>4. OpenTypes'
    BY <1>18 DEF CloseSucceeds, FinishClose, NoClose, Types, OpenTypes,
       lifecycleVars, closeVars, failureVars, planVars, requestVars
  <2>5. FailureTypes' /\ PlanTypes' /\ RequestTypes'
    BY <1>18 DEF CloseSucceeds, FinishClose, NoClose, Types, FailureTypes,
       PlanTypes, RequestTypes, lifecycleVars, closeVars, failureVars, planVars,
       requestVars
  <2> QED BY <2>1, <2>2, <2>3, <2>4, <2>5 DEF Types
<1>19. ASSUME CloseFails PROVE Types'
  <2>1. SessionTypes'
    BY <1>19 DEF CloseFails, FinishClose, NoClose, Types, SessionTypes, States,
       lifecycleVars, closeVars, failureVars, planVars, requestVars
  <2>2. CloseTypes'
    BY <1>19 DEF CloseFails, FinishClose, NoClose, Types, CloseTypes, SessionTypes,
       lifecycleVars, closeVars, failureVars, planVars, requestVars
  <2>3. OperationTypes'
    BY <1>19 DEF CloseFails, FinishClose, NoClose, Types, OperationTypes, Phases,
       CloseTypes, lifecycleVars, closeVars, failureVars, planVars, requestVars
  <2>4. OpenTypes'
    BY <1>19 DEF CloseFails, FinishClose, NoClose, Types, OpenTypes, lifecycleVars,
       closeVars, failureVars, planVars, requestVars
  <2>5. FailureTypes' /\ PlanTypes' /\ RequestTypes'
    BY <1>19 DEF CloseFails, FinishClose, NoClose, Types, FailureTypes, PlanTypes,
       RequestTypes, lifecycleVars, closeVars, failureVars, planVars, requestVars
  <2> QED BY <2>1, <2>2, <2>3, <2>4, <2>5 DEF Types
<1>20. ASSUME DrainFailure PROVE Types'
  <2>1. FailureTypes'
    BY <1>20 DEF DrainFailure, NoFailure, Types, FailureTypes, Failures,
       SessionTypes, lifecycleVars, closeVars, failureVars, planVars, requestVars
  <2>2. SessionTypes' /\ CloseTypes' /\ OperationTypes' /\ OpenTypes' /\ PlanTypes' /\ RequestTypes'
    BY <1>20 DEF DrainFailure, NoFailure, Types, SessionTypes, CloseTypes,
       OperationTypes, OpenTypes, PlanTypes, RequestTypes, lifecycleVars, closeVars,
       failureVars, planVars, requestVars
  <2> QED BY <2>1, <2>2 DEF Types
<1>21. ASSUME RetryFailure PROVE Types'
  <2>1. SessionTypes'
    BY <1>21 DEF RetryFailure, TryFailure, Freeze, Concerns, Idle, NoFailure,
       ClearPlans, ForgetRequest, EmptyPlan, Types, SessionTypes, States,
       lifecycleVars, closeVars, failureVars, planVars, requestVars
  <2>2. OperationTypes'
    BY <1>21 DEF RetryFailure, TryFailure, Freeze, Concerns, Idle, NoFailure,
       ClearPlans, ForgetRequest, EmptyPlan, Types, OperationTypes, Phases,
       CloseTypes, lifecycleVars, closeVars, failureVars, planVars, requestVars
  <2>3. FailureTypes'
    BY <1>21 DEF RetryFailure, TryFailure, Freeze, Concerns, Idle, NoFailure,
       ClearPlans, ForgetRequest, EmptyPlan, Types, FailureTypes, Failures,
       SessionTypes, lifecycleVars, closeVars, failureVars, planVars, requestVars
  <2>4. PlanTypes'
    BY <1>21, EmptyPlans DEF RetryFailure, TryFailure, Freeze, Concerns, Idle,
       NoFailure, ClearPlans, ForgetRequest, Types, PlanTypes, lifecycleVars,
       closeVars, failureVars, planVars, requestVars
  <2>5. CloseTypes' /\ OpenTypes' /\ RequestTypes'
    BY <1>21 DEF RetryFailure, TryFailure, Freeze, Concerns, Idle, NoFailure,
       ClearPlans, ForgetRequest, EmptyPlan, Types, CloseTypes, OpenTypes,
       RequestTypes, lifecycleVars, closeVars, failureVars, planVars, requestVars
  <2> QED BY <2>1, <2>2, <2>3, <2>4, <2>5 DEF Types
<1>22. ASSUME Tick PROVE Types'
  <2>1. PlanTypes'
    BY <1>22 DEF Tick, Types, PlanTypes, lifecycleVars, closeVars, failureVars,
       planVars, requestVars
  <2>2. SessionTypes' /\ CloseTypes' /\ OperationTypes' /\ FailureTypes' /\ OpenTypes' /\ RequestTypes'
    BY <1>22 DEF Tick, Types, SessionTypes, CloseTypes, OperationTypes,
       FailureTypes, OpenTypes, RequestTypes, lifecycleVars, closeVars, failureVars,
       planVars, requestVars
  <2> QED BY <2>1, <2>2 DEF Types
<1>23. ASSUME RequestDispatch PROVE Types'
  <2>1. PlanTypes'
    <3>1. Active.length \in Nat
      BY ActiveType
    <3>2. startLength' \in Nat /\ executed' \in Nat /\ inflight' \in Requests \cup {None}
      BY <1>23, <3>1 DEF RequestDispatch, Types, PlanTypes
    <3>3. wants' = FALSE /\ smoothing' = smoothing /\ plan' = plan
      BY <1>23 DEF RequestDispatch
    <3> QED BY <3>2, <3>3 DEF Types, PlanTypes
  <2>2. RequestTypes'
    BY <1>23 DEF RequestDispatch, Active, Types, RequestTypes, SessionTypes,
       lifecycleVars, closeVars, failureVars, planVars, requestVars
  <2>3. SessionTypes' /\ CloseTypes' /\ OperationTypes' /\ FailureTypes' /\ OpenTypes'
    BY <1>23 DEF RequestDispatch, Active, Types, SessionTypes, CloseTypes,
       OperationTypes, FailureTypes, OpenTypes, lifecycleVars, closeVars,
       failureVars, planVars, requestVars
  <2> QED BY <2>1, <2>2, <2>3 DEF Types
<1>24. ASSUME Execute PROVE Types'
  <2>1. PlanTypes'
    <3>1. [Active EXCEPT !.length = Active.length - 1] \in Plans
      BY <1>24, ActiveType DEF Execute, Plans
    <3>2. plan' = [plan EXCEPT ![smoothing] = [Active EXCEPT !.length = Active.length - 1]]
      BY <1>24 DEF Execute, Active
    <3>3. plan' \in [BOOLEAN -> Plans]
      BY <3>1, <3>2 DEF Types, PlanTypes
    <3>4. executed' \in Nat
      BY <1>24 DEF Execute, Types, PlanTypes
    <3> QED BY <1>24, <3>3, <3>4 DEF Execute, Types, PlanTypes
  <2>2. SessionTypes' /\ CloseTypes' /\ OperationTypes' /\ FailureTypes' /\ OpenTypes' /\ RequestTypes'
    BY <1>24 DEF Execute, Active, Types, SessionTypes, CloseTypes, OperationTypes,
       FailureTypes, OpenTypes, RequestTypes, lifecycleVars, closeVars, failureVars,
       planVars, requestVars
  <2> QED BY <2>1, <2>2 DEF Types
<1>25. ASSUME Toggle PROVE Types'
  <2>1. PlanTypes'
    <3>1. EmptyPlan \in Plans
      BY DEF EmptyPlan, Plans
    <3>2. plan' \in [BOOLEAN -> Plans]
      BY <1>25, <3>1 DEF Toggle, Types, PlanTypes
    <3>3. (~smoothing) \in BOOLEAN
      OBVIOUS
    <3>4. smoothing' \in BOOLEAN
      BY <1>25, <3>3 DEF Toggle
    <3>5. plan[~smoothing].length \in Nat /\ Active.length \in Nat
      <4>1. \A b \in BOOLEAN : plan[b].length \in Nat
        BY ActiveType
      <4>2. plan[~smoothing].length \in Nat
        BY <3>3, <4>1, Zenon
      <4> QED BY <4>2, ActiveType
    <3>6. startLength' \in Nat
      BY <1>25, <3>5 DEF Toggle, SkipsWhatWasExecuted, Types, PlanTypes
    <3> QED BY <1>25, <3>2, <3>4, <3>6 DEF Toggle, Types, PlanTypes
  <2>2. SessionTypes' /\ CloseTypes' /\ OperationTypes' /\ FailureTypes' /\ OpenTypes' /\ RequestTypes'
    BY <1>25 DEF Toggle, Active, EmptyPlan, Types, SessionTypes, CloseTypes,
       OperationTypes, FailureTypes, OpenTypes, RequestTypes, lifecycleVars,
       closeVars, failureVars, planVars, requestVars
  <2> QED BY <2>1, <2>2 DEF Types
<1>26. ASSUME NEW r \in Requests, ResultArrives(r) PROVE Types'
  <2>1. RequestTypes'
    BY <1>26 DEF ResultArrives, Types, RequestTypes, SessionTypes, lifecycleVars,
       closeVars, failureVars, planVars, requestVars
  <2>2. SessionTypes' /\ CloseTypes' /\ OperationTypes' /\ FailureTypes' /\ OpenTypes' /\ PlanTypes'
    BY <1>26 DEF ResultArrives, Types, SessionTypes, CloseTypes, OperationTypes,
       FailureTypes, OpenTypes, PlanTypes, lifecycleVars, closeVars, failureVars,
       planVars, requestVars
  <2> QED BY <2>1, <2>2 DEF Types
<1>27. ASSUME NEW r \in Requests, Accept(r) PROVE Types'
  <2>1. PlanTypes'
    <3>1. PICK h \in Horizons \cup {0} : plan' = [plan EXCEPT ![smoothing] = Planned(r, h)]
      BY <1>27 DEF Accept
    <3>2. Skipped \in Nat
      BY ActiveType DEF Skipped, Types, PlanTypes
    <3>3. Stop(h) - Least(Skipped, Stop(h)) \in 0..Chunk
      BY <3>2 DEF Stop, Least
    <3>4. requestOf[r] \in Sessions \cup {None}
      BY DEF Types, RequestTypes
    <3>5. Planned(r, h) \in Plans
      BY <3>3, <3>4 DEF Planned, Plans
    <3>6. plan' \in [BOOLEAN -> Plans]
      BY <3>1, <3>5 DEF Types, PlanTypes
    <3> QED BY <1>27, <3>6 DEF Accept, ForgetRequest, Types, PlanTypes
  <2>2. RequestTypes'
    BY <1>27 DEF Accept, Current, Planned, Stop, Skipped, Least, Active,
       ForgetRequest, Forget, Types, RequestTypes, SessionTypes, lifecycleVars,
       closeVars, failureVars, planVars, requestVars
  <2>3. SessionTypes' /\ CloseTypes' /\ OperationTypes' /\ FailureTypes' /\ OpenTypes'
    BY <1>27 DEF Accept, Current, Planned, Stop, Skipped, Least, Active,
       ForgetRequest, Forget, Types, SessionTypes, CloseTypes, OperationTypes,
       FailureTypes, OpenTypes, lifecycleVars, closeVars, failureVars, planVars,
       requestVars
  <2> QED BY <2>1, <2>2, <2>3 DEF Types
<1>28. ASSUME NEW r \in Requests, ResultNotStarted(r) PROVE Types'
  <2>1. RequestTypes'
    BY <1>28 DEF ResultNotStarted, Types, RequestTypes, SessionTypes, lifecycleVars,
       closeVars, failureVars, planVars, requestVars
  <2>2. SessionTypes' /\ CloseTypes' /\ OperationTypes' /\ FailureTypes' /\ OpenTypes' /\ PlanTypes'
    BY <1>28 DEF ResultNotStarted, Types, SessionTypes, CloseTypes, OperationTypes,
       FailureTypes, OpenTypes, PlanTypes, lifecycleVars, closeVars, failureVars,
       planVars, requestVars
  <2> QED BY <2>1, <2>2 DEF Types
<1>29. ASSUME NEW r \in Requests, Retry(r) PROVE Types'
  <2>1. RequestTypes'
    <3>1. attempts[r] + 1 \in 0..MaxAttempts
      BY <1>29 DEF Retry, Types, RequestTypes
    <3>2. attempts' = [attempts EXCEPT ![r] = attempts[r] + 1]
      BY <1>29 DEF Retry
    <3>3. attempts' \in [Requests -> 0..MaxAttempts]
      BY <3>1, <3>2 DEF Types, RequestTypes
    <3>4. request' \in [Requests -> {"sent", "decoding", "waiting", "failed", "done"}]
      BY <1>29 DEF Retry, Types, RequestTypes
    <3>5. requestOf' \in [Requests -> Sessions \cup {None}]
      BY <1>29 DEF Retry, Types, RequestTypes, SessionTypes
    <3>6. ASSUME NEW q \in Requests, request'[q] = "waiting" PROVE attempts'[q] < MaxAttempts
      BY <1>29, <3>2, <3>6 DEF Retry, Types, RequestTypes
    <3> QED BY <3>3, <3>4, <3>5, <3>6 DEF RequestTypes
  <2>2. SessionTypes' /\ CloseTypes' /\ OperationTypes' /\ FailureTypes' /\ OpenTypes' /\ PlanTypes'
    BY <1>29 DEF Retry, Types, SessionTypes, CloseTypes, OperationTypes,
       FailureTypes, OpenTypes, PlanTypes, lifecycleVars, closeVars, failureVars,
       planVars, requestVars
  <2> QED BY <2>1, <2>2 DEF Types
<1>30. ASSUME NEW r \in Requests, RetryDropped(r) PROVE Types'
  <2>1. PlanTypes'
    BY <1>30 DEF RetryDropped, Forget, ForgetRequest, Types, PlanTypes,
       lifecycleVars, closeVars, failureVars, planVars, requestVars
  <2>2. RequestTypes'
    BY <1>30 DEF RetryDropped, Forget, ForgetRequest, Types, RequestTypes,
       SessionTypes, lifecycleVars, closeVars, failureVars, planVars, requestVars
  <2>3. SessionTypes' /\ CloseTypes' /\ OperationTypes' /\ FailureTypes' /\ OpenTypes'
    BY <1>30 DEF RetryDropped, Forget, ForgetRequest, Types, SessionTypes,
       CloseTypes, OperationTypes, FailureTypes, OpenTypes, lifecycleVars,
       closeVars, failureVars, planVars, requestVars
  <2> QED BY <2>1, <2>2, <2>3 DEF Types
<1>31. ASSUME NEW r \in Requests, Failing(r), RequestFails(r) PROVE Types'
  <2>1. SessionTypes'
    BY <1>31 DEF RequestFails, TryFailure, Freeze, Concerns, Idle, NoFailure,
       ClearPlans, ForgetRequest, EmptyPlan, Current, Types, SessionTypes, States,
       lifecycleVars, closeVars, failureVars, planVars, requestVars
  <2>2. OperationTypes'
    BY <1>31 DEF RequestFails, TryFailure, Freeze, Concerns, Idle, NoFailure,
       ClearPlans, ForgetRequest, EmptyPlan, Current, Types, OperationTypes, Phases,
       CloseTypes, lifecycleVars, closeVars, failureVars, planVars, requestVars
  <2>3. FailureTypes'
    BY <1>31 DEF RequestFails, TryFailure, Freeze, Concerns, Idle, NoFailure,
       ClearPlans, ForgetRequest, EmptyPlan, Current, Types, FailureTypes, Failures,
       SessionTypes, lifecycleVars, closeVars, failureVars, planVars, requestVars
  <2>4. PlanTypes'
    BY <1>31, EmptyPlans DEF RequestFails, TryFailure, Freeze, Concerns, Idle,
       NoFailure, ClearPlans, ForgetRequest, Current, Types, PlanTypes,
       lifecycleVars, closeVars, failureVars, planVars, requestVars
  <2>5. RequestTypes'
    BY <1>31 DEF RequestFails, TryFailure, Freeze, Concerns, Idle, NoFailure,
       ClearPlans, ForgetRequest, EmptyPlan, Current, Types, RequestTypes,
       SessionTypes, lifecycleVars, closeVars, failureVars, planVars, requestVars
  <2>6. CloseTypes' /\ OpenTypes'
    BY <1>31 DEF RequestFails, TryFailure, Freeze, Concerns, Idle, NoFailure,
       ClearPlans, ForgetRequest, EmptyPlan, Current, Types, CloseTypes, OpenTypes,
       lifecycleVars, closeVars, failureVars, planVars, requestVars
  <2> QED BY <2>1, <2>2, <2>3, <2>4, <2>5, <2>6 DEF Types
<1>32. ASSUME NEW r \in Requests, Drop(r) PROVE Types'
  <2>1. RequestTypes'
    BY <1>32 DEF Drop, Forget, Types, RequestTypes, SessionTypes, lifecycleVars,
       closeVars, failureVars, planVars, requestVars
  <2>2. SessionTypes' /\ CloseTypes' /\ OperationTypes' /\ FailureTypes' /\ OpenTypes' /\ PlanTypes'
    BY <1>32 DEF Drop, Forget, Types, SessionTypes, CloseTypes, OperationTypes,
       FailureTypes, OpenTypes, PlanTypes, lifecycleVars, closeVars, failureVars,
       planVars, requestVars
  <2> QED BY <2>1, <2>2 DEF Types
<1>33. ASSUME NEW n \in Sessions, Serve(n) PROVE Types'
  <2>1. OpenTypes'
    BY <1>33 DEF Serve, Types, OpenTypes, lifecycleVars, closeVars, failureVars,
       planVars, requestVars
  <2>2. SessionTypes' /\ CloseTypes' /\ OperationTypes' /\ FailureTypes' /\ PlanTypes' /\ RequestTypes'
    BY <1>33 DEF Serve, Types, SessionTypes, CloseTypes, OperationTypes,
       FailureTypes, PlanTypes, RequestTypes, lifecycleVars, closeVars, failureVars,
       planVars, requestVars
  <2> QED BY <2>1, <2>2 DEF Types
<1>34. CASE UNCHANGED vars
  <2>1. SessionTypes' /\ CloseTypes' /\ OperationTypes' /\ FailureTypes' /\ OpenTypes' /\ PlanTypes' /\ RequestTypes'
    BY <1>34 DEF vars, Types, SessionTypes, CloseTypes, OperationTypes,
       FailureTypes, OpenTypes, PlanTypes, RequestTypes, lifecycleVars, closeVars,
       failureVars, planVars, requestVars
  <2> QED BY <2>1 DEF Types
<1> QED BY <1>1, <1>2, <1>3, <1>4, <1>5, <1>6, <1>7, <1>8, <1>9, <1>10, <1>11,
     <1>12, <1>13, <1>14, <1>15, <1>16, <1>17, <1>18, <1>19, <1>20, <1>21, <1>22,
     <1>23, <1>24, <1>25, <1>26, <1>27, <1>28, <1>29, <1>30, <1>31, <1>32, <1>33,
     <1>34 DEF Next, OperationStep, OpenWork, RequestWork

-----------------------------------------------------------------------------
(* The holder of the lifecycle lock, and the freeze.                       *)

\* Every step keeps the lifecycle lock with its holder.
LEMMA HolderNext ==
  ASSUME IInv, [Next]_vars
  PROVE  Holder'
<1>1. ASSUME NEW n \in Sessions, ReadinessOpens(n) PROVE Holder'
  BY <1>1 DEF ReadinessOpens, Open, ClearPlans, ForgetRequest, EmptyPlan, IInv,
     Types, OperationTypes, Holder, lifecycleVars, closeVars, failureVars, planVars,
     requestVars
<1>2. ASSUME NEW n \in Sessions, StartOpens(n) PROVE Holder'
  BY <1>2 DEF StartOpens, Open, Idle, ClearPlans, ForgetRequest, EmptyPlan, IInv,
     Types, OperationTypes, Holder, lifecycleVars, closeVars, failureVars, planVars,
     requestVars
<1>3. ASSUME Stops("stop") PROVE Holder'
  BY <1>3 DEF Stops, Freeze, Idle, ClearPlans, ForgetRequest, EmptyPlan, IInv,
     Types, OperationTypes, Holder, lifecycleVars, closeVars, failureVars, planVars,
     requestVars
<1>4. ASSUME Stops("restart") PROVE Holder'
  BY <1>4 DEF Stops, Freeze, Idle, ClearPlans, ForgetRequest, EmptyPlan, IInv,
     Types, OperationTypes, Holder, lifecycleVars, closeVars, failureVars, planVars,
     requestVars
<1>5. ASSUME Settle PROVE Holder'
  BY <1>5 DEF Settle, ClearPlans, ForgetRequest, EmptyPlan, IInv, Types,
     OperationTypes, Holder, lifecycleVars, closeVars, failureVars, planVars,
     requestVars
<1>6. ASSUME OperationCloses PROVE Holder'
  BY <1>6 DEF OperationCloses, BeginClose, ClearPlans, ForgetRequest, EmptyPlan,
     IInv, Types, OperationTypes, Holder, lifecycleVars, closeVars, failureVars,
     planVars, requestVars
<1>7. ASSUME OperationClosed PROVE Holder'
  BY <1>7 DEF OperationClosed, IInv, Types, OperationTypes, Holder, lifecycleVars,
     closeVars, failureVars, planVars, requestVars
<1>8. ASSUME OperationEnds PROVE Holder'
  BY <1>8 DEF OperationEnds, Clean, Idle, EmptyPlan, IInv, Types, OperationTypes,
     Holder, lifecycleVars, closeVars, failureVars, planVars, requestVars
<1>9. ASSUME NEW n \in Sessions, RestartOpens(n) PROVE Holder'
  BY <1>9 DEF RestartOpens, Clean, Open, ClearPlans, ForgetRequest, EmptyPlan, IInv,
     Types, OperationTypes, Holder, lifecycleVars, closeVars, failureVars, planVars,
     requestVars
<1>10. ASSUME OpenWaitEnds PROVE Holder'
  BY <1>10 DEF OpenWaitEnds, Idle, IInv, Types, OperationTypes, Holder,
     lifecycleVars, closeVars, failureVars, planVars, requestVars
<1>11. ASSUME OperationTimesOut PROVE Holder'
  BY <1>11 DEF OperationTimesOut, IInv, Types, OperationTypes, Holder,
     lifecycleVars, closeVars, failureVars, planVars, requestVars
<1>12. ASSUME NEW n \in Sessions, OpenSucceeds(n) PROVE Holder'
  BY <1>12 DEF OpenSucceeds, Tracks, IInv, Types, OperationTypes, Holder,
     lifecycleVars, closeVars, failureVars, planVars, requestVars
<1>13. ASSUME NEW n \in Sessions, OpenNotStarted(n) PROVE Holder'
  BY <1>13 DEF OpenNotStarted, Tracks, IInv, Types, OperationTypes, Holder,
     lifecycleVars, closeVars, failureVars, planVars, requestVars
<1>14. ASSUME NEW n \in Sessions, OpenUnknown(n) PROVE Holder'
  BY <1>14 DEF OpenUnknown, Tracks, IInv, Types, OperationTypes, Holder,
     lifecycleVars, closeVars, failureVars, planVars, requestVars
<1>15. ASSUME NEW n \in Sessions, CompleteOpen(n) PROVE Holder'
  BY <1>15 DEF CompleteOpen, IInv, Types, OperationTypes, Holder, lifecycleVars,
     closeVars, failureVars, planVars, requestVars
<1>16. ASSUME NEW n \in Sessions, Compensate(n) PROVE Holder'
  BY <1>16 DEF Compensate, BeginClose, ClearPlans, ForgetRequest, EmptyPlan, IInv,
     Types, OperationTypes, Holder, lifecycleVars, closeVars, failureVars, planVars,
     requestVars
<1>17. ASSUME NEW n \in Sessions, OpenFails(n) PROVE Holder'
  BY <1>17 DEF OpenFails, TryFailure, Freeze, Concerns, Idle, NoFailure, ClearPlans,
     ForgetRequest, EmptyPlan, IInv, Types, OperationTypes, Holder, lifecycleVars,
     closeVars, failureVars, planVars, requestVars
<1>18. ASSUME CloseSucceeds PROVE Holder'
  BY <1>18 DEF CloseSucceeds, FinishClose, NoClose, IInv, Types, OperationTypes,
     Holder, lifecycleVars, closeVars, failureVars, planVars, requestVars
<1>19. ASSUME CloseFails PROVE Holder'
  BY <1>19 DEF CloseFails, FinishClose, NoClose, IInv, Types, OperationTypes,
     Holder, lifecycleVars, closeVars, failureVars, planVars, requestVars
<1>20. ASSUME DrainFailure PROVE Holder'
  BY <1>20 DEF DrainFailure, NoFailure, IInv, Types, OperationTypes, Holder,
     lifecycleVars, closeVars, failureVars, planVars, requestVars
<1>21. ASSUME RetryFailure PROVE Holder'
  BY <1>21 DEF RetryFailure, TryFailure, Freeze, Concerns, Idle, NoFailure,
     ClearPlans, ForgetRequest, EmptyPlan, IInv, Types, OperationTypes, Holder,
     lifecycleVars, closeVars, failureVars, planVars, requestVars
<1>22. ASSUME Tick PROVE Holder'
  BY <1>22 DEF Tick, IInv, Types, OperationTypes, Holder, lifecycleVars, closeVars,
     failureVars, planVars, requestVars
<1>23. ASSUME RequestDispatch PROVE Holder'
  BY <1>23 DEF RequestDispatch, Active, IInv, Types, OperationTypes, Holder,
     lifecycleVars, closeVars, failureVars, planVars, requestVars
<1>24. ASSUME Execute PROVE Holder'
  BY <1>24 DEF Execute, Active, IInv, Types, OperationTypes, Holder, lifecycleVars,
     closeVars, failureVars, planVars, requestVars
<1>25. ASSUME Toggle PROVE Holder'
  BY <1>25 DEF Toggle, Active, EmptyPlan, IInv, Types, OperationTypes, Holder,
     lifecycleVars, closeVars, failureVars, planVars, requestVars
<1>26. ASSUME NEW r \in Requests, ResultArrives(r) PROVE Holder'
  BY <1>26 DEF ResultArrives, IInv, Types, OperationTypes, Holder, lifecycleVars,
     closeVars, failureVars, planVars, requestVars
<1>27. ASSUME NEW r \in Requests, Accept(r) PROVE Holder'
  BY <1>27 DEF Accept, Current, Planned, Stop, Skipped, Least, Active,
     ForgetRequest, Forget, IInv, Types, OperationTypes, Holder, lifecycleVars,
     closeVars, failureVars, planVars, requestVars
<1>28. ASSUME NEW r \in Requests, ResultNotStarted(r) PROVE Holder'
  BY <1>28 DEF ResultNotStarted, IInv, Types, OperationTypes, Holder, lifecycleVars,
     closeVars, failureVars, planVars, requestVars
<1>29. ASSUME NEW r \in Requests, Retry(r) PROVE Holder'
  BY <1>29 DEF Retry, IInv, Types, OperationTypes, Holder, lifecycleVars, closeVars,
     failureVars, planVars, requestVars
<1>30. ASSUME NEW r \in Requests, RetryDropped(r) PROVE Holder'
  BY <1>30 DEF RetryDropped, Forget, ForgetRequest, IInv, Types, OperationTypes,
     Holder, lifecycleVars, closeVars, failureVars, planVars, requestVars
<1>31. ASSUME NEW r \in Requests, Failing(r), RequestFails(r) PROVE Holder'
  BY <1>31 DEF RequestFails, TryFailure, Freeze, Concerns, Idle, NoFailure,
     ClearPlans, ForgetRequest, EmptyPlan, Current, IInv, Types, OperationTypes,
     Holder, lifecycleVars, closeVars, failureVars, planVars, requestVars
<1>32. ASSUME NEW r \in Requests, Drop(r) PROVE Holder'
  BY <1>32 DEF Drop, Forget, IInv, Types, OperationTypes, Holder, lifecycleVars,
     closeVars, failureVars, planVars, requestVars
<1>33. ASSUME NEW n \in Sessions, Serve(n) PROVE Holder'
  BY <1>33 DEF Serve, IInv, Types, OperationTypes, Holder, lifecycleVars, closeVars,
     failureVars, planVars, requestVars
<1>34. CASE UNCHANGED vars
  BY <1>34 DEF vars, IInv, Types, OperationTypes, Holder, lifecycleVars, closeVars,
     failureVars, planVars, requestVars
<1> QED BY <1>1, <1>2, <1>3, <1>4, <1>5, <1>6, <1>7, <1>8, <1>9, <1>10, <1>11,
     <1>12, <1>13, <1>14, <1>15, <1>16, <1>17, <1>18, <1>19, <1>20, <1>21, <1>22,
     <1>23, <1>24, <1>25, <1>26, <1>27, <1>28, <1>29, <1>30, <1>31, <1>32, <1>33,
     <1>34 DEF Next, OperationStep, OpenWork, RequestWork

\* Every step keeps a frozen dispatcher without a plan.
LEMMA FrozenNext ==
  ASSUME IInv, [Next]_vars
  PROVE  Frozen'
<1>1. ASSUME NEW n \in Sessions, ReadinessOpens(n) PROVE Frozen'
  BY <1>1 DEF ReadinessOpens, Open, ClearPlans, ForgetRequest, EmptyPlan, IInv,
     Types, SessionTypes, OperationTypes, PlanTypes, Plans, Holder, Frozen,
     Freezing, Current, lifecycleVars, closeVars, failureVars, planVars, requestVars
<1>2. ASSUME NEW n \in Sessions, StartOpens(n) PROVE Frozen'
  BY <1>2 DEF StartOpens, Open, Idle, ClearPlans, ForgetRequest, EmptyPlan, IInv,
     Types, SessionTypes, OperationTypes, PlanTypes, Plans, Holder, Frozen,
     Freezing, Current, lifecycleVars, closeVars, failureVars, planVars, requestVars
<1>3. ASSUME Stops("stop") PROVE Frozen'
  BY <1>3 DEF Stops, Freeze, Idle, ClearPlans, ForgetRequest, EmptyPlan, IInv,
     Types, SessionTypes, OperationTypes, PlanTypes, Plans, Holder, Frozen,
     Freezing, Current, lifecycleVars, closeVars, failureVars, planVars, requestVars
<1>4. ASSUME Stops("restart") PROVE Frozen'
  BY <1>4 DEF Stops, Freeze, Idle, ClearPlans, ForgetRequest, EmptyPlan, IInv,
     Types, SessionTypes, OperationTypes, PlanTypes, Plans, Holder, Frozen,
     Freezing, Current, lifecycleVars, closeVars, failureVars, planVars, requestVars
<1>5. ASSUME Settle PROVE Frozen'
  BY <1>5 DEF Settle, ClearPlans, ForgetRequest, EmptyPlan, IInv, Types,
     SessionTypes, OperationTypes, PlanTypes, Plans, Holder, Frozen, Freezing,
     Current, lifecycleVars, closeVars, failureVars, planVars, requestVars
<1>6. ASSUME OperationCloses PROVE Frozen'
  BY <1>6 DEF OperationCloses, BeginClose, ClearPlans, ForgetRequest, EmptyPlan,
     IInv, Types, SessionTypes, OperationTypes, PlanTypes, Plans, Holder, Frozen,
     Freezing, Current, lifecycleVars, closeVars, failureVars, planVars, requestVars
<1>7. ASSUME OperationClosed PROVE Frozen'
  BY <1>7 DEF OperationClosed, IInv, Types, SessionTypes, OperationTypes, PlanTypes,
     Plans, Holder, Frozen, Freezing, Current, lifecycleVars, closeVars,
     failureVars, planVars, requestVars
<1>8. ASSUME OperationEnds PROVE Frozen'
  BY <1>8 DEF OperationEnds, Clean, Idle, EmptyPlan, IInv, Types, SessionTypes,
     OperationTypes, PlanTypes, Plans, Holder, Frozen, Freezing, Current,
     lifecycleVars, closeVars, failureVars, planVars, requestVars
<1>9. ASSUME NEW n \in Sessions, RestartOpens(n) PROVE Frozen'
  BY <1>9 DEF RestartOpens, Clean, Open, ClearPlans, ForgetRequest, EmptyPlan, IInv,
     Types, SessionTypes, OperationTypes, PlanTypes, Plans, Holder, Frozen,
     Freezing, Current, lifecycleVars, closeVars, failureVars, planVars, requestVars
<1>10. ASSUME OpenWaitEnds PROVE Frozen'
  BY <1>10 DEF OpenWaitEnds, Idle, IInv, Types, SessionTypes, OperationTypes,
     PlanTypes, Plans, Holder, Frozen, Freezing, Current, lifecycleVars, closeVars,
     failureVars, planVars, requestVars
<1>11. ASSUME OperationTimesOut PROVE Frozen'
  BY <1>11 DEF OperationTimesOut, IInv, Types, SessionTypes, OperationTypes,
     PlanTypes, Plans, Holder, Frozen, Freezing, Current, lifecycleVars, closeVars,
     failureVars, planVars, requestVars
<1>12. ASSUME NEW n \in Sessions, OpenSucceeds(n) PROVE Frozen'
  BY <1>12 DEF OpenSucceeds, Tracks, IInv, Types, SessionTypes, OperationTypes,
     PlanTypes, Plans, Holder, Frozen, Freezing, Current, lifecycleVars, closeVars,
     failureVars, planVars, requestVars
<1>13. ASSUME NEW n \in Sessions, OpenNotStarted(n) PROVE Frozen'
  BY <1>13 DEF OpenNotStarted, Tracks, IInv, Types, SessionTypes, OperationTypes,
     PlanTypes, Plans, Holder, Frozen, Freezing, Current, lifecycleVars, closeVars,
     failureVars, planVars, requestVars
<1>14. ASSUME NEW n \in Sessions, OpenUnknown(n) PROVE Frozen'
  BY <1>14 DEF OpenUnknown, Tracks, IInv, Types, SessionTypes, OperationTypes,
     PlanTypes, Plans, Holder, Frozen, Freezing, Current, lifecycleVars, closeVars,
     failureVars, planVars, requestVars
<1>15. ASSUME NEW n \in Sessions, CompleteOpen(n) PROVE Frozen'
  BY <1>15 DEF CompleteOpen, IInv, Types, SessionTypes, OperationTypes, PlanTypes,
     Plans, Holder, Frozen, Freezing, Current, lifecycleVars, closeVars,
     failureVars, planVars, requestVars
<1>16. ASSUME NEW n \in Sessions, Compensate(n) PROVE Frozen'
  BY <1>16 DEF Compensate, BeginClose, ClearPlans, ForgetRequest, EmptyPlan, IInv,
     Types, SessionTypes, OperationTypes, PlanTypes, Plans, Holder, Frozen,
     Freezing, Current, lifecycleVars, closeVars, failureVars, planVars, requestVars
<1>17. ASSUME NEW n \in Sessions, OpenFails(n) PROVE Frozen'
  BY <1>17 DEF OpenFails, TryFailure, Freeze, Concerns, Idle, NoFailure, ClearPlans,
     ForgetRequest, EmptyPlan, IInv, Types, SessionTypes, OperationTypes, PlanTypes,
     Plans, Holder, Frozen, Freezing, Current, lifecycleVars, closeVars,
     failureVars, planVars, requestVars
<1>18. ASSUME CloseSucceeds PROVE Frozen'
  BY <1>18 DEF CloseSucceeds, FinishClose, NoClose, IInv, Types, SessionTypes,
     OperationTypes, PlanTypes, Plans, Holder, Frozen, Freezing, Current,
     lifecycleVars, closeVars, failureVars, planVars, requestVars
<1>19. ASSUME CloseFails PROVE Frozen'
  BY <1>19 DEF CloseFails, FinishClose, NoClose, IInv, Types, SessionTypes,
     OperationTypes, PlanTypes, Plans, Holder, Frozen, Freezing, Current,
     lifecycleVars, closeVars, failureVars, planVars, requestVars
<1>20. ASSUME DrainFailure PROVE Frozen'
  BY <1>20 DEF DrainFailure, NoFailure, IInv, Types, SessionTypes, OperationTypes,
     PlanTypes, Plans, Holder, Frozen, Freezing, Current, lifecycleVars, closeVars,
     failureVars, planVars, requestVars
<1>21. ASSUME RetryFailure PROVE Frozen'
  BY <1>21 DEF RetryFailure, TryFailure, Freeze, Concerns, Idle, NoFailure,
     ClearPlans, ForgetRequest, EmptyPlan, IInv, Types, SessionTypes,
     OperationTypes, PlanTypes, Plans, Holder, Frozen, Freezing, Current,
     lifecycleVars, closeVars, failureVars, planVars, requestVars
<1>22. ASSUME Tick PROVE Frozen'
  BY <1>22 DEF Tick, IInv, Types, SessionTypes, OperationTypes, PlanTypes, Plans,
     Holder, Frozen, Freezing, Current, lifecycleVars, closeVars, failureVars,
     planVars, requestVars
<1>23. ASSUME RequestDispatch PROVE Frozen'
  BY <1>23 DEF RequestDispatch, Active, IInv, Types, SessionTypes, OperationTypes,
     PlanTypes, Plans, Holder, Frozen, Freezing, Current, lifecycleVars, closeVars,
     failureVars, planVars, requestVars
<1>24. ASSUME Execute PROVE Frozen'
  BY <1>24 DEF Execute, Active, IInv, Types, SessionTypes, OperationTypes,
     PlanTypes, Plans, Holder, Frozen, Freezing, Current, lifecycleVars, closeVars,
     failureVars, planVars, requestVars
<1>25. ASSUME Toggle PROVE Frozen'
  BY <1>25 DEF Toggle, Active, EmptyPlan, IInv, Types, SessionTypes, OperationTypes,
     PlanTypes, Plans, Holder, Frozen, Freezing, Current, lifecycleVars, closeVars,
     failureVars, planVars, requestVars
<1>26. ASSUME NEW r \in Requests, ResultArrives(r) PROVE Frozen'
  BY <1>26 DEF ResultArrives, IInv, Types, SessionTypes, OperationTypes, PlanTypes,
     Plans, Holder, Frozen, Freezing, Current, lifecycleVars, closeVars,
     failureVars, planVars, requestVars
<1>27. ASSUME NEW r \in Requests, Accept(r) PROVE Frozen'
  BY <1>27 DEF Accept, Current, Planned, Stop, Skipped, Least, Active,
     ForgetRequest, Forget, IInv, Types, SessionTypes, OperationTypes, PlanTypes,
     Plans, Holder, Frozen, Freezing, lifecycleVars, closeVars, failureVars,
     planVars, requestVars
<1>28. ASSUME NEW r \in Requests, ResultNotStarted(r) PROVE Frozen'
  BY <1>28 DEF ResultNotStarted, IInv, Types, SessionTypes, OperationTypes,
     PlanTypes, Plans, Holder, Frozen, Freezing, Current, lifecycleVars, closeVars,
     failureVars, planVars, requestVars
<1>29. ASSUME NEW r \in Requests, Retry(r) PROVE Frozen'
  BY <1>29 DEF Retry, IInv, Types, SessionTypes, OperationTypes, PlanTypes, Plans,
     Holder, Frozen, Freezing, Current, lifecycleVars, closeVars, failureVars,
     planVars, requestVars
<1>30. ASSUME NEW r \in Requests, RetryDropped(r) PROVE Frozen'
  BY <1>30 DEF RetryDropped, Forget, ForgetRequest, IInv, Types, SessionTypes,
     OperationTypes, PlanTypes, Plans, Holder, Frozen, Freezing, Current,
     lifecycleVars, closeVars, failureVars, planVars, requestVars
<1>31. ASSUME NEW r \in Requests, Failing(r), RequestFails(r) PROVE Frozen'
  BY <1>31 DEF RequestFails, TryFailure, Freeze, Concerns, Idle, NoFailure,
     ClearPlans, ForgetRequest, EmptyPlan, Current, IInv, Types, SessionTypes,
     OperationTypes, PlanTypes, Plans, Holder, Frozen, Freezing, lifecycleVars,
     closeVars, failureVars, planVars, requestVars
<1>32. ASSUME NEW r \in Requests, Drop(r) PROVE Frozen'
  BY <1>32 DEF Drop, Forget, IInv, Types, SessionTypes, OperationTypes, PlanTypes,
     Plans, Holder, Frozen, Freezing, Current, lifecycleVars, closeVars,
     failureVars, planVars, requestVars
<1>33. ASSUME NEW n \in Sessions, Serve(n) PROVE Frozen'
  BY <1>33 DEF Serve, IInv, Types, SessionTypes, OperationTypes, PlanTypes, Plans,
     Holder, Frozen, Freezing, Current, lifecycleVars, closeVars, failureVars,
     planVars, requestVars
<1>34. CASE UNCHANGED vars
  BY <1>34 DEF vars, IInv, Types, SessionTypes, OperationTypes, PlanTypes, Plans,
     Holder, Frozen, Freezing, Current, lifecycleVars, closeVars, failureVars,
     planVars, requestVars
<1> QED BY <1>1, <1>2, <1>3, <1>4, <1>5, <1>6, <1>7, <1>8, <1>9, <1>10, <1>11,
     <1>12, <1>13, <1>14, <1>15, <1>16, <1>17, <1>18, <1>19, <1>20, <1>21, <1>22,
     <1>23, <1>24, <1>25, <1>26, <1>27, <1>28, <1>29, <1>30, <1>31, <1>32, <1>33,
     <1>34 DEF Next, OperationStep, OpenWork, RequestWork

-----------------------------------------------------------------------------
(* The session, its Open and its Close.                                    *)

\* Every step keeps unanswered Opens on record.
LEMMA RecordedNext ==
  ASSUME IInv, [Next]_vars
  PROVE  Recorded'
<1>1. ASSUME NEW n \in Sessions, ReadinessOpens(n) PROVE Recorded'
  BY <1>1 DEF ReadinessOpens, Open, ClearPlans, ForgetRequest, EmptyPlan, IInv,
     Types, SessionTypes, CloseTypes, OperationTypes, OpenTypes, Holder, Frozen,
     Freezing, Recorded, Closing, Ended, lifecycleVars, closeVars, failureVars,
     planVars, requestVars
<1>2. ASSUME NEW n \in Sessions, StartOpens(n) PROVE Recorded'
  BY <1>2 DEF StartOpens, Open, Idle, ClearPlans, ForgetRequest, EmptyPlan, IInv,
     Types, SessionTypes, CloseTypes, OperationTypes, OpenTypes, Holder, Frozen,
     Freezing, Recorded, Closing, Ended, lifecycleVars, closeVars, failureVars,
     planVars, requestVars
<1>3. ASSUME Stops("stop") PROVE Recorded'
  BY <1>3 DEF Stops, Freeze, Idle, ClearPlans, ForgetRequest, EmptyPlan, IInv,
     Types, SessionTypes, CloseTypes, OperationTypes, OpenTypes, Holder, Frozen,
     Freezing, Recorded, Closing, Ended, lifecycleVars, closeVars, failureVars,
     planVars, requestVars
<1>4. ASSUME Stops("restart") PROVE Recorded'
  BY <1>4 DEF Stops, Freeze, Idle, ClearPlans, ForgetRequest, EmptyPlan, IInv,
     Types, SessionTypes, CloseTypes, OperationTypes, OpenTypes, Holder, Frozen,
     Freezing, Recorded, Closing, Ended, lifecycleVars, closeVars, failureVars,
     planVars, requestVars
<1>5. ASSUME Settle PROVE Recorded'
  BY <1>5 DEF Settle, ClearPlans, ForgetRequest, EmptyPlan, IInv, Types,
     SessionTypes, CloseTypes, OperationTypes, OpenTypes, Holder, Frozen, Freezing,
     Recorded, Closing, Ended, lifecycleVars, closeVars, failureVars, planVars,
     requestVars
<1>6. ASSUME OperationCloses PROVE Recorded'
  BY <1>6 DEF OperationCloses, BeginClose, ClearPlans, ForgetRequest, EmptyPlan,
     IInv, Types, SessionTypes, CloseTypes, OperationTypes, OpenTypes, Holder,
     Frozen, Freezing, Recorded, Closing, Ended, lifecycleVars, closeVars,
     failureVars, planVars, requestVars
<1>7. ASSUME OperationClosed PROVE Recorded'
  BY <1>7 DEF OperationClosed, IInv, Types, SessionTypes, CloseTypes,
     OperationTypes, OpenTypes, Holder, Frozen, Freezing, Recorded, Closing, Ended,
     lifecycleVars, closeVars, failureVars, planVars, requestVars
<1>8. ASSUME OperationEnds PROVE Recorded'
  BY <1>8 DEF OperationEnds, Clean, Idle, EmptyPlan, IInv, Types, SessionTypes,
     CloseTypes, OperationTypes, OpenTypes, Holder, Frozen, Freezing, Recorded,
     Closing, Ended, lifecycleVars, closeVars, failureVars, planVars, requestVars
<1>9. ASSUME NEW n \in Sessions, RestartOpens(n) PROVE Recorded'
  BY <1>9 DEF RestartOpens, Clean, Open, ClearPlans, ForgetRequest, EmptyPlan, IInv,
     Types, SessionTypes, CloseTypes, OperationTypes, OpenTypes, Holder, Frozen,
     Freezing, Recorded, Closing, Ended, lifecycleVars, closeVars, failureVars,
     planVars, requestVars
<1>10. ASSUME OpenWaitEnds PROVE Recorded'
  BY <1>10 DEF OpenWaitEnds, Idle, IInv, Types, SessionTypes, CloseTypes,
     OperationTypes, OpenTypes, Holder, Frozen, Freezing, Recorded, Closing, Ended,
     lifecycleVars, closeVars, failureVars, planVars, requestVars
<1>11. ASSUME OperationTimesOut PROVE Recorded'
  BY <1>11 DEF OperationTimesOut, IInv, Types, SessionTypes, CloseTypes,
     OperationTypes, OpenTypes, Holder, Frozen, Freezing, Recorded, Closing, Ended,
     lifecycleVars, closeVars, failureVars, planVars, requestVars
<1>12. ASSUME NEW n \in Sessions, OpenSucceeds(n) PROVE Recorded'
  BY <1>12 DEF OpenSucceeds, Tracks, IInv, Types, SessionTypes, CloseTypes,
     OperationTypes, OpenTypes, Holder, Frozen, Freezing, Recorded, Closing, Ended,
     lifecycleVars, closeVars, failureVars, planVars, requestVars
<1>13. ASSUME NEW n \in Sessions, OpenNotStarted(n) PROVE Recorded'
  BY <1>13 DEF OpenNotStarted, Tracks, IInv, Types, SessionTypes, CloseTypes,
     OperationTypes, OpenTypes, Holder, Frozen, Freezing, Recorded, Closing, Ended,
     lifecycleVars, closeVars, failureVars, planVars, requestVars
<1>14. ASSUME NEW n \in Sessions, OpenUnknown(n) PROVE Recorded'
  BY <1>14 DEF OpenUnknown, Tracks, IInv, Types, SessionTypes, CloseTypes,
     OperationTypes, OpenTypes, Holder, Frozen, Freezing, Recorded, Closing, Ended,
     lifecycleVars, closeVars, failureVars, planVars, requestVars
<1>15. ASSUME NEW n \in Sessions, CompleteOpen(n) PROVE Recorded'
  BY <1>15 DEF CompleteOpen, IInv, Types, SessionTypes, CloseTypes, OperationTypes,
     OpenTypes, Holder, Frozen, Freezing, Recorded, Closing, Ended, lifecycleVars,
     closeVars, failureVars, planVars, requestVars
<1>16. ASSUME NEW n \in Sessions, Compensate(n) PROVE Recorded'
  BY <1>16 DEF Compensate, BeginClose, ClearPlans, ForgetRequest, EmptyPlan, IInv,
     Types, SessionTypes, CloseTypes, OperationTypes, OpenTypes, Holder, Frozen,
     Freezing, Recorded, Closing, Ended, lifecycleVars, closeVars, failureVars,
     planVars, requestVars
<1>17. ASSUME NEW n \in Sessions, OpenFails(n) PROVE Recorded'
  BY <1>17 DEF OpenFails, TryFailure, Freeze, Concerns, Idle, NoFailure, ClearPlans,
     ForgetRequest, EmptyPlan, IInv, Types, SessionTypes, CloseTypes,
     OperationTypes, OpenTypes, Holder, Frozen, Freezing, Recorded, Closing, Ended,
     lifecycleVars, closeVars, failureVars, planVars, requestVars
<1>18. ASSUME CloseSucceeds PROVE Recorded'
  BY <1>18 DEF CloseSucceeds, FinishClose, NoClose, IInv, Types, SessionTypes,
     CloseTypes, OperationTypes, OpenTypes, Holder, Frozen, Freezing, Recorded,
     Closing, Ended, lifecycleVars, closeVars, failureVars, planVars, requestVars
<1>19. ASSUME CloseFails PROVE Recorded'
  BY <1>19 DEF CloseFails, FinishClose, NoClose, IInv, Types, SessionTypes,
     CloseTypes, OperationTypes, OpenTypes, Holder, Frozen, Freezing, Recorded,
     Closing, Ended, lifecycleVars, closeVars, failureVars, planVars, requestVars
<1>20. ASSUME DrainFailure PROVE Recorded'
  BY <1>20 DEF DrainFailure, NoFailure, IInv, Types, SessionTypes, CloseTypes,
     OperationTypes, OpenTypes, Holder, Frozen, Freezing, Recorded, Closing, Ended,
     lifecycleVars, closeVars, failureVars, planVars, requestVars
<1>21. ASSUME RetryFailure PROVE Recorded'
  BY <1>21 DEF RetryFailure, TryFailure, Freeze, Concerns, Idle, NoFailure,
     ClearPlans, ForgetRequest, EmptyPlan, IInv, Types, SessionTypes, CloseTypes,
     OperationTypes, OpenTypes, Holder, Frozen, Freezing, Recorded, Closing, Ended,
     lifecycleVars, closeVars, failureVars, planVars, requestVars
<1>22. ASSUME Tick PROVE Recorded'
  BY <1>22 DEF Tick, IInv, Types, SessionTypes, CloseTypes, OperationTypes,
     OpenTypes, Holder, Frozen, Freezing, Recorded, Closing, Ended, lifecycleVars,
     closeVars, failureVars, planVars, requestVars
<1>23. ASSUME RequestDispatch PROVE Recorded'
  BY <1>23 DEF RequestDispatch, Active, IInv, Types, SessionTypes, CloseTypes,
     OperationTypes, OpenTypes, Holder, Frozen, Freezing, Recorded, Closing, Ended,
     lifecycleVars, closeVars, failureVars, planVars, requestVars
<1>24. ASSUME Execute PROVE Recorded'
  BY <1>24 DEF Execute, Active, IInv, Types, SessionTypes, CloseTypes,
     OperationTypes, OpenTypes, Holder, Frozen, Freezing, Recorded, Closing, Ended,
     lifecycleVars, closeVars, failureVars, planVars, requestVars
<1>25. ASSUME Toggle PROVE Recorded'
  BY <1>25 DEF Toggle, Active, EmptyPlan, IInv, Types, SessionTypes, CloseTypes,
     OperationTypes, OpenTypes, Holder, Frozen, Freezing, Recorded, Closing, Ended,
     lifecycleVars, closeVars, failureVars, planVars, requestVars
<1>26. ASSUME NEW r \in Requests, ResultArrives(r) PROVE Recorded'
  BY <1>26 DEF ResultArrives, IInv, Types, SessionTypes, CloseTypes, OperationTypes,
     OpenTypes, Holder, Frozen, Freezing, Recorded, Closing, Ended, lifecycleVars,
     closeVars, failureVars, planVars, requestVars
<1>27. ASSUME NEW r \in Requests, Accept(r) PROVE Recorded'
  BY <1>27 DEF Accept, Current, Planned, Stop, Skipped, Least, Active,
     ForgetRequest, Forget, IInv, Types, SessionTypes, CloseTypes, OperationTypes,
     OpenTypes, Holder, Frozen, Freezing, Recorded, Closing, Ended, lifecycleVars,
     closeVars, failureVars, planVars, requestVars
<1>28. ASSUME NEW r \in Requests, ResultNotStarted(r) PROVE Recorded'
  BY <1>28 DEF ResultNotStarted, IInv, Types, SessionTypes, CloseTypes,
     OperationTypes, OpenTypes, Holder, Frozen, Freezing, Recorded, Closing, Ended,
     lifecycleVars, closeVars, failureVars, planVars, requestVars
<1>29. ASSUME NEW r \in Requests, Retry(r) PROVE Recorded'
  BY <1>29 DEF Retry, IInv, Types, SessionTypes, CloseTypes, OperationTypes,
     OpenTypes, Holder, Frozen, Freezing, Recorded, Closing, Ended, lifecycleVars,
     closeVars, failureVars, planVars, requestVars
<1>30. ASSUME NEW r \in Requests, RetryDropped(r) PROVE Recorded'
  BY <1>30 DEF RetryDropped, Forget, ForgetRequest, IInv, Types, SessionTypes,
     CloseTypes, OperationTypes, OpenTypes, Holder, Frozen, Freezing, Recorded,
     Closing, Ended, lifecycleVars, closeVars, failureVars, planVars, requestVars
<1>31. ASSUME NEW r \in Requests, Failing(r), RequestFails(r) PROVE Recorded'
  BY <1>31 DEF RequestFails, TryFailure, Freeze, Concerns, Idle, NoFailure,
     ClearPlans, ForgetRequest, EmptyPlan, Current, IInv, Types, SessionTypes,
     CloseTypes, OperationTypes, OpenTypes, Holder, Frozen, Freezing, Recorded,
     Closing, Ended, lifecycleVars, closeVars, failureVars, planVars, requestVars
<1>32. ASSUME NEW r \in Requests, Drop(r) PROVE Recorded'
  BY <1>32 DEF Drop, Forget, IInv, Types, SessionTypes, CloseTypes, OperationTypes,
     OpenTypes, Holder, Frozen, Freezing, Recorded, Closing, Ended, lifecycleVars,
     closeVars, failureVars, planVars, requestVars
<1>33. ASSUME NEW n \in Sessions, Serve(n) PROVE Recorded'
  BY <1>33 DEF Serve, IInv, Types, SessionTypes, CloseTypes, OperationTypes,
     OpenTypes, Holder, Frozen, Freezing, Recorded, Closing, Ended, lifecycleVars,
     closeVars, failureVars, planVars, requestVars
<1>34. CASE UNCHANGED vars
  BY <1>34 DEF vars, IInv, Types, SessionTypes, CloseTypes, OperationTypes,
     OpenTypes, Holder, Frozen, Freezing, Recorded, Closing, Ended, lifecycleVars,
     closeVars, failureVars, planVars, requestVars
<1> QED BY <1>1, <1>2, <1>3, <1>4, <1>5, <1>6, <1>7, <1>8, <1>9, <1>10, <1>11,
     <1>12, <1>13, <1>14, <1>15, <1>16, <1>17, <1>18, <1>19, <1>20, <1>21, <1>22,
     <1>23, <1>24, <1>25, <1>26, <1>27, <1>28, <1>29, <1>30, <1>31, <1>32, <1>33,
     <1>34 DEF Next, OperationStep, OpenWork, RequestWork

\* Every step keeps a Close that of the session on record.
LEMMA ClosingNext ==
  ASSUME IInv, [Next]_vars
  PROVE  Closing'
<1>1. ASSUME NEW n \in Sessions, ReadinessOpens(n) PROVE Closing'
  BY <1>1 DEF ReadinessOpens, Open, ClearPlans, ForgetRequest, EmptyPlan, IInv,
     Types, SessionTypes, CloseTypes, OperationTypes, OpenTypes, Recorded, Closing,
     Ended, Holder, lifecycleVars, closeVars, failureVars, planVars, requestVars
<1>2. ASSUME NEW n \in Sessions, StartOpens(n) PROVE Closing'
  BY <1>2 DEF StartOpens, Open, Idle, ClearPlans, ForgetRequest, EmptyPlan, IInv,
     Types, SessionTypes, CloseTypes, OperationTypes, OpenTypes, Recorded, Closing,
     Ended, Holder, lifecycleVars, closeVars, failureVars, planVars, requestVars
<1>3. ASSUME Stops("stop") PROVE Closing'
  BY <1>3 DEF Stops, Freeze, Idle, ClearPlans, ForgetRequest, EmptyPlan, IInv,
     Types, SessionTypes, CloseTypes, OperationTypes, OpenTypes, Recorded, Closing,
     Ended, Holder, lifecycleVars, closeVars, failureVars, planVars, requestVars
<1>4. ASSUME Stops("restart") PROVE Closing'
  BY <1>4 DEF Stops, Freeze, Idle, ClearPlans, ForgetRequest, EmptyPlan, IInv,
     Types, SessionTypes, CloseTypes, OperationTypes, OpenTypes, Recorded, Closing,
     Ended, Holder, lifecycleVars, closeVars, failureVars, planVars, requestVars
<1>5. ASSUME Settle PROVE Closing'
  BY <1>5 DEF Settle, ClearPlans, ForgetRequest, EmptyPlan, IInv, Types,
     SessionTypes, CloseTypes, OperationTypes, OpenTypes, Recorded, Closing, Ended,
     Holder, lifecycleVars, closeVars, failureVars, planVars, requestVars
<1>6. ASSUME OperationCloses PROVE Closing'
  <2>1. CASE closing
    BY <1>6, <2>1 DEF OperationCloses, BeginClose, Closing, Recorded, IInv, Types, SessionTypes, CloseTypes, OperationTypes, OpenTypes, lifecycleVars, closeVars
  <2>2. CASE ~closing /\ UNCHANGED closeVars
    BY <2>2 DEF Closing, closeVars
  <2>3. CASE ~closing /\ BeginClose /\ session # None
    <3>1. closeOf' = [session |-> session, generation |-> generation]
      BY <2>3 DEF BeginClose
    <3>2. state' = "CLOSING" /\ closeOk' = FALSE /\ session' = session /\ generation' = generation
      BY <1>6, <2>3 DEF OperationCloses, BeginClose
    <3>3. openCall'[session] # "sent"
      BY <1>6, <2>3 DEF OperationCloses, BeginClose, closeVars, Ended, Recorded, IInv, Types, SessionTypes, OpenTypes
    <3> QED BY <2>3, <3>1, <3>2, <3>3 DEF Closing
  <2> QED BY <1>6, <2>1, <2>2, <2>3 DEF OperationCloses, closeVars
<1>7. ASSUME OperationClosed PROVE Closing'
  BY <1>7 DEF OperationClosed, IInv, Types, SessionTypes, CloseTypes,
     OperationTypes, OpenTypes, Recorded, Closing, Ended, Holder, lifecycleVars,
     closeVars, failureVars, planVars, requestVars
<1>8. ASSUME OperationEnds PROVE Closing'
  BY <1>8 DEF OperationEnds, Clean, Idle, EmptyPlan, IInv, Types, SessionTypes,
     CloseTypes, OperationTypes, OpenTypes, Recorded, Closing, Ended, Holder,
     lifecycleVars, closeVars, failureVars, planVars, requestVars
<1>9. ASSUME NEW n \in Sessions, RestartOpens(n) PROVE Closing'
  BY <1>9 DEF RestartOpens, Clean, Open, ClearPlans, ForgetRequest, EmptyPlan, IInv,
     Types, SessionTypes, CloseTypes, OperationTypes, OpenTypes, Recorded, Closing,
     Ended, Holder, lifecycleVars, closeVars, failureVars, planVars, requestVars
<1>10. ASSUME OpenWaitEnds PROVE Closing'
  BY <1>10 DEF OpenWaitEnds, Idle, IInv, Types, SessionTypes, CloseTypes,
     OperationTypes, OpenTypes, Recorded, Closing, Ended, Holder, lifecycleVars,
     closeVars, failureVars, planVars, requestVars
<1>11. ASSUME OperationTimesOut PROVE Closing'
  BY <1>11 DEF OperationTimesOut, IInv, Types, SessionTypes, CloseTypes,
     OperationTypes, OpenTypes, Recorded, Closing, Ended, Holder, lifecycleVars,
     closeVars, failureVars, planVars, requestVars
<1>12. ASSUME NEW n \in Sessions, OpenSucceeds(n) PROVE Closing'
  BY <1>12 DEF OpenSucceeds, Tracks, IInv, Types, SessionTypes, CloseTypes,
     OperationTypes, OpenTypes, Recorded, Closing, Ended, Holder, lifecycleVars,
     closeVars, failureVars, planVars, requestVars
<1>13. ASSUME NEW n \in Sessions, OpenNotStarted(n) PROVE Closing'
  BY <1>13 DEF OpenNotStarted, Tracks, IInv, Types, SessionTypes, CloseTypes,
     OperationTypes, OpenTypes, Recorded, Closing, Ended, Holder, lifecycleVars,
     closeVars, failureVars, planVars, requestVars
<1>14. ASSUME NEW n \in Sessions, OpenUnknown(n) PROVE Closing'
  BY <1>14 DEF OpenUnknown, Tracks, IInv, Types, SessionTypes, CloseTypes,
     OperationTypes, OpenTypes, Recorded, Closing, Ended, Holder, lifecycleVars,
     closeVars, failureVars, planVars, requestVars
<1>15. ASSUME NEW n \in Sessions, CompleteOpen(n) PROVE Closing'
  BY <1>15 DEF CompleteOpen, IInv, Types, SessionTypes, CloseTypes, OperationTypes,
     OpenTypes, Recorded, Closing, Ended, Holder, lifecycleVars, closeVars,
     failureVars, planVars, requestVars
<1>16. ASSUME NEW n \in Sessions, Compensate(n) PROVE Closing'
  <2>1. CASE closing
    BY <1>16, <2>1 DEF Compensate, BeginClose, Closing, Recorded, IInv, Types, SessionTypes, CloseTypes, OperationTypes, OpenTypes, lifecycleVars, closeVars
  <2>2. CASE ~closing /\ UNCHANGED closeVars
    BY <2>2 DEF Closing, closeVars
  <2>3. CASE ~closing /\ BeginClose /\ session # None
    <3>1. closeOf' = [session |-> session, generation |-> generation]
      BY <2>3 DEF BeginClose
    <3>2. state' = "CLOSING" /\ closeOk' = FALSE /\ session' = session /\ generation' = generation
      BY <1>16, <2>3 DEF Compensate, BeginClose
    <3>3. openCall'[session] # "sent"
      BY <1>16, <2>3 DEF Compensate, BeginClose, closeVars, Ended, Recorded, IInv, Types, SessionTypes, OpenTypes
    <3> QED BY <2>3, <3>1, <3>2, <3>3 DEF Closing
  <2> QED BY <1>16, <2>1, <2>2, <2>3 DEF Compensate, closeVars
<1>17. ASSUME NEW n \in Sessions, OpenFails(n) PROVE Closing'
  <2>1. UNCHANGED <<session, generation, closing, closeOf, closeOk>>
    BY <1>17 DEF OpenFails, TryFailure, Freeze, lifecycleVars, closeVars
  <2>2. state' \in {state, "CLOSING"}
    BY <1>17 DEF OpenFails, TryFailure, Freeze, lifecycleVars
  <2>3. \A m \in Sessions : openCall[m] # "sent" => openCall'[m] # "sent"
    BY <1>17 DEF OpenFails, IInv, Types, OpenTypes
  <2> QED BY <2>1, <2>2, <2>3 DEF Closing, IInv, Types, SessionTypes
<1>18. ASSUME CloseSucceeds PROVE Closing'
  BY <1>18 DEF CloseSucceeds, FinishClose, NoClose, IInv, Types, SessionTypes,
     CloseTypes, OperationTypes, OpenTypes, Recorded, Closing, Ended, Holder,
     lifecycleVars, closeVars, failureVars, planVars, requestVars
<1>19. ASSUME CloseFails PROVE Closing'
  BY <1>19 DEF CloseFails, FinishClose, NoClose, IInv, Types, SessionTypes,
     CloseTypes, OperationTypes, OpenTypes, Recorded, Closing, Ended, Holder,
     lifecycleVars, closeVars, failureVars, planVars, requestVars
<1>20. ASSUME DrainFailure PROVE Closing'
  BY <1>20 DEF DrainFailure, NoFailure, IInv, Types, SessionTypes, CloseTypes,
     OperationTypes, OpenTypes, Recorded, Closing, Ended, Holder, lifecycleVars,
     closeVars, failureVars, planVars, requestVars
<1>21. ASSUME RetryFailure PROVE Closing'
  BY <1>21 DEF RetryFailure, TryFailure, Freeze, Concerns, Idle, NoFailure,
     ClearPlans, ForgetRequest, EmptyPlan, IInv, Types, SessionTypes, CloseTypes,
     OperationTypes, OpenTypes, Recorded, Closing, Ended, Holder, lifecycleVars,
     closeVars, failureVars, planVars, requestVars
<1>22. ASSUME Tick PROVE Closing'
  BY <1>22 DEF Tick, IInv, Types, SessionTypes, CloseTypes, OperationTypes,
     OpenTypes, Recorded, Closing, Ended, Holder, lifecycleVars, closeVars,
     failureVars, planVars, requestVars
<1>23. ASSUME RequestDispatch PROVE Closing'
  BY <1>23 DEF RequestDispatch, Active, IInv, Types, SessionTypes, CloseTypes,
     OperationTypes, OpenTypes, Recorded, Closing, Ended, Holder, lifecycleVars,
     closeVars, failureVars, planVars, requestVars
<1>24. ASSUME Execute PROVE Closing'
  BY <1>24 DEF Execute, Active, IInv, Types, SessionTypes, CloseTypes,
     OperationTypes, OpenTypes, Recorded, Closing, Ended, Holder, lifecycleVars,
     closeVars, failureVars, planVars, requestVars
<1>25. ASSUME Toggle PROVE Closing'
  BY <1>25 DEF Toggle, Active, EmptyPlan, IInv, Types, SessionTypes, CloseTypes,
     OperationTypes, OpenTypes, Recorded, Closing, Ended, Holder, lifecycleVars,
     closeVars, failureVars, planVars, requestVars
<1>26. ASSUME NEW r \in Requests, ResultArrives(r) PROVE Closing'
  BY <1>26 DEF ResultArrives, IInv, Types, SessionTypes, CloseTypes, OperationTypes,
     OpenTypes, Recorded, Closing, Ended, Holder, lifecycleVars, closeVars,
     failureVars, planVars, requestVars
<1>27. ASSUME NEW r \in Requests, Accept(r) PROVE Closing'
  BY <1>27 DEF Accept, Current, Planned, Stop, Skipped, Least, Active,
     ForgetRequest, Forget, IInv, Types, SessionTypes, CloseTypes, OperationTypes,
     OpenTypes, Recorded, Closing, Ended, Holder, lifecycleVars, closeVars,
     failureVars, planVars, requestVars
<1>28. ASSUME NEW r \in Requests, ResultNotStarted(r) PROVE Closing'
  BY <1>28 DEF ResultNotStarted, IInv, Types, SessionTypes, CloseTypes,
     OperationTypes, OpenTypes, Recorded, Closing, Ended, Holder, lifecycleVars,
     closeVars, failureVars, planVars, requestVars
<1>29. ASSUME NEW r \in Requests, Retry(r) PROVE Closing'
  BY <1>29 DEF Retry, IInv, Types, SessionTypes, CloseTypes, OperationTypes,
     OpenTypes, Recorded, Closing, Ended, Holder, lifecycleVars, closeVars,
     failureVars, planVars, requestVars
<1>30. ASSUME NEW r \in Requests, RetryDropped(r) PROVE Closing'
  BY <1>30 DEF RetryDropped, Forget, ForgetRequest, IInv, Types, SessionTypes,
     CloseTypes, OperationTypes, OpenTypes, Recorded, Closing, Ended, Holder,
     lifecycleVars, closeVars, failureVars, planVars, requestVars
<1>31. ASSUME NEW r \in Requests, Failing(r), RequestFails(r) PROVE Closing'
  BY <1>31 DEF RequestFails, TryFailure, Freeze, Concerns, Idle, NoFailure,
     ClearPlans, ForgetRequest, EmptyPlan, Current, IInv, Types, SessionTypes,
     CloseTypes, OperationTypes, OpenTypes, Recorded, Closing, Ended, Holder,
     lifecycleVars, closeVars, failureVars, planVars, requestVars
<1>32. ASSUME NEW r \in Requests, Drop(r) PROVE Closing'
  BY <1>32 DEF Drop, Forget, IInv, Types, SessionTypes, CloseTypes, OperationTypes,
     OpenTypes, Recorded, Closing, Ended, Holder, lifecycleVars, closeVars,
     failureVars, planVars, requestVars
<1>33. ASSUME NEW n \in Sessions, Serve(n) PROVE Closing'
  BY <1>33 DEF Serve, IInv, Types, SessionTypes, CloseTypes, OperationTypes,
     OpenTypes, Recorded, Closing, Ended, Holder, lifecycleVars, closeVars,
     failureVars, planVars, requestVars
<1>34. CASE UNCHANGED vars
  BY <1>34 DEF vars, IInv, Types, SessionTypes, CloseTypes, OperationTypes,
     OpenTypes, Recorded, Closing, Ended, Holder, lifecycleVars, closeVars,
     failureVars, planVars, requestVars
<1> QED BY <1>1, <1>2, <1>3, <1>4, <1>5, <1>6, <1>7, <1>8, <1>9, <1>10, <1>11,
     <1>12, <1>13, <1>14, <1>15, <1>16, <1>17, <1>18, <1>19, <1>20, <1>21, <1>22,
     <1>23, <1>24, <1>25, <1>26, <1>27, <1>28, <1>29, <1>30, <1>31, <1>32, <1>33,
     <1>34 DEF Next, OperationStep, OpenWork, RequestWork

\* Every step keeps an ended operation without a session.
LEMMA EndedNext ==
  ASSUME IInv, [Next]_vars
  PROVE  Ended'
<1>1. ASSUME NEW n \in Sessions, ReadinessOpens(n) PROVE Ended'
  BY <1>1 DEF ReadinessOpens, Open, ClearPlans, ForgetRequest, EmptyPlan, IInv,
     Types, SessionTypes, CloseTypes, OperationTypes, OpenTypes, Holder, Frozen,
     Freezing, Recorded, Closing, Ended, lifecycleVars, closeVars, failureVars,
     planVars, requestVars
<1>2. ASSUME NEW n \in Sessions, StartOpens(n) PROVE Ended'
  BY <1>2 DEF StartOpens, Open, Idle, ClearPlans, ForgetRequest, EmptyPlan, IInv,
     Types, SessionTypes, CloseTypes, OperationTypes, OpenTypes, Holder, Frozen,
     Freezing, Recorded, Closing, Ended, lifecycleVars, closeVars, failureVars,
     planVars, requestVars
<1>3. ASSUME Stops("stop") PROVE Ended'
  BY <1>3 DEF Stops, Freeze, Idle, ClearPlans, ForgetRequest, EmptyPlan, IInv,
     Types, SessionTypes, CloseTypes, OperationTypes, OpenTypes, Holder, Frozen,
     Freezing, Recorded, Closing, Ended, lifecycleVars, closeVars, failureVars,
     planVars, requestVars
<1>4. ASSUME Stops("restart") PROVE Ended'
  BY <1>4 DEF Stops, Freeze, Idle, ClearPlans, ForgetRequest, EmptyPlan, IInv,
     Types, SessionTypes, CloseTypes, OperationTypes, OpenTypes, Holder, Frozen,
     Freezing, Recorded, Closing, Ended, lifecycleVars, closeVars, failureVars,
     planVars, requestVars
<1>5. ASSUME Settle PROVE Ended'
  <2>1. UNCHANGED <<session, openCall, closeOk>>
    BY <1>5 DEF Settle, closeVars
  <2>2. ~(session # None /\ pendingOpen = session /\ generation = 0) /\ session # None
          => openCall[session] # "sent"
    BY DEF IInv, Recorded, Types, SessionTypes
  <2>3. \/ operation'.phase = "settling"
        \/ /\ operation'.phase = "settled"
           /\ ~(session # None /\ pendingOpen = session /\ generation = 0)
    BY <1>5 DEF Settle, IInv, Types, OperationTypes
  <2> QED BY <2>1, <2>2, <2>3 DEF Ended
<1>6. ASSUME OperationCloses PROVE Ended'
  BY <1>6 DEF OperationCloses, BeginClose, ClearPlans, ForgetRequest, EmptyPlan,
     IInv, Types, SessionTypes, CloseTypes, OperationTypes, OpenTypes, Holder,
     Frozen, Freezing, Recorded, Closing, Ended, lifecycleVars, closeVars,
     failureVars, planVars, requestVars
<1>7. ASSUME OperationClosed PROVE Ended'
  BY <1>7 DEF OperationClosed, IInv, Types, SessionTypes, CloseTypes,
     OperationTypes, OpenTypes, Holder, Frozen, Freezing, Recorded, Closing, Ended,
     lifecycleVars, closeVars, failureVars, planVars, requestVars
<1>8. ASSUME OperationEnds PROVE Ended'
  BY <1>8 DEF OperationEnds, Clean, Idle, EmptyPlan, IInv, Types, SessionTypes,
     CloseTypes, OperationTypes, OpenTypes, Holder, Frozen, Freezing, Recorded,
     Closing, Ended, lifecycleVars, closeVars, failureVars, planVars, requestVars
<1>9. ASSUME NEW n \in Sessions, RestartOpens(n) PROVE Ended'
  BY <1>9 DEF RestartOpens, Clean, Open, ClearPlans, ForgetRequest, EmptyPlan, IInv,
     Types, SessionTypes, CloseTypes, OperationTypes, OpenTypes, Holder, Frozen,
     Freezing, Recorded, Closing, Ended, lifecycleVars, closeVars, failureVars,
     planVars, requestVars
<1>10. ASSUME OpenWaitEnds PROVE Ended'
  BY <1>10 DEF OpenWaitEnds, Idle, IInv, Types, SessionTypes, CloseTypes,
     OperationTypes, OpenTypes, Holder, Frozen, Freezing, Recorded, Closing, Ended,
     lifecycleVars, closeVars, failureVars, planVars, requestVars
<1>11. ASSUME OperationTimesOut PROVE Ended'
  BY <1>11 DEF OperationTimesOut, IInv, Types, SessionTypes, CloseTypes,
     OperationTypes, OpenTypes, Holder, Frozen, Freezing, Recorded, Closing, Ended,
     lifecycleVars, closeVars, failureVars, planVars, requestVars
<1>12. ASSUME NEW n \in Sessions, OpenSucceeds(n) PROVE Ended'
  BY <1>12 DEF OpenSucceeds, Tracks, IInv, Types, SessionTypes, CloseTypes,
     OperationTypes, OpenTypes, Holder, Frozen, Freezing, Recorded, Closing, Ended,
     lifecycleVars, closeVars, failureVars, planVars, requestVars
<1>13. ASSUME NEW n \in Sessions, OpenNotStarted(n) PROVE Ended'
  BY <1>13 DEF OpenNotStarted, Tracks, IInv, Types, SessionTypes, CloseTypes,
     OperationTypes, OpenTypes, Holder, Frozen, Freezing, Recorded, Closing, Ended,
     lifecycleVars, closeVars, failureVars, planVars, requestVars
<1>14. ASSUME NEW n \in Sessions, OpenUnknown(n) PROVE Ended'
  BY <1>14 DEF OpenUnknown, Tracks, IInv, Types, SessionTypes, CloseTypes,
     OperationTypes, OpenTypes, Holder, Frozen, Freezing, Recorded, Closing, Ended,
     lifecycleVars, closeVars, failureVars, planVars, requestVars
<1>15. ASSUME NEW n \in Sessions, CompleteOpen(n) PROVE Ended'
  BY <1>15 DEF CompleteOpen, IInv, Types, SessionTypes, CloseTypes, OperationTypes,
     OpenTypes, Holder, Frozen, Freezing, Recorded, Closing, Ended, lifecycleVars,
     closeVars, failureVars, planVars, requestVars
<1>16. ASSUME NEW n \in Sessions, Compensate(n) PROVE Ended'
  BY <1>16 DEF Compensate, BeginClose, ClearPlans, ForgetRequest, EmptyPlan, IInv,
     Types, SessionTypes, CloseTypes, OperationTypes, OpenTypes, Holder, Frozen,
     Freezing, Recorded, Closing, Ended, lifecycleVars, closeVars, failureVars,
     planVars, requestVars
<1>17. ASSUME NEW n \in Sessions, OpenFails(n) PROVE Ended'
  <2>1. UNCHANGED <<operation, session, closeOk>> \/ operation'.phase = "frozen"
    BY <1>17 DEF OpenFails, TryFailure, Freeze, Idle, lifecycleVars, closeVars, IInv, Types, OperationTypes
  <2>2. session' = session
    BY <1>17 DEF OpenFails, TryFailure, Freeze, lifecycleVars
  <2>3. \A m \in Sessions : openCall[m] # "sent" => openCall'[m] # "sent"
    BY <1>17 DEF OpenFails, IInv, Types, OpenTypes
  <2> QED BY <2>1, <2>2, <2>3 DEF Ended, IInv, Types, SessionTypes
<1>18. ASSUME CloseSucceeds PROVE Ended'
  BY <1>18 DEF CloseSucceeds, FinishClose, NoClose, IInv, Types, SessionTypes,
     CloseTypes, OperationTypes, OpenTypes, Holder, Frozen, Freezing, Recorded,
     Closing, Ended, lifecycleVars, closeVars, failureVars, planVars, requestVars
<1>19. ASSUME CloseFails PROVE Ended'
  BY <1>19 DEF CloseFails, FinishClose, NoClose, IInv, Types, SessionTypes,
     CloseTypes, OperationTypes, OpenTypes, Holder, Frozen, Freezing, Recorded,
     Closing, Ended, lifecycleVars, closeVars, failureVars, planVars, requestVars
<1>20. ASSUME DrainFailure PROVE Ended'
  BY <1>20 DEF DrainFailure, NoFailure, IInv, Types, SessionTypes, CloseTypes,
     OperationTypes, OpenTypes, Holder, Frozen, Freezing, Recorded, Closing, Ended,
     lifecycleVars, closeVars, failureVars, planVars, requestVars
<1>21. ASSUME RetryFailure PROVE Ended'
  <2>1. UNCHANGED <<operation, session, closeOk>> \/ operation'.phase = "frozen"
    BY <1>21 DEF RetryFailure, TryFailure, Freeze, Idle, lifecycleVars, closeVars, IInv, Types, OperationTypes
  <2>2. session' = session
    BY <1>21 DEF RetryFailure, TryFailure, Freeze, lifecycleVars
  <2>3. \A m \in Sessions : openCall[m] # "sent" => openCall'[m] # "sent"
    BY <1>21 DEF RetryFailure, IInv, Types, OpenTypes
  <2> QED BY <2>1, <2>2, <2>3 DEF Ended, IInv, Types, SessionTypes
<1>22. ASSUME Tick PROVE Ended'
  BY <1>22 DEF Tick, IInv, Types, SessionTypes, CloseTypes, OperationTypes,
     OpenTypes, Holder, Frozen, Freezing, Recorded, Closing, Ended, lifecycleVars,
     closeVars, failureVars, planVars, requestVars
<1>23. ASSUME RequestDispatch PROVE Ended'
  BY <1>23 DEF RequestDispatch, Active, IInv, Types, SessionTypes, CloseTypes,
     OperationTypes, OpenTypes, Holder, Frozen, Freezing, Recorded, Closing, Ended,
     lifecycleVars, closeVars, failureVars, planVars, requestVars
<1>24. ASSUME Execute PROVE Ended'
  BY <1>24 DEF Execute, Active, IInv, Types, SessionTypes, CloseTypes,
     OperationTypes, OpenTypes, Holder, Frozen, Freezing, Recorded, Closing, Ended,
     lifecycleVars, closeVars, failureVars, planVars, requestVars
<1>25. ASSUME Toggle PROVE Ended'
  BY <1>25 DEF Toggle, Active, EmptyPlan, IInv, Types, SessionTypes, CloseTypes,
     OperationTypes, OpenTypes, Holder, Frozen, Freezing, Recorded, Closing, Ended,
     lifecycleVars, closeVars, failureVars, planVars, requestVars
<1>26. ASSUME NEW r \in Requests, ResultArrives(r) PROVE Ended'
  BY <1>26 DEF ResultArrives, IInv, Types, SessionTypes, CloseTypes, OperationTypes,
     OpenTypes, Holder, Frozen, Freezing, Recorded, Closing, Ended, lifecycleVars,
     closeVars, failureVars, planVars, requestVars
<1>27. ASSUME NEW r \in Requests, Accept(r) PROVE Ended'
  BY <1>27 DEF Accept, Current, Planned, Stop, Skipped, Least, Active,
     ForgetRequest, Forget, IInv, Types, SessionTypes, CloseTypes, OperationTypes,
     OpenTypes, Holder, Frozen, Freezing, Recorded, Closing, Ended, lifecycleVars,
     closeVars, failureVars, planVars, requestVars
<1>28. ASSUME NEW r \in Requests, ResultNotStarted(r) PROVE Ended'
  BY <1>28 DEF ResultNotStarted, IInv, Types, SessionTypes, CloseTypes,
     OperationTypes, OpenTypes, Holder, Frozen, Freezing, Recorded, Closing, Ended,
     lifecycleVars, closeVars, failureVars, planVars, requestVars
<1>29. ASSUME NEW r \in Requests, Retry(r) PROVE Ended'
  BY <1>29 DEF Retry, IInv, Types, SessionTypes, CloseTypes, OperationTypes,
     OpenTypes, Holder, Frozen, Freezing, Recorded, Closing, Ended, lifecycleVars,
     closeVars, failureVars, planVars, requestVars
<1>30. ASSUME NEW r \in Requests, RetryDropped(r) PROVE Ended'
  BY <1>30 DEF RetryDropped, Forget, ForgetRequest, IInv, Types, SessionTypes,
     CloseTypes, OperationTypes, OpenTypes, Holder, Frozen, Freezing, Recorded,
     Closing, Ended, lifecycleVars, closeVars, failureVars, planVars, requestVars
<1>31. ASSUME NEW r \in Requests, Failing(r), RequestFails(r) PROVE Ended'
  <2>1. UNCHANGED <<operation, session, closeOk>> \/ operation'.phase = "frozen"
    BY <1>31 DEF RequestFails, TryFailure, Freeze, Idle, lifecycleVars, closeVars, IInv, Types, OperationTypes
  <2>2. session' = session
    BY <1>31 DEF RequestFails, TryFailure, Freeze, lifecycleVars
  <2>3. \A m \in Sessions : openCall[m] # "sent" => openCall'[m] # "sent"
    BY <1>31 DEF RequestFails, IInv, Types, OpenTypes
  <2> QED BY <2>1, <2>2, <2>3 DEF Ended, IInv, Types, SessionTypes
<1>32. ASSUME NEW r \in Requests, Drop(r) PROVE Ended'
  BY <1>32 DEF Drop, Forget, IInv, Types, SessionTypes, CloseTypes, OperationTypes,
     OpenTypes, Holder, Frozen, Freezing, Recorded, Closing, Ended, lifecycleVars,
     closeVars, failureVars, planVars, requestVars
<1>33. ASSUME NEW n \in Sessions, Serve(n) PROVE Ended'
  BY <1>33 DEF Serve, IInv, Types, SessionTypes, CloseTypes, OperationTypes,
     OpenTypes, Holder, Frozen, Freezing, Recorded, Closing, Ended, lifecycleVars,
     closeVars, failureVars, planVars, requestVars
<1>34. CASE UNCHANGED vars
  BY <1>34 DEF vars, IInv, Types, SessionTypes, CloseTypes, OperationTypes,
     OpenTypes, Holder, Frozen, Freezing, Recorded, Closing, Ended, lifecycleVars,
     closeVars, failureVars, planVars, requestVars
<1> QED BY <1>1, <1>2, <1>3, <1>4, <1>5, <1>6, <1>7, <1>8, <1>9, <1>10, <1>11,
     <1>12, <1>13, <1>14, <1>15, <1>16, <1>17, <1>18, <1>19, <1>20, <1>21, <1>22,
     <1>23, <1>24, <1>25, <1>26, <1>27, <1>28, <1>29, <1>30, <1>31, <1>32, <1>33,
     <1>34 DEF Next, OperationStep, OpenWork, RequestWork

-----------------------------------------------------------------------------
(* The plans.                                                              *)

\* Every step keeps plans out of sessions that are not ACTIVE.
LEMMA PlanlessNext ==
  ASSUME IInv, [Next]_vars
  PROVE  Planless'
<1>1. ASSUME NEW n \in Sessions, ReadinessOpens(n) PROVE Planless'
  BY <1>1 DEF ReadinessOpens, Open, ClearPlans, ForgetRequest, EmptyPlan, IInv,
     Types, OperationTypes, PlanTypes, Plans, Holder, Frozen, Freezing, Planless,
     Current, lifecycleVars, closeVars, failureVars, planVars, requestVars
<1>2. ASSUME NEW n \in Sessions, StartOpens(n) PROVE Planless'
  BY <1>2 DEF StartOpens, Open, Idle, ClearPlans, ForgetRequest, EmptyPlan, IInv,
     Types, OperationTypes, PlanTypes, Plans, Holder, Frozen, Freezing, Planless,
     Current, lifecycleVars, closeVars, failureVars, planVars, requestVars
<1>3. ASSUME Stops("stop") PROVE Planless'
  BY <1>3 DEF Stops, Freeze, Idle, ClearPlans, ForgetRequest, EmptyPlan, IInv,
     Types, OperationTypes, PlanTypes, Plans, Holder, Frozen, Freezing, Planless,
     Current, lifecycleVars, closeVars, failureVars, planVars, requestVars
<1>4. ASSUME Stops("restart") PROVE Planless'
  BY <1>4 DEF Stops, Freeze, Idle, ClearPlans, ForgetRequest, EmptyPlan, IInv,
     Types, OperationTypes, PlanTypes, Plans, Holder, Frozen, Freezing, Planless,
     Current, lifecycleVars, closeVars, failureVars, planVars, requestVars
<1>5. ASSUME Settle PROVE Planless'
  BY <1>5 DEF Settle, ClearPlans, ForgetRequest, EmptyPlan, IInv, Types,
     OperationTypes, PlanTypes, Plans, Holder, Frozen, Freezing, Planless, Current,
     lifecycleVars, closeVars, failureVars, planVars, requestVars
<1>6. ASSUME OperationCloses PROVE Planless'
  BY <1>6 DEF OperationCloses, BeginClose, ClearPlans, ForgetRequest, EmptyPlan,
     IInv, Types, OperationTypes, PlanTypes, Plans, Holder, Frozen, Freezing,
     Planless, Current, lifecycleVars, closeVars, failureVars, planVars, requestVars
<1>7. ASSUME OperationClosed PROVE Planless'
  BY <1>7 DEF OperationClosed, IInv, Types, OperationTypes, PlanTypes, Plans,
     Holder, Frozen, Freezing, Planless, Current, lifecycleVars, closeVars,
     failureVars, planVars, requestVars
<1>8. ASSUME OperationEnds PROVE Planless'
  BY <1>8 DEF OperationEnds, Clean, Idle, EmptyPlan, IInv, Types, OperationTypes,
     PlanTypes, Plans, Holder, Frozen, Freezing, Planless, Current, lifecycleVars,
     closeVars, failureVars, planVars, requestVars
<1>9. ASSUME NEW n \in Sessions, RestartOpens(n) PROVE Planless'
  BY <1>9 DEF RestartOpens, Clean, Open, ClearPlans, ForgetRequest, EmptyPlan, IInv,
     Types, OperationTypes, PlanTypes, Plans, Holder, Frozen, Freezing, Planless,
     Current, lifecycleVars, closeVars, failureVars, planVars, requestVars
<1>10. ASSUME OpenWaitEnds PROVE Planless'
  BY <1>10 DEF OpenWaitEnds, Idle, IInv, Types, OperationTypes, PlanTypes, Plans,
     Holder, Frozen, Freezing, Planless, Current, lifecycleVars, closeVars,
     failureVars, planVars, requestVars
<1>11. ASSUME OperationTimesOut PROVE Planless'
  BY <1>11 DEF OperationTimesOut, IInv, Types, OperationTypes, PlanTypes, Plans,
     Holder, Frozen, Freezing, Planless, Current, lifecycleVars, closeVars,
     failureVars, planVars, requestVars
<1>12. ASSUME NEW n \in Sessions, OpenSucceeds(n) PROVE Planless'
  BY <1>12 DEF OpenSucceeds, Tracks, IInv, Types, OperationTypes, PlanTypes, Plans,
     Holder, Frozen, Freezing, Planless, Current, lifecycleVars, closeVars,
     failureVars, planVars, requestVars
<1>13. ASSUME NEW n \in Sessions, OpenNotStarted(n) PROVE Planless'
  BY <1>13 DEF OpenNotStarted, Tracks, IInv, Types, OperationTypes, PlanTypes,
     Plans, Holder, Frozen, Freezing, Planless, Current, lifecycleVars, closeVars,
     failureVars, planVars, requestVars
<1>14. ASSUME NEW n \in Sessions, OpenUnknown(n) PROVE Planless'
  BY <1>14 DEF OpenUnknown, Tracks, IInv, Types, OperationTypes, PlanTypes, Plans,
     Holder, Frozen, Freezing, Planless, Current, lifecycleVars, closeVars,
     failureVars, planVars, requestVars
<1>15. ASSUME NEW n \in Sessions, CompleteOpen(n) PROVE Planless'
  BY <1>15 DEF CompleteOpen, IInv, Types, OperationTypes, PlanTypes, Plans, Holder,
     Frozen, Freezing, Planless, Current, lifecycleVars, closeVars, failureVars,
     planVars, requestVars
<1>16. ASSUME NEW n \in Sessions, Compensate(n) PROVE Planless'
  BY <1>16 DEF Compensate, BeginClose, ClearPlans, ForgetRequest, EmptyPlan, IInv,
     Types, OperationTypes, PlanTypes, Plans, Holder, Frozen, Freezing, Planless,
     Current, lifecycleVars, closeVars, failureVars, planVars, requestVars
<1>17. ASSUME NEW n \in Sessions, OpenFails(n) PROVE Planless'
  BY <1>17 DEF OpenFails, TryFailure, Freeze, Concerns, Idle, NoFailure, ClearPlans,
     ForgetRequest, EmptyPlan, IInv, Types, OperationTypes, PlanTypes, Plans,
     Holder, Frozen, Freezing, Planless, Current, lifecycleVars, closeVars,
     failureVars, planVars, requestVars
<1>18. ASSUME CloseSucceeds PROVE Planless'
  BY <1>18 DEF CloseSucceeds, FinishClose, NoClose, IInv, Types, OperationTypes,
     PlanTypes, Plans, Holder, Frozen, Freezing, Planless, Current, lifecycleVars,
     closeVars, failureVars, planVars, requestVars
<1>19. ASSUME CloseFails PROVE Planless'
  BY <1>19 DEF CloseFails, FinishClose, NoClose, IInv, Types, OperationTypes,
     PlanTypes, Plans, Holder, Frozen, Freezing, Planless, Current, lifecycleVars,
     closeVars, failureVars, planVars, requestVars
<1>20. ASSUME DrainFailure PROVE Planless'
  BY <1>20 DEF DrainFailure, NoFailure, IInv, Types, OperationTypes, PlanTypes,
     Plans, Holder, Frozen, Freezing, Planless, Current, lifecycleVars, closeVars,
     failureVars, planVars, requestVars
<1>21. ASSUME RetryFailure PROVE Planless'
  BY <1>21 DEF RetryFailure, TryFailure, Freeze, Concerns, Idle, NoFailure,
     ClearPlans, ForgetRequest, EmptyPlan, IInv, Types, OperationTypes, PlanTypes,
     Plans, Holder, Frozen, Freezing, Planless, Current, lifecycleVars, closeVars,
     failureVars, planVars, requestVars
<1>22. ASSUME Tick PROVE Planless'
  BY <1>22 DEF Tick, IInv, Types, OperationTypes, PlanTypes, Plans, Holder, Frozen,
     Freezing, Planless, Current, lifecycleVars, closeVars, failureVars, planVars,
     requestVars
<1>23. ASSUME RequestDispatch PROVE Planless'
  BY <1>23 DEF RequestDispatch, Active, IInv, Types, OperationTypes, PlanTypes,
     Plans, Holder, Frozen, Freezing, Planless, Current, lifecycleVars, closeVars,
     failureVars, planVars, requestVars
<1>24. ASSUME Execute PROVE Planless'
  BY <1>24 DEF Execute, Active, IInv, Types, OperationTypes, PlanTypes, Plans,
     Holder, Frozen, Freezing, Planless, Current, lifecycleVars, closeVars,
     failureVars, planVars, requestVars
<1>25. ASSUME Toggle PROVE Planless'
  BY <1>25 DEF Toggle, Active, EmptyPlan, IInv, Types, OperationTypes, PlanTypes,
     Plans, Holder, Frozen, Freezing, Planless, Current, lifecycleVars, closeVars,
     failureVars, planVars, requestVars
<1>26. ASSUME NEW r \in Requests, ResultArrives(r) PROVE Planless'
  BY <1>26 DEF ResultArrives, IInv, Types, OperationTypes, PlanTypes, Plans, Holder,
     Frozen, Freezing, Planless, Current, lifecycleVars, closeVars, failureVars,
     planVars, requestVars
<1>27. ASSUME NEW r \in Requests, Accept(r) PROVE Planless'
  BY <1>27 DEF Accept, Current, Planned, Stop, Skipped, Least, Active,
     ForgetRequest, Forget, IInv, Types, OperationTypes, PlanTypes, Plans, Holder,
     Frozen, Freezing, Planless, lifecycleVars, closeVars, failureVars, planVars,
     requestVars
<1>28. ASSUME NEW r \in Requests, ResultNotStarted(r) PROVE Planless'
  BY <1>28 DEF ResultNotStarted, IInv, Types, OperationTypes, PlanTypes, Plans,
     Holder, Frozen, Freezing, Planless, Current, lifecycleVars, closeVars,
     failureVars, planVars, requestVars
<1>29. ASSUME NEW r \in Requests, Retry(r) PROVE Planless'
  BY <1>29 DEF Retry, IInv, Types, OperationTypes, PlanTypes, Plans, Holder, Frozen,
     Freezing, Planless, Current, lifecycleVars, closeVars, failureVars, planVars,
     requestVars
<1>30. ASSUME NEW r \in Requests, RetryDropped(r) PROVE Planless'
  BY <1>30 DEF RetryDropped, Forget, ForgetRequest, IInv, Types, OperationTypes,
     PlanTypes, Plans, Holder, Frozen, Freezing, Planless, Current, lifecycleVars,
     closeVars, failureVars, planVars, requestVars
<1>31. ASSUME NEW r \in Requests, Failing(r), RequestFails(r) PROVE Planless'
  BY <1>31 DEF RequestFails, TryFailure, Freeze, Concerns, Idle, NoFailure,
     ClearPlans, ForgetRequest, EmptyPlan, Current, IInv, Types, OperationTypes,
     PlanTypes, Plans, Holder, Frozen, Freezing, Planless, lifecycleVars, closeVars,
     failureVars, planVars, requestVars
<1>32. ASSUME NEW r \in Requests, Drop(r) PROVE Planless'
  BY <1>32 DEF Drop, Forget, IInv, Types, OperationTypes, PlanTypes, Plans, Holder,
     Frozen, Freezing, Planless, Current, lifecycleVars, closeVars, failureVars,
     planVars, requestVars
<1>33. ASSUME NEW n \in Sessions, Serve(n) PROVE Planless'
  BY <1>33 DEF Serve, IInv, Types, OperationTypes, PlanTypes, Plans, Holder, Frozen,
     Freezing, Planless, Current, lifecycleVars, closeVars, failureVars, planVars,
     requestVars
<1>34. CASE UNCHANGED vars
  BY <1>34 DEF vars, IInv, Types, OperationTypes, PlanTypes, Plans, Holder, Frozen,
     Freezing, Planless, Current, lifecycleVars, closeVars, failureVars, planVars,
     requestVars
<1> QED BY <1>1, <1>2, <1>3, <1>4, <1>5, <1>6, <1>7, <1>8, <1>9, <1>10, <1>11,
     <1>12, <1>13, <1>14, <1>15, <1>16, <1>17, <1>18, <1>19, <1>20, <1>21, <1>22,
     <1>23, <1>24, <1>25, <1>26, <1>27, <1>28, <1>29, <1>30, <1>31, <1>32, <1>33,
     <1>34 DEF Next, OperationStep, OpenWork, RequestWork

\* Every step keeps the plan that of the session on record.
LEMMA CurrentNext ==
  ASSUME IInv, [Next]_vars
  PROVE  PlanIsCurrent'
<1>1. ASSUME NEW n \in Sessions, ReadinessOpens(n) PROVE PlanIsCurrent'
  BY <1>1 DEF ReadinessOpens, Open, ClearPlans, ForgetRequest, EmptyPlan, IInv,
     Types, SessionTypes, PlanTypes, Plans, RequestTypes, Recorded, Closing,
     Planless, PlanIsCurrent, lifecycleVars, closeVars, failureVars, planVars,
     requestVars
<1>2. ASSUME NEW n \in Sessions, StartOpens(n) PROVE PlanIsCurrent'
  BY <1>2 DEF StartOpens, Open, Idle, ClearPlans, ForgetRequest, EmptyPlan, IInv,
     Types, SessionTypes, PlanTypes, Plans, RequestTypes, Recorded, Closing,
     Planless, PlanIsCurrent, lifecycleVars, closeVars, failureVars, planVars,
     requestVars
<1>3. ASSUME Stops("stop") PROVE PlanIsCurrent'
  BY <1>3 DEF Stops, Freeze, Idle, ClearPlans, ForgetRequest, EmptyPlan, IInv,
     Types, SessionTypes, PlanTypes, Plans, RequestTypes, Recorded, Closing,
     Planless, PlanIsCurrent, lifecycleVars, closeVars, failureVars, planVars,
     requestVars
<1>4. ASSUME Stops("restart") PROVE PlanIsCurrent'
  BY <1>4 DEF Stops, Freeze, Idle, ClearPlans, ForgetRequest, EmptyPlan, IInv,
     Types, SessionTypes, PlanTypes, Plans, RequestTypes, Recorded, Closing,
     Planless, PlanIsCurrent, lifecycleVars, closeVars, failureVars, planVars,
     requestVars
<1>5. ASSUME Settle PROVE PlanIsCurrent'
  BY <1>5 DEF Settle, ClearPlans, ForgetRequest, EmptyPlan, IInv, Types,
     SessionTypes, PlanTypes, Plans, RequestTypes, Recorded, Closing, Planless,
     PlanIsCurrent, lifecycleVars, closeVars, failureVars, planVars, requestVars
<1>6. ASSUME OperationCloses PROVE PlanIsCurrent'
  BY <1>6 DEF OperationCloses, BeginClose, ClearPlans, ForgetRequest, EmptyPlan,
     IInv, Types, SessionTypes, PlanTypes, Plans, RequestTypes, Recorded, Closing,
     Planless, PlanIsCurrent, lifecycleVars, closeVars, failureVars, planVars,
     requestVars
<1>7. ASSUME OperationClosed PROVE PlanIsCurrent'
  BY <1>7 DEF OperationClosed, IInv, Types, SessionTypes, PlanTypes, Plans,
     RequestTypes, Recorded, Closing, Planless, PlanIsCurrent, lifecycleVars,
     closeVars, failureVars, planVars, requestVars
<1>8. ASSUME OperationEnds PROVE PlanIsCurrent'
  BY <1>8 DEF OperationEnds, Clean, Idle, EmptyPlan, IInv, Types, SessionTypes,
     PlanTypes, Plans, RequestTypes, Recorded, Closing, Planless, PlanIsCurrent,
     lifecycleVars, closeVars, failureVars, planVars, requestVars
<1>9. ASSUME NEW n \in Sessions, RestartOpens(n) PROVE PlanIsCurrent'
  BY <1>9 DEF RestartOpens, Clean, Open, ClearPlans, ForgetRequest, EmptyPlan, IInv,
     Types, SessionTypes, PlanTypes, Plans, RequestTypes, Recorded, Closing,
     Planless, PlanIsCurrent, lifecycleVars, closeVars, failureVars, planVars,
     requestVars
<1>10. ASSUME OpenWaitEnds PROVE PlanIsCurrent'
  BY <1>10 DEF OpenWaitEnds, Idle, IInv, Types, SessionTypes, PlanTypes, Plans,
     RequestTypes, Recorded, Closing, Planless, PlanIsCurrent, lifecycleVars,
     closeVars, failureVars, planVars, requestVars
<1>11. ASSUME OperationTimesOut PROVE PlanIsCurrent'
  BY <1>11 DEF OperationTimesOut, IInv, Types, SessionTypes, PlanTypes, Plans,
     RequestTypes, Recorded, Closing, Planless, PlanIsCurrent, lifecycleVars,
     closeVars, failureVars, planVars, requestVars
<1>12. ASSUME NEW n \in Sessions, OpenSucceeds(n) PROVE PlanIsCurrent'
  BY <1>12 DEF OpenSucceeds, Tracks, IInv, Types, SessionTypes, PlanTypes, Plans,
     RequestTypes, Recorded, Closing, Planless, PlanIsCurrent, lifecycleVars,
     closeVars, failureVars, planVars, requestVars
<1>13. ASSUME NEW n \in Sessions, OpenNotStarted(n) PROVE PlanIsCurrent'
  BY <1>13 DEF OpenNotStarted, Tracks, IInv, Types, SessionTypes, PlanTypes, Plans,
     RequestTypes, Recorded, Closing, Planless, PlanIsCurrent, lifecycleVars,
     closeVars, failureVars, planVars, requestVars
<1>14. ASSUME NEW n \in Sessions, OpenUnknown(n) PROVE PlanIsCurrent'
  BY <1>14 DEF OpenUnknown, Tracks, IInv, Types, SessionTypes, PlanTypes, Plans,
     RequestTypes, Recorded, Closing, Planless, PlanIsCurrent, lifecycleVars,
     closeVars, failureVars, planVars, requestVars
<1>15. ASSUME NEW n \in Sessions, CompleteOpen(n) PROVE PlanIsCurrent'
  BY <1>15 DEF CompleteOpen, IInv, Types, SessionTypes, PlanTypes, Plans,
     RequestTypes, Recorded, Closing, Planless, PlanIsCurrent, lifecycleVars,
     closeVars, failureVars, planVars, requestVars
<1>16. ASSUME NEW n \in Sessions, Compensate(n) PROVE PlanIsCurrent'
  BY <1>16 DEF Compensate, BeginClose, ClearPlans, ForgetRequest, EmptyPlan, IInv,
     Types, SessionTypes, PlanTypes, Plans, RequestTypes, Recorded, Closing,
     Planless, PlanIsCurrent, lifecycleVars, closeVars, failureVars, planVars,
     requestVars
<1>17. ASSUME NEW n \in Sessions, OpenFails(n) PROVE PlanIsCurrent'
  BY <1>17 DEF OpenFails, TryFailure, Freeze, Concerns, Idle, NoFailure, ClearPlans,
     ForgetRequest, EmptyPlan, IInv, Types, SessionTypes, PlanTypes, Plans,
     RequestTypes, Recorded, Closing, Planless, PlanIsCurrent, lifecycleVars,
     closeVars, failureVars, planVars, requestVars
<1>18. ASSUME CloseSucceeds PROVE PlanIsCurrent'
  BY <1>18 DEF CloseSucceeds, FinishClose, NoClose, IInv, Types, SessionTypes,
     PlanTypes, Plans, RequestTypes, Recorded, Closing, Planless, PlanIsCurrent,
     lifecycleVars, closeVars, failureVars, planVars, requestVars
<1>19. ASSUME CloseFails PROVE PlanIsCurrent'
  BY <1>19 DEF CloseFails, FinishClose, NoClose, IInv, Types, SessionTypes,
     PlanTypes, Plans, RequestTypes, Recorded, Closing, Planless, PlanIsCurrent,
     lifecycleVars, closeVars, failureVars, planVars, requestVars
<1>20. ASSUME DrainFailure PROVE PlanIsCurrent'
  BY <1>20 DEF DrainFailure, NoFailure, IInv, Types, SessionTypes, PlanTypes, Plans,
     RequestTypes, Recorded, Closing, Planless, PlanIsCurrent, lifecycleVars,
     closeVars, failureVars, planVars, requestVars
<1>21. ASSUME RetryFailure PROVE PlanIsCurrent'
  BY <1>21 DEF RetryFailure, TryFailure, Freeze, Concerns, Idle, NoFailure,
     ClearPlans, ForgetRequest, EmptyPlan, IInv, Types, SessionTypes, PlanTypes,
     Plans, RequestTypes, Recorded, Closing, Planless, PlanIsCurrent, lifecycleVars,
     closeVars, failureVars, planVars, requestVars
<1>22. ASSUME Tick PROVE PlanIsCurrent'
  BY <1>22 DEF Tick, IInv, Types, SessionTypes, PlanTypes, Plans, RequestTypes,
     Recorded, Closing, Planless, PlanIsCurrent, lifecycleVars, closeVars,
     failureVars, planVars, requestVars
<1>23. ASSUME RequestDispatch PROVE PlanIsCurrent'
  BY <1>23 DEF RequestDispatch, Active, IInv, Types, SessionTypes, PlanTypes, Plans,
     RequestTypes, Recorded, Closing, Planless, PlanIsCurrent, lifecycleVars,
     closeVars, failureVars, planVars, requestVars
<1>24. ASSUME Execute PROVE PlanIsCurrent'
  BY <1>24 DEF Execute, Active, IInv, Types, SessionTypes, PlanTypes, Plans,
     RequestTypes, Recorded, Closing, Planless, PlanIsCurrent, lifecycleVars,
     closeVars, failureVars, planVars, requestVars
<1>25. ASSUME Toggle PROVE PlanIsCurrent'
  <2>1. \A b \in BOOLEAN : plan'[b] = plan[b] \/ plan'[b] = EmptyPlan
    BY <1>25 DEF Toggle, IInv, Types, PlanTypes
  <2>2. session' = session /\ EmptyPlan.length = 0
    BY <1>25 DEF Toggle, EmptyPlan, lifecycleVars
  <2> QED BY <2>1, <2>2 DEF IInv, PlanIsCurrent
<1>26. ASSUME NEW r \in Requests, ResultArrives(r) PROVE PlanIsCurrent'
  BY <1>26 DEF ResultArrives, IInv, Types, SessionTypes, PlanTypes, Plans,
     RequestTypes, Recorded, Closing, Planless, PlanIsCurrent, lifecycleVars,
     closeVars, failureVars, planVars, requestVars
<1>27. ASSUME NEW r \in Requests, Accept(r) PROVE PlanIsCurrent'
  BY <1>27 DEF Accept, Current, Planned, Stop, Skipped, Least, Active,
     ForgetRequest, Forget, IInv, Types, SessionTypes, PlanTypes, Plans,
     RequestTypes, Recorded, Closing, Planless, PlanIsCurrent, lifecycleVars,
     closeVars, failureVars, planVars, requestVars
<1>28. ASSUME NEW r \in Requests, ResultNotStarted(r) PROVE PlanIsCurrent'
  BY <1>28 DEF ResultNotStarted, IInv, Types, SessionTypes, PlanTypes, Plans,
     RequestTypes, Recorded, Closing, Planless, PlanIsCurrent, lifecycleVars,
     closeVars, failureVars, planVars, requestVars
<1>29. ASSUME NEW r \in Requests, Retry(r) PROVE PlanIsCurrent'
  BY <1>29 DEF Retry, IInv, Types, SessionTypes, PlanTypes, Plans, RequestTypes,
     Recorded, Closing, Planless, PlanIsCurrent, lifecycleVars, closeVars,
     failureVars, planVars, requestVars
<1>30. ASSUME NEW r \in Requests, RetryDropped(r) PROVE PlanIsCurrent'
  BY <1>30 DEF RetryDropped, Forget, ForgetRequest, IInv, Types, SessionTypes,
     PlanTypes, Plans, RequestTypes, Recorded, Closing, Planless, PlanIsCurrent,
     lifecycleVars, closeVars, failureVars, planVars, requestVars
<1>31. ASSUME NEW r \in Requests, Failing(r), RequestFails(r) PROVE PlanIsCurrent'
  BY <1>31 DEF RequestFails, TryFailure, Freeze, Concerns, Idle, NoFailure,
     ClearPlans, ForgetRequest, EmptyPlan, Current, IInv, Types, SessionTypes,
     PlanTypes, Plans, RequestTypes, Recorded, Closing, Planless, PlanIsCurrent,
     lifecycleVars, closeVars, failureVars, planVars, requestVars
<1>32. ASSUME NEW r \in Requests, Drop(r) PROVE PlanIsCurrent'
  BY <1>32 DEF Drop, Forget, IInv, Types, SessionTypes, PlanTypes, Plans,
     RequestTypes, Recorded, Closing, Planless, PlanIsCurrent, lifecycleVars,
     closeVars, failureVars, planVars, requestVars
<1>33. ASSUME NEW n \in Sessions, Serve(n) PROVE PlanIsCurrent'
  BY <1>33 DEF Serve, IInv, Types, SessionTypes, PlanTypes, Plans, RequestTypes,
     Recorded, Closing, Planless, PlanIsCurrent, lifecycleVars, closeVars,
     failureVars, planVars, requestVars
<1>34. CASE UNCHANGED vars
  BY <1>34 DEF vars, IInv, Types, SessionTypes, PlanTypes, Plans, RequestTypes,
     Recorded, Closing, Planless, PlanIsCurrent, lifecycleVars, closeVars,
     failureVars, planVars, requestVars
<1> QED BY <1>1, <1>2, <1>3, <1>4, <1>5, <1>6, <1>7, <1>8, <1>9, <1>10, <1>11,
     <1>12, <1>13, <1>14, <1>15, <1>16, <1>17, <1>18, <1>19, <1>20, <1>21, <1>22,
     <1>23, <1>24, <1>25, <1>26, <1>27, <1>28, <1>29, <1>30, <1>31, <1>32, <1>33,
     <1>34 DEF Next, OperationStep, OpenWork, RequestWork

\* Every step keeps the alignment exact.
LEMMA SkipsNext ==
  ASSUME IInv, [Next]_vars
  PROVE  SkipsWhatWasExecuted'
<1>1. ASSUME NEW n \in Sessions, ReadinessOpens(n) PROVE SkipsWhatWasExecuted'
  BY <1>1 DEF ReadinessOpens, Open, ClearPlans, ForgetRequest, EmptyPlan, IInv,
     Types, OperationTypes, PlanTypes, Plans, Holder, Frozen, Freezing,
     SkipsWhatWasExecuted, Active, lifecycleVars, closeVars, failureVars, planVars,
     requestVars
<1>2. ASSUME NEW n \in Sessions, StartOpens(n) PROVE SkipsWhatWasExecuted'
  BY <1>2 DEF StartOpens, Open, Idle, ClearPlans, ForgetRequest, EmptyPlan, IInv,
     Types, OperationTypes, PlanTypes, Plans, Holder, Frozen, Freezing,
     SkipsWhatWasExecuted, Active, lifecycleVars, closeVars, failureVars, planVars,
     requestVars
<1>3. ASSUME Stops("stop") PROVE SkipsWhatWasExecuted'
  BY <1>3 DEF Stops, Freeze, Idle, ClearPlans, ForgetRequest, EmptyPlan, IInv,
     Types, OperationTypes, PlanTypes, Plans, Holder, Frozen, Freezing,
     SkipsWhatWasExecuted, Active, lifecycleVars, closeVars, failureVars, planVars,
     requestVars
<1>4. ASSUME Stops("restart") PROVE SkipsWhatWasExecuted'
  BY <1>4 DEF Stops, Freeze, Idle, ClearPlans, ForgetRequest, EmptyPlan, IInv,
     Types, OperationTypes, PlanTypes, Plans, Holder, Frozen, Freezing,
     SkipsWhatWasExecuted, Active, lifecycleVars, closeVars, failureVars, planVars,
     requestVars
<1>5. ASSUME Settle PROVE SkipsWhatWasExecuted'
  BY <1>5 DEF Settle, ClearPlans, ForgetRequest, EmptyPlan, IInv, Types,
     OperationTypes, PlanTypes, Plans, Holder, Frozen, Freezing,
     SkipsWhatWasExecuted, Active, lifecycleVars, closeVars, failureVars, planVars,
     requestVars
<1>6. ASSUME OperationCloses PROVE SkipsWhatWasExecuted'
  BY <1>6 DEF OperationCloses, BeginClose, ClearPlans, ForgetRequest, EmptyPlan,
     IInv, Types, OperationTypes, PlanTypes, Plans, Holder, Frozen, Freezing,
     SkipsWhatWasExecuted, Active, lifecycleVars, closeVars, failureVars, planVars,
     requestVars
<1>7. ASSUME OperationClosed PROVE SkipsWhatWasExecuted'
  BY <1>7 DEF OperationClosed, IInv, Types, OperationTypes, PlanTypes, Plans,
     Holder, Frozen, Freezing, SkipsWhatWasExecuted, Active, lifecycleVars,
     closeVars, failureVars, planVars, requestVars
<1>8. ASSUME OperationEnds PROVE SkipsWhatWasExecuted'
  BY <1>8 DEF OperationEnds, Clean, Idle, EmptyPlan, IInv, Types, OperationTypes,
     PlanTypes, Plans, Holder, Frozen, Freezing, SkipsWhatWasExecuted, Active,
     lifecycleVars, closeVars, failureVars, planVars, requestVars
<1>9. ASSUME NEW n \in Sessions, RestartOpens(n) PROVE SkipsWhatWasExecuted'
  BY <1>9 DEF RestartOpens, Clean, Open, ClearPlans, ForgetRequest, EmptyPlan, IInv,
     Types, OperationTypes, PlanTypes, Plans, Holder, Frozen, Freezing,
     SkipsWhatWasExecuted, Active, lifecycleVars, closeVars, failureVars, planVars,
     requestVars
<1>10. ASSUME OpenWaitEnds PROVE SkipsWhatWasExecuted'
  BY <1>10 DEF OpenWaitEnds, Idle, IInv, Types, OperationTypes, PlanTypes, Plans,
     Holder, Frozen, Freezing, SkipsWhatWasExecuted, Active, lifecycleVars,
     closeVars, failureVars, planVars, requestVars
<1>11. ASSUME OperationTimesOut PROVE SkipsWhatWasExecuted'
  BY <1>11 DEF OperationTimesOut, IInv, Types, OperationTypes, PlanTypes, Plans,
     Holder, Frozen, Freezing, SkipsWhatWasExecuted, Active, lifecycleVars,
     closeVars, failureVars, planVars, requestVars
<1>12. ASSUME NEW n \in Sessions, OpenSucceeds(n) PROVE SkipsWhatWasExecuted'
  BY <1>12 DEF OpenSucceeds, Tracks, IInv, Types, OperationTypes, PlanTypes, Plans,
     Holder, Frozen, Freezing, SkipsWhatWasExecuted, Active, lifecycleVars,
     closeVars, failureVars, planVars, requestVars
<1>13. ASSUME NEW n \in Sessions, OpenNotStarted(n) PROVE SkipsWhatWasExecuted'
  BY <1>13 DEF OpenNotStarted, Tracks, IInv, Types, OperationTypes, PlanTypes,
     Plans, Holder, Frozen, Freezing, SkipsWhatWasExecuted, Active, lifecycleVars,
     closeVars, failureVars, planVars, requestVars
<1>14. ASSUME NEW n \in Sessions, OpenUnknown(n) PROVE SkipsWhatWasExecuted'
  BY <1>14 DEF OpenUnknown, Tracks, IInv, Types, OperationTypes, PlanTypes, Plans,
     Holder, Frozen, Freezing, SkipsWhatWasExecuted, Active, lifecycleVars,
     closeVars, failureVars, planVars, requestVars
<1>15. ASSUME NEW n \in Sessions, CompleteOpen(n) PROVE SkipsWhatWasExecuted'
  BY <1>15 DEF CompleteOpen, IInv, Types, OperationTypes, PlanTypes, Plans, Holder,
     Frozen, Freezing, SkipsWhatWasExecuted, Active, lifecycleVars, closeVars,
     failureVars, planVars, requestVars
<1>16. ASSUME NEW n \in Sessions, Compensate(n) PROVE SkipsWhatWasExecuted'
  BY <1>16 DEF Compensate, BeginClose, ClearPlans, ForgetRequest, EmptyPlan, IInv,
     Types, OperationTypes, PlanTypes, Plans, Holder, Frozen, Freezing,
     SkipsWhatWasExecuted, Active, lifecycleVars, closeVars, failureVars, planVars,
     requestVars
<1>17. ASSUME NEW n \in Sessions, OpenFails(n) PROVE SkipsWhatWasExecuted'
  BY <1>17 DEF OpenFails, TryFailure, Freeze, Concerns, Idle, NoFailure, ClearPlans,
     ForgetRequest, EmptyPlan, IInv, Types, OperationTypes, PlanTypes, Plans,
     Holder, Frozen, Freezing, SkipsWhatWasExecuted, Active, lifecycleVars,
     closeVars, failureVars, planVars, requestVars
<1>18. ASSUME CloseSucceeds PROVE SkipsWhatWasExecuted'
  BY <1>18 DEF CloseSucceeds, FinishClose, NoClose, IInv, Types, OperationTypes,
     PlanTypes, Plans, Holder, Frozen, Freezing, SkipsWhatWasExecuted, Active,
     lifecycleVars, closeVars, failureVars, planVars, requestVars
<1>19. ASSUME CloseFails PROVE SkipsWhatWasExecuted'
  BY <1>19 DEF CloseFails, FinishClose, NoClose, IInv, Types, OperationTypes,
     PlanTypes, Plans, Holder, Frozen, Freezing, SkipsWhatWasExecuted, Active,
     lifecycleVars, closeVars, failureVars, planVars, requestVars
<1>20. ASSUME DrainFailure PROVE SkipsWhatWasExecuted'
  BY <1>20 DEF DrainFailure, NoFailure, IInv, Types, OperationTypes, PlanTypes,
     Plans, Holder, Frozen, Freezing, SkipsWhatWasExecuted, Active, lifecycleVars,
     closeVars, failureVars, planVars, requestVars
<1>21. ASSUME RetryFailure PROVE SkipsWhatWasExecuted'
  BY <1>21 DEF RetryFailure, TryFailure, Freeze, Concerns, Idle, NoFailure,
     ClearPlans, ForgetRequest, EmptyPlan, IInv, Types, OperationTypes, PlanTypes,
     Plans, Holder, Frozen, Freezing, SkipsWhatWasExecuted, Active, lifecycleVars,
     closeVars, failureVars, planVars, requestVars
<1>22. ASSUME Tick PROVE SkipsWhatWasExecuted'
  BY <1>22 DEF Tick, IInv, Types, OperationTypes, PlanTypes, Plans, Holder, Frozen,
     Freezing, SkipsWhatWasExecuted, Active, lifecycleVars, closeVars, failureVars,
     planVars, requestVars
<1>23. ASSUME RequestDispatch PROVE SkipsWhatWasExecuted'
  BY <1>23 DEF RequestDispatch, Active, IInv, Types, OperationTypes, PlanTypes,
     Plans, Holder, Frozen, Freezing, SkipsWhatWasExecuted, lifecycleVars,
     closeVars, failureVars, planVars, requestVars
<1>24. ASSUME Execute PROVE SkipsWhatWasExecuted'
  <2>1. UNCHANGED <<smoothing, inflight, startLength>>
    BY <1>24 DEF Execute
  <2>2. Active.length \in Nat /\ executed \in Nat /\ smoothing \in BOOLEAN
    BY ActiveType DEF IInv, Types, PlanTypes
  <2>3. plan' = [plan EXCEPT ![smoothing] = [Active EXCEPT !.length = Active.length - 1]]
    BY <1>24 DEF Execute, Active
  <2>4. plan'[smoothing] = [Active EXCEPT !.length = Active.length - 1]
    BY <2>2, <2>3 DEF IInv, Types, PlanTypes
  <2>5. Active'.length = Active.length - 1
    BY <2>1, <2>4, ActiveType DEF Active, IInv, Plans
  <2>6. inflight # None => executed' = executed + 1
    BY <1>24 DEF Execute
  <2> QED BY <2>1, <2>2, <2>5, <2>6 DEF IInv, SkipsWhatWasExecuted
<1>25. ASSUME Toggle PROVE SkipsWhatWasExecuted'
  <2>1. smoothing' = ~smoothing /\ inflight' = inflight /\ executed' = executed
    BY <1>25 DEF Toggle
  <2>2. (~smoothing) \in BOOLEAN
    OBVIOUS
  <2>3. smoothing \in BOOLEAN /\ executed \in Nat
    BY DEF IInv, Types, PlanTypes
  <2>4. plan'[~smoothing] = plan[~smoothing]
    BY <1>25, <2>2, <2>3 DEF Toggle, IInv, Types, PlanTypes
  <2>5. plan[~smoothing].length \in Nat /\ Active.length \in Nat
    <3>1. \A b \in BOOLEAN : plan[b].length \in Nat
      BY ActiveType DEF IInv
    <3>2. plan[~smoothing].length \in Nat
      BY <2>2, <3>1, Zenon
    <3> QED BY <3>2, ActiveType DEF IInv
  <2>6. Active' = plan[~smoothing]
    BY <2>1, <2>4 DEF Active
  <2>7. inflight # None => startLength' = plan[~smoothing].length + executed
    BY <1>25, <2>3, <2>5 DEF Toggle, IInv, SkipsWhatWasExecuted
  <2> QED BY <2>1, <2>6, <2>7 DEF SkipsWhatWasExecuted
<1>26. ASSUME NEW r \in Requests, ResultArrives(r) PROVE SkipsWhatWasExecuted'
  BY <1>26 DEF ResultArrives, IInv, Types, OperationTypes, PlanTypes, Plans, Holder,
     Frozen, Freezing, SkipsWhatWasExecuted, Active, lifecycleVars, closeVars,
     failureVars, planVars, requestVars
<1>27. ASSUME NEW r \in Requests, Accept(r) PROVE SkipsWhatWasExecuted'
  BY <1>27 DEF Accept, Current, Planned, Stop, Skipped, Least, Active,
     ForgetRequest, Forget, IInv, Types, OperationTypes, PlanTypes, Plans, Holder,
     Frozen, Freezing, SkipsWhatWasExecuted, lifecycleVars, closeVars, failureVars,
     planVars, requestVars
<1>28. ASSUME NEW r \in Requests, ResultNotStarted(r) PROVE SkipsWhatWasExecuted'
  BY <1>28 DEF ResultNotStarted, IInv, Types, OperationTypes, PlanTypes, Plans,
     Holder, Frozen, Freezing, SkipsWhatWasExecuted, Active, lifecycleVars,
     closeVars, failureVars, planVars, requestVars
<1>29. ASSUME NEW r \in Requests, Retry(r) PROVE SkipsWhatWasExecuted'
  BY <1>29 DEF Retry, IInv, Types, OperationTypes, PlanTypes, Plans, Holder, Frozen,
     Freezing, SkipsWhatWasExecuted, Active, lifecycleVars, closeVars, failureVars,
     planVars, requestVars
<1>30. ASSUME NEW r \in Requests, RetryDropped(r) PROVE SkipsWhatWasExecuted'
  BY <1>30 DEF RetryDropped, Forget, ForgetRequest, IInv, Types, OperationTypes,
     PlanTypes, Plans, Holder, Frozen, Freezing, SkipsWhatWasExecuted, Active,
     lifecycleVars, closeVars, failureVars, planVars, requestVars
<1>31. ASSUME NEW r \in Requests, Failing(r), RequestFails(r) PROVE SkipsWhatWasExecuted'
  BY <1>31 DEF RequestFails, TryFailure, Freeze, Concerns, Idle, NoFailure,
     ClearPlans, ForgetRequest, EmptyPlan, Current, IInv, Types, OperationTypes,
     PlanTypes, Plans, Holder, Frozen, Freezing, SkipsWhatWasExecuted, Active,
     lifecycleVars, closeVars, failureVars, planVars, requestVars
<1>32. ASSUME NEW r \in Requests, Drop(r) PROVE SkipsWhatWasExecuted'
  BY <1>32 DEF Drop, Forget, IInv, Types, OperationTypes, PlanTypes, Plans, Holder,
     Frozen, Freezing, SkipsWhatWasExecuted, Active, lifecycleVars, closeVars,
     failureVars, planVars, requestVars
<1>33. ASSUME NEW n \in Sessions, Serve(n) PROVE SkipsWhatWasExecuted'
  BY <1>33 DEF Serve, IInv, Types, OperationTypes, PlanTypes, Plans, Holder, Frozen,
     Freezing, SkipsWhatWasExecuted, Active, lifecycleVars, closeVars, failureVars,
     planVars, requestVars
<1>34. CASE UNCHANGED vars
  BY <1>34 DEF vars, IInv, Types, OperationTypes, PlanTypes, Plans, Holder, Frozen,
     Freezing, SkipsWhatWasExecuted, Active, lifecycleVars, closeVars, failureVars,
     planVars, requestVars
<1> QED BY <1>1, <1>2, <1>3, <1>4, <1>5, <1>6, <1>7, <1>8, <1>9, <1>10, <1>11,
     <1>12, <1>13, <1>14, <1>15, <1>16, <1>17, <1>18, <1>19, <1>20, <1>21, <1>22,
     <1>23, <1>24, <1>25, <1>26, <1>27, <1>28, <1>29, <1>30, <1>31, <1>32, <1>33,
     <1>34 DEF Next, OperationStep, OpenWork, RequestWork

-----------------------------------------------------------------------------
(* The inductive invariant: every state of the dispatcher keeps its types, *)
(* who holds the lifecycle lock, and what is still under way for the       *)
(* session.                                                                *)
THEOREM DispatcherInvariant == Spec => []IInv
<1>1. ASSUME IInv, [Next]_vars PROVE IInv'
  <2> USE <1>1
  <2>1. Types' /\ Holder'
    BY TypeNext, HolderNext DEF IInv
  <2>2. Frozen' /\ Recorded'
    BY FrozenNext, RecordedNext DEF IInv
  <2>3. Closing' /\ Ended'
    BY ClosingNext, EndedNext DEF IInv
  <2>4. Planless' /\ PlanIsCurrent' /\ SkipsWhatWasExecuted'
    BY PlanlessNext, CurrentNext, SkipsNext DEF IInv
  <2> QED BY <2>1, <2>2, <2>3, <2>4 DEF IInv
<1> QED BY <1>1, InitIInv, PTL DEF Spec

(* Every variable keeps its type; in particular the length remembered at   *)
(* the start of a request never becomes negative, whatever is toggled.     *)
THEOREM TypeCorrect == Spec => []TypeOK
<1>1. IInv => TypeOK
  BY TypeParts DEF IInv
<1> QED BY <1>1, DispatcherInvariant, PTL

(* No session that the scheduler has, or may come to have, is ever         *)
(* forgotten (_on_open_result, _close_session_sync,                        *)
(* _finish_close_session), for every number of sessions.                   *)
THEOREM NoSessionIsLost == Spec => []NoOrphanSession
<1>1. IInv => NoOrphanSession
  BY DEF IInv, Recorded, NoOrphanSession
<1> QED BY <1>1, DispatcherInvariant, PTL

(* After the freeze of a stop, a restart or a failure (_safe_stop) nothing *)
(* runs before the next Open.                                              *)
THEOREM FreezeHolds == Spec => []FrozenUntilOpened
<1>1. IInv => FrozenUntilOpened
  BY DEF IInv, Holder, Frozen, Freezing, FrozenUntilOpened
<1> QED BY <1>1, DispatcherInvariant, PTL

(* What is executed is the plan of the session on record (_enqueue_chunk). *)
THEOREM PlansAreCurrent == Spec => []PlanIsCurrent
  BY DispatcherInvariant, PTL DEF IInv

(* An accepted chunk is aligned with what was executed since its           *)
(* observation, across retries and toggles (_toggle_smoothing_cb).         *)
THEOREM AlignmentIsExact == Spec => []SkipsWhatWasExecuted
  BY DispatcherInvariant, PTL DEF IInv
=============================================================================

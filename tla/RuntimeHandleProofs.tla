------------------------- MODULE RuntimeHandleProofs -------------------------
(***************************************************************************)
(* What is proved of RuntimeHandle for every number of callers, request    *)
(* ids and components: the handle is an admission gate, requests execute   *)
(* on live components, components are released once and in reverse order,  *)
(* a closed runtime holds nothing, and no operation attempts an illegal    *)
(* transition.  The inductive invariant IInv below is checked by TLC in    *)
(* MCRuntimeControl.cfg through the properties it implies.                 *)
(***************************************************************************)
EXTENDS RuntimeHandle, TLAPS

Live(i) == resource[i] = "live"

\* load() still owns the components.
LoaderOwns == loader \in {"attempting", "rollback", "pending"}

Quiet == \A c \in Calls : call[c] = "idle"

\* Who holds _control_lock shows in the lifecycle, and behind the drain
\* nobody is left.
ControlPhase ==
  /\ admission => lifecycle = "READY"
  /\ control \in {"reset_drain", "resetting"} <=> lifecycle = "RESETTING"
  /\ control \in {"close_drain", "closing"} => lifecycle = "CLOSING"
  /\ control \in {"resetting", "closing"} => Quiet /\ ~loading

\* The stages of load(), and what it has loaded or rolled back so far.
LoaderPhase ==
  /\ loading <=> loader # "off"
  /\ LoaderOwns => lifecycle \in {"LOADING", "CLOSING"} /\ Quiet
  /\ lifecycle = "LOADING" => LoaderOwns
  /\ loader = "attempting" => released = {} /\ \A i \in Components : Live(i) <=> i <= attempted
  /\ loader \in {"rollback", "pending"} =>
       cursor <= attempted /\ \A i \in Components : i > cursor => ~Live(i)
  /\ lifecycle = "CREATED" =>
       /\ loader = "off" /\ attempted = 0 /\ released = {} /\ Quiet /\ control = "none"
       /\ \A i \in Components : resource[i] = "raw"

\* A runtime that may execute, or still executes, has all its components.
Backed ==
  lifecycle \in {"READY", "RESET_REQUIRED", "RESETTING"} \/ ~Quiet =>
    \A i \in Components : Live(i)

\* How far the release has come.
ReleasePhase ==
  /\ \A i \in Components : resource[i] = "released" <=> i \in released
  /\ ReleasedOnce
  /\ ReverseOwnershipOrder
  /\ \A i \in Components : Live(i) => i <= loaded \/ LoaderOwns
  /\ control = "closing" => cursor <= entries /\ \A i \in Components : i > cursor => ~Live(i)
  /\ ClosedHoldsNothing

IInv == TypeOK /\ ControlPhase /\ LoaderPhase /\ Backed /\ ReleasePhase

USE CallAssumption, ShapeAssumption

\* The handle starts with nothing acquired.
LEMMA InitIInv == Init => IInv
<1> SUFFICES ASSUME Init PROVE IInv
  OBVIOUS
<1>1. TypeOK
  <2>1. /\ resource \in [Components -> {"raw", "live", "released", "released_twice"}]
        /\ call \in [Calls -> {"idle", "admitted", "running", "uncertain", "ended"}]
        /\ contexts \in [Ids -> Calls \cup {NoCall}]
    BY DEF Init
  <2>2. /\ lifecycle \in LifecycleStates
        /\ admission \in BOOLEAN /\ loading \in BOOLEAN /\ unloaded \in BOOLEAN /\ doubt \in {"none", "open", "forgotten"}
    BY DEF Init, LifecycleStates
  <2>3. resettable \in BOOLEAN
    BY Zenon DEF Init, ShapeAssumption
  <2>4. Size \in Nat
    BY DEF ShapeAssumption
  <2> QED BY <2>1, <2>2, <2>3, <2>4 DEF Init, TypeOK
<1>2. ControlPhase /\ Backed
  BY DEF Init, ControlPhase, Backed, Quiet
<1>3. LoaderPhase
  BY DEF Init, LoaderPhase, LoaderOwns, Quiet, Live
<1>4. ReleasePhase
  BY DEF Init, ReleasePhase, LoaderOwns, Live, ReleasedOnce, ReverseOwnershipOrder,
         ClosedHoldsNothing
<1> QED BY <1>1, <1>2, <1>3, <1>4 DEF IInv

(* One turn of _release_entries leaves its variables well-typed.           *)
LEMMA ReleaseType ==
  ASSUME TypeOK, cursor > 0, Released \/ StillPending
  PROVE  /\ cursor' \in 0..Size /\ released' \subseteq Components
         /\ resource' \in [Components -> {"raw", "live", "released", "released_twice"}]
<1>1. cursor \in Components
  BY DEF TypeOK, Components
<1>2. CASE StillPending
  BY <1>2 DEF StillPending, TypeOK
<1>3. CASE Released
  <2>1. cursor' \in 0..Size /\ released' \subseteq Components
    BY <1>1, <1>3 DEF Released, TypeOK
  <2>2. resource' \in [Components -> {"raw", "live", "released", "released_twice"}]
    BY <1>1, <1>3 DEF Released, TypeOK
  <2> QED BY <2>1, <2>2
<1> QED BY <1>2, <1>3

\* load() and its rollback.
LEMMA LoadPreserves ==
  ASSUME IInv, LoadBegin \/ LoadStep
  PROVE  IInv'
<1> USE DEF IInv, TypeOK, ControlPhase, LoaderPhase, Backed, ReleasePhase, LoaderOwns, Live,
            ReleasedOnce, ReverseOwnershipOrder, ClosedHoldsNothing, LifecycleStates, Quiet, Components,
            ownerVars, controlVars, callVars, loadVars
<1>1. CASE LoadBegin
  BY <1>1 DEF LoadBegin
<1>2. CASE LoadEntry
  <2>1. attempted + 1 \in Components
    BY <1>2 DEF LoadEntry
  <2>2. \A i \in Components : resource'[i] = IF i = attempted + 1 THEN "live" ELSE resource[i]
    BY <1>2, <2>1 DEF LoadEntry
  <2>3. TypeOK'
    BY <1>2, <2>1 DEF LoadEntry
  <2> QED BY <1>2, <2>1, <2>2, <2>3 DEF LoadEntry
<1>3. CASE LoadInterrupted
  BY <1>3 DEF LoadInterrupted
<1>4. CASE LoadDone
  BY <1>4 DEF LoadDone
<1>5. CASE LoadReturns
  <2>1. TypeOK'
    BY <1>5 DEF LoadReturns
  <2>2. ControlPhase'
    BY <1>5 DEF LoadReturns
  <2>3. LoaderPhase'
    BY <1>5 DEF LoadReturns
  <2>4. Backed'
    BY <1>5 DEF LoadReturns
  <2>5. ReleasePhase'
    BY <1>5 DEF LoadReturns
  <2> QED BY <2>1, <2>2, <2>3, <2>4, <2>5
<1>6. CASE RollbackEntry
  <2>1. TypeOK'
    <3>1. /\ cursor' \in 0..Size /\ released' \subseteq Components
          /\ resource' \in [Components -> {"raw", "live", "released", "released_twice"}]
      BY <1>6, ReleaseType DEF RollbackEntry
    <3> QED BY <1>6, <3>1 DEF RollbackEntry
  <2>2. ControlPhase'
    BY <1>6 DEF RollbackEntry, Released, StillPending
  <2>3. LoaderPhase'
    BY <1>6 DEF RollbackEntry, Released, StillPending
  <2>4. Backed'
    BY <1>6 DEF RollbackEntry, Released, StillPending
  <2>5. ReleasePhase'
    BY <1>6 DEF RollbackEntry, Released, StillPending
  <2> QED BY <2>1, <2>2, <2>3, <2>4, <2>5
<1>7. CASE LoadFails
  <2>1. TypeOK'
    BY <1>7 DEF LoadFails
  <2>2. ControlPhase'
    BY <1>7 DEF LoadFails
  <2>3. LoaderPhase'
    BY <1>7 DEF LoadFails
  <2>4. Backed'
    BY <1>7 DEF LoadFails
  <2>5. ReleasePhase'
    BY <1>7 DEF LoadFails
  <2> QED BY <2>1, <2>2, <2>3, <2>4, <2>5
<1> QED BY <1>1, <1>2, <1>3, <1>4, <1>5, <1>6, <1>7 DEF LoadStep

\* One step of a request.
LEMMA CallPreserves ==
  ASSUME IInv, NEW c \in Calls, Register(c) \/ CallStep(c)
  PROVE  IInv'
<1> USE DEF IInv, TypeOK, ControlPhase, LoaderPhase, Backed, ReleasePhase, LoaderOwns, Live,
            ReleasedOnce, ReverseOwnershipOrder, ClosedHoldsNothing, LifecycleStates, Quiet, Components,
            ownerVars, controlVars, callVars, loadVars
<1>1. CASE Register(c)
  BY <1>1 DEF Register, Admits
<1>2. CASE Start(c)
  BY <1>2 DEF Start
<1>3. CASE Return(c)
  BY <1>3 DEF Return
<1>4. CASE ApplyUncertain(c)
  <2>1. TypeOK'
    BY <1>4 DEF ApplyUncertain, RecoveryState
  <2>2. ControlPhase'
    BY <1>4 DEF ApplyUncertain, RecoveryState
  <2>3. LoaderPhase'
    BY <1>4 DEF ApplyUncertain, RecoveryState
  <2>4. Backed'
    BY <1>4 DEF ApplyUncertain, RecoveryState
  <2>5. ReleasePhase'
    BY <1>4 DEF ApplyUncertain, RecoveryState
  <2> QED BY <2>1, <2>2, <2>3, <2>4, <2>5
<1>5. CASE Release(c)
  BY <1>5 DEF Release
<1> QED BY <1>1, <1>2, <1>3, <1>4, <1>5 DEF CallStep

\* reset, close and the cancellations.
LEMMA ControlPreserves ==
  ASSUME IInv,
         \/ MarkResetRequired \/ (\E x \in Ids : Cancel(x))
         \/ ResetBegin \/ ResetTimesOut \/ CloseBegin \/ CloseTimesOut \/ ControlStep
  PROVE  IInv'
<1> USE DEF IInv, TypeOK, ControlPhase, LoaderPhase, Backed, ReleasePhase, LoaderOwns, Live,
            ReleasedOnce, ReverseOwnershipOrder, ClosedHoldsNothing, LifecycleStates, Quiet, Components,
            ownerVars, controlVars, callVars, loadVars
<1>1. CASE MarkResetRequired
  <2>1. TypeOK'
    BY <1>1 DEF MarkResetRequired, RecoveryState
  <2>2. ControlPhase'
    BY <1>1 DEF MarkResetRequired, RecoveryState
  <2>3. LoaderPhase'
    BY <1>1 DEF MarkResetRequired, RecoveryState
  <2>4. Backed'
    BY <1>1 DEF MarkResetRequired, RecoveryState
  <2>5. ReleasePhase'
    BY <1>1 DEF MarkResetRequired, RecoveryState
  <2> QED BY <2>1, <2>2, <2>3, <2>4, <2>5
<1>2. ASSUME NEW x \in Ids, Cancel(x) PROVE IInv'
  BY <1>2 DEF Cancel
<1>3. CASE ResetBegin
  BY <1>3 DEF ResetBegin
<1>4. CASE ResetTimesOut
  BY <1>4 DEF ResetTimesOut
<1>5. CASE ResetDrained
  BY <1>5 DEF ResetDrained, Busy, Active
<1>6. CASE ResetDone \/ ResetFails
  <2>1. TypeOK'
    BY <1>6 DEF ResetDone, ResetFails
  <2>2. ControlPhase'
    BY <1>6 DEF ResetDone, ResetFails
  <2>3. LoaderPhase'
    BY <1>6 DEF ResetDone, ResetFails
  <2>4. Backed'
    BY <1>6 DEF ResetDone, ResetFails
  <2>5. ReleasePhase'
    BY <1>6 DEF ResetDone, ResetFails
  <2> QED BY <2>1, <2>2, <2>3, <2>4, <2>5
<1>7. CASE CloseBegin
  <2>1. TypeOK'
    BY <1>7 DEF CloseBegin
  <2>2. ControlPhase'
    BY <1>7 DEF CloseBegin
  <2>3. LoaderPhase'
    BY <1>7 DEF CloseBegin
  <2>4. Backed'
    BY <1>7 DEF CloseBegin
  <2>5. ReleasePhase'
    BY <1>7 DEF CloseBegin
  <2> QED BY <2>1, <2>2, <2>3, <2>4, <2>5
<1>8. CASE CloseTimesOut
  BY <1>8 DEF CloseTimesOut
<1>9. CASE CloseDrained
  BY <1>9 DEF CloseDrained, Busy, Active
<1>10. CASE CloseEntry
  <2>1. TypeOK'
    <3>1. /\ cursor' \in 0..Size /\ released' \subseteq Components
          /\ resource' \in [Components -> {"raw", "live", "released", "released_twice"}]
      BY <1>10, ReleaseType DEF CloseEntry
    <3> QED BY <1>10, <3>1 DEF CloseEntry
  <2>2. ControlPhase'
    BY <1>10 DEF CloseEntry, Released, StillPending
  <2>3. LoaderPhase'
    BY <1>10 DEF CloseEntry, Released, StillPending
  <2>4. Backed'
    BY <1>10 DEF CloseEntry, Released, StillPending
  <2>5. ReleasePhase'
    BY <1>10 DEF CloseEntry, Released, StillPending
  <2> QED BY <2>1, <2>2, <2>3, <2>4, <2>5
<1>11. CASE CloseDone
  <2>1. TypeOK'
    BY <1>11 DEF CloseDone
  <2>2. ControlPhase'
    BY <1>11 DEF CloseDone
  <2>3. LoaderPhase'
    BY <1>11 DEF CloseDone
  <2>4. Backed'
    BY <1>11 DEF CloseDone
  <2>5. ReleasePhase'
    BY <1>11 DEF CloseDone
  <2> QED BY <2>1, <2>2, <2>3, <2>4, <2>5
<1> QED BY <1>1, <1>2, <1>3, <1>4, <1>5, <1>6, <1>7, <1>8, <1>9, <1>10, <1>11 DEF ControlStep

\* Every step keeps the invariant.
LEMMA StepPreserves ==
  ASSUME IInv, [Next]_vars
  PROVE  IInv'
<1>1. CASE UNCHANGED vars
  BY <1>1 DEF vars, ownerVars, controlVars, callVars, loadVars, IInv, TypeOK, ControlPhase,
       LoaderPhase, Backed, ReleasePhase, LoaderOwns, Live, ReleasedOnce, ReverseOwnershipOrder,
       ClosedHoldsNothing, Quiet
<1>2. CASE Next
  BY <1>2, LoadPreserves, CallPreserves, ControlPreserves DEF Next
<1> QED BY <1>1, <1>2

(* The inductive invariant holds in every reachable state.                 *)
THEOREM RuntimeInvariant == Spec => []IInv
BY InitIInv, StepPreserves, PTL DEF Spec

(* The types of the handle; in particular no component list is run out of  *)
(* by a load, a rollback or a release, however many components there are.  *)
THEOREM TypeCorrect == Spec => []TypeOK
<1>1. IInv => TypeOK
  BY DEF IInv
<1> QED BY <1>1, RuntimeInvariant, PTL

(* Requests execute on live components only, whatever load, reset, close   *)
(* and their failures do (execute, _release_entries).                      *)
THEOREM OnLiveComponents == Spec => []RunsOnLiveComponents
<1>1. IInv => RunsOnLiveComponents
  BY DEF IInv, TypeOK, Backed, RunsOnLiveComponents, Quiet, Live
<1> QED BY <1>1, RuntimeInvariant, PTL

(* Components are released at most once, in reverse ownership order, and   *)
(* none is left when close() reports CLOSED (_release_entries).            *)
THEOREM ReleaseIsOrderly ==
  Spec => [](ReleasedOnce /\ ReverseOwnershipOrder /\ ClosedHoldsNothing)
<1>1. IInv => ReleasedOnce /\ ReverseOwnershipOrder /\ ClosedHoldsNothing
  BY DEF IInv, ReleasePhase
<1> QED BY <1>1, RuntimeInvariant, PTL

(* A handle that is CLOSED holds no live component, whichever of load,     *)
(* its rollback and close has let go of it (_release_entries).             *)
THEOREM ClosedIsEmpty == Spec => []ClosedHoldsNothing
  BY ReleaseIsOrderly, PTL

(* No operation attempts a transition that _transition_locked refuses.     *)
THEOREM TransitionsAreLegal == Spec => OnlyLegalTransitions
<1>1. ASSUME IInv, [Next]_vars
      PROVE  [lifecycle' # lifecycle => lifecycle' \in LegalTransitions[lifecycle]]_vars
  <2>1. CASE lifecycle' = lifecycle
    BY <2>1
  <2>2. CASE lifecycle' # lifecycle
    <3> USE <1>1, <2>2 DEF IInv, ControlPhase, LoaderPhase, LoaderOwns, LegalTransitions
    <3>1. CASE LoadBegin \/ LoadStep
      BY <3>1 DEF LoadBegin, LoadStep, LoadEntry, LoadInterrupted, LoadDone, LoadReturns,
                  RollbackEntry, LoadFails
    <3>2. ASSUME NEW c \in Calls, Register(c) \/ CallStep(c)
          PROVE  lifecycle' \in LegalTransitions[lifecycle]
      BY <3>2 DEF Register, CallStep, Start, Return, ApplyUncertain, RecoveryState, Release
    <3>3. CASE MarkResetRequired \/ (\E x \in Ids : Cancel(x))
      BY <3>3 DEF MarkResetRequired, RecoveryState, Cancel
    <3>4. CASE ResetBegin \/ ResetTimesOut \/ CloseTimesOut
      BY <3>4 DEF ResetBegin, ResetTimesOut, CloseTimesOut, TypeOK
    <3>5. CASE CloseBegin
      BY <3>5 DEF CloseBegin, TypeOK, LifecycleStates
    <3>6. CASE ControlStep
      BY <3>6 DEF ControlStep, ResetDrained, ResetDone, ResetFails, CloseDrained, CloseEntry, CloseDone
    <3> QED BY <3>1, <3>2, <3>3, <3>4, <3>5, <3>6 DEF Next, vars
  <2> QED BY <2>1, <2>2
<1> QED BY <1>1, RuntimeInvariant, PTL DEF Spec, OnlyLegalTransitions

(* The handle implements the abstract admission gate: only a READY runtime *)
(* accepts requests, and reset and close act behind a shut gate with no    *)
(* request inside.                                                         *)
THEOREM ImplementsGate == Spec => IsAdmissionGate
<1>1. Init => Gate!GateInit
  BY DEF Init, Gate!GateInit, Active
<1>2. ASSUME IInv, [Next]_vars
      PROVE  [Gate!GateNext]_Gate!gateVars
  <2> USE <1>2 DEF IInv, TypeOK, ControlPhase, LoaderPhase, LoaderOwns, Gate!gateVars,
            ownerVars, controlVars, callVars, loadVars, Active, Quiet
  <2>1. CASE LoadBegin \/ LoadEntry \/ LoadInterrupted \/ LoadReturns \/ RollbackEntry \/ LoadFails
    BY <2>1 DEF LoadBegin, LoadEntry, LoadInterrupted, LoadReturns, RollbackEntry, LoadFails
  <2>2. CASE LoadDone
    BY <2>2 DEF LoadDone, Gate!GateNext, Gate!Reopen
  <2>3. ASSUME NEW c \in Calls, Register(c) PROVE Gate!GateNext
    BY <2>3 DEF Register, Admits, Gate!GateNext, Gate!Enter
  <2>4. ASSUME NEW c \in Calls, Start(c) \/ Return(c) PROVE UNCHANGED Gate!gateVars
    BY <2>4 DEF Start, Return
  <2>5. ASSUME NEW c \in Calls, Release(c) PROVE Gate!GateNext
    BY <2>5 DEF Release, Gate!GateNext, Gate!Leave
  <2>6. ASSUME NEW c \in Calls, ApplyUncertain(c) PROVE [Gate!GateNext]_Gate!gateVars
    BY <2>6 DEF ApplyUncertain, RecoveryState, Gate!GateNext, Gate!Shut
  <2>7. CASE MarkResetRequired \/ ResetBegin \/ CloseBegin
    <3>1. Active' = Active /\ ~(lifecycle' = "READY" /\ admission')
      BY <2>7 DEF MarkResetRequired, RecoveryState, ResetBegin, CloseBegin
    <3>2. (control' \in {"resetting", "closing"}) <=> (control \in {"resetting", "closing"})
      BY <2>7 DEF MarkResetRequired, RecoveryState, ResetBegin, CloseBegin
    <3> QED BY <3>1, <3>2 DEF Gate!GateNext, Gate!Shut
  <2>8. CASE ResetTimesOut
    BY <2>8 DEF ResetTimesOut, Gate!GateNext, Gate!Reopen
  <2>9. CASE ResetDrained \/ CloseDrained
    BY <2>9 DEF ResetDrained, CloseDrained, Busy, Gate!GateNext, Gate!TakeControl
  <2>10. CASE ResetDone \/ ResetFails \/ CloseDone
    BY <2>10 DEF ResetDone, ResetFails, CloseDone, Gate!GateNext, Gate!EndControl
  <2>11. CASE CloseEntry
    BY <2>11 DEF CloseEntry, Gate!GateNext, Gate!EndControl
  <2>12. CASE CloseTimesOut \/ (\E x \in Ids : Cancel(x)) \/ UNCHANGED vars
    BY <2>12 DEF CloseTimesOut, Cancel, vars
  <2> QED
    BY <2>1, <2>2, <2>3, <2>4, <2>5, <2>6, <2>7, <2>8, <2>9, <2>10, <2>11, <2>12
       DEF Next, LoadStep, CallStep, ControlStep
<1> QED BY <1>1, <1>2, RuntimeInvariant, PTL DEF Spec, IsAdmissionGate, Gate!GateSpec

(* While a reset or the release of close() is under way, nobody is inside  *)
(* and nobody can enter (reset, close, _register_execution).               *)
THEOREM ControlIsExclusive == Spec => []Gate!Exclusion
<1>1. IInv => Gate!Exclusion
  BY DEF IInv, TypeOK, ControlPhase, Quiet, Active, Gate!Exclusion
<1> QED BY <1>1, RuntimeInvariant, PTL

(* An uncertain outcome is fenced until a reset has completed, unless a    *)
(* reset that waits for its drain runs into its deadline                   *)
(* (_apply_uncertain_request_failure, reset).                              *)
THEOREM UncertaintyFenced == Spec => []UncertainIsFenced
<1> DEFINE J == lifecycle \in {"CREATED", "LOADING", "READY"} => doubt # "open"
<1>1. Init => J
  BY DEF Init
<1>2. ASSUME IInv, J, [Next]_vars PROVE J'
  <2> USE <1>2 DEF IInv, ControlPhase, LoaderPhase, LoaderOwns, Quiet, TypeOK
  <2>1. ASSUME NEW c \in Calls, ApplyUncertain(c) PROVE J'
    BY <2>1 DEF ApplyUncertain, RecoveryState
  <2>2. CASE LoadBegin \/ LoadStep
    BY <2>2 DEF LoadBegin, LoadStep, LoadEntry, LoadInterrupted, LoadDone, LoadReturns, RollbackEntry, LoadFails
  <2>3. ASSUME NEW c \in Calls, Register(c) \/ Start(c) \/ Return(c) \/ Release(c) PROVE J'
    BY <2>3 DEF Register, Start, Return, Release
  <2>4. CASE ControlStep
    BY <2>4 DEF ControlStep, ResetDrained, ResetDone, ResetFails, CloseDrained, CloseEntry, CloseDone
  <2>5. CASE MarkResetRequired \/ ResetBegin \/ CloseBegin
    BY <2>5 DEF MarkResetRequired, RecoveryState, ResetBegin, CloseBegin
  <2>6. CASE ResetTimesOut \/ CloseTimesOut \/ (\E x \in Ids : Cancel(x)) \/ UNCHANGED vars
    BY <2>6 DEF ResetTimesOut, CloseTimesOut, Cancel, vars
  <2> QED BY <2>1, <2>2, <2>3, <2>4, <2>5, <2>6 DEF Next, CallStep
<1>3. J => UncertainIsFenced
  BY DEF UncertainIsFenced
<1> QED BY <1>1, <1>2, <1>3, RuntimeInvariant, PTL DEF Spec
=============================================================================

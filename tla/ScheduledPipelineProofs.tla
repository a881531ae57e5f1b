----------------------- MODULE ScheduledPipelineProofs -----------------------
(***************************************************************************)
(* What is proved of ScheduledPipeline for every number of bindings,       *)
(* dispatches, Closes and execution slots: no slot is lost, a Close that   *)
(* holds all of them is alone, and what the pipeline publishes is what     *)
(* FencedPublication allows.                                               *)
(***************************************************************************)
EXTENDS ScheduledPipeline, FiniteSetTheorems, TLAPS

\* The goal holds an execution slot.
Running(d) ==
  dispatch[d] \in {"holding", "inferring", "inferred", "uncertain", "fresh", "leaving"}

\* The goal is counted by the controller.
Admitted(d) == dispatch[d] = "admitted" \/ Running(d)

\* A barrier state is entered with the session-control slot.
BarrierHoldsControl == state \in {"RESETTING", "CLOSING"} => control = 1

TypeInv == TypeOK /\ BarrierHoldsControl

\* A slot is held for exactly as long as the stages of the goals say.
HoldersHold ==
  /\ \A d \in Dispatches : held[d] # {} <=> Running(d)
  /\ \A c \in Closes : close[c] \in {"reset", "finished", "recorded"} => permits[c] = Slots

SlotInv == SlotsAreConserved /\ HoldersHold

\* A dispatch is sent to an open binding and settles once.
GoalStages ==
  /\ \A d \in Dispatches :
       dispatch[d] # "unsent" => target[d] \in Bindings /\ open[target[d]] = "opened"
  /\ \A d \in Dispatches : dispatch[d] \notin {"leaving", "uncertain", "done"} => answer[d] = "none"
  /\ \A d \in Dispatches : dispatch[d] = "uncertain" => answer[d] = "unknown"

\* The binding the controller serves, or has drained, got past begin_open.
Begun(b) == open[b] \in {"begun", "bound", "reset", "broken", "opened", "failed"}

ServedBegan ==
  /\ product # NoBinding => Begun(product)
  /\ \A b \in drained : Begun(b)

\* What the state of the controller says about its fence.
StateOfFence ==
  /\ state = "IDLE" => product = NoBinding
  /\ state = "FAILED" => quarantine
  /\ state = "ACTIVE" => productGen = fence

\* An admitted dispatch is behind the fence, or nothing has happened to
\* the session it was admitted to.
AdmittedBehindFence ==
  \A d \in Dispatches : Admitted(d) =>
    /\ generation[target[d]] <= fence
    /\ generation[target[d]] = fence => state \in {"ACTIVE", "FAILED"} /\ product = target[d]

\* A completion found fresh stays fresh until it is published.
FreshIsServed == \A d \in Dispatches : dispatch[d] = "fresh" => product = target[d]

FenceInv == GoalStages /\ ServedBegan /\ StateOfFence /\ AdmittedBehindFence /\ FreshIsServed

IInv == TypeInv /\ SlotInv /\ FenceInv

USE BindingAssumption, SlotAssumption, FiniteAssumption

\* The number of execution slots is a number.
LEMMA CapacityIsNatural == ActionCapacity \in Nat
BY FS_CardinalityType DEF ActionCapacity

\* Every step keeps the types.
LEMMA TypeStep == TypeInv /\ [Next]_vars => TypeInv'
<1> SUFFICES ASSUME TypeInv, [Next]_vars PROVE TypeInv'
  OBVIOUS
<1> USE CapacityIsNatural DEF TypeInv, BarrierHoldsControl, TypeOK, OpenStages, DispatchStages,
      CloseStages, ControlCapacity, controllerVars, nodeVars, openVars, dispatchVars, closeVars
<1>1. ASSUME NEW b \in Bindings, SendOpen(b) PROVE TypeInv'
  BY <1>1 DEF SendOpen
<1>2. ASSUME NEW d \in Dispatches, SendDispatch(d) PROVE TypeInv'
  BY <1>2 DEF SendDispatch
<1>3. ASSUME NEW c \in Closes, NEW b \in Bindings, NEW w \in BOOLEAN, SendClose(c, b, w) PROVE TypeInv'
  BY <1>3 DEF SendClose
<1>4. ASSUME LearnNotOpened PROVE TypeInv'
  BY <1>4 DEF LearnNotOpened
<1>5. ASSUME NEW c \in Closes, LearnClosed(c) PROVE TypeInv'
  BY <1>5 DEF LearnClosed
<1>6. ASSUME NEW b \in Bindings, CheckOpen(b) PROVE TypeInv'
  BY <1>6 DEF CheckOpen, OpenReturns
<1>7. ASSUME NEW b \in Bindings, BeginOpen(b) PROVE TypeInv'
  BY <1>7 DEF BeginOpen, OpenReturns, Openable, NextGeneration, ControlCapacity
<1>8. ASSUME NEW b \in Bindings, Bind(b) PROVE TypeInv'
  BY <1>8 DEF Bind, OpenReturns
<1>9. ASSUME NEW b \in Bindings, ResetForOpen(b) PROVE TypeInv'
  BY <1>9 DEF ResetForOpen, OpenReturns
<1>10. ASSUME NEW b \in Bindings, FinishOpen(b) PROVE TypeInv'
  <2>1. CASE state = "RESETTING" /\ open[b] = "reset"
    <3>1. /\ control = 1 /\ control' = 0 /\ productGen' = fence /\ state' = "ACTIVE"
          /\ quarantine' = FALSE /\ open' = [open EXCEPT ![b] = "opened"]
      BY <1>10, <2>1 DEF FinishOpen, OpenReturns
    <3>2. UNCHANGED <<product, fence, action, nodeVars, generation, dispatchVars, closeVars, owned, drained>>
      BY <1>10 DEF FinishOpen
    <3>3. quarantine' \in BOOLEAN
      BY <3>1, Zenon
    <3> QED BY <3>1, <3>2, <3>3
  <2>2. CASE state = "RESETTING" /\ open[b] = "broken"
    <3>1. control = 1 /\ control' = 0 /\ state' = "FAILED"
      BY <1>10, <2>2 DEF FinishOpen
    <3> QED BY <1>10, <2>2, <3>1 DEF FinishOpen, OpenReturns
  <2>3. CASE state # "RESETTING"
    BY <1>10, <2>3 DEF FinishOpen, OpenReturns
  <2> QED BY <1>10, <2>1, <2>2, <2>3 DEF FinishOpen
<1>11. ASSUME NEW d \in Dispatches, CheckDispatch(d) PROVE TypeInv'
  BY <1>11 DEF CheckDispatch, DispatchGoes, Settle
<1>12. ASSUME NEW d \in Dispatches, Admit(d) PROVE TypeInv'
  BY <1>12 DEF Admit, DispatchGoes, Settle, Admissible
<1>13. ASSUME NEW d \in Dispatches, TakeSlot(d) PROVE TypeInv'
  BY <1>13 DEF TakeSlot, DispatchGoes, Settle, ReleaseAction
<1>14. ASSUME NEW d \in Dispatches, Infer(d) PROVE TypeInv'
  BY <1>14 DEF Infer, DispatchGoes, Settle
<1>15. ASSUME NEW d \in Dispatches, InferEnds(d) PROVE TypeInv'
  BY <1>15 DEF InferEnds, DispatchGoes, Settle
<1>16. ASSUME NEW d \in Dispatches, MarkFailed(d) PROVE TypeInv'
  BY <1>16 DEF MarkFailed, DispatchGoes
<1>17. ASSUME NEW d \in Dispatches, Complete(d) PROVE TypeInv'
  BY <1>17 DEF Complete, DispatchGoes, Settle
<1>18. ASSUME NEW d \in Dispatches, PublishResult(d) PROVE TypeInv'
  BY <1>18 DEF PublishResult, DispatchGoes, Settle
<1>19. ASSUME NEW d \in Dispatches, Leave(d) PROVE TypeInv'
  BY <1>19 DEF Leave, DispatchGoes, ReleaseAction
<1>20. ASSUME NEW c \in Closes, Replay(c) PROVE TypeInv'
  BY <1>20 DEF Replay, CloseGoes, Reply
<1>21. ASSUME NEW c \in Closes, CheckClose(c) PROVE TypeInv'
  BY <1>21 DEF CheckClose, CloseGoes, Reply
<1>22. ASSUME NEW c \in Closes, SeeSession(c) PROVE TypeInv'
  BY <1>22 DEF SeeSession, CloseGoes, Reply
<1>23. ASSUME NEW c \in Closes, BeginClose(c) PROVE TypeInv'
  BY <1>23 DEF BeginClose, CloseGoes, Closable, NextGeneration, ControlCapacity
<1>24. ASSUME NEW c \in Closes, RefuseClose(c) PROVE TypeInv'
  <2>1. \E result \in {"not_needed", "not_started"} : Reply(c, result)
    BY <1>24 DEF RefuseClose
  <2> QED BY <1>24, <2>1 DEF RefuseClose, Reply, CloseGoes
<1>25. ASSUME NEW c \in Closes, AcquirePermit(c) PROVE TypeInv'
  BY <1>25 DEF AcquirePermit
<1>26. ASSUME NEW c \in Closes, DrainExpires(c) PROVE TypeInv'
  BY <1>26 DEF DrainExpires, CloseGoes
<1>27. ASSUME NEW c \in Closes, ResetForClose(c) PROVE TypeInv'
  BY <1>27 DEF ResetForClose, CloseGoes
<1>28. ASSUME NEW c \in Closes, FinishClose(c) PROVE TypeInv'
  <2>1. CASE state = "CLOSING"
    <3>1. /\ control = 1 /\ control' = 0 /\ productGen' = fence /\ state' = "IDLE"
          /\ quarantine' = FALSE /\ product' = NoBinding /\ drained' \subseteq Bindings
          /\ close' = [close EXCEPT ![c] = "finished"]
      BY <1>28, <2>1 DEF FinishClose, CloseGoes
    <3>2. UNCHANGED <<fence, action, nodeVars, openVars, dispatchVars, subject, wildcard, permits, reply, owned>>
      BY <1>28 DEF FinishClose
    <3>3. quarantine' \in BOOLEAN
      BY <3>1, Zenon
    <3> QED BY <3>1, <3>2, <3>3
  <2>2. CASE state # "CLOSING"
    BY <1>28, <2>2 DEF FinishClose, CloseGoes
  <2> QED BY <2>1, <2>2
<1>29. ASSUME NEW c \in Closes, FailClose(c) PROVE TypeInv'
  <2>1. CASE state = "CLOSING"
    <3>1. control = 1 /\ control' = 0 /\ state' = "FAILED"
      BY <1>29, <2>1 DEF FailClose
    <3> QED BY <1>29, <2>1, <3>1 DEF FailClose, CloseGoes
  <2>2. CASE state # "CLOSING"
    BY <1>29, <2>2 DEF FailClose, CloseGoes
  <2> QED BY <2>1, <2>2
<1>30. ASSUME NEW c \in Closes, RecordClosed(c) PROVE TypeInv'
  BY <1>30 DEF RecordClosed, CloseGoes
<1>31. ASSUME NEW c \in Closes, Unbind(c) PROVE TypeInv'
  BY <1>31 DEF Unbind, CloseGoes
<1>32. ASSUME NEW c \in Closes, EndClose(c) PROVE TypeInv'
  BY <1>32 DEF EndClose, CloseGoes
<1>33. CASE UNCHANGED vars
  BY <1>33 DEF vars
<1> HIDE DEF TypeInv, BarrierHoldsControl, TypeOK, OpenStages, DispatchStages,
      CloseStages, ControlCapacity, controllerVars, nodeVars, openVars, dispatchVars, closeVars
<1> QED BY <1>1, <1>2, <1>3, <1>4, <1>5, <1>6, <1>7, <1>8, <1>9, <1>10, <1>11, <1>12, <1>13,
     <1>14, <1>15, <1>16, <1>17, <1>18, <1>19, <1>20, <1>21, <1>22, <1>23, <1>24, <1>25,
     <1>26, <1>27, <1>28, <1>29, <1>30, <1>31, <1>32, <1>33 DEF Next, GlobalStep, OpenStep,
     DispatchStep, CloseStep, CloseWork

\* A slot that is taken is given back on every path.
LEMMA SlotStep == TypeInv /\ SlotInv /\ [Next]_vars => SlotInv'
<1> SUFFICES ASSUME TypeInv, SlotInv, [Next]_vars PROVE SlotInv'
  OBVIOUS
<1> USE DEF TypeInv, TypeOK, SlotInv, SlotsAreConserved, HoldersHold, Running,
      controllerVars, nodeVars, openVars, dispatchVars, closeVars
<1>1. ASSUME NEW b \in Bindings, SendOpen(b) PROVE SlotInv'
  BY <1>1 DEF SendOpen
<1>2. ASSUME NEW d \in Dispatches, SendDispatch(d) PROVE SlotInv'
  BY <1>2 DEF SendDispatch
<1>3. ASSUME NEW c \in Closes, NEW b \in Bindings, NEW w \in BOOLEAN, SendClose(c, b, w) PROVE SlotInv'
  BY <1>3 DEF SendClose
<1>4. ASSUME LearnNotOpened PROVE SlotInv'
  BY <1>4 DEF LearnNotOpened
<1>5. ASSUME NEW c \in Closes, LearnClosed(c) PROVE SlotInv'
  BY <1>5 DEF LearnClosed
<1>6. ASSUME NEW b \in Bindings, CheckOpen(b) PROVE SlotInv'
  BY <1>6 DEF CheckOpen, OpenReturns
<1>7. ASSUME NEW b \in Bindings, BeginOpen(b) PROVE SlotInv'
  BY <1>7 DEF BeginOpen, OpenReturns, Openable, NextGeneration, ControlCapacity
<1>8. ASSUME NEW b \in Bindings, Bind(b) PROVE SlotInv'
  BY <1>8 DEF Bind, OpenReturns
<1>9. ASSUME NEW b \in Bindings, ResetForOpen(b) PROVE SlotInv'
  BY <1>9 DEF ResetForOpen, OpenReturns
<1>10. ASSUME NEW b \in Bindings, FinishOpen(b) PROVE SlotInv'
  BY <1>10 DEF FinishOpen, OpenReturns
<1>11. ASSUME NEW d \in Dispatches, CheckDispatch(d) PROVE SlotInv'
  BY <1>11 DEF CheckDispatch, DispatchGoes, Settle
<1>12. ASSUME NEW d \in Dispatches, Admit(d) PROVE SlotInv'
  <2>1. dispatch[d] = "checked" /\ UNCHANGED <<free, held, permits, close>>
    BY <1>12 DEF Admit
  <2>2. dispatch' = [dispatch EXCEPT ![d] = "admitted"] \/ dispatch' = [dispatch EXCEPT ![d] = "done"]
    BY <1>12 DEF Admit, DispatchGoes, Settle
  <2> QED BY <2>1, <2>2
<1>13. ASSUME NEW d \in Dispatches, TakeSlot(d) PROVE SlotInv'
  <2>1. CASE dispatch' = [dispatch EXCEPT ![d] = "done"] /\ UNCHANGED <<free, held>>
    <3>1. held[d] = {} /\ UNCHANGED <<permits, close>>
      BY <1>13 DEF TakeSlot
    <3> QED BY <2>1, <3>1
  <2>2. CASE dispatch' = [dispatch EXCEPT ![d] = "holding"]
    <3>1. PICK permit \in free : free' = free \ {permit} /\ held' = [held EXCEPT ![d] = {permit}]
      BY <1>13, <2>2 DEF TakeSlot, DispatchGoes, Settle
    <3>2. held[d] = {} /\ UNCHANGED <<permits, close>>
      BY <1>13 DEF TakeSlot
    <3>3. SlotsAreConserved'
      BY <3>1, <3>2
    <3>4. HoldersHold'
      BY <2>2, <3>1, <3>2
    <3> QED BY <3>3, <3>4
  <2> QED BY <1>13, <2>1, <2>2 DEF TakeSlot, DispatchGoes, Settle
<1>14. ASSUME NEW d \in Dispatches, Infer(d) PROVE SlotInv'
  BY <1>14 DEF Infer, DispatchGoes, Settle
<1>15. ASSUME NEW d \in Dispatches, InferEnds(d) PROVE SlotInv'
  BY <1>15 DEF InferEnds, DispatchGoes, Settle
<1>16. ASSUME NEW d \in Dispatches, MarkFailed(d) PROVE SlotInv'
  <2>1. dispatch[d] = "uncertain" /\ UNCHANGED <<free, held, permits, close>>
    BY <1>16 DEF MarkFailed
  <2>2. dispatch' = [dispatch EXCEPT ![d] = "leaving"]
    BY <1>16 DEF MarkFailed, DispatchGoes
  <2> QED BY <2>1, <2>2
<1>17. ASSUME NEW d \in Dispatches, Complete(d) PROVE SlotInv'
  <2>1. dispatch[d] = "inferred" /\ UNCHANGED <<free, held, permits, close>>
    BY <1>17 DEF Complete
  <2>2. dispatch' = [dispatch EXCEPT ![d] = "leaving"] \/ dispatch' = [dispatch EXCEPT ![d] = "fresh"]
    BY <1>17 DEF Complete, DispatchGoes, Settle
  <2>3. \A x \in Dispatches : Running(x)' <=> Running(x)
    BY <2>1, <2>2
  <2> QED BY <2>1, <2>3
<1>18. ASSUME NEW d \in Dispatches, PublishResult(d) PROVE SlotInv'
  BY <1>18 DEF PublishResult, DispatchGoes, Settle
<1>19. ASSUME NEW d \in Dispatches, Leave(d) PROVE SlotInv'
  BY <1>19 DEF Leave, DispatchGoes, ReleaseAction
<1>20. ASSUME NEW c \in Closes, Replay(c) PROVE SlotInv'
  BY <1>20 DEF Replay, CloseGoes, Reply
<1>21. ASSUME NEW c \in Closes, CheckClose(c) PROVE SlotInv'
  BY <1>21 DEF CheckClose, CloseGoes, Reply
<1>22. ASSUME NEW c \in Closes, SeeSession(c) PROVE SlotInv'
  BY <1>22 DEF SeeSession, CloseGoes, Reply
<1>23. ASSUME NEW c \in Closes, BeginClose(c) PROVE SlotInv'
  BY <1>23 DEF BeginClose, CloseGoes, Closable, NextGeneration, ControlCapacity
<1>24. ASSUME NEW c \in Closes, RefuseClose(c) PROVE SlotInv'
  <2>1. \A x \in Closes : close'[x] = IF x = c THEN "done" ELSE close[x]
    BY <1>24 DEF RefuseClose, Reply, CloseGoes
  <2>2. UNCHANGED <<free, held, permits, dispatch>>
    BY <1>24 DEF RefuseClose
  <2> QED BY <2>1, <2>2
<1>25. ASSUME NEW c \in Closes, AcquirePermit(c) PROVE SlotInv'
  <2>1. PICK permit \in free :
          free' = free \ {permit} /\ permits' = [permits EXCEPT ![c] = @ \cup {permit}]
    BY <1>25 DEF AcquirePermit
  <2>2. UNCHANGED <<held, dispatch, close>> /\ close[c] = "draining"
    BY <1>25 DEF AcquirePermit
  <2>3. SlotsAreConserved'
    BY <2>1, <2>2
  <2>4. HoldersHold'
    BY <2>1, <2>2
  <2> QED BY <2>3, <2>4
<1>26. ASSUME NEW c \in Closes, DrainExpires(c) PROVE SlotInv'
  <2>1. /\ free' = free \cup permits[c] /\ permits' = [permits EXCEPT ![c] = {}]
        /\ close' = [close EXCEPT ![c] = "broken"] /\ UNCHANGED <<held, dispatch>>
    BY <1>26 DEF DrainExpires, CloseGoes
  <2>2. SlotsAreConserved'
    BY <2>1
  <2>3. HoldersHold'
    BY <2>1
  <2> QED BY <2>2, <2>3
<1>27. ASSUME NEW c \in Closes, ResetForClose(c) PROVE SlotInv'
  BY <1>27 DEF ResetForClose, CloseGoes
<1>28. ASSUME NEW c \in Closes, FinishClose(c) PROVE SlotInv'
  BY <1>28 DEF FinishClose, CloseGoes
<1>29. ASSUME NEW c \in Closes, FailClose(c) PROVE SlotInv'
  BY <1>29 DEF FailClose, CloseGoes
<1>30. ASSUME NEW c \in Closes, RecordClosed(c) PROVE SlotInv'
  BY <1>30 DEF RecordClosed, CloseGoes
<1>31. ASSUME NEW c \in Closes, Unbind(c) PROVE SlotInv'
  BY <1>31 DEF Unbind, CloseGoes
<1>32. ASSUME NEW c \in Closes, EndClose(c) PROVE SlotInv'
  <2>1. /\ free' = free \cup permits[c] /\ permits' = [permits EXCEPT ![c] = {}]
        /\ close' = [close EXCEPT ![c] = "done"] /\ UNCHANGED <<held, dispatch>>
    BY <1>32 DEF EndClose, CloseGoes
  <2>2. SlotsAreConserved'
    BY <2>1
  <2>3. HoldersHold'
    BY <2>1
  <2> QED BY <2>2, <2>3
<1>33. CASE UNCHANGED vars
  BY <1>33 DEF vars
<1> HIDE DEF TypeInv, TypeOK, SlotInv, SlotsAreConserved, HoldersHold, Running,
      controllerVars, nodeVars, openVars, dispatchVars, closeVars
<1> HIDE DEF TypeInv, TypeOK, SlotInv, SlotsAreConserved, HoldersHold, Running,
      controllerVars, nodeVars, openVars, dispatchVars, closeVars
<1> QED BY <1>1, <1>2, <1>3, <1>4, <1>5, <1>6, <1>7, <1>8, <1>9, <1>10, <1>11, <1>12, <1>13,
     <1>14, <1>15, <1>16, <1>17, <1>18, <1>19, <1>20, <1>21, <1>22, <1>23, <1>24, <1>25,
     <1>26, <1>27, <1>28, <1>29, <1>30, <1>31, <1>32, <1>33 DEF Next, GlobalStep, OpenStep,
     DispatchStep, CloseStep, CloseWork

\* A Close that holds every slot is past every dispatch.
LEMMA DrainedIsAlone ==
  ASSUME TypeInv, SlotInv, NEW c \in Closes, permits[c] = Slots, NEW d \in Dispatches
  PROVE  ~Running(d)
BY DEF TypeInv, TypeOK, SlotInv, SlotsAreConserved, HoldersHold

\* Every step keeps admitted dispatches behind the fence.
LEMMA FenceStep == IInv /\ [Next]_vars => FenceInv'
<1> SUFFICES ASSUME IInv, [Next]_vars PROVE FenceInv'
  OBVIOUS
<1> USE DEF IInv, TypeInv, TypeOK, FenceInv, GoalStages, ServedBegan, Begun, StateOfFence,
      AdmittedBehindFence, Admitted, Running, FreshIsServed, controllerVars, nodeVars, openVars, dispatchVars, closeVars
<1>1. ASSUME NEW b \in Bindings, SendOpen(b) PROVE FenceInv'
  BY <1>1 DEF SendOpen
<1>2. ASSUME NEW d \in Dispatches, SendDispatch(d) PROVE FenceInv'
  BY <1>2 DEF SendDispatch
<1>3. ASSUME NEW c \in Closes, NEW b \in Bindings, NEW w \in BOOLEAN, SendClose(c, b, w) PROVE FenceInv'
  BY <1>3 DEF SendClose
<1>4. ASSUME LearnNotOpened PROVE FenceInv'
  BY <1>4 DEF LearnNotOpened
<1>5. ASSUME NEW c \in Closes, LearnClosed(c) PROVE FenceInv'
  BY <1>5 DEF LearnClosed
<1>6. ASSUME NEW b \in Bindings, CheckOpen(b) PROVE FenceInv'
  BY <1>6 DEF CheckOpen, OpenReturns
<1>7. ASSUME NEW b \in Bindings, BeginOpen(b) PROVE FenceInv'
  BY <1>7 DEF BeginOpen, OpenReturns, Openable, NextGeneration, ControlCapacity
<1>8. ASSUME NEW b \in Bindings, Bind(b) PROVE FenceInv'
  BY <1>8 DEF Bind, OpenReturns
<1>9. ASSUME NEW b \in Bindings, ResetForOpen(b) PROVE FenceInv'
  BY <1>9 DEF ResetForOpen, OpenReturns
<1>10. ASSUME NEW b \in Bindings, FinishOpen(b) PROVE FenceInv'
  BY <1>10 DEF FinishOpen, OpenReturns
<1>11. ASSUME NEW d \in Dispatches, CheckDispatch(d) PROVE FenceInv'
  BY <1>11 DEF CheckDispatch, DispatchGoes, Settle
<1>12. ASSUME NEW d \in Dispatches, Admit(d) PROVE FenceInv'
  BY <1>12 DEF Admit, DispatchGoes, Settle, Admissible
<1>13. ASSUME NEW d \in Dispatches, TakeSlot(d) PROVE FenceInv'
  BY <1>13 DEF TakeSlot, DispatchGoes, Settle, ReleaseAction
<1>14. ASSUME NEW d \in Dispatches, Infer(d) PROVE FenceInv'
  BY <1>14 DEF Infer, DispatchGoes, Settle
<1>15. ASSUME NEW d \in Dispatches, InferEnds(d) PROVE FenceInv'
  BY <1>15 DEF InferEnds, DispatchGoes, Settle
<1>16. ASSUME NEW d \in Dispatches, MarkFailed(d) PROVE FenceInv'
  BY <1>16 DEF MarkFailed, DispatchGoes
<1>17. ASSUME NEW d \in Dispatches, Complete(d) PROVE FenceInv'
  BY <1>17 DEF Complete, DispatchGoes, Settle
<1>18. ASSUME NEW d \in Dispatches, PublishResult(d) PROVE FenceInv'
  BY <1>18 DEF PublishResult, DispatchGoes, Settle
<1>19. ASSUME NEW d \in Dispatches, Leave(d) PROVE FenceInv'
  BY <1>19 DEF Leave, DispatchGoes, ReleaseAction
<1>20. ASSUME NEW c \in Closes, Replay(c) PROVE FenceInv'
  BY <1>20 DEF Replay, CloseGoes, Reply
<1>21. ASSUME NEW c \in Closes, CheckClose(c) PROVE FenceInv'
  BY <1>21 DEF CheckClose, CloseGoes, Reply
<1>22. ASSUME NEW c \in Closes, SeeSession(c) PROVE FenceInv'
  BY <1>22 DEF SeeSession, CloseGoes, Reply
<1>23. ASSUME NEW c \in Closes, BeginClose(c) PROVE FenceInv'
  BY <1>23 DEF BeginClose, CloseGoes, Closable, NextGeneration, ControlCapacity
<1>24. ASSUME NEW c \in Closes, RefuseClose(c) PROVE FenceInv'
  BY <1>24 DEF RefuseClose, Reply
<1>25. ASSUME NEW c \in Closes, AcquirePermit(c) PROVE FenceInv'
  BY <1>25 DEF AcquirePermit
<1>26. ASSUME NEW c \in Closes, DrainExpires(c) PROVE FenceInv'
  BY <1>26 DEF DrainExpires, CloseGoes
<1>27. ASSUME NEW c \in Closes, ResetForClose(c) PROVE FenceInv'
  BY <1>27 DEF ResetForClose, CloseGoes
<1>28. ASSUME NEW c \in Closes, FinishClose(c) PROVE FenceInv'
  <2>1. \A x \in Dispatches : dispatch[x] # "fresh"
    <3>1. permits[c] = Slots
      BY <1>28 DEF FinishClose, SlotInv, HoldersHold
    <3> QED BY <3>1, DrainedIsAlone DEF FinishClose
  <2> QED BY <1>28, <2>1 DEF FinishClose, CloseGoes
<1>29. ASSUME NEW c \in Closes, FailClose(c) PROVE FenceInv'
  BY <1>29 DEF FailClose, CloseGoes
<1>30. ASSUME NEW c \in Closes, RecordClosed(c) PROVE FenceInv'
  BY <1>30 DEF RecordClosed, CloseGoes
<1>31. ASSUME NEW c \in Closes, Unbind(c) PROVE FenceInv'
  BY <1>31 DEF Unbind, CloseGoes
<1>32. ASSUME NEW c \in Closes, EndClose(c) PROVE FenceInv'
  BY <1>32 DEF EndClose, CloseGoes
<1>33. CASE UNCHANGED vars
  BY <1>33 DEF vars
<1> HIDE DEF IInv, TypeInv, TypeOK, FenceInv, GoalStages, ServedBegan, Begun, StateOfFence,
      AdmittedBehindFence, Admitted, Running, FreshIsServed, controllerVars, nodeVars, openVars, dispatchVars, closeVars
<1> QED BY <1>1, <1>2, <1>3, <1>4, <1>5, <1>6, <1>7, <1>8, <1>9, <1>10, <1>11, <1>12, <1>13,
     <1>14, <1>15, <1>16, <1>17, <1>18, <1>19, <1>20, <1>21, <1>22, <1>23, <1>24, <1>25,
     <1>26, <1>27, <1>28, <1>29, <1>30, <1>31, <1>32, <1>33 DEF Next, GlobalStep, OpenStep,
     DispatchStep, CloseStep, CloseWork

\* The controller starts idle, with all slots free.
LEMMA InitIInv == Init => IInv
<1> SUFFICES ASSUME Init PROVE IInv
  OBVIOUS
<1>1. quarantine \in BOOLEAN /\ wildcard \in [Closes -> BOOLEAN]
  BY Zenon DEF Init
<1>2. TypeInv
  BY <1>1, CapacityIsNatural DEF Init, TypeInv, TypeOK, BarrierHoldsControl, OpenStages, DispatchStages,
     CloseStages, ControlCapacity
<1>3. SlotInv
  BY DEF Init, SlotInv, SlotsAreConserved, HoldersHold, Running
<1>4. FenceInv
  BY DEF Init, FenceInv, GoalStages, ServedBegan, StateOfFence, AdmittedBehindFence, Admitted,
     Running, FreshIsServed
<1> QED BY <1>2, <1>3, <1>4 DEF IInv

(* Every variable keeps its type, every slot is free or held by exactly    *)
(* one goal, and every admitted dispatch is behind the fence or of the     *)
(* session that is served: the inductive invariant of the goal threads.    *)
THEOREM PipelineInvariant == Spec => []IInv
<1>1. IInv /\ [Next]_vars => IInv'
  BY TypeStep, SlotStep, FenceStep DEF IInv
<1> QED BY InitIInv, <1>1, PTL DEF Spec

(* The type invariant of the goal threads.                                 *)
THEOREM TypeCorrect == Spec => []TypeOK
<1>1. IInv => TypeOK
  BY DEF IInv, TypeInv
<1> QED BY PipelineInvariant, <1>1, PTL

(* No path of an Open, Dispatch or Close goal loses or doubles an          *)
(* execution slot.                                                         *)
THEOREM NoSlotIsLost == Spec => []SlotsAreConserved
<1>1. IInv => SlotsAreConserved
  BY DEF IInv, SlotInv
<1> QED BY PipelineInvariant, <1>1, PTL

(* A Close that holds every slot is past every inference: the counted      *)
(* semaphore is a barrier.                                                 *)
THEOREM DrainIsABarrier == Spec => []DrainIsExclusive
<1>1. IInv => DrainIsExclusive
  <2> SUFFICES ASSUME IInv, NEW c \in Closes, permits[c] = Slots PROVE Inferring = {}
    BY DEF DrainIsExclusive
  <2>1. \A d \in Dispatches : ~Running(d)
    BY DrainedIsAlone DEF IInv
  <2> QED BY <2>1 DEF Running, Inferring
<1> QED BY PipelineInvariant, <1>1, PTL

-----------------------------------------------------------------------------
(* The goal threads implement the fence.                                   *)

Published == {<<d, target[d]>> : d \in {e \in Dispatches : answer[e] = "success"}}

FenceStutters == UNCHANGED <<product, drained, Published>>

FenceMoves ==
  \/ \E b \in Bindings : Fence!Own(b)
  \/ \E d \in Dispatches : Fence!Publish(d)
  \/ Fence!Retire

\* Answers other than success publish nothing.
LEMMA NothingPublished ==
  ASSUME \A d \in Dispatches : answer'[d] = "success" <=> answer[d] = "success",
         \A d \in Dispatches : answer[d] = "success" => target'[d] = target[d]
  PROVE  Published' = Published
BY DEF Published

\* What a step is to the abstract fence: one of its moves or a stutter.
LEMMA FenceStepOf == IInv /\ [Next]_vars => FenceMoves \/ FenceStutters
<1> SUFFICES ASSUME IInv, [Next]_vars PROVE FenceMoves \/ FenceStutters
  OBVIOUS
<1> USE NothingPublished DEF IInv, TypeInv, TypeOK, FenceInv, GoalStages, FenceStutters,
      controllerVars, nodeVars, openVars, dispatchVars, closeVars
<1>1. ASSUME NEW b \in Bindings, SendOpen(b) PROVE FenceMoves \/ FenceStutters
  BY <1>1 DEF SendOpen
<1>2. ASSUME NEW d \in Dispatches, SendDispatch(d) PROVE FenceMoves \/ FenceStutters
  BY <1>2 DEF SendDispatch
<1>3. ASSUME NEW c \in Closes, NEW b \in Bindings, NEW w \in BOOLEAN, SendClose(c, b, w) PROVE FenceMoves \/ FenceStutters
  BY <1>3 DEF SendClose
<1>4. ASSUME LearnNotOpened PROVE FenceMoves \/ FenceStutters
  BY <1>4 DEF LearnNotOpened
<1>5. ASSUME NEW c \in Closes, LearnClosed(c) PROVE FenceMoves \/ FenceStutters
  BY <1>5 DEF LearnClosed
<1>6. ASSUME NEW b \in Bindings, CheckOpen(b) PROVE FenceMoves \/ FenceStutters
  BY <1>6 DEF CheckOpen, OpenReturns
<1>7. ASSUME NEW b \in Bindings, BeginOpen(b) PROVE FenceMoves \/ FenceStutters
  <2>1. UNCHANGED <<drained, answer, target>> /\ Published' = Published
    BY <1>7 DEF BeginOpen
  <2>2. CASE UNCHANGED product
    BY <2>1, <2>2
  <2>3. CASE product' = b /\ Openable /\ open[b] = "checked"
    <3>1. product = NoBinding /\ b \notin drained
      BY <2>3 DEF Openable, StateOfFence, ServedBegan, Begun
    <3>2. Fence!Own(b)
      BY <2>1, <2>3, <3>1 DEF Fence!Own, Published
    <3> QED BY <3>2 DEF FenceMoves
  <2> QED BY <1>7, <2>2, <2>3 DEF BeginOpen
<1>8. ASSUME NEW b \in Bindings, Bind(b) PROVE FenceMoves \/ FenceStutters
  BY <1>8 DEF Bind, OpenReturns
<1>9. ASSUME NEW b \in Bindings, ResetForOpen(b) PROVE FenceMoves \/ FenceStutters
  BY <1>9 DEF ResetForOpen, OpenReturns
<1>10. ASSUME NEW b \in Bindings, FinishOpen(b) PROVE FenceMoves \/ FenceStutters
  BY <1>10 DEF FinishOpen, OpenReturns
<1>11. ASSUME NEW d \in Dispatches, CheckDispatch(d) PROVE FenceMoves \/ FenceStutters
  BY <1>11 DEF CheckDispatch, DispatchGoes, Settle
<1>12. ASSUME NEW d \in Dispatches, Admit(d) PROVE FenceMoves \/ FenceStutters
  BY <1>12 DEF Admit, DispatchGoes, Settle, Admissible
<1>13. ASSUME NEW d \in Dispatches, TakeSlot(d) PROVE FenceMoves \/ FenceStutters
  BY <1>13 DEF TakeSlot, DispatchGoes, Settle, ReleaseAction
<1>14. ASSUME NEW d \in Dispatches, Infer(d) PROVE FenceMoves \/ FenceStutters
  BY <1>14 DEF Infer, DispatchGoes, Settle
<1>15. ASSUME NEW d \in Dispatches, InferEnds(d) PROVE FenceMoves \/ FenceStutters
  BY <1>15 DEF InferEnds, DispatchGoes, Settle
<1>16. ASSUME NEW d \in Dispatches, MarkFailed(d) PROVE FenceMoves \/ FenceStutters
  BY <1>16 DEF MarkFailed, DispatchGoes
<1>17. ASSUME NEW d \in Dispatches, Complete(d) PROVE FenceMoves \/ FenceStutters
  BY <1>17 DEF Complete, DispatchGoes, Settle
<1>18. ASSUME NEW d \in Dispatches, PublishResult(d) PROVE FenceMoves \/ FenceStutters
  <2>1. UNCHANGED <<product, drained, target>> /\ dispatch[d] = "fresh" /\ answer[d] = "none"
    BY <1>18 DEF PublishResult
  <2>2. product = target[d] /\ product \in Bindings
    BY <2>1 DEF FreshIsServed
  <2>3. CASE answer' = [answer EXCEPT ![d] = "failed"]
    BY <2>1, <2>3
  <2>4. CASE answer' = [answer EXCEPT ![d] = "success"]
    <3>1. Published' = Published \cup {<<d, product>>}
      BY <2>1, <2>2, <2>4 DEF Published
    <3>2. \A b \in Bindings : <<d, b>> \notin Published
      BY <2>1 DEF Published
    <3>3. Fence!Publish(d)
      BY <2>1, <2>2, <3>1, <3>2 DEF Fence!Publish, Published
    <3> QED BY <3>3 DEF FenceMoves
  <2> QED BY <1>18, <2>3, <2>4 DEF PublishResult, Settle
<1>19. ASSUME NEW d \in Dispatches, Leave(d) PROVE FenceMoves \/ FenceStutters
  BY <1>19 DEF Leave, DispatchGoes, ReleaseAction
<1>20. ASSUME NEW c \in Closes, Replay(c) PROVE FenceMoves \/ FenceStutters
  BY <1>20 DEF Replay, CloseGoes, Reply
<1>21. ASSUME NEW c \in Closes, CheckClose(c) PROVE FenceMoves \/ FenceStutters
  BY <1>21 DEF CheckClose, CloseGoes, Reply
<1>22. ASSUME NEW c \in Closes, SeeSession(c) PROVE FenceMoves \/ FenceStutters
  BY <1>22 DEF SeeSession, CloseGoes, Reply
<1>23. ASSUME NEW c \in Closes, BeginClose(c) PROVE FenceMoves \/ FenceStutters
  BY <1>23 DEF BeginClose, CloseGoes, Closable, NextGeneration, ControlCapacity
<1>24. ASSUME NEW c \in Closes, RefuseClose(c) PROVE FenceMoves \/ FenceStutters
  BY <1>24 DEF RefuseClose, Reply
<1>25. ASSUME NEW c \in Closes, AcquirePermit(c) PROVE FenceMoves \/ FenceStutters
  BY <1>25 DEF AcquirePermit
<1>26. ASSUME NEW c \in Closes, DrainExpires(c) PROVE FenceMoves \/ FenceStutters
  BY <1>26 DEF DrainExpires, CloseGoes
<1>27. ASSUME NEW c \in Closes, ResetForClose(c) PROVE FenceMoves \/ FenceStutters
  BY <1>27 DEF ResetForClose, CloseGoes
<1>28. ASSUME NEW c \in Closes, FinishClose(c) PROVE FenceMoves \/ FenceStutters
  <2>1. UNCHANGED <<answer, target>> /\ Published' = Published
    BY <1>28 DEF FinishClose
  <2>2. CASE UNCHANGED <<product, drained>>
    BY <2>1, <2>2
  <2>3. CASE product' = NoBinding /\ drained' = drained \cup ({product} \ {NoBinding})
    <3>1. CASE product = NoBinding
      BY <2>1, <2>3, <3>1
    <3>2. CASE product # NoBinding
      <4>1. Fence!Retire
        BY <2>1, <2>3, <3>2 DEF Fence!Retire, Published
      <4> QED BY <4>1 DEF FenceMoves
    <3> QED BY <3>1, <3>2
  <2> QED BY <1>28, <2>2, <2>3 DEF FinishClose
<1>29. ASSUME NEW c \in Closes, FailClose(c) PROVE FenceMoves \/ FenceStutters
  BY <1>29 DEF FailClose, CloseGoes
<1>30. ASSUME NEW c \in Closes, RecordClosed(c) PROVE FenceMoves \/ FenceStutters
  BY <1>30 DEF RecordClosed, CloseGoes
<1>31. ASSUME NEW c \in Closes, Unbind(c) PROVE FenceMoves \/ FenceStutters
  BY <1>31 DEF Unbind, CloseGoes
<1>32. ASSUME NEW c \in Closes, EndClose(c) PROVE FenceMoves \/ FenceStutters
  BY <1>32 DEF EndClose, CloseGoes
<1>33. CASE UNCHANGED vars
  BY <1>33 DEF vars
<1> HIDE DEF IInv, TypeInv, TypeOK, FenceInv, GoalStages, FenceStutters,
      controllerVars, nodeVars, openVars, dispatchVars, closeVars
<1> QED BY <1>1, <1>2, <1>3, <1>4, <1>5, <1>6, <1>7, <1>8, <1>9, <1>10, <1>11, <1>12, <1>13,
     <1>14, <1>15, <1>16, <1>17, <1>18, <1>19, <1>20, <1>21, <1>22, <1>23, <1>24, <1>25,
     <1>26, <1>27, <1>28, <1>29, <1>30, <1>31, <1>32, <1>33 DEF Next, GlobalStep, OpenStep,
     DispatchStep, CloseStep, CloseWork

(* The goal threads implement the fence: the pipeline serves one binding   *)
(* at a time, never one it has drained, and reports the success of a       *)
(* dispatch only while it serves the binding of that dispatch, however the *)
(* comparison with the fence, the drain and the answers interleave.        *)
THEOREM ImplementsFence == Spec => PublishesBehindFence
<1>1. Init => Fence!FenceInit
  BY DEF Init, Fence!FenceInit
<1>2. IInv /\ [Next]_vars => [Fence!FenceNext]_(Fence!fenceVars)
  BY FenceStepOf DEF FenceMoves, FenceStutters, Fence!FenceNext, Fence!fenceVars, Published
<1> QED BY PipelineInvariant, <1>1, <1>2, PTL DEF Spec, PublishesBehindFence, Fence!FenceSpec


-----------------------------------------------------------------------------
(* The session-control count.                                              *)

\* An unknown outcome is remembered by the goal that met it.
DoubtInv ==
  \A d \in Dispatches :
    /\ dispatch[d] = "uncertain" => answer[d] = "unknown"
    /\ answer[d] = "unknown" => dispatch[d] \in {"uncertain", "leaving", "done"}

\* A dispatch that came in doubt stays on record.
LEMMA DoubtStep ==
  ASSUME TypeInv, DoubtInv, [Next]_vars
  PROVE  DoubtInv' /\ (Doubtful => Doubtful')
<1> DEFINE Goal == DoubtInv' /\ (Doubtful => Doubtful')
<1> USE DEF TypeInv, TypeOK, DoubtInv, Doubtful, openVars, dispatchVars, closeVars
<1>1. CASE UNCHANGED dispatchVars
  BY <1>1
<1>2. ASSUME NEW d \in Dispatches, SendDispatch(d) PROVE Goal
  BY <1>2 DEF SendDispatch
<1>3. ASSUME NEW d \in Dispatches, CheckDispatch(d) PROVE Goal
  BY <1>3 DEF CheckDispatch, DispatchGoes, Settle
<1>4. ASSUME NEW d \in Dispatches, Admit(d) PROVE Goal
  BY <1>4 DEF Admit, DispatchGoes, Settle
<1>5. ASSUME NEW d \in Dispatches, TakeSlot(d) PROVE Goal
  BY <1>5 DEF TakeSlot, DispatchGoes, Settle
<1>6. ASSUME NEW d \in Dispatches, Infer(d) PROVE Goal
  BY <1>6 DEF Infer, DispatchGoes, Settle
<1>7. ASSUME NEW d \in Dispatches, InferEnds(d) PROVE Goal
  BY <1>7 DEF InferEnds, DispatchGoes, Settle
<1>8. ASSUME NEW d \in Dispatches, MarkFailed(d) PROVE Goal
  BY <1>8 DEF MarkFailed, DispatchGoes
<1>9. ASSUME NEW d \in Dispatches, Complete(d) PROVE Goal
  BY <1>9 DEF Complete, DispatchGoes, Settle
<1>10. ASSUME NEW d \in Dispatches, PublishResult(d) PROVE Goal
  BY <1>10 DEF PublishResult, DispatchGoes, Settle
<1>11. ASSUME NEW d \in Dispatches, Leave(d) PROVE Goal
  BY <1>11 DEF Leave, DispatchGoes
<1>12. (\E d \in Dispatches : SendDispatch(d) \/ DispatchStep(d)) \/ UNCHANGED dispatchVars
  <2>1. ASSUME NEW b \in Bindings, SendOpen(b) PROVE UNCHANGED dispatchVars
    BY <2>1 DEF SendOpen
  <2>2. ASSUME NEW c \in Closes, NEW b \in Bindings, NEW w \in BOOLEAN, SendClose(c, b, w) PROVE UNCHANGED dispatchVars
    BY <2>2 DEF SendClose
  <2>3. ASSUME LearnNotOpened PROVE UNCHANGED dispatchVars
    BY <2>3 DEF LearnNotOpened
  <2>4. ASSUME NEW c \in Closes, LearnClosed(c) PROVE UNCHANGED dispatchVars
    BY <2>4 DEF LearnClosed
  <2>5. ASSUME NEW b \in Bindings, CheckOpen(b) PROVE UNCHANGED dispatchVars
    BY <2>5 DEF CheckOpen
  <2>6. ASSUME NEW b \in Bindings, BeginOpen(b) PROVE UNCHANGED dispatchVars
    BY <2>6 DEF BeginOpen
  <2>7. ASSUME NEW b \in Bindings, Bind(b) PROVE UNCHANGED dispatchVars
    BY <2>7 DEF Bind
  <2>8. ASSUME NEW b \in Bindings, ResetForOpen(b) PROVE UNCHANGED dispatchVars
    BY <2>8 DEF ResetForOpen
  <2>9. ASSUME NEW b \in Bindings, FinishOpen(b) PROVE UNCHANGED dispatchVars
    BY <2>9 DEF FinishOpen
  <2>10. ASSUME NEW c \in Closes, Replay(c) PROVE UNCHANGED dispatchVars
    BY <2>10 DEF Replay
  <2>11. ASSUME NEW c \in Closes, CheckClose(c) PROVE UNCHANGED dispatchVars
    BY <2>11 DEF CheckClose
  <2>12. ASSUME NEW c \in Closes, SeeSession(c) PROVE UNCHANGED dispatchVars
    BY <2>12 DEF SeeSession
  <2>13. ASSUME NEW c \in Closes, BeginClose(c) PROVE UNCHANGED dispatchVars
    BY <2>13 DEF BeginClose
  <2>14. ASSUME NEW c \in Closes, RefuseClose(c) PROVE UNCHANGED dispatchVars
    BY <2>14 DEF RefuseClose
  <2>15. ASSUME NEW c \in Closes, AcquirePermit(c) PROVE UNCHANGED dispatchVars
    BY <2>15 DEF AcquirePermit
  <2>16. ASSUME NEW c \in Closes, DrainExpires(c) PROVE UNCHANGED dispatchVars
    BY <2>16 DEF DrainExpires
  <2>17. ASSUME NEW c \in Closes, ResetForClose(c) PROVE UNCHANGED dispatchVars
    BY <2>17 DEF ResetForClose
  <2>18. ASSUME NEW c \in Closes, FinishClose(c) PROVE UNCHANGED dispatchVars
    BY <2>18 DEF FinishClose
  <2>19. ASSUME NEW c \in Closes, FailClose(c) PROVE UNCHANGED dispatchVars
    BY <2>19 DEF FailClose
  <2>20. ASSUME NEW c \in Closes, RecordClosed(c) PROVE UNCHANGED dispatchVars
    BY <2>20 DEF RecordClosed
  <2>21. ASSUME NEW c \in Closes, Unbind(c) PROVE UNCHANGED dispatchVars
    BY <2>21 DEF Unbind
  <2>22. ASSUME NEW c \in Closes, EndClose(c) PROVE UNCHANGED dispatchVars
    BY <2>22 DEF EndClose
  <2>23. CASE UNCHANGED vars
    BY <2>23 DEF vars
  <2> QED BY <2>1, <2>2, <2>3, <2>4, <2>5, <2>6, <2>7, <2>8, <2>9, <2>10, <2>11, <2>12, <2>13, <2>14, <2>15, <2>16, <2>17, <2>18, <2>19, <2>20, <2>21, <2>22, <2>23
       DEF Next, GlobalStep, OpenStep, CloseStep, CloseWork
<1> HIDE DEF TypeInv, TypeOK, DoubtInv, Doubtful, openVars, dispatchVars, closeVars
<1> QED BY <1>1, <1>2, <1>3, <1>4, <1>5, <1>6, <1>7, <1>8, <1>9, <1>10, <1>11, <1>12 DEF DispatchStep

\* Without unknown outcomes the state shows which barrier is running.
BarrierInv ==
  /\ \A d \in Dispatches : dispatch[d] # "uncertain"
  /\ \A b \in Bindings : OpenBarrier(b) => state = "RESETTING"
  /\ \A c \in Closes : CloseBarrier(c) => state = "CLOSING"
  /\ control = 0 => Barriers = {}
  /\ control = 1 => \E x : Barriers = {x}

\* Goals outside their barriers, before and after, do not change the set.
LEMMA SameBarriers ==
  ASSUME \A b \in Bindings : OpenBarrier(b)' <=> OpenBarrier(b),
         \A c \in Closes : CloseBarrier(c)' <=> CloseBarrier(c)
  PROVE  Barriers' = Barriers
BY DEF Barriers

\* A running barrier is the only one.
LEMMA OnlyClose ==
  ASSUME BarrierInv, control = 1, NEW c \in Closes, CloseBarrier(c)
  PROVE  /\ \A e \in Closes : CloseBarrier(e) => e = c
         /\ \A b \in Bindings : ~OpenBarrier(b)
<1>1. \A e \in Closes : CloseBarrier(e) => <<"close", e>> \in Barriers
  BY DEF Barriers
<1>2. \A e \in Closes : CloseBarrier(e) => <<"close", e>> = <<"close", c>>
  BY <1>1 DEF BarrierInv
<1> QED BY <1>2 DEF BarrierInv

\* A running Open barrier is the only barrier.
LEMMA OnlyOpen ==
  ASSUME BarrierInv, control = 1, NEW b \in Bindings, OpenBarrier(b)
  PROVE  /\ \A e \in Bindings : OpenBarrier(e) => e = b
         /\ \A c \in Closes : ~CloseBarrier(c)
<1>1. \A e \in Bindings : OpenBarrier(e) => <<"open", e>> \in Barriers
  BY DEF Barriers
<1>2. \A e \in Bindings : OpenBarrier(e) => <<"open", e>> = <<"open", b>>
  BY <1>1 DEF BarrierInv
<1> QED BY <1>2 DEF BarrierInv

\* Goals outside their barriers count nothing.
LEMMA NoBarriers ==
  ASSUME \A b \in Bindings : ~OpenBarrier(b)', \A c \in Closes : ~CloseBarrier(c)'
  PROVE  Barriers' = {}
BY DEF Barriers

\* Every step without a new doubt keeps one barrier at most.
LEMMA BarrierStep ==
  ASSUME TypeInv, BarrierInv, [Next]_vars, \A d \in Dispatches : dispatch'[d] # "uncertain"
  PROVE  BarrierInv'
<1> USE SameBarriers DEF TypeInv, BarrierHoldsControl, TypeOK, ControlCapacity, BarrierInv, OpenBarrier,
      CloseBarrier, controllerVars, nodeVars, openVars, dispatchVars, closeVars
<1>1. ASSUME NEW b \in Bindings, SendOpen(b) PROVE BarrierInv'
  BY <1>1 DEF SendOpen
<1>2. ASSUME NEW d \in Dispatches, SendDispatch(d) PROVE BarrierInv'
  BY <1>2 DEF SendDispatch
<1>3. ASSUME NEW c \in Closes, NEW b \in Bindings, NEW w \in BOOLEAN, SendClose(c, b, w) PROVE BarrierInv'
  BY <1>3 DEF SendClose
<1>4. ASSUME LearnNotOpened PROVE BarrierInv'
  BY <1>4 DEF LearnNotOpened
<1>5. ASSUME NEW c \in Closes, LearnClosed(c) PROVE BarrierInv'
  BY <1>5 DEF LearnClosed
<1>6. ASSUME NEW b \in Bindings, CheckOpen(b) PROVE BarrierInv'
  BY <1>6 DEF CheckOpen, OpenReturns
<1>7. ASSUME NEW b \in Bindings, BeginOpen(b) PROVE BarrierInv'
  <2>1. CASE open' = [open EXCEPT ![b] = "not_started"]
    <3>1. UNCHANGED <<close, dispatch, control, state>> /\ open[b] = "checked"
      BY <1>7, <2>1 DEF BeginOpen, OpenReturns
    <3> QED BY <2>1, <3>1
  <2>2. CASE open' = [open EXCEPT ![b] = "begun"]
    <3>1. /\ open[b] = "checked" /\ state' = "RESETTING"
          /\ control = 0 /\ control' = 1 /\ UNCHANGED <<close, dispatch>>
      BY <1>7, <2>2 DEF BeginOpen, OpenReturns, Openable
    <3>2. (\A e \in Bindings : ~OpenBarrier(e)) /\ \A c \in Closes : ~CloseBarrier(c)
      BY <3>1 DEF Barriers
    <3>3. Barriers' = {<<"open", b>>}
      BY <2>2, <3>1, <3>2 DEF Barriers
    <3> QED BY <2>2, <3>1, <3>2, <3>3
  <2> QED BY <1>7, <2>1, <2>2 DEF BeginOpen, OpenReturns
<1>8. ASSUME NEW b \in Bindings, Bind(b) PROVE BarrierInv'
  BY <1>8 DEF Bind, OpenReturns
<1>9. ASSUME NEW b \in Bindings, ResetForOpen(b) PROVE BarrierInv'
  BY <1>9 DEF ResetForOpen, OpenReturns
<1>10. ASSUME NEW b \in Bindings, FinishOpen(b) PROVE BarrierInv'
  <2>1. OpenBarrier(b) /\ state = "RESETTING" /\ control = 1
    BY <1>10 DEF FinishOpen
  <2>2. /\ control' = 0 /\ UNCHANGED <<close, dispatch>>
        /\ \E result \in {"opened", "failed"} : open' = [open EXCEPT ![b] = result]
    BY <1>10, <2>1 DEF FinishOpen, OpenReturns
  <2>3. (\A e \in Bindings : ~OpenBarrier(e)') /\ \A c \in Closes : ~CloseBarrier(c)'
    BY <2>1, <2>2, OnlyOpen
  <2>4. Barriers' = {}
    BY <2>3, NoBarriers
  <2> QED BY <2>2, <2>3, <2>4
<1>11. ASSUME NEW d \in Dispatches, CheckDispatch(d) PROVE BarrierInv'
  BY <1>11 DEF CheckDispatch, DispatchGoes, Settle
<1>12. ASSUME NEW d \in Dispatches, Admit(d) PROVE BarrierInv'
  BY <1>12 DEF Admit, DispatchGoes, Settle, Admissible
<1>13. ASSUME NEW d \in Dispatches, TakeSlot(d) PROVE BarrierInv'
  BY <1>13 DEF TakeSlot, DispatchGoes, Settle, ReleaseAction
<1>14. ASSUME NEW d \in Dispatches, Infer(d) PROVE BarrierInv'
  BY <1>14 DEF Infer, DispatchGoes, Settle
<1>15. ASSUME NEW d \in Dispatches, InferEnds(d) PROVE BarrierInv'
  BY <1>15 DEF InferEnds, DispatchGoes, Settle
<1>16. ASSUME NEW d \in Dispatches, MarkFailed(d) PROVE BarrierInv'
  BY <1>16 DEF MarkFailed, DispatchGoes
<1>17. ASSUME NEW d \in Dispatches, Complete(d) PROVE BarrierInv'
  BY <1>17 DEF Complete, DispatchGoes, Settle
<1>18. ASSUME NEW d \in Dispatches, PublishResult(d) PROVE BarrierInv'
  BY <1>18 DEF PublishResult, DispatchGoes, Settle
<1>19. ASSUME NEW d \in Dispatches, Leave(d) PROVE BarrierInv'
  BY <1>19 DEF Leave, DispatchGoes, ReleaseAction
<1>20. ASSUME NEW c \in Closes, Replay(c) PROVE BarrierInv'
  BY <1>20 DEF Replay, CloseGoes, Reply
<1>21. ASSUME NEW c \in Closes, CheckClose(c) PROVE BarrierInv'
  BY <1>21 DEF CheckClose, CloseGoes, Reply
<1>22. ASSUME NEW c \in Closes, SeeSession(c) PROVE BarrierInv'
  BY <1>22 DEF SeeSession, CloseGoes, Reply
<1>23. ASSUME NEW c \in Closes, BeginClose(c) PROVE BarrierInv'
  <2>1. /\ close[c] = "seen" /\ close' = [close EXCEPT ![c] = "draining"] /\ state' = "CLOSING"
        /\ control = 0 /\ control' = 1 /\ UNCHANGED <<open, dispatch>>
    BY <1>23 DEF BeginClose, CloseGoes, Closable
  <2>2. (\A b \in Bindings : ~OpenBarrier(b)) /\ \A e \in Closes : ~CloseBarrier(e)
    BY <2>1 DEF Barriers
  <2>3. Barriers' = {<<"close", c>>}
    BY <2>1, <2>2 DEF Barriers
  <2> QED BY <2>1, <2>2, <2>3
<1>24. ASSUME NEW c \in Closes, RefuseClose(c) PROVE BarrierInv'
  <2>1. UNCHANGED <<open, dispatch, control, state>> /\ close[c] = "seen"
    BY <1>24 DEF RefuseClose
  <2>2. close' = [close EXCEPT ![c] = "done"]
    BY <1>24 DEF RefuseClose, Reply, CloseGoes
  <2> QED BY <2>1, <2>2
<1>25. ASSUME NEW c \in Closes, AcquirePermit(c) PROVE BarrierInv'
  BY <1>25 DEF AcquirePermit
<1>26. ASSUME NEW c \in Closes, DrainExpires(c) PROVE BarrierInv'
  BY <1>26 DEF DrainExpires, CloseGoes
<1>27. ASSUME NEW c \in Closes, ResetForClose(c) PROVE BarrierInv'
  BY <1>27 DEF ResetForClose, CloseGoes
<1>28. ASSUME NEW c \in Closes, FinishClose(c) PROVE BarrierInv'
  <2>1. CloseBarrier(c) /\ state = "CLOSING" /\ control = 1
    BY <1>28 DEF FinishClose
  <2>2. /\ control' = 0 /\ UNCHANGED <<open, dispatch>>
        /\ close' = [close EXCEPT ![c] = "finished"]
    BY <1>28, <2>1 DEF FinishClose, CloseGoes
  <2>3. (\A b \in Bindings : ~OpenBarrier(b)') /\ \A e \in Closes : ~CloseBarrier(e)'
    BY <2>1, <2>2, OnlyClose
  <2>4. Barriers' = {}
    BY <2>3, NoBarriers
  <2> QED BY <2>2, <2>3, <2>4
<1>29. ASSUME NEW c \in Closes, FailClose(c) PROVE BarrierInv'
  <2>1. CloseBarrier(c) /\ state = "CLOSING" /\ control = 1
    BY <1>29 DEF FailClose
  <2>2. /\ control' = 0 /\ UNCHANGED <<open, dispatch>>
        /\ close' = [close EXCEPT ![c] = "ending"]
    BY <1>29, <2>1 DEF FailClose, CloseGoes
  <2>3. (\A b \in Bindings : ~OpenBarrier(b)') /\ \A e \in Closes : ~CloseBarrier(e)'
    BY <2>1, <2>2, OnlyClose
  <2>4. Barriers' = {}
    BY <2>3, NoBarriers
  <2> QED BY <2>2, <2>3, <2>4
<1>30. ASSUME NEW c \in Closes, RecordClosed(c) PROVE BarrierInv'
  BY <1>30 DEF RecordClosed, CloseGoes
<1>31. ASSUME NEW c \in Closes, Unbind(c) PROVE BarrierInv'
  BY <1>31 DEF Unbind, CloseGoes
<1>32. ASSUME NEW c \in Closes, EndClose(c) PROVE BarrierInv'
  BY <1>32 DEF EndClose, CloseGoes
<1>33. CASE UNCHANGED vars
  BY <1>33 DEF vars
<1> HIDE DEF TypeInv, TypeOK, BarrierInv, OpenBarrier, CloseBarrier,
      controllerVars, nodeVars, openVars, dispatchVars, closeVars
<1> QED BY <1>1, <1>2, <1>3, <1>4, <1>5, <1>6, <1>7, <1>8, <1>9, <1>10, <1>11, <1>12, <1>13,
     <1>14, <1>15, <1>16, <1>17, <1>18, <1>19, <1>20, <1>21, <1>22, <1>23, <1>24, <1>25,
     <1>26, <1>27, <1>28, <1>29, <1>30, <1>31, <1>32, <1>33 DEF Next, GlobalStep, OpenStep,
     DispatchStep, CloseStep, CloseWork

(* As long as no inference has ended with an unknown outcome, the count of *)
(* session_control is exactly the number of Opens and Closes between       *)
(* begin and finish: a refusal for want of capacity means that one of them *)
(* is still running, and no failure leaks the count.                       *)
THEOREM ControlIsCounted == Spec => []ControlCountsBarriers
<1> DEFINE Inv == DoubtInv /\ (~Doubtful => BarrierInv)
<1>1. Init => Inv
  BY DEF Init, DoubtInv, BarrierInv, OpenBarrier, CloseBarrier, Barriers
<1>2. TypeInv /\ Inv /\ [Next]_vars => Inv'
  <2> SUFFICES ASSUME TypeInv, Inv, [Next]_vars PROVE Inv'
    OBVIOUS
  <2>1. DoubtInv' /\ (Doubtful => Doubtful')
    BY DoubtStep
  <2>2. ASSUME ~Doubtful' PROVE BarrierInv'
    <3>1. \A d \in Dispatches : dispatch'[d] # "uncertain"
      BY <2>1, <2>2 DEF DoubtInv, Doubtful
    <3> QED BY <2>1, <2>2, <3>1, BarrierStep
  <2> QED BY <2>1, <2>2
<1>3. TypeInv /\ Inv => ControlCountsBarriers
  <2> SUFFICES ASSUME TypeInv, BarrierInv PROVE control = Cardinality(Barriers)
    BY DEF ControlCountsBarriers
  <2>1. control = 0 \/ control = 1
    BY DEF TypeInv, TypeOK, ControlCapacity
  <2>2. CASE control = 0
    BY <2>2, FS_EmptySet DEF BarrierInv
  <2>3. CASE control = 1
    BY <2>3, FS_Singleton DEF BarrierInv
  <2> QED BY <2>1, <2>2, <2>3
<1>4. IInv => TypeInv
  BY DEF IInv
<1> HIDE DEF Inv
<1> QED BY PipelineInvariant, <1>1, <1>2, <1>3, <1>4, PTL DEF Spec

-----------------------------------------------------------------------------
(* What a Close reaches.  The invariant relates the Open, the session and  *)
(* the identity of one binding across the steps that write them.           *)

\* The scheduler has one binding under way; every other is refused or drained.
OneAtATime ==
  /\ \A b \in Bindings : open[b] \notin {"unsent", "not_started"} => b = owned \/ b \in drained
  /\ \A b \in drained : open[b] \in {"opened", "failed"}
  /\ product \notin drained

\* An Open finds no other identity, and writes its own before the reset.
OpensBind ==
  \A b \in Bindings :
    /\ open[b] \in {"checked", "begun"} => identity \in {NoBinding, b}
    /\ open[b] \in {"bound", "reset", "broken"} => identity = b
    /\ OpenBarrier(b) => product = b

ServedIsBound ==
  state \in {"ACTIVE", "FAILED", "CLOSING"} => identity = product /\ product # NoBinding

\* A Close that found the session drains it or meets it drained, and at most
\* one is between its finish_close and the reset of the identity.
ClosesDrain ==
  /\ closed \subseteq drained
  /\ \A c \in Closes :
       /\ close[c] # "unsent" => subject[c] \in Bindings
       /\ close[c] = "unsent" => reply[c] = "none"
       /\ close[c] = "seen" \/ CloseBarrier(c) => subject[c] \in drained \cup {product}
       /\ close[c] \in {"finished", "recorded"} => identity \in drained /\ subject[c] \in drained
       /\ reply[c] \in {"drained", "replayed", "not_needed"} => subject[c] \in drained
  /\ \A c, e \in Closes :
       close[c] \in {"finished", "recorded"} /\ close[e] \in {"finished", "recorded"} => c = e

ReachInv == OneAtATime /\ OpensBind /\ ServedIsBound /\ ClosesDrain

\* Every step without a new doubt keeps the binding within reach of a Close.
LEMMA ReachStep ==
  ASSUME TypeInv, FenceInv, BarrierInv, ReachInv, [Next]_vars,
         \A d \in Dispatches : dispatch'[d] # "uncertain"
  PROVE  ReachInv'
<1> USE DEF TypeInv, BarrierHoldsControl, TypeOK, FenceInv, StateOfFence, ServedBegan, Begun,
      BarrierInv, OpenBarrier, CloseBarrier, ReachInv, OneAtATime, OpensBind, ServedIsBound,
      ClosesDrain, controllerVars, nodeVars, openVars, dispatchVars, closeVars
<1>1. ASSUME NEW b \in Bindings, SendOpen(b) PROVE ReachInv'
  BY <1>1 DEF SendOpen
<1>2. ASSUME NEW d \in Dispatches, SendDispatch(d) PROVE ReachInv'
  BY <1>2 DEF SendDispatch
<1>3. ASSUME NEW c \in Closes, NEW b \in Bindings, NEW w \in BOOLEAN, SendClose(c, b, w) PROVE ReachInv'
  BY <1>3 DEF SendClose
<1>4. ASSUME LearnNotOpened PROVE ReachInv'
  BY <1>4 DEF LearnNotOpened
<1>5. ASSUME NEW c \in Closes, LearnClosed(c) PROVE ReachInv'
  BY <1>5 DEF LearnClosed
<1>6. ASSUME NEW b \in Bindings, CheckOpen(b) PROVE ReachInv'
  BY <1>6 DEF CheckOpen, OpenReturns
<1>7. ASSUME NEW b \in Bindings, BeginOpen(b) PROVE ReachInv'
  BY <1>7 DEF BeginOpen, OpenReturns, Openable, NextGeneration, ControlCapacity
<1>8. ASSUME NEW b \in Bindings, Bind(b) PROVE ReachInv'
  BY <1>8 DEF Bind, OpenReturns
<1>9. ASSUME NEW b \in Bindings, ResetForOpen(b) PROVE ReachInv'
  BY <1>9 DEF ResetForOpen, OpenReturns
<1>10. ASSUME NEW b \in Bindings, FinishOpen(b) PROVE ReachInv'
  BY <1>10 DEF FinishOpen, OpenReturns
<1>11. ASSUME NEW d \in Dispatches, CheckDispatch(d) PROVE ReachInv'
  BY <1>11 DEF CheckDispatch, DispatchGoes, Settle
<1>12. ASSUME NEW d \in Dispatches, Admit(d) PROVE ReachInv'
  BY <1>12 DEF Admit, DispatchGoes, Settle, Admissible
<1>13. ASSUME NEW d \in Dispatches, TakeSlot(d) PROVE ReachInv'
  BY <1>13 DEF TakeSlot, DispatchGoes, Settle, ReleaseAction
<1>14. ASSUME NEW d \in Dispatches, Infer(d) PROVE ReachInv'
  BY <1>14 DEF Infer, DispatchGoes, Settle
<1>15. ASSUME NEW d \in Dispatches, InferEnds(d) PROVE ReachInv'
  BY <1>15 DEF InferEnds, DispatchGoes, Settle
<1>16. ASSUME NEW d \in Dispatches, MarkFailed(d) PROVE ReachInv'
  BY <1>16 DEF MarkFailed, DispatchGoes
<1>17. ASSUME NEW d \in Dispatches, Complete(d) PROVE ReachInv'
  BY <1>17 DEF Complete, DispatchGoes, Settle
<1>18. ASSUME NEW d \in Dispatches, PublishResult(d) PROVE ReachInv'
  BY <1>18 DEF PublishResult, DispatchGoes, Settle
<1>19. ASSUME NEW d \in Dispatches, Leave(d) PROVE ReachInv'
  BY <1>19 DEF Leave, DispatchGoes, ReleaseAction
<1>20. ASSUME NEW c \in Closes, Replay(c) PROVE ReachInv'
  BY <1>20 DEF Replay, CloseGoes, Reply
<1>21. ASSUME NEW c \in Closes, CheckClose(c) PROVE ReachInv'
  BY <1>21 DEF CheckClose, CloseGoes, Reply
<1>22. ASSUME NEW c \in Closes, SeeSession(c) PROVE ReachInv'
  BY <1>22 DEF SeeSession, CloseGoes, Reply
<1>23. ASSUME NEW c \in Closes, BeginClose(c) PROVE ReachInv'
  BY <1>23 DEF BeginClose, CloseGoes, Closable, NextGeneration, ControlCapacity
<1>24. ASSUME NEW c \in Closes, RefuseClose(c) PROVE ReachInv'
  BY <1>24 DEF RefuseClose, CloseGoes, Reply
<1>25. ASSUME NEW c \in Closes, AcquirePermit(c) PROVE ReachInv'
  BY <1>25 DEF AcquirePermit
<1>26. ASSUME NEW c \in Closes, DrainExpires(c) PROVE ReachInv'
  BY <1>26 DEF DrainExpires, CloseGoes
<1>27. ASSUME NEW c \in Closes, ResetForClose(c) PROVE ReachInv'
  BY <1>27 DEF ResetForClose, CloseGoes
<1>28. ASSUME NEW c \in Closes, FinishClose(c) PROVE ReachInv'
  BY <1>28 DEF FinishClose, CloseGoes
<1>29. ASSUME NEW c \in Closes, FailClose(c) PROVE ReachInv'
  BY <1>29 DEF FailClose, CloseGoes
<1>30. ASSUME NEW c \in Closes, RecordClosed(c) PROVE ReachInv'
  BY <1>30 DEF RecordClosed, CloseGoes
<1>31. ASSUME NEW c \in Closes, Unbind(c) PROVE ReachInv'
  BY <1>31 DEF Unbind, CloseGoes
<1>32. ASSUME NEW c \in Closes, EndClose(c) PROVE ReachInv'
  BY <1>32 DEF EndClose, CloseGoes
<1>33. CASE UNCHANGED vars
  BY <1>33 DEF vars
<1> HIDE DEF TypeInv, TypeOK, BarrierInv, OpenBarrier, CloseBarrier, ReachInv, FenceInv,
      controllerVars, nodeVars, openVars, dispatchVars, closeVars
<1> HIDE DEF TypeInv, BarrierHoldsControl, TypeOK, FenceInv, StateOfFence, ServedBegan, Begun,
      BarrierInv, OpenBarrier, CloseBarrier, ReachInv, OneAtATime, OpensBind, ServedIsBound,
      ClosesDrain, controllerVars, nodeVars, openVars, dispatchVars, closeVars
<1> QED BY <1>1, <1>2, <1>3, <1>4, <1>5, <1>6, <1>7, <1>8, <1>9, <1>10, <1>11, <1>12, <1>13,
     <1>14, <1>15, <1>16, <1>17, <1>18, <1>19, <1>20, <1>21, <1>22, <1>23, <1>24, <1>25,
     <1>26, <1>27, <1>28, <1>29, <1>30, <1>31, <1>32, <1>33 DEF Next, GlobalStep, OpenStep,
     DispatchStep, CloseStep, CloseWork

(* Without an inference of unknown outcome, no interleaving of an Open     *)
(* with two Closes leaves a session that no Close can reach: whenever      *)
(* nothing is under way, the identity that a Close is compared with names  *)
(* the session that is served, and a FAILED pipeline has one to close.     *)
THEOREM BindingIsReached == Spec => []CloseReachesBinding
<1> DEFINE Inv == DoubtInv /\ (~Doubtful => BarrierInv /\ ReachInv)
<1>1. Init => Inv
  <2> SUFFICES ASSUME Init PROVE Inv
    OBVIOUS
  <2>1. DoubtInv /\ BarrierInv
    BY DEF Init, DoubtInv, BarrierInv, OpenBarrier, CloseBarrier, Barriers
  <2>2. ReachInv
    BY DEF Init, ReachInv, OneAtATime, OpensBind, ServedIsBound, ClosesDrain, OpenBarrier, CloseBarrier
  <2> QED BY <2>1, <2>2
<1>2. IInv /\ Inv /\ [Next]_vars => Inv'
  <2> SUFFICES ASSUME IInv, Inv, [Next]_vars PROVE Inv'
    OBVIOUS
  <2>1. TypeInv /\ FenceInv
    BY DEF IInv
  <2>2. DoubtInv' /\ (Doubtful => Doubtful')
    BY <2>1, DoubtStep
  <2>3. ASSUME ~Doubtful' PROVE BarrierInv' /\ ReachInv'
    <3>1. \A d \in Dispatches : dispatch'[d] # "uncertain"
      BY <2>2, <2>3 DEF DoubtInv, Doubtful
    <3>2. BarrierInv /\ ReachInv
      BY <2>2, <2>3
    <3>3. BarrierInv'
      BY <2>1, <3>1, <3>2, BarrierStep
    <3> QED BY <2>1, <3>1, <3>2, <3>3, ReachStep
  <2> QED BY <2>2, <2>3
<1>3. Inv => CloseReachesBinding
  BY DEF CloseReachesBinding, ReachInv, ServedIsBound
<1> HIDE DEF Inv
<1> QED BY PipelineInvariant, <1>1, <1>2, <1>3, PTL DEF Spec
=============================================================================

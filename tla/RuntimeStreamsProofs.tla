------------------------ MODULE RuntimeStreamsProofs ------------------------
(***************************************************************************)
(* What is proved of RuntimeStreams for every set of streams and threads,  *)
(* either bank, and any number of open streams.  The inductive invariant   *)
(* says what a caller may rely on where it is (Located, Held, Stepped),    *)
(* and who may open the admission again: the holder of _control_lock, or   *)
(* the one reset_stream that took the runtime along (Gated).               *)
(***************************************************************************)
EXTENDS RuntimeStreams, FiniteSetTheorems, TLAPS

Elsewhere == {"idle", "opening", "opened"}
Steps == {"stepping", "step_failed"}
Holds == {"reset_waits", "resetting", "close_waits", "closing"}

\* A caller that has resolved a stream is at a stream that is on record.
Located ==
  /\ \A c \in Callers : call[c] \notin Elsewhere => at[c] \in Streams /\ state[at[c]] # "NONE"
  /\ \A s \in todo : state[s] # "NONE"

\* A caller that steps is the one the record names.
Stepped ==
  \A c \in Callers :
    /\ call[c] \in Steps => active[at[c]] = c
    /\ call[c] = "stepping" => state[at[c]] = "STEPPING"
    /\ call[c] = "step_failed" => state[at[c]] \in {"RESET_REQUIRED", "FAILED"}

\* A caller that controls a stream has its lock and its flag, and no step.
Held ==
  \A c \in Callers :
    /\ call[c] \in Holds => lock[at[c]] = c
    /\ call[c] = "resetting" =>
         at[c] \in resetting /\ active[at[c]] = Nobody /\ state[at[c]] = "RESETTING"
    /\ call[c] = "closing" => at[c] \in closing /\ active[at[c]] = Nobody

ResetPhases == {"reset_drain", "resetting", "failing"}
ClosePhases == {"close_drain", "closing"}

\* The lifecycle is what the control of the runtime made it, and a stream
\* reset that took the runtime along is the only one.
Gated ==
  /\ admission => lifecycle = "READY"
  /\ control \in ResetPhases => lifecycle = "RESETTING" /\ \A c \in Callers : ~owns[c]
  /\ control \in ClosePhases => lifecycle = "CLOSING"
  /\ \A c \in Callers :
       owns[c] => call[c] = "resetting" /\ lifecycle \in {"RESETTING", "CLOSING", "CLOSED"}
  /\ \A c, d \in Callers : owns[c] /\ owns[d] => c = d

IInv == TypeOK /\ Located /\ Stepped /\ Held /\ Gated /\ OnlyLapsesHarm

USE StreamAssumption

\* The handle starts without streams.
LEMMA InitIInv == Init => IInv
<1> SUFFICES ASSUME Init PROVE IInv
  OBVIOUS
<1>1. TypeOK
  BY DEF Init, TypeOK, Places, Callers
<1>2. Located /\ Stepped /\ Held /\ Gated
  BY DEF Init, Located, Stepped, Held, Gated, Elsewhere, Steps, Holds, ResetPhases, ClosePhases
<1>3. ControlIsQuiet /\ UncertainWaits /\ ClosedStaysClosed
  BY DEF Init, ControlIsQuiet, UncertainWaits, ClosedStaysClosed
<1>4. WithinCapacity
  <2>1. OpenStreams = {} /\ {u \in Users : call[u] = "opening"} = {}
    BY DEF Init, OpenStreams, Callers
  <2>2. Cardinality({}) = 0
    BY FS_EmptySet
  <2> QED BY <2>1, <2>2 DEF WithinCapacity, Capacity
<1> QED BY <1>1, <1>2, <1>3, <1>4 DEF IInv, OnlyLapsesHarm

-----------------------------------------------------------------------------
(* Types.                                                                  *)

\* Every step keeps the types.
LEMMA TypeNext ==
  ASSUME TypeOK, Located, [Next]_vars PROVE TypeOK'
<1>1. ASSUME NEW u \in Users, OpenReserves(u) PROVE TypeOK'
  BY <1>1 DEF OpenReserves, Goes, TypeOK, Located, Elsewhere, Places, StreamStates, Callers,
     shape, gateVars, flagVars, callVars, localVars, loopVars, ghostVars
<1>2. ASSUME NEW u \in Users, OpenInserts(u) PROVE TypeOK'
  BY <1>2 DEF OpenInserts, Goes, TypeOK, Located, Elsewhere, Places, StreamStates, Callers,
     shape, gateVars, flagVars, callVars, localVars, loopVars, ghostVars
<1>3. ASSUME NEW u \in Users, OpenFails(u) PROVE TypeOK'
  BY <1>3 DEF OpenFails, Leaves, TypeOK, Located, Elsewhere, Places, StreamStates, Callers,
     shape, gateVars, flagVars, callVars, localVars, loopVars, ghostVars
<1>4. ASSUME NEW u \in Users, OpenReturns(u) PROVE TypeOK'
  BY <1>4 DEF OpenReturns, Leaves, TypeOK, Located, Elsewhere, Places, StreamStates, Callers,
     shape, gateVars, flagVars, callVars, localVars, loopVars, ghostVars
<1>5. ASSUME NEW u \in Users, StepChecks(u) PROVE TypeOK'
  BY <1>5 DEF StepChecks, Goes, Leaves, TypeOK, Located, Elsewhere, Places, StreamStates,
     Callers, shape, gateVars, flagVars, callVars, localVars, loopVars, ghostVars
<1>6. ASSUME NEW u \in Users, StepStarts(u) PROVE TypeOK'
  BY <1>6 DEF StepStarts, Goes, TypeOK, Located, Elsewhere, Places, StreamStates, Callers,
     shape, gateVars, flagVars, callVars, localVars, loopVars, ghostVars
<1>7. ASSUME NEW u \in Users, StepGivesUp(u) PROVE TypeOK'
  BY <1>7 DEF StepGivesUp, Leaves, TypeOK, Located, Elsewhere, Places, StreamStates, Callers,
     shape, gateVars, flagVars, callVars, localVars, loopVars, ghostVars
<1>8. ASSUME NEW u \in Users, StepUncertain(u) PROVE TypeOK'
  BY <1>8 DEF StepUncertain, Goes, TypeOK, Located, Elsewhere, Places, StreamStates, Callers,
     shape, gateVars, flagVars, callVars, localVars, loopVars, ghostVars
<1>9. ASSUME NEW u \in Users, StepEnds(u) PROVE TypeOK'
  BY <1>9 DEF StepEnds, Leaves, TypeOK, Located, Elsewhere, Places, StreamStates, Callers,
     shape, gateVars, flagVars, callVars, localVars, loopVars, ghostVars
<1>10. ASSUME NEW u \in Users, NEW s \in Streams, StepResolves(u, s) PROVE TypeOK'
  BY <1>10 DEF StepResolves, Enters, Resolvable, TypeOK, Located, Elsewhere, Places,
     StreamStates, Callers, shape, gateVars, flagVars, callVars, localVars, loopVars, ghostVars
<1>11. ASSUME NEW u \in Users, NEW s \in Streams, ResetResolves(u, s) PROVE TypeOK'
  BY <1>11 DEF ResetResolves, Enters, Resolvable, TypeOK, Located, Elsewhere, Places,
     StreamStates, Callers, shape, gateVars, flagVars, callVars, localVars, loopVars, ghostVars
<1>12. ASSUME NEW u \in Users, NEW s \in Streams, CloseResolves(u, s) PROVE TypeOK'
  BY <1>12 DEF CloseResolves, Enters, Resolvable, TypeOK, Located, Elsewhere, Places,
     StreamStates, Callers, shape, gateVars, flagVars, callVars, localVars, loopVars, ghostVars
<1>13. ASSUME NEW c \in Callers, ResetMarks(c) PROVE TypeOK'
  BY <1>13 DEF ResetMarks, MarkReset, Goes, TypeOK, Located, Elsewhere, Places, StreamStates,
     Callers, shape, gateVars, flagVars, callVars, localVars, loopVars, ghostVars
<1>14. ASSUME NEW c \in Callers, ResetWaits(c) PROVE TypeOK'
  BY <1>14 DEF ResetWaits, Goes, TypeOK, Located, Elsewhere, Places, StreamStates, Callers,
     shape, gateVars, flagVars, callVars, localVars, loopVars, ghostVars
<1>15. ASSUME NEW c \in Callers, ResetRefused(c) PROVE TypeOK'
  BY <1>15 DEF ResetRefused, Back, Leaves, TypeOK, Located, Elsewhere, Places, StreamStates,
     Callers, shape, gateVars, flagVars, callVars, localVars, loopVars, ghostVars
<1>16. ASSUME NEW c \in Callers, ResetProceeds(c) PROVE TypeOK'
  BY <1>16 DEF ResetProceeds, MarkReset, Goes, TypeOK, Located, Elsewhere, Places,
     StreamStates, Callers, shape, gateVars, flagVars, callVars, localVars, loopVars, ghostVars
<1>17. ASSUME NEW c \in Callers, ResetSucceeds(c) PROVE TypeOK'
  BY <1>17 DEF ResetSucceeds, FinishReset, Back, Leaves, TypeOK, Located, Elsewhere, Places,
     StreamStates, Callers, shape, gateVars, flagVars, callVars, localVars, loopVars, ghostVars
<1>18. ASSUME NEW c \in Callers, ResetFails(c) PROVE TypeOK'
  <2>1. PICK left \in {"FAILED", "RESET_REQUIRED"} : FinishReset(c, left, "FAILED", FALSE)
    BY <1>18 DEF ResetFails
  <2>2. at[c] \in Streams
    BY <1>18 DEF ResetFails, Located, Elsewhere
  <2>3. call' \in [Callers -> Places] /\ at' \in [Callers -> Streams \cup {Nobody}]
    BY <2>1 DEF FinishReset, Back, Leaves, TypeOK, Places
  <2>4. /\ state' \in [Streams -> StreamStates \cup {"NONE"}] /\ resetting' \subseteq Streams
        /\ lock' \in [Streams -> Callers \cup {Nobody}]
    BY <2>1, <2>2 DEF FinishReset, TypeOK, StreamStates
  <2>5. /\ lifecycle' \in {"READY", "RESET_REQUIRED", "RESETTING", "FAILED", "CLOSING", "CLOSED"}
        /\ admission' \in BOOLEAN /\ owns' \in [Callers -> BOOLEAN]
    BY <2>1 DEF FinishReset, TypeOK
  <2>6. /\ saw' \in [Callers -> BOOLEAN] /\ todo' \subseteq Streams
        /\ control' \in {"idle", "reset_drain", "resetting", "failing", "close_drain", "closing"}
    BY <2>1 DEF FinishReset, Back, TypeOK
  <2>7. UNCHANGED <<shape, active, closing, closed, previous, tainted, lapsed>>
    BY <1>18, <2>1 DEF ResetFails, FinishReset, Back
  <2> QED BY <2>3, <2>4, <2>5, <2>6, <2>7 DEF TypeOK, shape
<1>19. ASSUME NEW c \in Callers, ResetUnsupported(c) PROVE TypeOK'
  BY <1>19 DEF ResetUnsupported, FinishReset, Back, Leaves, TypeOK, Located, Elsewhere,
     Places, StreamStates, Callers, shape, gateVars, flagVars, callVars, localVars, loopVars,
     ghostVars
<1>20. ASSUME NEW c \in Callers, CloseMarks(c) PROVE TypeOK'
  BY <1>20 DEF CloseMarks, MarkClosing, Goes, TypeOK, Located, Elsewhere, Places,
     StreamStates, Callers, shape, gateVars, flagVars, callVars, localVars, loopVars, ghostVars
<1>21. ASSUME NEW c \in Callers, CloseWaits(c) PROVE TypeOK'
  BY <1>21 DEF CloseWaits, Goes, TypeOK, Located, Elsewhere, Places, StreamStates, Callers,
     shape, gateVars, flagVars, callVars, localVars, loopVars, ghostVars
<1>22. ASSUME NEW c \in Callers, CloseUnneeded(c) PROVE TypeOK'
  BY <1>22 DEF CloseUnneeded, Back, Leaves, TypeOK, Located, Elsewhere, Places, StreamStates,
     Callers, shape, gateVars, flagVars, callVars, localVars, loopVars, ghostVars
<1>23. ASSUME NEW c \in Callers, CloseProceeds(c) PROVE TypeOK'
  BY <1>23 DEF CloseProceeds, MarkClosing, Goes, TypeOK, Located, Elsewhere, Places,
     StreamStates, Callers, shape, gateVars, flagVars, callVars, localVars, loopVars, ghostVars
<1>24. ASSUME NEW c \in Callers, CloseReturns(c) PROVE TypeOK'
  BY <1>24 DEF CloseReturns, Back, Leaves, TypeOK, Located, Elsewhere, Places, StreamStates,
     Callers, shape, gateVars, flagVars, callVars, localVars, loopVars, ghostVars
<1>25. ASSUME NEW c \in Callers, WaitExpires(c) PROVE TypeOK'
  BY <1>25 DEF WaitExpires, Back, Leaves, TypeOK, Located, Elsewhere, Places, StreamStates,
     Callers, shape, gateVars, flagVars, callVars, localVars, loopVars, ghostVars
<1>26. ASSUME RuntimeResetBegins PROVE TypeOK'
  BY <1>26 DEF RuntimeResetBegins, Drains, AfterReset, OpenStreams, stays, TypeOK, Located,
     Elsewhere, Places, StreamStates, Callers, shape, gateVars, flagVars, callVars, localVars,
     loopVars, ghostVars
<1>27. ASSUME RuntimeResetTimesOut PROVE TypeOK'
  BY <1>27 DEF RuntimeResetTimesOut, stays, TypeOK, Located, Elsewhere, Places, StreamStates,
     Callers, shape, gateVars, flagVars, callVars, localVars, loopVars, ghostVars
<1>28. ASSUME RuntimeCloseBegins PROVE TypeOK'
  BY <1>28 DEF RuntimeCloseBegins, Drains, OpenStreams, stays, TypeOK, Located, Elsewhere,
     Places, StreamStates, Callers, shape, gateVars, flagVars, callVars, localVars, loopVars,
     ghostVars
<1>29. ASSUME RuntimeCloseTimesOut PROVE TypeOK'
  BY <1>29 DEF RuntimeCloseTimesOut, stays, TypeOK, Located, Elsewhere, Places, StreamStates,
     Callers, shape, gateVars, flagVars, callVars, localVars, loopVars, ghostVars
<1>30. ASSUME RuntimeDrained PROVE TypeOK'
  BY <1>30 DEF RuntimeDrained, Drains, AfterReset, OpenStreams, stays, TypeOK, Located,
     Elsewhere, Places, StreamStates, Callers, shape, gateVars, flagVars, callVars, localVars,
     loopVars, ghostVars
<1>31. ASSUME NEW s \in Streams, RuntimeResets(s) PROVE TypeOK'
  BY <1>31 DEF RuntimeResets, ResetResolves, Enters, Resolvable, TypeOK, Located, Elsewhere,
     Places, StreamStates, Callers, shape, gateVars, flagVars, callVars, localVars, loopVars,
     ghostVars
<1>32. ASSUME NEW s \in Streams, RuntimeMisses(s) PROVE TypeOK'
  BY <1>32 DEF RuntimeMisses, stays, TypeOK, Located, Elsewhere, Places, StreamStates,
     Callers, shape, gateVars, flagVars, callVars, localVars, loopVars, ghostVars
<1>33. ASSUME NEW s \in Streams, RuntimeCloses(s) PROVE TypeOK'
  BY <1>33 DEF RuntimeCloses, Enters, stays, TypeOK, Located, Elsewhere, Places,
     StreamStates, Callers, shape, gateVars, flagVars, callVars, localVars, loopVars, ghostVars
<1>34. ASSUME RuntimeResetDone PROVE TypeOK'
  BY <1>34 DEF RuntimeResetDone, stays, TypeOK, Located, Elsewhere, Places, StreamStates,
     Callers, shape, gateVars, flagVars, callVars, localVars, loopVars, ghostVars
<1>35. ASSUME RuntimeResetFails PROVE TypeOK'
  BY <1>35 DEF RuntimeResetFails, stays, TypeOK, Located, Elsewhere, Places, StreamStates,
     Callers, shape, gateVars, flagVars, callVars, localVars, loopVars, ghostVars
<1>36. ASSUME RuntimeCloseDone PROVE TypeOK'
  BY <1>36 DEF RuntimeCloseDone, stays, TypeOK, Located, Elsewhere, Places, StreamStates,
     Callers, shape, gateVars, flagVars, callVars, localVars, loopVars, ghostVars
<1>37. ASSUME UNCHANGED vars PROVE TypeOK'
  BY <1>37 DEF vars, TypeOK, Located, Elsewhere, Places, StreamStates, Callers, shape,
     gateVars, flagVars, callVars, localVars, loopVars, ghostVars
<1> QED
  BY <1>1, <1>2, <1>3, <1>4, <1>5, <1>6, <1>7, <1>8, <1>9, <1>10, <1>11, <1>12, <1>13, <1>14,
     <1>15, <1>16, <1>17, <1>18, <1>19, <1>20, <1>21, <1>22, <1>23, <1>24, <1>25, <1>26, <1>27,
     <1>28, <1>29, <1>30, <1>31, <1>32, <1>33, <1>34, <1>35, <1>36, <1>37 DEF Next, UserBegins,
     UserWork, StreamControl, RuntimeBegins, RuntimeWork, Expires

-----------------------------------------------------------------------------
(* What the callers know of their streams.                                 *)

\* Every step keeps callers where their records say.
LEMMA LocatedNext ==
  ASSUME TypeOK, TypeOK', Located, [Next]_vars PROVE Located'
<1>1. ASSUME NEW u \in Users, OpenReserves(u) PROVE Located'
  BY <1>1 DEF OpenReserves, Goes, TypeOK, Located, Elsewhere, StreamStates, Callers, shape,
     gateVars, flagVars, callVars, localVars, loopVars, ghostVars
<1>2. ASSUME NEW u \in Users, OpenInserts(u) PROVE Located'
  BY <1>2 DEF OpenInserts, Goes, TypeOK, Located, Elsewhere, StreamStates, Callers, shape,
     gateVars, flagVars, callVars, localVars, loopVars, ghostVars
<1>3. ASSUME NEW u \in Users, OpenFails(u) PROVE Located'
  BY <1>3 DEF OpenFails, Leaves, TypeOK, Located, Elsewhere, StreamStates, Callers, shape,
     gateVars, flagVars, callVars, localVars, loopVars, ghostVars
<1>4. ASSUME NEW u \in Users, OpenReturns(u) PROVE Located'
  BY <1>4 DEF OpenReturns, Leaves, TypeOK, Located, Elsewhere, StreamStates, Callers, shape,
     gateVars, flagVars, callVars, localVars, loopVars, ghostVars
<1>5. ASSUME NEW u \in Users, StepChecks(u) PROVE Located'
  BY <1>5 DEF StepChecks, Goes, Leaves, TypeOK, Located, Elsewhere, StreamStates, Callers,
     shape, gateVars, flagVars, callVars, localVars, loopVars, ghostVars
<1>6. ASSUME NEW u \in Users, StepStarts(u) PROVE Located'
  BY <1>6 DEF StepStarts, Goes, TypeOK, Located, Elsewhere, StreamStates, Callers, shape,
     gateVars, flagVars, callVars, localVars, loopVars, ghostVars
<1>7. ASSUME NEW u \in Users, StepGivesUp(u) PROVE Located'
  BY <1>7 DEF StepGivesUp, Leaves, TypeOK, Located, Elsewhere, StreamStates, Callers, shape,
     gateVars, flagVars, callVars, localVars, loopVars, ghostVars
<1>8. ASSUME NEW u \in Users, StepUncertain(u) PROVE Located'
  BY <1>8 DEF StepUncertain, Goes, TypeOK, Located, Elsewhere, StreamStates, Callers, shape,
     gateVars, flagVars, callVars, localVars, loopVars, ghostVars
<1>9. ASSUME NEW u \in Users, StepEnds(u) PROVE Located'
  BY <1>9 DEF StepEnds, Leaves, TypeOK, Located, Elsewhere, StreamStates, Callers, shape,
     gateVars, flagVars, callVars, localVars, loopVars, ghostVars
<1>10. ASSUME NEW u \in Users, NEW s \in Streams, StepResolves(u, s) PROVE Located'
  BY <1>10 DEF StepResolves, Enters, Resolvable, TypeOK, Located, Elsewhere, StreamStates,
     Callers, shape, gateVars, flagVars, callVars, localVars, loopVars, ghostVars
<1>11. ASSUME NEW u \in Users, NEW s \in Streams, ResetResolves(u, s) PROVE Located'
  BY <1>11 DEF ResetResolves, Enters, Resolvable, TypeOK, Located, Elsewhere, StreamStates,
     Callers, shape, gateVars, flagVars, callVars, localVars, loopVars, ghostVars
<1>12. ASSUME NEW u \in Users, NEW s \in Streams, CloseResolves(u, s) PROVE Located'
  BY <1>12 DEF CloseResolves, Enters, Resolvable, TypeOK, Located, Elsewhere, StreamStates,
     Callers, shape, gateVars, flagVars, callVars, localVars, loopVars, ghostVars
<1>13. ASSUME NEW c \in Callers, ResetMarks(c) PROVE Located'
  BY <1>13 DEF ResetMarks, MarkReset, Goes, TypeOK, Located, Elsewhere, StreamStates,
     Callers, shape, gateVars, flagVars, callVars, localVars, loopVars, ghostVars
<1>14. ASSUME NEW c \in Callers, ResetWaits(c) PROVE Located'
  BY <1>14 DEF ResetWaits, Goes, TypeOK, Located, Elsewhere, StreamStates, Callers, shape,
     gateVars, flagVars, callVars, localVars, loopVars, ghostVars
<1>15. ASSUME NEW c \in Callers, ResetRefused(c) PROVE Located'
  BY <1>15 DEF ResetRefused, Back, Leaves, TypeOK, Located, Elsewhere, StreamStates, Callers,
     shape, gateVars, flagVars, callVars, localVars, loopVars, ghostVars
<1>16. ASSUME NEW c \in Callers, ResetProceeds(c) PROVE Located'
  BY <1>16 DEF ResetProceeds, MarkReset, Goes, TypeOK, Located, Elsewhere, StreamStates,
     Callers, shape, gateVars, flagVars, callVars, localVars, loopVars, ghostVars
<1>17. ASSUME NEW c \in Callers, ResetSucceeds(c) PROVE Located'
  BY <1>17 DEF ResetSucceeds, FinishReset, Back, Leaves, TypeOK, Located, Elsewhere,
     StreamStates, Callers, shape, gateVars, flagVars, callVars, localVars, loopVars, ghostVars
<1>18. ASSUME NEW c \in Callers, ResetFails(c) PROVE Located'
  <2>1. PICK left \in {"FAILED", "RESET_REQUIRED"} : FinishReset(c, left, "FAILED", FALSE)
    BY <1>18 DEF ResetFails
  <2> QED
    BY <1>18, <2>1 DEF ResetFails, FinishReset, Back, Leaves, TypeOK, Located, Elsewhere,
       StreamStates, Callers, shape, gateVars, flagVars, callVars, localVars, loopVars, ghostVars
<1>19. ASSUME NEW c \in Callers, ResetUnsupported(c) PROVE Located'
  BY <1>19 DEF ResetUnsupported, FinishReset, Back, Leaves, TypeOK, Located, Elsewhere,
     StreamStates, Callers, shape, gateVars, flagVars, callVars, localVars, loopVars, ghostVars
<1>20. ASSUME NEW c \in Callers, CloseMarks(c) PROVE Located'
  BY <1>20 DEF CloseMarks, MarkClosing, Goes, TypeOK, Located, Elsewhere, StreamStates,
     Callers, shape, gateVars, flagVars, callVars, localVars, loopVars, ghostVars
<1>21. ASSUME NEW c \in Callers, CloseWaits(c) PROVE Located'
  BY <1>21 DEF CloseWaits, Goes, TypeOK, Located, Elsewhere, StreamStates, Callers, shape,
     gateVars, flagVars, callVars, localVars, loopVars, ghostVars
<1>22. ASSUME NEW c \in Callers, CloseUnneeded(c) PROVE Located'
  BY <1>22 DEF CloseUnneeded, Back, Leaves, TypeOK, Located, Elsewhere, StreamStates,
     Callers, shape, gateVars, flagVars, callVars, localVars, loopVars, ghostVars
<1>23. ASSUME NEW c \in Callers, CloseProceeds(c) PROVE Located'
  BY <1>23 DEF CloseProceeds, MarkClosing, Goes, TypeOK, Located, Elsewhere, StreamStates,
     Callers, shape, gateVars, flagVars, callVars, localVars, loopVars, ghostVars
<1>24. ASSUME NEW c \in Callers, CloseReturns(c) PROVE Located'
  BY <1>24 DEF CloseReturns, Back, Leaves, TypeOK, Located, Elsewhere, StreamStates, Callers,
     shape, gateVars, flagVars, callVars, localVars, loopVars, ghostVars
<1>25. ASSUME NEW c \in Callers, WaitExpires(c) PROVE Located'
  BY <1>25 DEF WaitExpires, Back, Leaves, TypeOK, Located, Elsewhere, StreamStates, Callers,
     shape, gateVars, flagVars, callVars, localVars, loopVars, ghostVars
<1>26. ASSUME RuntimeResetBegins PROVE Located'
  BY <1>26 DEF RuntimeResetBegins, Drains, AfterReset, OpenStreams, stays, TypeOK, Located,
     Elsewhere, StreamStates, Callers, shape, gateVars, flagVars, callVars, localVars, loopVars,
     ghostVars
<1>27. ASSUME RuntimeResetTimesOut PROVE Located'
  BY <1>27 DEF RuntimeResetTimesOut, stays, TypeOK, Located, Elsewhere, StreamStates,
     Callers, shape, gateVars, flagVars, callVars, localVars, loopVars, ghostVars
<1>28. ASSUME RuntimeCloseBegins PROVE Located'
  BY <1>28 DEF RuntimeCloseBegins, Drains, OpenStreams, stays, TypeOK, Located, Elsewhere,
     StreamStates, Callers, shape, gateVars, flagVars, callVars, localVars, loopVars, ghostVars
<1>29. ASSUME RuntimeCloseTimesOut PROVE Located'
  BY <1>29 DEF RuntimeCloseTimesOut, stays, TypeOK, Located, Elsewhere, StreamStates,
     Callers, shape, gateVars, flagVars, callVars, localVars, loopVars, ghostVars
<1>30. ASSUME RuntimeDrained PROVE Located'
  BY <1>30 DEF RuntimeDrained, Drains, AfterReset, OpenStreams, stays, TypeOK, Located,
     Elsewhere, StreamStates, Callers, shape, gateVars, flagVars, callVars, localVars, loopVars,
     ghostVars
<1>31. ASSUME NEW s \in Streams, RuntimeResets(s) PROVE Located'
  BY <1>31 DEF RuntimeResets, ResetResolves, Enters, Resolvable, TypeOK, Located, Elsewhere,
     StreamStates, Callers, shape, gateVars, flagVars, callVars, localVars, loopVars, ghostVars
<1>32. ASSUME NEW s \in Streams, RuntimeMisses(s) PROVE Located'
  BY <1>32 DEF RuntimeMisses, stays, TypeOK, Located, Elsewhere, StreamStates, Callers,
     shape, gateVars, flagVars, callVars, localVars, loopVars, ghostVars
<1>33. ASSUME NEW s \in Streams, RuntimeCloses(s) PROVE Located'
  BY <1>33 DEF RuntimeCloses, Enters, stays, TypeOK, Located, Elsewhere, StreamStates,
     Callers, shape, gateVars, flagVars, callVars, localVars, loopVars, ghostVars
<1>34. ASSUME RuntimeResetDone PROVE Located'
  BY <1>34 DEF RuntimeResetDone, stays, TypeOK, Located, Elsewhere, StreamStates, Callers,
     shape, gateVars, flagVars, callVars, localVars, loopVars, ghostVars
<1>35. ASSUME RuntimeResetFails PROVE Located'
  BY <1>35 DEF RuntimeResetFails, stays, TypeOK, Located, Elsewhere, StreamStates, Callers,
     shape, gateVars, flagVars, callVars, localVars, loopVars, ghostVars
<1>36. ASSUME RuntimeCloseDone PROVE Located'
  BY <1>36 DEF RuntimeCloseDone, stays, TypeOK, Located, Elsewhere, StreamStates, Callers,
     shape, gateVars, flagVars, callVars, localVars, loopVars, ghostVars
<1>37. ASSUME UNCHANGED vars PROVE Located'
  BY <1>37 DEF vars, TypeOK, Located, Elsewhere, StreamStates, Callers, shape, gateVars,
     flagVars, callVars, localVars, loopVars, ghostVars
<1> QED
  BY <1>1, <1>2, <1>3, <1>4, <1>5, <1>6, <1>7, <1>8, <1>9, <1>10, <1>11, <1>12, <1>13, <1>14,
     <1>15, <1>16, <1>17, <1>18, <1>19, <1>20, <1>21, <1>22, <1>23, <1>24, <1>25, <1>26, <1>27,
     <1>28, <1>29, <1>30, <1>31, <1>32, <1>33, <1>34, <1>35, <1>36, <1>37 DEF Next, UserBegins,
     UserWork, StreamControl, RuntimeBegins, RuntimeWork, Expires

\* Every step keeps what a caller inside a step relies on.
LEMMA SteppedNext ==
  ASSUME TypeOK, TypeOK', Located, Stepped, Held, [Next]_vars PROVE Stepped'
<1>1. ASSUME NEW u \in Users, OpenReserves(u) PROVE Stepped'
  BY <1>1 DEF OpenReserves, Goes, TypeOK, Located, Stepped, Held, Elsewhere, Steps, Holds,
     Callers, Unoccupied, shape, gateVars, flagVars, callVars, localVars, loopVars, ghostVars
<1>2. ASSUME NEW u \in Users, OpenInserts(u) PROVE Stepped'
  BY <1>2 DEF OpenInserts, Goes, TypeOK, Located, Stepped, Held, Elsewhere, Steps, Holds,
     Callers, Unoccupied, shape, gateVars, flagVars, callVars, localVars, loopVars, ghostVars
<1>3. ASSUME NEW u \in Users, OpenFails(u) PROVE Stepped'
  BY <1>3 DEF OpenFails, Leaves, TypeOK, Located, Stepped, Held, Elsewhere, Steps, Holds,
     Callers, Unoccupied, shape, gateVars, flagVars, callVars, localVars, loopVars, ghostVars
<1>4. ASSUME NEW u \in Users, OpenReturns(u) PROVE Stepped'
  BY <1>4 DEF OpenReturns, Leaves, TypeOK, Located, Stepped, Held, Elsewhere, Steps, Holds,
     Callers, Unoccupied, shape, gateVars, flagVars, callVars, localVars, loopVars, ghostVars
<1>5. ASSUME NEW u \in Users, StepChecks(u) PROVE Stepped'
  BY <1>5 DEF StepChecks, Goes, Leaves, TypeOK, Located, Stepped, Held, Elsewhere, Steps,
     Holds, Callers, Unoccupied, shape, gateVars, flagVars, callVars, localVars, loopVars,
     ghostVars
<1>6. ASSUME NEW u \in Users, StepStarts(u) PROVE Stepped'
  BY <1>6 DEF StepStarts, Goes, TypeOK, Located, Stepped, Held, Elsewhere, Steps, Holds,
     Callers, Unoccupied, shape, gateVars, flagVars, callVars, localVars, loopVars, ghostVars
<1>7. ASSUME NEW u \in Users, StepGivesUp(u) PROVE Stepped'
  BY <1>7 DEF StepGivesUp, Leaves, TypeOK, Located, Stepped, Held, Elsewhere, Steps, Holds,
     Callers, Unoccupied, shape, gateVars, flagVars, callVars, localVars, loopVars, ghostVars
<1>8. ASSUME NEW u \in Users, StepUncertain(u) PROVE Stepped'
  BY <1>8 DEF StepUncertain, Goes, TypeOK, Located, Stepped, Held, Elsewhere, Steps, Holds,
     Callers, Unoccupied, shape, gateVars, flagVars, callVars, localVars, loopVars, ghostVars
<1>9. ASSUME NEW u \in Users, StepEnds(u) PROVE Stepped'
  BY <1>9 DEF StepEnds, Leaves, TypeOK, Located, Stepped, Held, Elsewhere, Steps, Holds,
     Callers, Unoccupied, shape, gateVars, flagVars, callVars, localVars, loopVars, ghostVars
<1>10. ASSUME NEW u \in Users, NEW s \in Streams, StepResolves(u, s) PROVE Stepped'
  BY <1>10 DEF StepResolves, Enters, Resolvable, TypeOK, Located, Stepped, Held, Elsewhere,
     Steps, Holds, Callers, Unoccupied, shape, gateVars, flagVars, callVars, localVars,
     loopVars, ghostVars
<1>11. ASSUME NEW u \in Users, NEW s \in Streams, ResetResolves(u, s) PROVE Stepped'
  BY <1>11 DEF ResetResolves, Enters, Resolvable, TypeOK, Located, Stepped, Held, Elsewhere,
     Steps, Holds, Callers, Unoccupied, shape, gateVars, flagVars, callVars, localVars,
     loopVars, ghostVars
<1>12. ASSUME NEW u \in Users, NEW s \in Streams, CloseResolves(u, s) PROVE Stepped'
  BY <1>12 DEF CloseResolves, Enters, Resolvable, TypeOK, Located, Stepped, Held, Elsewhere,
     Steps, Holds, Callers, Unoccupied, shape, gateVars, flagVars, callVars, localVars,
     loopVars, ghostVars
<1>13. ASSUME NEW c \in Callers, ResetMarks(c) PROVE Stepped'
  BY <1>13 DEF ResetMarks, MarkReset, Goes, TypeOK, Located, Stepped, Held, Elsewhere, Steps,
     Holds, Callers, Unoccupied, shape, gateVars, flagVars, callVars, localVars, loopVars,
     ghostVars
<1>14. ASSUME NEW c \in Callers, ResetWaits(c) PROVE Stepped'
  BY <1>14 DEF ResetWaits, Goes, TypeOK, Located, Stepped, Held, Elsewhere, Steps, Holds,
     Callers, Unoccupied, shape, gateVars, flagVars, callVars, localVars, loopVars, ghostVars
<1>15. ASSUME NEW c \in Callers, ResetRefused(c) PROVE Stepped'
  BY <1>15 DEF ResetRefused, Back, Leaves, TypeOK, Located, Stepped, Held, Elsewhere, Steps,
     Holds, Callers, Unoccupied, shape, gateVars, flagVars, callVars, localVars, loopVars,
     ghostVars
<1>16. ASSUME NEW c \in Callers, ResetProceeds(c) PROVE Stepped'
  BY <1>16 DEF ResetProceeds, MarkReset, Goes, TypeOK, Located, Stepped, Held, Elsewhere,
     Steps, Holds, Callers, Unoccupied, shape, gateVars, flagVars, callVars, localVars,
     loopVars, ghostVars
<1>17. ASSUME NEW c \in Callers, ResetSucceeds(c) PROVE Stepped'
  BY <1>17 DEF ResetSucceeds, FinishReset, Back, Leaves, TypeOK, Located, Stepped, Held,
     Elsewhere, Steps, Holds, Callers, Unoccupied, shape, gateVars, flagVars, callVars,
     localVars, loopVars, ghostVars
<1>18. ASSUME NEW c \in Callers, ResetFails(c) PROVE Stepped'
  <2>1. PICK left \in {"FAILED", "RESET_REQUIRED"} : FinishReset(c, left, "FAILED", FALSE)
    BY <1>18 DEF ResetFails
  <2> QED
    BY <1>18, <2>1 DEF ResetFails, FinishReset, Back, Leaves, TypeOK, Located, Stepped, Held,
       Elsewhere, Steps, Holds, Callers, Unoccupied, shape, gateVars, flagVars, callVars,
       localVars, loopVars, ghostVars
<1>19. ASSUME NEW c \in Callers, ResetUnsupported(c) PROVE Stepped'
  BY <1>19 DEF ResetUnsupported, FinishReset, Back, Leaves, TypeOK, Located, Stepped, Held,
     Elsewhere, Steps, Holds, Callers, Unoccupied, shape, gateVars, flagVars, callVars,
     localVars, loopVars, ghostVars
<1>20. ASSUME NEW c \in Callers, CloseMarks(c) PROVE Stepped'
  BY <1>20 DEF CloseMarks, MarkClosing, Goes, TypeOK, Located, Stepped, Held, Elsewhere,
     Steps, Holds, Callers, Unoccupied, shape, gateVars, flagVars, callVars, localVars,
     loopVars, ghostVars
<1>21. ASSUME NEW c \in Callers, CloseWaits(c) PROVE Stepped'
  BY <1>21 DEF CloseWaits, Goes, TypeOK, Located, Stepped, Held, Elsewhere, Steps, Holds,
     Callers, Unoccupied, shape, gateVars, flagVars, callVars, localVars, loopVars, ghostVars
<1>22. ASSUME NEW c \in Callers, CloseUnneeded(c) PROVE Stepped'
  BY <1>22 DEF CloseUnneeded, Back, Leaves, TypeOK, Located, Stepped, Held, Elsewhere, Steps,
     Holds, Callers, Unoccupied, shape, gateVars, flagVars, callVars, localVars, loopVars,
     ghostVars
<1>23. ASSUME NEW c \in Callers, CloseProceeds(c) PROVE Stepped'
  BY <1>23 DEF CloseProceeds, MarkClosing, Goes, TypeOK, Located, Stepped, Held, Elsewhere,
     Steps, Holds, Callers, Unoccupied, shape, gateVars, flagVars, callVars, localVars,
     loopVars, ghostVars
<1>24. ASSUME NEW c \in Callers, CloseReturns(c) PROVE Stepped'
  BY <1>24 DEF CloseReturns, Back, Leaves, TypeOK, Located, Stepped, Held, Elsewhere, Steps,
     Holds, Callers, Unoccupied, shape, gateVars, flagVars, callVars, localVars, loopVars,
     ghostVars
<1>25. ASSUME NEW c \in Callers, WaitExpires(c) PROVE Stepped'
  BY <1>25 DEF WaitExpires, Back, Leaves, TypeOK, Located, Stepped, Held, Elsewhere, Steps,
     Holds, Callers, Unoccupied, shape, gateVars, flagVars, callVars, localVars, loopVars,
     ghostVars
<1>26. ASSUME RuntimeResetBegins PROVE Stepped'
  BY <1>26 DEF RuntimeResetBegins, Drains, AfterReset, OpenStreams, stays, TypeOK, Located,
     Stepped, Held, Elsewhere, Steps, Holds, Callers, Unoccupied, shape, gateVars, flagVars,
     callVars, localVars, loopVars, ghostVars
<1>27. ASSUME RuntimeResetTimesOut PROVE Stepped'
  BY <1>27 DEF RuntimeResetTimesOut, stays, TypeOK, Located, Stepped, Held, Elsewhere, Steps,
     Holds, Callers, Unoccupied, shape, gateVars, flagVars, callVars, localVars, loopVars,
     ghostVars
<1>28. ASSUME RuntimeCloseBegins PROVE Stepped'
  BY <1>28 DEF RuntimeCloseBegins, Drains, OpenStreams, stays, TypeOK, Located, Stepped,
     Held, Elsewhere, Steps, Holds, Callers, Unoccupied, shape, gateVars, flagVars, callVars,
     localVars, loopVars, ghostVars
<1>29. ASSUME RuntimeCloseTimesOut PROVE Stepped'
  BY <1>29 DEF RuntimeCloseTimesOut, stays, TypeOK, Located, Stepped, Held, Elsewhere, Steps,
     Holds, Callers, Unoccupied, shape, gateVars, flagVars, callVars, localVars, loopVars,
     ghostVars
<1>30. ASSUME RuntimeDrained PROVE Stepped'
  BY <1>30 DEF RuntimeDrained, Drains, AfterReset, OpenStreams, stays, TypeOK, Located,
     Stepped, Held, Elsewhere, Steps, Holds, Callers, Unoccupied, shape, gateVars, flagVars,
     callVars, localVars, loopVars, ghostVars
<1>31. ASSUME NEW s \in Streams, RuntimeResets(s) PROVE Stepped'
  BY <1>31 DEF RuntimeResets, ResetResolves, Enters, Resolvable, TypeOK, Located, Stepped,
     Held, Elsewhere, Steps, Holds, Callers, Unoccupied, shape, gateVars, flagVars, callVars,
     localVars, loopVars, ghostVars
<1>32. ASSUME NEW s \in Streams, RuntimeMisses(s) PROVE Stepped'
  BY <1>32 DEF RuntimeMisses, stays, TypeOK, Located, Stepped, Held, Elsewhere, Steps, Holds,
     Callers, Unoccupied, shape, gateVars, flagVars, callVars, localVars, loopVars, ghostVars
<1>33. ASSUME NEW s \in Streams, RuntimeCloses(s) PROVE Stepped'
  BY <1>33 DEF RuntimeCloses, Enters, stays, TypeOK, Located, Stepped, Held, Elsewhere,
     Steps, Holds, Callers, Unoccupied, shape, gateVars, flagVars, callVars, localVars,
     loopVars, ghostVars
<1>34. ASSUME RuntimeResetDone PROVE Stepped'
  BY <1>34 DEF RuntimeResetDone, stays, TypeOK, Located, Stepped, Held, Elsewhere, Steps,
     Holds, Callers, Unoccupied, shape, gateVars, flagVars, callVars, localVars, loopVars,
     ghostVars
<1>35. ASSUME RuntimeResetFails PROVE Stepped'
  BY <1>35 DEF RuntimeResetFails, stays, TypeOK, Located, Stepped, Held, Elsewhere, Steps,
     Holds, Callers, Unoccupied, shape, gateVars, flagVars, callVars, localVars, loopVars,
     ghostVars
<1>36. ASSUME RuntimeCloseDone PROVE Stepped'
  BY <1>36 DEF RuntimeCloseDone, stays, TypeOK, Located, Stepped, Held, Elsewhere, Steps,
     Holds, Callers, Unoccupied, shape, gateVars, flagVars, callVars, localVars, loopVars,
     ghostVars
<1>37. ASSUME UNCHANGED vars PROVE Stepped'
  BY <1>37 DEF vars, TypeOK, Located, Stepped, Held, Elsewhere, Steps, Holds, Callers,
     Unoccupied, shape, gateVars, flagVars, callVars, localVars, loopVars, ghostVars
<1> QED
  BY <1>1, <1>2, <1>3, <1>4, <1>5, <1>6, <1>7, <1>8, <1>9, <1>10, <1>11, <1>12, <1>13, <1>14,
     <1>15, <1>16, <1>17, <1>18, <1>19, <1>20, <1>21, <1>22, <1>23, <1>24, <1>25, <1>26, <1>27,
     <1>28, <1>29, <1>30, <1>31, <1>32, <1>33, <1>34, <1>35, <1>36, <1>37 DEF Next, UserBegins,
     UserWork, StreamControl, RuntimeBegins, RuntimeWork, Expires

\* Every step keeps what a caller holds.
LEMMA HeldNext ==
  ASSUME TypeOK, TypeOK', Located, Stepped, Held, [Next]_vars PROVE Held'
<1>1. ASSUME NEW u \in Users, OpenReserves(u) PROVE Held'
  BY <1>1 DEF OpenReserves, Goes, TypeOK, Located, Stepped, Held, Elsewhere, Steps, Holds,
     Callers, Unoccupied, shape, gateVars, flagVars, callVars, localVars, loopVars, ghostVars
<1>2. ASSUME NEW u \in Users, OpenInserts(u) PROVE Held'
  BY <1>2 DEF OpenInserts, Goes, TypeOK, Located, Stepped, Held, Elsewhere, Steps, Holds,
     Callers, Unoccupied, shape, gateVars, flagVars, callVars, localVars, loopVars, ghostVars
<1>3. ASSUME NEW u \in Users, OpenFails(u) PROVE Held'
  BY <1>3 DEF OpenFails, Leaves, TypeOK, Located, Stepped, Held, Elsewhere, Steps, Holds,
     Callers, Unoccupied, shape, gateVars, flagVars, callVars, localVars, loopVars, ghostVars
<1>4. ASSUME NEW u \in Users, OpenReturns(u) PROVE Held'
  BY <1>4 DEF OpenReturns, Leaves, TypeOK, Located, Stepped, Held, Elsewhere, Steps, Holds,
     Callers, Unoccupied, shape, gateVars, flagVars, callVars, localVars, loopVars, ghostVars
<1>5. ASSUME NEW u \in Users, StepChecks(u) PROVE Held'
  BY <1>5 DEF StepChecks, Goes, Leaves, TypeOK, Located, Stepped, Held, Elsewhere, Steps,
     Holds, Callers, Unoccupied, shape, gateVars, flagVars, callVars, localVars, loopVars,
     ghostVars
<1>6. ASSUME NEW u \in Users, StepStarts(u) PROVE Held'
  BY <1>6 DEF StepStarts, Goes, TypeOK, Located, Stepped, Held, Elsewhere, Steps, Holds,
     Callers, Unoccupied, shape, gateVars, flagVars, callVars, localVars, loopVars, ghostVars
<1>7. ASSUME NEW u \in Users, StepGivesUp(u) PROVE Held'
  BY <1>7 DEF StepGivesUp, Leaves, TypeOK, Located, Stepped, Held, Elsewhere, Steps, Holds,
     Callers, Unoccupied, shape, gateVars, flagVars, callVars, localVars, loopVars, ghostVars
<1>8. ASSUME NEW u \in Users, StepUncertain(u) PROVE Held'
  BY <1>8 DEF StepUncertain, Goes, TypeOK, Located, Stepped, Held, Elsewhere, Steps, Holds,
     Callers, Unoccupied, shape, gateVars, flagVars, callVars, localVars, loopVars, ghostVars
<1>9. ASSUME NEW u \in Users, StepEnds(u) PROVE Held'
  BY <1>9 DEF StepEnds, Leaves, TypeOK, Located, Stepped, Held, Elsewhere, Steps, Holds,
     Callers, Unoccupied, shape, gateVars, flagVars, callVars, localVars, loopVars, ghostVars
<1>10. ASSUME NEW u \in Users, NEW s \in Streams, StepResolves(u, s) PROVE Held'
  BY <1>10 DEF StepResolves, Enters, Resolvable, TypeOK, Located, Stepped, Held, Elsewhere,
     Steps, Holds, Callers, Unoccupied, shape, gateVars, flagVars, callVars, localVars,
     loopVars, ghostVars
<1>11. ASSUME NEW u \in Users, NEW s \in Streams, ResetResolves(u, s) PROVE Held'
  BY <1>11 DEF ResetResolves, Enters, Resolvable, TypeOK, Located, Stepped, Held, Elsewhere,
     Steps, Holds, Callers, Unoccupied, shape, gateVars, flagVars, callVars, localVars,
     loopVars, ghostVars
<1>12. ASSUME NEW u \in Users, NEW s \in Streams, CloseResolves(u, s) PROVE Held'
  BY <1>12 DEF CloseResolves, Enters, Resolvable, TypeOK, Located, Stepped, Held, Elsewhere,
     Steps, Holds, Callers, Unoccupied, shape, gateVars, flagVars, callVars, localVars,
     loopVars, ghostVars
<1>13. ASSUME NEW c \in Callers, ResetMarks(c) PROVE Held'
  BY <1>13 DEF ResetMarks, MarkReset, Goes, TypeOK, Located, Stepped, Held, Elsewhere, Steps,
     Holds, Callers, Unoccupied, shape, gateVars, flagVars, callVars, localVars, loopVars,
     ghostVars
<1>14. ASSUME NEW c \in Callers, ResetWaits(c) PROVE Held'
  BY <1>14 DEF ResetWaits, Goes, TypeOK, Located, Stepped, Held, Elsewhere, Steps, Holds,
     Callers, Unoccupied, shape, gateVars, flagVars, callVars, localVars, loopVars, ghostVars
<1>15. ASSUME NEW c \in Callers, ResetRefused(c) PROVE Held'
  BY <1>15 DEF ResetRefused, Back, Leaves, TypeOK, Located, Stepped, Held, Elsewhere, Steps,
     Holds, Callers, Unoccupied, shape, gateVars, flagVars, callVars, localVars, loopVars,
     ghostVars
<1>16. ASSUME NEW c \in Callers, ResetProceeds(c) PROVE Held'
  BY <1>16 DEF ResetProceeds, MarkReset, Goes, TypeOK, Located, Stepped, Held, Elsewhere,
     Steps, Holds, Callers, Unoccupied, shape, gateVars, flagVars, callVars, localVars,
     loopVars, ghostVars
<1>17. ASSUME NEW c \in Callers, ResetSucceeds(c) PROVE Held'
  BY <1>17 DEF ResetSucceeds, FinishReset, Back, Leaves, TypeOK, Located, Stepped, Held,
     Elsewhere, Steps, Holds, Callers, Unoccupied, shape, gateVars, flagVars, callVars,
     localVars, loopVars, ghostVars
<1>18. ASSUME NEW c \in Callers, ResetFails(c) PROVE Held'
  <2>1. PICK left \in {"FAILED", "RESET_REQUIRED"} : FinishReset(c, left, "FAILED", FALSE)
    BY <1>18 DEF ResetFails
  <2> QED
    BY <1>18, <2>1 DEF ResetFails, FinishReset, Back, Leaves, TypeOK, Located, Stepped, Held,
       Elsewhere, Steps, Holds, Callers, Unoccupied, shape, gateVars, flagVars, callVars,
       localVars, loopVars, ghostVars
<1>19. ASSUME NEW c \in Callers, ResetUnsupported(c) PROVE Held'
  BY <1>19 DEF ResetUnsupported, FinishReset, Back, Leaves, TypeOK, Located, Stepped, Held,
     Elsewhere, Steps, Holds, Callers, Unoccupied, shape, gateVars, flagVars, callVars,
     localVars, loopVars, ghostVars
<1>20. ASSUME NEW c \in Callers, CloseMarks(c) PROVE Held'
  BY <1>20 DEF CloseMarks, MarkClosing, Goes, TypeOK, Located, Stepped, Held, Elsewhere,
     Steps, Holds, Callers, Unoccupied, shape, gateVars, flagVars, callVars, localVars,
     loopVars, ghostVars
<1>21. ASSUME NEW c \in Callers, CloseWaits(c) PROVE Held'
  BY <1>21 DEF CloseWaits, Goes, TypeOK, Located, Stepped, Held, Elsewhere, Steps, Holds,
     Callers, Unoccupied, shape, gateVars, flagVars, callVars, localVars, loopVars, ghostVars
<1>22. ASSUME NEW c \in Callers, CloseUnneeded(c) PROVE Held'
  BY <1>22 DEF CloseUnneeded, Back, Leaves, TypeOK, Located, Stepped, Held, Elsewhere, Steps,
     Holds, Callers, Unoccupied, shape, gateVars, flagVars, callVars, localVars, loopVars,
     ghostVars
<1>23. ASSUME NEW c \in Callers, CloseProceeds(c) PROVE Held'
  BY <1>23 DEF CloseProceeds, MarkClosing, Goes, TypeOK, Located, Stepped, Held, Elsewhere,
     Steps, Holds, Callers, Unoccupied, shape, gateVars, flagVars, callVars, localVars,
     loopVars, ghostVars
<1>24. ASSUME NEW c \in Callers, CloseReturns(c) PROVE Held'
  BY <1>24 DEF CloseReturns, Back, Leaves, TypeOK, Located, Stepped, Held, Elsewhere, Steps,
     Holds, Callers, Unoccupied, shape, gateVars, flagVars, callVars, localVars, loopVars,
     ghostVars
<1>25. ASSUME NEW c \in Callers, WaitExpires(c) PROVE Held'
  BY <1>25 DEF WaitExpires, Back, Leaves, TypeOK, Located, Stepped, Held, Elsewhere, Steps,
     Holds, Callers, Unoccupied, shape, gateVars, flagVars, callVars, localVars, loopVars,
     ghostVars
<1>26. ASSUME RuntimeResetBegins PROVE Held'
  BY <1>26 DEF RuntimeResetBegins, Drains, AfterReset, OpenStreams, stays, TypeOK, Located,
     Stepped, Held, Elsewhere, Steps, Holds, Callers, Unoccupied, shape, gateVars, flagVars,
     callVars, localVars, loopVars, ghostVars
<1>27. ASSUME RuntimeResetTimesOut PROVE Held'
  BY <1>27 DEF RuntimeResetTimesOut, stays, TypeOK, Located, Stepped, Held, Elsewhere, Steps,
     Holds, Callers, Unoccupied, shape, gateVars, flagVars, callVars, localVars, loopVars,
     ghostVars
<1>28. ASSUME RuntimeCloseBegins PROVE Held'
  BY <1>28 DEF RuntimeCloseBegins, Drains, OpenStreams, stays, TypeOK, Located, Stepped,
     Held, Elsewhere, Steps, Holds, Callers, Unoccupied, shape, gateVars, flagVars, callVars,
     localVars, loopVars, ghostVars
<1>29. ASSUME RuntimeCloseTimesOut PROVE Held'
  BY <1>29 DEF RuntimeCloseTimesOut, stays, TypeOK, Located, Stepped, Held, Elsewhere, Steps,
     Holds, Callers, Unoccupied, shape, gateVars, flagVars, callVars, localVars, loopVars,
     ghostVars
<1>30. ASSUME RuntimeDrained PROVE Held'
  BY <1>30 DEF RuntimeDrained, Drains, AfterReset, OpenStreams, stays, TypeOK, Located,
     Stepped, Held, Elsewhere, Steps, Holds, Callers, Unoccupied, shape, gateVars, flagVars,
     callVars, localVars, loopVars, ghostVars
<1>31. ASSUME NEW s \in Streams, RuntimeResets(s) PROVE Held'
  BY <1>31 DEF RuntimeResets, ResetResolves, Enters, Resolvable, TypeOK, Located, Stepped,
     Held, Elsewhere, Steps, Holds, Callers, Unoccupied, shape, gateVars, flagVars, callVars,
     localVars, loopVars, ghostVars
<1>32. ASSUME NEW s \in Streams, RuntimeMisses(s) PROVE Held'
  BY <1>32 DEF RuntimeMisses, stays, TypeOK, Located, Stepped, Held, Elsewhere, Steps, Holds,
     Callers, Unoccupied, shape, gateVars, flagVars, callVars, localVars, loopVars, ghostVars
<1>33. ASSUME NEW s \in Streams, RuntimeCloses(s) PROVE Held'
  BY <1>33 DEF RuntimeCloses, Enters, stays, TypeOK, Located, Stepped, Held, Elsewhere,
     Steps, Holds, Callers, Unoccupied, shape, gateVars, flagVars, callVars, localVars,
     loopVars, ghostVars
<1>34. ASSUME RuntimeResetDone PROVE Held'
  BY <1>34 DEF RuntimeResetDone, stays, TypeOK, Located, Stepped, Held, Elsewhere, Steps,
     Holds, Callers, Unoccupied, shape, gateVars, flagVars, callVars, localVars, loopVars,
     ghostVars
<1>35. ASSUME RuntimeResetFails PROVE Held'
  BY <1>35 DEF RuntimeResetFails, stays, TypeOK, Located, Stepped, Held, Elsewhere, Steps,
     Holds, Callers, Unoccupied, shape, gateVars, flagVars, callVars, localVars, loopVars,
     ghostVars
<1>36. ASSUME RuntimeCloseDone PROVE Held'
  BY <1>36 DEF RuntimeCloseDone, stays, TypeOK, Located, Stepped, Held, Elsewhere, Steps,
     Holds, Callers, Unoccupied, shape, gateVars, flagVars, callVars, localVars, loopVars,
     ghostVars
<1>37. ASSUME UNCHANGED vars PROVE Held'
  BY <1>37 DEF vars, TypeOK, Located, Stepped, Held, Elsewhere, Steps, Holds, Callers,
     Unoccupied, shape, gateVars, flagVars, callVars, localVars, loopVars, ghostVars
<1> QED
  BY <1>1, <1>2, <1>3, <1>4, <1>5, <1>6, <1>7, <1>8, <1>9, <1>10, <1>11, <1>12, <1>13, <1>14,
     <1>15, <1>16, <1>17, <1>18, <1>19, <1>20, <1>21, <1>22, <1>23, <1>24, <1>25, <1>26, <1>27,
     <1>28, <1>29, <1>30, <1>31, <1>32, <1>33, <1>34, <1>35, <1>36, <1>37 DEF Next, UserBegins,
     UserWork, StreamControl, RuntimeBegins, RuntimeWork, Expires

-----------------------------------------------------------------------------
(* Who opens the admission.                                                *)

\* Every step keeps the lifecycle with the control that moved it.
LEMMA GatedNext ==
  ASSUME TypeOK, TypeOK', Gated, [Next]_vars PROVE Gated'
<1>1. ASSUME NEW u \in Users, OpenReserves(u) PROVE Gated'
  BY <1>1 DEF OpenReserves, Goes, TypeOK, Gated, ResetPhases, ClosePhases, LegalTransitions,
     Callers, shape, gateVars, flagVars, callVars, localVars, loopVars, ghostVars
<1>2. ASSUME NEW u \in Users, OpenInserts(u) PROVE Gated'
  BY <1>2 DEF OpenInserts, Goes, TypeOK, Gated, ResetPhases, ClosePhases, LegalTransitions,
     Callers, shape, gateVars, flagVars, callVars, localVars, loopVars, ghostVars
<1>3. ASSUME NEW u \in Users, OpenFails(u) PROVE Gated'
  BY <1>3 DEF OpenFails, Leaves, TypeOK, Gated, ResetPhases, ClosePhases, LegalTransitions,
     Callers, shape, gateVars, flagVars, callVars, localVars, loopVars, ghostVars
<1>4. ASSUME NEW u \in Users, OpenReturns(u) PROVE Gated'
  BY <1>4 DEF OpenReturns, Leaves, TypeOK, Gated, ResetPhases, ClosePhases, LegalTransitions,
     Callers, shape, gateVars, flagVars, callVars, localVars, loopVars, ghostVars
<1>5. ASSUME NEW u \in Users, StepChecks(u) PROVE Gated'
  BY <1>5 DEF StepChecks, Goes, Leaves, TypeOK, Gated, ResetPhases, ClosePhases,
     LegalTransitions, Callers, shape, gateVars, flagVars, callVars, localVars, loopVars,
     ghostVars
<1>6. ASSUME NEW u \in Users, StepStarts(u) PROVE Gated'
  BY <1>6 DEF StepStarts, Goes, TypeOK, Gated, ResetPhases, ClosePhases, LegalTransitions,
     Callers, shape, gateVars, flagVars, callVars, localVars, loopVars, ghostVars
<1>7. ASSUME NEW u \in Users, StepGivesUp(u) PROVE Gated'
  BY <1>7 DEF StepGivesUp, Leaves, TypeOK, Gated, ResetPhases, ClosePhases, LegalTransitions,
     Callers, shape, gateVars, flagVars, callVars, localVars, loopVars, ghostVars
<1>8. ASSUME NEW u \in Users, StepUncertain(u) PROVE Gated'
  BY <1>8 DEF StepUncertain, Goes, TypeOK, Gated, ResetPhases, ClosePhases, LegalTransitions,
     Callers, shape, gateVars, flagVars, callVars, localVars, loopVars, ghostVars
<1>9. ASSUME NEW u \in Users, StepEnds(u) PROVE Gated'
  BY <1>9 DEF StepEnds, Leaves, TypeOK, Gated, ResetPhases, ClosePhases, LegalTransitions,
     Callers, shape, gateVars, flagVars, callVars, localVars, loopVars, ghostVars
<1>10. ASSUME NEW u \in Users, NEW s \in Streams, StepResolves(u, s) PROVE Gated'
  BY <1>10 DEF StepResolves, Enters, Resolvable, TypeOK, Gated, ResetPhases, ClosePhases,
     LegalTransitions, Callers, shape, gateVars, flagVars, callVars, localVars, loopVars,
     ghostVars
<1>11. ASSUME NEW u \in Users, NEW s \in Streams, ResetResolves(u, s) PROVE Gated'
  BY <1>11 DEF ResetResolves, Enters, Resolvable, TypeOK, Gated, ResetPhases, ClosePhases,
     LegalTransitions, Callers, shape, gateVars, flagVars, callVars, localVars, loopVars,
     ghostVars
<1>12. ASSUME NEW u \in Users, NEW s \in Streams, CloseResolves(u, s) PROVE Gated'
  BY <1>12 DEF CloseResolves, Enters, Resolvable, TypeOK, Gated, ResetPhases, ClosePhases,
     LegalTransitions, Callers, shape, gateVars, flagVars, callVars, localVars, loopVars,
     ghostVars
<1>13. ASSUME NEW c \in Callers, ResetMarks(c) PROVE Gated'
  BY <1>13 DEF ResetMarks, MarkReset, Goes, TypeOK, Gated, ResetPhases, ClosePhases,
     LegalTransitions, Callers, shape, gateVars, flagVars, callVars, localVars, loopVars,
     ghostVars
<1>14. ASSUME NEW c \in Callers, ResetWaits(c) PROVE Gated'
  BY <1>14 DEF ResetWaits, Goes, TypeOK, Gated, ResetPhases, ClosePhases, LegalTransitions,
     Callers, shape, gateVars, flagVars, callVars, localVars, loopVars, ghostVars
<1>15. ASSUME NEW c \in Callers, ResetRefused(c) PROVE Gated'
  BY <1>15 DEF ResetRefused, Back, Leaves, TypeOK, Gated, ResetPhases, ClosePhases,
     LegalTransitions, Callers, shape, gateVars, flagVars, callVars, localVars, loopVars,
     ghostVars
<1>16. ASSUME NEW c \in Callers, ResetProceeds(c) PROVE Gated'
  BY <1>16 DEF ResetProceeds, MarkReset, Goes, TypeOK, Gated, ResetPhases, ClosePhases,
     LegalTransitions, Callers, shape, gateVars, flagVars, callVars, localVars, loopVars,
     ghostVars
<1>17. ASSUME NEW c \in Callers, ResetSucceeds(c) PROVE Gated'
  BY <1>17 DEF ResetSucceeds, FinishReset, Back, Leaves, TypeOK, Gated, ResetPhases,
     ClosePhases, LegalTransitions, Callers, shape, gateVars, flagVars, callVars, localVars,
     loopVars, ghostVars
<1>18. ASSUME NEW c \in Callers, ResetFails(c) PROVE Gated'
  <2>1. PICK left \in {"FAILED", "RESET_REQUIRED"} : FinishReset(c, left, "FAILED", FALSE)
    BY <1>18 DEF ResetFails
  <2> QED
    BY <1>18, <2>1 DEF ResetFails, FinishReset, Back, Leaves, TypeOK, Gated, ResetPhases,
       ClosePhases, LegalTransitions, Callers, shape, gateVars, flagVars, callVars, localVars,
       loopVars, ghostVars
<1>19. ASSUME NEW c \in Callers, ResetUnsupported(c) PROVE Gated'
  BY <1>19 DEF ResetUnsupported, FinishReset, Back, Leaves, TypeOK, Gated, ResetPhases,
     ClosePhases, LegalTransitions, Callers, shape, gateVars, flagVars, callVars, localVars,
     loopVars, ghostVars
<1>20. ASSUME NEW c \in Callers, CloseMarks(c) PROVE Gated'
  BY <1>20 DEF CloseMarks, MarkClosing, Goes, TypeOK, Gated, ResetPhases, ClosePhases,
     LegalTransitions, Callers, shape, gateVars, flagVars, callVars, localVars, loopVars,
     ghostVars
<1>21. ASSUME NEW c \in Callers, CloseWaits(c) PROVE Gated'
  BY <1>21 DEF CloseWaits, Goes, TypeOK, Gated, ResetPhases, ClosePhases, LegalTransitions,
     Callers, shape, gateVars, flagVars, callVars, localVars, loopVars, ghostVars
<1>22. ASSUME NEW c \in Callers, CloseUnneeded(c) PROVE Gated'
  BY <1>22 DEF CloseUnneeded, Back, Leaves, TypeOK, Gated, ResetPhases, ClosePhases,
     LegalTransitions, Callers, shape, gateVars, flagVars, callVars, localVars, loopVars,
     ghostVars
<1>23. ASSUME NEW c \in Callers, CloseProceeds(c) PROVE Gated'
  BY <1>23 DEF CloseProceeds, MarkClosing, Goes, TypeOK, Gated, ResetPhases, ClosePhases,
     LegalTransitions, Callers, shape, gateVars, flagVars, callVars, localVars, loopVars,
     ghostVars
<1>24. ASSUME NEW c \in Callers, CloseReturns(c) PROVE Gated'
  BY <1>24 DEF CloseReturns, Back, Leaves, TypeOK, Gated, ResetPhases, ClosePhases,
     LegalTransitions, Callers, shape, gateVars, flagVars, callVars, localVars, loopVars,
     ghostVars
<1>25. ASSUME NEW c \in Callers, WaitExpires(c) PROVE Gated'
  BY <1>25 DEF WaitExpires, Back, Leaves, TypeOK, Gated, ResetPhases, ClosePhases,
     LegalTransitions, Callers, shape, gateVars, flagVars, callVars, localVars, loopVars,
     ghostVars
<1>26. ASSUME RuntimeResetBegins PROVE Gated'
  BY <1>26 DEF RuntimeResetBegins, Drains, AfterReset, OpenStreams, stays, TypeOK, Gated,
     ResetPhases, ClosePhases, LegalTransitions, Callers, shape, gateVars, flagVars, callVars,
     localVars, loopVars, ghostVars
<1>27. ASSUME RuntimeResetTimesOut PROVE Gated'
  BY <1>27 DEF RuntimeResetTimesOut, stays, TypeOK, Gated, ResetPhases, ClosePhases,
     LegalTransitions, Callers, shape, gateVars, flagVars, callVars, localVars, loopVars,
     ghostVars
<1>28. ASSUME RuntimeCloseBegins PROVE Gated'
  BY <1>28 DEF RuntimeCloseBegins, Drains, OpenStreams, stays, TypeOK, Gated, ResetPhases,
     ClosePhases, LegalTransitions, Callers, shape, gateVars, flagVars, callVars, localVars,
     loopVars, ghostVars
<1>29. ASSUME RuntimeCloseTimesOut PROVE Gated'
  BY <1>29 DEF RuntimeCloseTimesOut, stays, TypeOK, Gated, ResetPhases, ClosePhases,
     LegalTransitions, Callers, shape, gateVars, flagVars, callVars, localVars, loopVars,
     ghostVars
<1>30. ASSUME RuntimeDrained PROVE Gated'
  BY <1>30 DEF RuntimeDrained, Drains, AfterReset, OpenStreams, stays, TypeOK, Gated,
     ResetPhases, ClosePhases, LegalTransitions, Callers, shape, gateVars, flagVars, callVars,
     localVars, loopVars, ghostVars
<1>31. ASSUME NEW s \in Streams, RuntimeResets(s) PROVE Gated'
  BY <1>31 DEF RuntimeResets, ResetResolves, Enters, Resolvable, TypeOK, Gated, ResetPhases,
     ClosePhases, LegalTransitions, Callers, shape, gateVars, flagVars, callVars, localVars,
     loopVars, ghostVars
<1>32. ASSUME NEW s \in Streams, RuntimeMisses(s) PROVE Gated'
  BY <1>32 DEF RuntimeMisses, stays, TypeOK, Gated, ResetPhases, ClosePhases,
     LegalTransitions, Callers, shape, gateVars, flagVars, callVars, localVars, loopVars,
     ghostVars
<1>33. ASSUME NEW s \in Streams, RuntimeCloses(s) PROVE Gated'
  BY <1>33 DEF RuntimeCloses, Enters, stays, TypeOK, Gated, ResetPhases, ClosePhases,
     LegalTransitions, Callers, shape, gateVars, flagVars, callVars, localVars, loopVars,
     ghostVars
<1>34. ASSUME RuntimeResetDone PROVE Gated'
  BY <1>34 DEF RuntimeResetDone, stays, TypeOK, Gated, ResetPhases, ClosePhases,
     LegalTransitions, Callers, shape, gateVars, flagVars, callVars, localVars, loopVars,
     ghostVars
<1>35. ASSUME RuntimeResetFails PROVE Gated'
  BY <1>35 DEF RuntimeResetFails, stays, TypeOK, Gated, ResetPhases, ClosePhases,
     LegalTransitions, Callers, shape, gateVars, flagVars, callVars, localVars, loopVars,
     ghostVars
<1>36. ASSUME RuntimeCloseDone PROVE Gated'
  BY <1>36 DEF RuntimeCloseDone, stays, TypeOK, Gated, ResetPhases, ClosePhases,
     LegalTransitions, Callers, shape, gateVars, flagVars, callVars, localVars, loopVars,
     ghostVars
<1>37. ASSUME UNCHANGED vars PROVE Gated'
  BY <1>37 DEF vars, TypeOK, Gated, ResetPhases, ClosePhases, LegalTransitions, Callers,
     shape, gateVars, flagVars, callVars, localVars, loopVars, ghostVars
<1> QED
  BY <1>1, <1>2, <1>3, <1>4, <1>5, <1>6, <1>7, <1>8, <1>9, <1>10, <1>11, <1>12, <1>13, <1>14,
     <1>15, <1>16, <1>17, <1>18, <1>19, <1>20, <1>21, <1>22, <1>23, <1>24, <1>25, <1>26, <1>27,
     <1>28, <1>29, <1>30, <1>31, <1>32, <1>33, <1>34, <1>35, <1>36, <1>37 DEF Next, UserBegins,
     UserWork, StreamControl, RuntimeBegins, RuntimeWork, Expires

-----------------------------------------------------------------------------
(* Nothing is wrong without a lapse.                                       *)

\* A lapse is never undone.
LEMMA LapsesStay == ASSUME [Next]_vars PROVE lapsed => lapsed'
<1>1. ASSUME NEW u \in Users, OpenReserves(u) PROVE lapsed => lapsed'
  BY <1>1 DEF OpenReserves, Goes, shape, gateVars, flagVars, callVars, localVars, loopVars,
     ghostVars
<1>2. ASSUME NEW u \in Users, OpenInserts(u) PROVE lapsed => lapsed'
  BY <1>2 DEF OpenInserts, Goes, shape, gateVars, flagVars, callVars, localVars, loopVars,
     ghostVars
<1>3. ASSUME NEW u \in Users, OpenFails(u) PROVE lapsed => lapsed'
  BY <1>3 DEF OpenFails, Leaves, shape, gateVars, flagVars, callVars, localVars, loopVars,
     ghostVars
<1>4. ASSUME NEW u \in Users, OpenReturns(u) PROVE lapsed => lapsed'
  BY <1>4 DEF OpenReturns, Leaves, shape, gateVars, flagVars, callVars, localVars, loopVars,
     ghostVars
<1>5. ASSUME NEW u \in Users, StepChecks(u) PROVE lapsed => lapsed'
  BY <1>5 DEF StepChecks, Goes, Leaves, shape, gateVars, flagVars, callVars, localVars,
     loopVars, ghostVars
<1>6. ASSUME NEW u \in Users, StepStarts(u) PROVE lapsed => lapsed'
  BY <1>6 DEF StepStarts, Goes, shape, gateVars, flagVars, callVars, localVars, loopVars,
     ghostVars
<1>7. ASSUME NEW u \in Users, StepGivesUp(u) PROVE lapsed => lapsed'
  BY <1>7 DEF StepGivesUp, Leaves, shape, gateVars, flagVars, callVars, localVars, loopVars,
     ghostVars
<1>8. ASSUME NEW u \in Users, StepUncertain(u) PROVE lapsed => lapsed'
  BY <1>8 DEF StepUncertain, Goes, shape, gateVars, flagVars, callVars, localVars, loopVars,
     ghostVars
<1>9. ASSUME NEW u \in Users, StepEnds(u) PROVE lapsed => lapsed'
  BY <1>9 DEF StepEnds, Leaves, shape, gateVars, flagVars, callVars, localVars, loopVars,
     ghostVars
<1>10. ASSUME NEW u \in Users, NEW s \in Streams, StepResolves(u, s) PROVE lapsed => lapsed'
  BY <1>10 DEF StepResolves, Enters, Resolvable, shape, gateVars, flagVars, callVars,
     localVars, loopVars, ghostVars
<1>11. ASSUME NEW u \in Users, NEW s \in Streams, ResetResolves(u, s) PROVE lapsed => lapsed'
  BY <1>11 DEF ResetResolves, Enters, Resolvable, shape, gateVars, flagVars, callVars,
     localVars, loopVars, ghostVars
<1>12. ASSUME NEW u \in Users, NEW s \in Streams, CloseResolves(u, s) PROVE lapsed => lapsed'
  BY <1>12 DEF CloseResolves, Enters, Resolvable, shape, gateVars, flagVars, callVars,
     localVars, loopVars, ghostVars
<1>13. ASSUME NEW c \in Callers, ResetMarks(c) PROVE lapsed => lapsed'
  BY <1>13 DEF ResetMarks, MarkReset, Goes, shape, gateVars, flagVars, callVars, localVars,
     loopVars, ghostVars
<1>14. ASSUME NEW c \in Callers, ResetWaits(c) PROVE lapsed => lapsed'
  BY <1>14 DEF ResetWaits, Goes, shape, gateVars, flagVars, callVars, localVars, loopVars,
     ghostVars
<1>15. ASSUME NEW c \in Callers, ResetRefused(c) PROVE lapsed => lapsed'
  BY <1>15 DEF ResetRefused, Back, Leaves, shape, gateVars, flagVars, callVars, localVars,
     loopVars, ghostVars
<1>16. ASSUME NEW c \in Callers, ResetProceeds(c) PROVE lapsed => lapsed'
  BY <1>16 DEF ResetProceeds, MarkReset, Goes, shape, gateVars, flagVars, callVars,
     localVars, loopVars, ghostVars
<1>17. ASSUME NEW c \in Callers, ResetSucceeds(c) PROVE lapsed => lapsed'
  BY <1>17 DEF ResetSucceeds, FinishReset, Back, Leaves, shape, gateVars, flagVars, callVars,
     localVars, loopVars, ghostVars
<1>18. ASSUME NEW c \in Callers, ResetFails(c) PROVE lapsed => lapsed'
  BY <1>18 DEF ResetFails, FinishReset, Back, Leaves, shape, gateVars, flagVars, callVars,
     localVars, loopVars, ghostVars
<1>19. ASSUME NEW c \in Callers, ResetUnsupported(c) PROVE lapsed => lapsed'
  BY <1>19 DEF ResetUnsupported, FinishReset, Back, Leaves, shape, gateVars, flagVars,
     callVars, localVars, loopVars, ghostVars
<1>20. ASSUME NEW c \in Callers, CloseMarks(c) PROVE lapsed => lapsed'
  BY <1>20 DEF CloseMarks, MarkClosing, Goes, shape, gateVars, flagVars, callVars, localVars,
     loopVars, ghostVars
<1>21. ASSUME NEW c \in Callers, CloseWaits(c) PROVE lapsed => lapsed'
  BY <1>21 DEF CloseWaits, Goes, shape, gateVars, flagVars, callVars, localVars, loopVars,
     ghostVars
<1>22. ASSUME NEW c \in Callers, CloseUnneeded(c) PROVE lapsed => lapsed'
  BY <1>22 DEF CloseUnneeded, Back, Leaves, shape, gateVars, flagVars, callVars, localVars,
     loopVars, ghostVars
<1>23. ASSUME NEW c \in Callers, CloseProceeds(c) PROVE lapsed => lapsed'
  BY <1>23 DEF CloseProceeds, MarkClosing, Goes, shape, gateVars, flagVars, callVars,
     localVars, loopVars, ghostVars
<1>24. ASSUME NEW c \in Callers, CloseReturns(c) PROVE lapsed => lapsed'
  BY <1>24 DEF CloseReturns, Back, Leaves, shape, gateVars, flagVars, callVars, localVars,
     loopVars, ghostVars
<1>25. ASSUME NEW c \in Callers, WaitExpires(c) PROVE lapsed => lapsed'
  BY <1>25 DEF WaitExpires, Back, Leaves, shape, gateVars, flagVars, callVars, localVars,
     loopVars, ghostVars
<1>26. ASSUME RuntimeResetBegins PROVE lapsed => lapsed'
  BY <1>26 DEF RuntimeResetBegins, Drains, AfterReset, OpenStreams, stays, shape, gateVars,
     flagVars, callVars, localVars, loopVars, ghostVars
<1>27. ASSUME RuntimeResetTimesOut PROVE lapsed => lapsed'
  BY <1>27 DEF RuntimeResetTimesOut, stays, shape, gateVars, flagVars, callVars, localVars,
     loopVars, ghostVars
<1>28. ASSUME RuntimeCloseBegins PROVE lapsed => lapsed'
  BY <1>28 DEF RuntimeCloseBegins, Drains, OpenStreams, stays, shape, gateVars, flagVars,
     callVars, localVars, loopVars, ghostVars
<1>29. ASSUME RuntimeCloseTimesOut PROVE lapsed => lapsed'
  BY <1>29 DEF RuntimeCloseTimesOut, stays, shape, gateVars, flagVars, callVars, localVars,
     loopVars, ghostVars
<1>30. ASSUME RuntimeDrained PROVE lapsed => lapsed'
  BY <1>30 DEF RuntimeDrained, Drains, AfterReset, OpenStreams, stays, shape, gateVars,
     flagVars, callVars, localVars, loopVars, ghostVars
<1>31. ASSUME NEW s \in Streams, RuntimeResets(s) PROVE lapsed => lapsed'
  BY <1>31 DEF RuntimeResets, ResetResolves, Enters, Resolvable, shape, gateVars, flagVars,
     callVars, localVars, loopVars, ghostVars
<1>32. ASSUME NEW s \in Streams, RuntimeMisses(s) PROVE lapsed => lapsed'
  BY <1>32 DEF RuntimeMisses, stays, shape, gateVars, flagVars, callVars, localVars,
     loopVars, ghostVars
<1>33. ASSUME NEW s \in Streams, RuntimeCloses(s) PROVE lapsed => lapsed'
  BY <1>33 DEF RuntimeCloses, Enters, stays, shape, gateVars, flagVars, callVars, localVars,
     loopVars, ghostVars
<1>34. ASSUME RuntimeResetDone PROVE lapsed => lapsed'
  BY <1>34 DEF RuntimeResetDone, stays, shape, gateVars, flagVars, callVars, localVars,
     loopVars, ghostVars
<1>35. ASSUME RuntimeResetFails PROVE lapsed => lapsed'
  BY <1>35 DEF RuntimeResetFails, stays, shape, gateVars, flagVars, callVars, localVars,
     loopVars, ghostVars
<1>36. ASSUME RuntimeCloseDone PROVE lapsed => lapsed'
  BY <1>36 DEF RuntimeCloseDone, stays, shape, gateVars, flagVars, callVars, localVars,
     loopVars, ghostVars
<1>37. ASSUME UNCHANGED vars PROVE lapsed => lapsed'
  BY <1>37 DEF vars, shape, gateVars, flagVars, callVars, localVars, loopVars, ghostVars
<1> QED
  BY <1>1, <1>2, <1>3, <1>4, <1>5, <1>6, <1>7, <1>8, <1>9, <1>10, <1>11, <1>12, <1>13, <1>14,
     <1>15, <1>16, <1>17, <1>18, <1>19, <1>20, <1>21, <1>22, <1>23, <1>24, <1>25, <1>26, <1>27,
     <1>28, <1>29, <1>30, <1>31, <1>32, <1>33, <1>34, <1>35, <1>36, <1>37 DEF Next, UserBegins,
     UserWork, StreamControl, RuntimeBegins, RuntimeWork, Expires

\* Without a lapse a drain stays quiet.
LEMMA QuietNext ==
  ASSUME IInv, TypeOK', ~lapsed, ~lapsed', ControlIsQuiet, [Next]_vars PROVE ControlIsQuiet'
<1>1. ASSUME NEW u \in Users, OpenReserves(u) PROVE ControlIsQuiet'
  BY <1>1 DEF OpenReserves, Goes, ControlIsQuiet, Quiescent, Openings, Admits, IInv, TypeOK,
     Gated, ResetPhases, ClosePhases, Callers, shape, gateVars, flagVars, callVars, localVars,
     loopVars, ghostVars
<1>2. ASSUME NEW u \in Users, OpenInserts(u) PROVE ControlIsQuiet'
  BY <1>2 DEF OpenInserts, Goes, ControlIsQuiet, Quiescent, Openings, Admits, IInv, TypeOK,
     Gated, ResetPhases, ClosePhases, Callers, shape, gateVars, flagVars, callVars, localVars,
     loopVars, ghostVars
<1>3. ASSUME NEW u \in Users, OpenFails(u) PROVE ControlIsQuiet'
  BY <1>3 DEF OpenFails, Leaves, ControlIsQuiet, Quiescent, Openings, Admits, IInv, TypeOK,
     Gated, ResetPhases, ClosePhases, Callers, shape, gateVars, flagVars, callVars, localVars,
     loopVars, ghostVars
<1>4. ASSUME NEW u \in Users, OpenReturns(u) PROVE ControlIsQuiet'
  BY <1>4 DEF OpenReturns, Leaves, ControlIsQuiet, Quiescent, Openings, Admits, IInv, TypeOK,
     Gated, ResetPhases, ClosePhases, Callers, shape, gateVars, flagVars, callVars, localVars,
     loopVars, ghostVars
<1>5. ASSUME NEW u \in Users, StepChecks(u) PROVE ControlIsQuiet'
  BY <1>5 DEF StepChecks, Goes, Leaves, ControlIsQuiet, Quiescent, Openings, Admits, IInv,
     TypeOK, Gated, ResetPhases, ClosePhases, Callers, shape, gateVars, flagVars, callVars,
     localVars, loopVars, ghostVars
<1>6. ASSUME NEW u \in Users, StepStarts(u) PROVE ControlIsQuiet'
  BY <1>6 DEF StepStarts, Goes, ControlIsQuiet, Quiescent, Openings, Admits, IInv, TypeOK,
     Gated, ResetPhases, ClosePhases, Callers, shape, gateVars, flagVars, callVars, localVars,
     loopVars, ghostVars
<1>7. ASSUME NEW u \in Users, StepGivesUp(u) PROVE ControlIsQuiet'
  BY <1>7 DEF StepGivesUp, Leaves, ControlIsQuiet, Quiescent, Openings, Admits, IInv, TypeOK,
     Gated, ResetPhases, ClosePhases, Callers, shape, gateVars, flagVars, callVars, localVars,
     loopVars, ghostVars
<1>8. ASSUME NEW u \in Users, StepUncertain(u) PROVE ControlIsQuiet'
  BY <1>8 DEF StepUncertain, Goes, ControlIsQuiet, Quiescent, Openings, Admits, IInv, TypeOK,
     Gated, ResetPhases, ClosePhases, Callers, shape, gateVars, flagVars, callVars, localVars,
     loopVars, ghostVars
<1>9. ASSUME NEW u \in Users, StepEnds(u) PROVE ControlIsQuiet'
  BY <1>9 DEF StepEnds, Leaves, ControlIsQuiet, Quiescent, Openings, Admits, IInv, TypeOK,
     Gated, ResetPhases, ClosePhases, Callers, shape, gateVars, flagVars, callVars, localVars,
     loopVars, ghostVars
<1>10. ASSUME NEW u \in Users, NEW s \in Streams, StepResolves(u, s) PROVE ControlIsQuiet'
  BY <1>10 DEF StepResolves, Enters, Resolvable, ControlIsQuiet, Quiescent, Openings, Admits,
     IInv, TypeOK, Gated, ResetPhases, ClosePhases, Callers, shape, gateVars, flagVars,
     callVars, localVars, loopVars, ghostVars
<1>11. ASSUME NEW u \in Users, NEW s \in Streams, ResetResolves(u, s) PROVE ControlIsQuiet'
  BY <1>11 DEF ResetResolves, Enters, Resolvable, ControlIsQuiet, Quiescent, Openings,
     Admits, IInv, TypeOK, Gated, ResetPhases, ClosePhases, Callers, shape, gateVars, flagVars,
     callVars, localVars, loopVars, ghostVars
<1>12. ASSUME NEW u \in Users, NEW s \in Streams, CloseResolves(u, s) PROVE ControlIsQuiet'
  BY <1>12 DEF CloseResolves, Enters, Resolvable, ControlIsQuiet, Quiescent, Openings,
     Admits, IInv, TypeOK, Gated, ResetPhases, ClosePhases, Callers, shape, gateVars, flagVars,
     callVars, localVars, loopVars, ghostVars
<1>13. ASSUME NEW c \in Callers, ResetMarks(c) PROVE ControlIsQuiet'
  BY <1>13 DEF ResetMarks, MarkReset, Goes, ControlIsQuiet, Quiescent, Openings, Admits,
     IInv, TypeOK, Gated, ResetPhases, ClosePhases, Callers, shape, gateVars, flagVars,
     callVars, localVars, loopVars, ghostVars
<1>14. ASSUME NEW c \in Callers, ResetWaits(c) PROVE ControlIsQuiet'
  BY <1>14 DEF ResetWaits, Goes, ControlIsQuiet, Quiescent, Openings, Admits, IInv, TypeOK,
     Gated, ResetPhases, ClosePhases, Callers, shape, gateVars, flagVars, callVars, localVars,
     loopVars, ghostVars
<1>15. ASSUME NEW c \in Callers, ResetRefused(c) PROVE ControlIsQuiet'
  BY <1>15 DEF ResetRefused, Back, Leaves, ControlIsQuiet, Quiescent, Openings, Admits, IInv,
     TypeOK, Gated, ResetPhases, ClosePhases, Callers, shape, gateVars, flagVars, callVars,
     localVars, loopVars, ghostVars
<1>16. ASSUME NEW c \in Callers, ResetProceeds(c) PROVE ControlIsQuiet'
  BY <1>16 DEF ResetProceeds, MarkReset, Goes, ControlIsQuiet, Quiescent, Openings, Admits,
     IInv, TypeOK, Gated, ResetPhases, ClosePhases, Callers, shape, gateVars, flagVars,
     callVars, localVars, loopVars, ghostVars
<1>17. ASSUME NEW c \in Callers, ResetSucceeds(c) PROVE ControlIsQuiet'
  BY <1>17 DEF ResetSucceeds, FinishReset, Back, Leaves, ControlIsQuiet, Quiescent, Openings,
     Admits, IInv, TypeOK, Gated, ResetPhases, ClosePhases, Callers, shape, gateVars, flagVars,
     callVars, localVars, loopVars, ghostVars
<1>18. ASSUME NEW c \in Callers, ResetFails(c) PROVE ControlIsQuiet'
  <2>1. PICK left \in {"FAILED", "RESET_REQUIRED"} : FinishReset(c, left, "FAILED", FALSE)
    BY <1>18 DEF ResetFails
  <2> QED
    BY <1>18, <2>1 DEF ResetFails, FinishReset, Back, Leaves, ControlIsQuiet, Quiescent, Openings,
       Admits, IInv, TypeOK, Gated, ResetPhases, ClosePhases, Callers, shape, gateVars, flagVars,
       callVars, localVars, loopVars, ghostVars
<1>19. ASSUME NEW c \in Callers, ResetUnsupported(c) PROVE ControlIsQuiet'
  BY <1>19 DEF ResetUnsupported, FinishReset, Back, Leaves, ControlIsQuiet, Quiescent,
     Openings, Admits, IInv, TypeOK, Gated, ResetPhases, ClosePhases, Callers, shape, gateVars,
     flagVars, callVars, localVars, loopVars, ghostVars
<1>20. ASSUME NEW c \in Callers, CloseMarks(c) PROVE ControlIsQuiet'
  BY <1>20 DEF CloseMarks, MarkClosing, Goes, ControlIsQuiet, Quiescent, Openings, Admits,
     IInv, TypeOK, Gated, ResetPhases, ClosePhases, Callers, shape, gateVars, flagVars,
     callVars, localVars, loopVars, ghostVars
<1>21. ASSUME NEW c \in Callers, CloseWaits(c) PROVE ControlIsQuiet'
  BY <1>21 DEF CloseWaits, Goes, ControlIsQuiet, Quiescent, Openings, Admits, IInv, TypeOK,
     Gated, ResetPhases, ClosePhases, Callers, shape, gateVars, flagVars, callVars, localVars,
     loopVars, ghostVars
<1>22. ASSUME NEW c \in Callers, CloseUnneeded(c) PROVE ControlIsQuiet'
  BY <1>22 DEF CloseUnneeded, Back, Leaves, ControlIsQuiet, Quiescent, Openings, Admits,
     IInv, TypeOK, Gated, ResetPhases, ClosePhases, Callers, shape, gateVars, flagVars,
     callVars, localVars, loopVars, ghostVars
<1>23. ASSUME NEW c \in Callers, CloseProceeds(c) PROVE ControlIsQuiet'
  BY <1>23 DEF CloseProceeds, MarkClosing, Goes, ControlIsQuiet, Quiescent, Openings, Admits,
     IInv, TypeOK, Gated, ResetPhases, ClosePhases, Callers, shape, gateVars, flagVars,
     callVars, localVars, loopVars, ghostVars
<1>24. ASSUME NEW c \in Callers, CloseReturns(c) PROVE ControlIsQuiet'
  BY <1>24 DEF CloseReturns, Back, Leaves, ControlIsQuiet, Quiescent, Openings, Admits, IInv,
     TypeOK, Gated, ResetPhases, ClosePhases, Callers, shape, gateVars, flagVars, callVars,
     localVars, loopVars, ghostVars
<1>25. ASSUME NEW c \in Callers, WaitExpires(c) PROVE ControlIsQuiet'
  BY <1>25 DEF WaitExpires, Back, Leaves, ControlIsQuiet, Quiescent, Openings, Admits, IInv,
     TypeOK, Gated, ResetPhases, ClosePhases, Callers, shape, gateVars, flagVars, callVars,
     localVars, loopVars, ghostVars
<1>26. ASSUME RuntimeResetBegins PROVE ControlIsQuiet'
  BY <1>26 DEF RuntimeResetBegins, Drains, AfterReset, OpenStreams, stays, ControlIsQuiet,
     Quiescent, Openings, Admits, IInv, TypeOK, Gated, ResetPhases, ClosePhases, Callers, shape,
     gateVars, flagVars, callVars, localVars, loopVars, ghostVars
<1>27. ASSUME RuntimeResetTimesOut PROVE ControlIsQuiet'
  BY <1>27 DEF RuntimeResetTimesOut, stays, ControlIsQuiet, Quiescent, Openings, Admits,
     IInv, TypeOK, Gated, ResetPhases, ClosePhases, Callers, shape, gateVars, flagVars,
     callVars, localVars, loopVars, ghostVars
<1>28. ASSUME RuntimeCloseBegins PROVE ControlIsQuiet'
  BY <1>28 DEF RuntimeCloseBegins, Drains, OpenStreams, stays, ControlIsQuiet, Quiescent,
     Openings, Admits, IInv, TypeOK, Gated, ResetPhases, ClosePhases, Callers, shape, gateVars,
     flagVars, callVars, localVars, loopVars, ghostVars
<1>29. ASSUME RuntimeCloseTimesOut PROVE ControlIsQuiet'
  BY <1>29 DEF RuntimeCloseTimesOut, stays, ControlIsQuiet, Quiescent, Openings, Admits,
     IInv, TypeOK, Gated, ResetPhases, ClosePhases, Callers, shape, gateVars, flagVars,
     callVars, localVars, loopVars, ghostVars
<1>30. ASSUME RuntimeDrained PROVE ControlIsQuiet'
  BY <1>30 DEF RuntimeDrained, Drains, AfterReset, OpenStreams, stays, ControlIsQuiet,
     Quiescent, Openings, Admits, IInv, TypeOK, Gated, ResetPhases, ClosePhases, Callers, shape,
     gateVars, flagVars, callVars, localVars, loopVars, ghostVars
<1>31. ASSUME NEW s \in Streams, RuntimeResets(s) PROVE ControlIsQuiet'
  BY <1>31 DEF RuntimeResets, ResetResolves, Enters, Resolvable, ControlIsQuiet, Quiescent,
     Openings, Admits, IInv, TypeOK, Gated, ResetPhases, ClosePhases, Callers, shape, gateVars,
     flagVars, callVars, localVars, loopVars, ghostVars
<1>32. ASSUME NEW s \in Streams, RuntimeMisses(s) PROVE ControlIsQuiet'
  BY <1>32 DEF RuntimeMisses, stays, ControlIsQuiet, Quiescent, Openings, Admits, IInv,
     TypeOK, Gated, ResetPhases, ClosePhases, Callers, shape, gateVars, flagVars, callVars,
     localVars, loopVars, ghostVars
<1>33. ASSUME NEW s \in Streams, RuntimeCloses(s) PROVE ControlIsQuiet'
  BY <1>33 DEF RuntimeCloses, Enters, stays, ControlIsQuiet, Quiescent, Openings, Admits,
     IInv, TypeOK, Gated, ResetPhases, ClosePhases, Callers, shape, gateVars, flagVars,
     callVars, localVars, loopVars, ghostVars
<1>34. ASSUME RuntimeResetDone PROVE ControlIsQuiet'
  BY <1>34 DEF RuntimeResetDone, stays, ControlIsQuiet, Quiescent, Openings, Admits, IInv,
     TypeOK, Gated, ResetPhases, ClosePhases, Callers, shape, gateVars, flagVars, callVars,
     localVars, loopVars, ghostVars
<1>35. ASSUME RuntimeResetFails PROVE ControlIsQuiet'
  BY <1>35 DEF RuntimeResetFails, stays, ControlIsQuiet, Quiescent, Openings, Admits, IInv,
     TypeOK, Gated, ResetPhases, ClosePhases, Callers, shape, gateVars, flagVars, callVars,
     localVars, loopVars, ghostVars
<1>36. ASSUME RuntimeCloseDone PROVE ControlIsQuiet'
  BY <1>36 DEF RuntimeCloseDone, stays, ControlIsQuiet, Quiescent, Openings, Admits, IInv,
     TypeOK, Gated, ResetPhases, ClosePhases, Callers, shape, gateVars, flagVars, callVars,
     localVars, loopVars, ghostVars
<1>37. ASSUME UNCHANGED vars PROVE ControlIsQuiet'
  BY <1>37 DEF vars, ControlIsQuiet, Quiescent, Openings, Admits, IInv, TypeOK, Gated,
     ResetPhases, ClosePhases, Callers, shape, gateVars, flagVars, callVars, localVars,
     loopVars, ghostVars
<1> QED
  BY <1>1, <1>2, <1>3, <1>4, <1>5, <1>6, <1>7, <1>8, <1>9, <1>10, <1>11, <1>12, <1>13, <1>14,
     <1>15, <1>16, <1>17, <1>18, <1>19, <1>20, <1>21, <1>22, <1>23, <1>24, <1>25, <1>26, <1>27,
     <1>28, <1>29, <1>30, <1>31, <1>32, <1>33, <1>34, <1>35, <1>36, <1>37 DEF Next, UserBegins,
     UserWork, StreamControl, RuntimeBegins, RuntimeWork, Expires

\* Without a lapse an uncertain stream waits for its reset.
LEMMA UncertainNext ==
  ASSUME IInv, TypeOK', ~lapsed, ~lapsed', UncertainWaits, [Next]_vars PROVE UncertainWaits'
<1>1. ASSUME NEW u \in Users, OpenReserves(u) PROVE UncertainWaits'
  BY <1>1 DEF OpenReserves, Goes, UncertainWaits, IInv, TypeOK, Located, Stepped, Held,
     Elsewhere, Steps, Holds, Callers, shape, gateVars, flagVars, callVars, localVars, loopVars,
     ghostVars
<1>2. ASSUME NEW u \in Users, OpenInserts(u) PROVE UncertainWaits'
  BY <1>2 DEF OpenInserts, Goes, UncertainWaits, IInv, TypeOK, Located, Stepped, Held,
     Elsewhere, Steps, Holds, Callers, shape, gateVars, flagVars, callVars, localVars, loopVars,
     ghostVars
<1>3. ASSUME NEW u \in Users, OpenFails(u) PROVE UncertainWaits'
  BY <1>3 DEF OpenFails, Leaves, UncertainWaits, IInv, TypeOK, Located, Stepped, Held,
     Elsewhere, Steps, Holds, Callers, shape, gateVars, flagVars, callVars, localVars, loopVars,
     ghostVars
<1>4. ASSUME NEW u \in Users, OpenReturns(u) PROVE UncertainWaits'
  BY <1>4 DEF OpenReturns, Leaves, UncertainWaits, IInv, TypeOK, Located, Stepped, Held,
     Elsewhere, Steps, Holds, Callers, shape, gateVars, flagVars, callVars, localVars, loopVars,
     ghostVars
<1>5. ASSUME NEW u \in Users, StepChecks(u) PROVE UncertainWaits'
  BY <1>5 DEF StepChecks, Goes, Leaves, UncertainWaits, IInv, TypeOK, Located, Stepped, Held,
     Elsewhere, Steps, Holds, Callers, shape, gateVars, flagVars, callVars, localVars, loopVars,
     ghostVars
<1>6. ASSUME NEW u \in Users, StepStarts(u) PROVE UncertainWaits'
  BY <1>6 DEF StepStarts, Goes, UncertainWaits, IInv, TypeOK, Located, Stepped, Held,
     Elsewhere, Steps, Holds, Callers, shape, gateVars, flagVars, callVars, localVars, loopVars,
     ghostVars
<1>7. ASSUME NEW u \in Users, StepGivesUp(u) PROVE UncertainWaits'
  BY <1>7 DEF StepGivesUp, Leaves, UncertainWaits, IInv, TypeOK, Located, Stepped, Held,
     Elsewhere, Steps, Holds, Callers, shape, gateVars, flagVars, callVars, localVars, loopVars,
     ghostVars
<1>8. ASSUME NEW u \in Users, StepUncertain(u) PROVE UncertainWaits'
  BY <1>8 DEF StepUncertain, Goes, UncertainWaits, IInv, TypeOK, Located, Stepped, Held,
     Elsewhere, Steps, Holds, Callers, shape, gateVars, flagVars, callVars, localVars, loopVars,
     ghostVars
<1>9. ASSUME NEW u \in Users, StepEnds(u) PROVE UncertainWaits'
  BY <1>9 DEF StepEnds, Leaves, UncertainWaits, IInv, TypeOK, Located, Stepped, Held,
     Elsewhere, Steps, Holds, Callers, shape, gateVars, flagVars, callVars, localVars, loopVars,
     ghostVars
<1>10. ASSUME NEW u \in Users, NEW s \in Streams, StepResolves(u, s) PROVE UncertainWaits'
  BY <1>10 DEF StepResolves, Enters, Resolvable, UncertainWaits, IInv, TypeOK, Located,
     Stepped, Held, Elsewhere, Steps, Holds, Callers, shape, gateVars, flagVars, callVars,
     localVars, loopVars, ghostVars
<1>11. ASSUME NEW u \in Users, NEW s \in Streams, ResetResolves(u, s) PROVE UncertainWaits'
  BY <1>11 DEF ResetResolves, Enters, Resolvable, UncertainWaits, IInv, TypeOK, Located,
     Stepped, Held, Elsewhere, Steps, Holds, Callers, shape, gateVars, flagVars, callVars,
     localVars, loopVars, ghostVars
<1>12. ASSUME NEW u \in Users, NEW s \in Streams, CloseResolves(u, s) PROVE UncertainWaits'
  BY <1>12 DEF CloseResolves, Enters, Resolvable, UncertainWaits, IInv, TypeOK, Located,
     Stepped, Held, Elsewhere, Steps, Holds, Callers, shape, gateVars, flagVars, callVars,
     localVars, loopVars, ghostVars
<1>13. ASSUME NEW c \in Callers, ResetMarks(c) PROVE UncertainWaits'
  BY <1>13 DEF ResetMarks, MarkReset, Goes, UncertainWaits, IInv, TypeOK, Located, Stepped,
     Held, Elsewhere, Steps, Holds, Callers, shape, gateVars, flagVars, callVars, localVars,
     loopVars, ghostVars
<1>14. ASSUME NEW c \in Callers, ResetWaits(c) PROVE UncertainWaits'
  BY <1>14 DEF ResetWaits, Goes, UncertainWaits, IInv, TypeOK, Located, Stepped, Held,
     Elsewhere, Steps, Holds, Callers, shape, gateVars, flagVars, callVars, localVars, loopVars,
     ghostVars
<1>15. ASSUME NEW c \in Callers, ResetRefused(c) PROVE UncertainWaits'
  BY <1>15 DEF ResetRefused, Back, Leaves, UncertainWaits, IInv, TypeOK, Located, Stepped,
     Held, Elsewhere, Steps, Holds, Callers, shape, gateVars, flagVars, callVars, localVars,
     loopVars, ghostVars
<1>16. ASSUME NEW c \in Callers, ResetProceeds(c) PROVE UncertainWaits'
  BY <1>16 DEF ResetProceeds, MarkReset, Goes, UncertainWaits, IInv, TypeOK, Located,
     Stepped, Held, Elsewhere, Steps, Holds, Callers, shape, gateVars, flagVars, callVars,
     localVars, loopVars, ghostVars
<1>17. ASSUME NEW c \in Callers, ResetSucceeds(c) PROVE UncertainWaits'
  BY <1>17 DEF ResetSucceeds, FinishReset, Back, Leaves, UncertainWaits, IInv, TypeOK,
     Located, Stepped, Held, Elsewhere, Steps, Holds, Callers, shape, gateVars, flagVars,
     callVars, localVars, loopVars, ghostVars
<1>18. ASSUME NEW c \in Callers, ResetFails(c) PROVE UncertainWaits'
  <2>1. PICK left \in {"FAILED", "RESET_REQUIRED"} : FinishReset(c, left, "FAILED", FALSE)
    BY <1>18 DEF ResetFails
  <2> QED
    BY <1>18, <2>1 DEF ResetFails, FinishReset, Back, Leaves, UncertainWaits, IInv, TypeOK,
       Located, Stepped, Held, Elsewhere, Steps, Holds, Callers, shape, gateVars, flagVars,
       callVars, localVars, loopVars, ghostVars
<1>19. ASSUME NEW c \in Callers, ResetUnsupported(c) PROVE UncertainWaits'
  <2>1. state' = [state EXCEPT ![at[c]] = IF saw[c] THEN "RESET_REQUIRED" ELSE "OPEN"]
    BY <1>19 DEF ResetUnsupported, FinishReset
  <2>2. tainted' = tainted /\ (at[c] \in tainted => saw[c])
    BY <1>19 DEF ResetUnsupported
  <2> QED BY <2>1, <2>2 DEF UncertainWaits, IInv, TypeOK
<1>20. ASSUME NEW c \in Callers, CloseMarks(c) PROVE UncertainWaits'
  BY <1>20 DEF CloseMarks, MarkClosing, Goes, UncertainWaits, IInv, TypeOK, Located, Stepped,
     Held, Elsewhere, Steps, Holds, Callers, shape, gateVars, flagVars, callVars, localVars,
     loopVars, ghostVars
<1>21. ASSUME NEW c \in Callers, CloseWaits(c) PROVE UncertainWaits'
  BY <1>21 DEF CloseWaits, Goes, UncertainWaits, IInv, TypeOK, Located, Stepped, Held,
     Elsewhere, Steps, Holds, Callers, shape, gateVars, flagVars, callVars, localVars, loopVars,
     ghostVars
<1>22. ASSUME NEW c \in Callers, CloseUnneeded(c) PROVE UncertainWaits'
  BY <1>22 DEF CloseUnneeded, Back, Leaves, UncertainWaits, IInv, TypeOK, Located, Stepped,
     Held, Elsewhere, Steps, Holds, Callers, shape, gateVars, flagVars, callVars, localVars,
     loopVars, ghostVars
<1>23. ASSUME NEW c \in Callers, CloseProceeds(c) PROVE UncertainWaits'
  BY <1>23 DEF CloseProceeds, MarkClosing, Goes, UncertainWaits, IInv, TypeOK, Located,
     Stepped, Held, Elsewhere, Steps, Holds, Callers, shape, gateVars, flagVars, callVars,
     localVars, loopVars, ghostVars
<1>24. ASSUME NEW c \in Callers, CloseReturns(c) PROVE UncertainWaits'
  BY <1>24 DEF CloseReturns, Back, Leaves, UncertainWaits, IInv, TypeOK, Located, Stepped,
     Held, Elsewhere, Steps, Holds, Callers, shape, gateVars, flagVars, callVars, localVars,
     loopVars, ghostVars
<1>25. ASSUME NEW c \in Callers, WaitExpires(c) PROVE UncertainWaits'
  BY <1>25 DEF WaitExpires, Back, Leaves, UncertainWaits, IInv, TypeOK, Located, Stepped,
     Held, Elsewhere, Steps, Holds, Callers, shape, gateVars, flagVars, callVars, localVars,
     loopVars, ghostVars
<1>26. ASSUME RuntimeResetBegins PROVE UncertainWaits'
  BY <1>26 DEF RuntimeResetBegins, Drains, AfterReset, OpenStreams, stays, UncertainWaits,
     IInv, TypeOK, Located, Stepped, Held, Elsewhere, Steps, Holds, Callers, shape, gateVars,
     flagVars, callVars, localVars, loopVars, ghostVars
<1>27. ASSUME RuntimeResetTimesOut PROVE UncertainWaits'
  BY <1>27 DEF RuntimeResetTimesOut, stays, UncertainWaits, IInv, TypeOK, Located, Stepped,
     Held, Elsewhere, Steps, Holds, Callers, shape, gateVars, flagVars, callVars, localVars,
     loopVars, ghostVars
<1>28. ASSUME RuntimeCloseBegins PROVE UncertainWaits'
  BY <1>28 DEF RuntimeCloseBegins, Drains, OpenStreams, stays, UncertainWaits, IInv, TypeOK,
     Located, Stepped, Held, Elsewhere, Steps, Holds, Callers, shape, gateVars, flagVars,
     callVars, localVars, loopVars, ghostVars
<1>29. ASSUME RuntimeCloseTimesOut PROVE UncertainWaits'
  BY <1>29 DEF RuntimeCloseTimesOut, stays, UncertainWaits, IInv, TypeOK, Located, Stepped,
     Held, Elsewhere, Steps, Holds, Callers, shape, gateVars, flagVars, callVars, localVars,
     loopVars, ghostVars
<1>30. ASSUME RuntimeDrained PROVE UncertainWaits'
  BY <1>30 DEF RuntimeDrained, Drains, AfterReset, OpenStreams, stays, UncertainWaits, IInv,
     TypeOK, Located, Stepped, Held, Elsewhere, Steps, Holds, Callers, shape, gateVars,
     flagVars, callVars, localVars, loopVars, ghostVars
<1>31. ASSUME NEW s \in Streams, RuntimeResets(s) PROVE UncertainWaits'
  BY <1>31 DEF RuntimeResets, ResetResolves, Enters, Resolvable, UncertainWaits, IInv,
     TypeOK, Located, Stepped, Held, Elsewhere, Steps, Holds, Callers, shape, gateVars,
     flagVars, callVars, localVars, loopVars, ghostVars
<1>32. ASSUME NEW s \in Streams, RuntimeMisses(s) PROVE UncertainWaits'
  BY <1>32 DEF RuntimeMisses, stays, UncertainWaits, IInv, TypeOK, Located, Stepped, Held,
     Elsewhere, Steps, Holds, Callers, shape, gateVars, flagVars, callVars, localVars, loopVars,
     ghostVars
<1>33. ASSUME NEW s \in Streams, RuntimeCloses(s) PROVE UncertainWaits'
  BY <1>33 DEF RuntimeCloses, Enters, stays, UncertainWaits, IInv, TypeOK, Located, Stepped,
     Held, Elsewhere, Steps, Holds, Callers, shape, gateVars, flagVars, callVars, localVars,
     loopVars, ghostVars
<1>34. ASSUME RuntimeResetDone PROVE UncertainWaits'
  BY <1>34 DEF RuntimeResetDone, stays, UncertainWaits, IInv, TypeOK, Located, Stepped, Held,
     Elsewhere, Steps, Holds, Callers, shape, gateVars, flagVars, callVars, localVars, loopVars,
     ghostVars
<1>35. ASSUME RuntimeResetFails PROVE UncertainWaits'
  BY <1>35 DEF RuntimeResetFails, stays, UncertainWaits, IInv, TypeOK, Located, Stepped,
     Held, Elsewhere, Steps, Holds, Callers, shape, gateVars, flagVars, callVars, localVars,
     loopVars, ghostVars
<1>36. ASSUME RuntimeCloseDone PROVE UncertainWaits'
  BY <1>36 DEF RuntimeCloseDone, stays, UncertainWaits, IInv, TypeOK, Located, Stepped, Held,
     Elsewhere, Steps, Holds, Callers, shape, gateVars, flagVars, callVars, localVars, loopVars,
     ghostVars
<1>37. ASSUME UNCHANGED vars PROVE UncertainWaits'
  BY <1>37 DEF vars, UncertainWaits, IInv, TypeOK, Located, Stepped, Held, Elsewhere, Steps,
     Holds, Callers, shape, gateVars, flagVars, callVars, localVars, loopVars, ghostVars
<1> QED
  BY <1>1, <1>2, <1>3, <1>4, <1>5, <1>6, <1>7, <1>8, <1>9, <1>10, <1>11, <1>12, <1>13, <1>14,
     <1>15, <1>16, <1>17, <1>18, <1>19, <1>20, <1>21, <1>22, <1>23, <1>24, <1>25, <1>26, <1>27,
     <1>28, <1>29, <1>30, <1>31, <1>32, <1>33, <1>34, <1>35, <1>36, <1>37 DEF Next, UserBegins,
     UserWork, StreamControl, RuntimeBegins, RuntimeWork, Expires

\* Without a lapse a closed stream stays closed.
LEMMA ClosedNext ==
  ASSUME IInv, TypeOK', ~lapsed, ~lapsed', ClosedStaysClosed, [Next]_vars PROVE ClosedStaysClosed'
<1>1. ASSUME NEW u \in Users, OpenReserves(u) PROVE ClosedStaysClosed'
  BY <1>1 DEF OpenReserves, Goes, ClosedStaysClosed, IInv, TypeOK, Located, Stepped, Held,
     Elsewhere, Steps, Holds, Callers, shape, gateVars, flagVars, callVars, localVars, loopVars,
     ghostVars
<1>2. ASSUME NEW u \in Users, OpenInserts(u) PROVE ClosedStaysClosed'
  BY <1>2 DEF OpenInserts, Goes, ClosedStaysClosed, IInv, TypeOK, Located, Stepped, Held,
     Elsewhere, Steps, Holds, Callers, shape, gateVars, flagVars, callVars, localVars, loopVars,
     ghostVars
<1>3. ASSUME NEW u \in Users, OpenFails(u) PROVE ClosedStaysClosed'
  BY <1>3 DEF OpenFails, Leaves, ClosedStaysClosed, IInv, TypeOK, Located, Stepped, Held,
     Elsewhere, Steps, Holds, Callers, shape, gateVars, flagVars, callVars, localVars, loopVars,
     ghostVars
<1>4. ASSUME NEW u \in Users, OpenReturns(u) PROVE ClosedStaysClosed'
  BY <1>4 DEF OpenReturns, Leaves, ClosedStaysClosed, IInv, TypeOK, Located, Stepped, Held,
     Elsewhere, Steps, Holds, Callers, shape, gateVars, flagVars, callVars, localVars, loopVars,
     ghostVars
<1>5. ASSUME NEW u \in Users, StepChecks(u) PROVE ClosedStaysClosed'
  BY <1>5 DEF StepChecks, Goes, Leaves, ClosedStaysClosed, IInv, TypeOK, Located, Stepped,
     Held, Elsewhere, Steps, Holds, Callers, shape, gateVars, flagVars, callVars, localVars,
     loopVars, ghostVars
<1>6. ASSUME NEW u \in Users, StepStarts(u) PROVE ClosedStaysClosed'
  BY <1>6 DEF StepStarts, Goes, ClosedStaysClosed, IInv, TypeOK, Located, Stepped, Held,
     Elsewhere, Steps, Holds, Callers, shape, gateVars, flagVars, callVars, localVars, loopVars,
     ghostVars
<1>7. ASSUME NEW u \in Users, StepGivesUp(u) PROVE ClosedStaysClosed'
  BY <1>7 DEF StepGivesUp, Leaves, ClosedStaysClosed, IInv, TypeOK, Located, Stepped, Held,
     Elsewhere, Steps, Holds, Callers, shape, gateVars, flagVars, callVars, localVars, loopVars,
     ghostVars
<1>8. ASSUME NEW u \in Users, StepUncertain(u) PROVE ClosedStaysClosed'
  BY <1>8 DEF StepUncertain, Goes, ClosedStaysClosed, IInv, TypeOK, Located, Stepped, Held,
     Elsewhere, Steps, Holds, Callers, shape, gateVars, flagVars, callVars, localVars, loopVars,
     ghostVars
<1>9. ASSUME NEW u \in Users, StepEnds(u) PROVE ClosedStaysClosed'
  BY <1>9 DEF StepEnds, Leaves, ClosedStaysClosed, IInv, TypeOK, Located, Stepped, Held,
     Elsewhere, Steps, Holds, Callers, shape, gateVars, flagVars, callVars, localVars, loopVars,
     ghostVars
<1>10. ASSUME NEW u \in Users, NEW s \in Streams, StepResolves(u, s) PROVE ClosedStaysClosed'
  BY <1>10 DEF StepResolves, Enters, Resolvable, ClosedStaysClosed, IInv, TypeOK, Located,
     Stepped, Held, Elsewhere, Steps, Holds, Callers, shape, gateVars, flagVars, callVars,
     localVars, loopVars, ghostVars
<1>11. ASSUME NEW u \in Users, NEW s \in Streams, ResetResolves(u, s) PROVE ClosedStaysClosed'
  BY <1>11 DEF ResetResolves, Enters, Resolvable, ClosedStaysClosed, IInv, TypeOK, Located,
     Stepped, Held, Elsewhere, Steps, Holds, Callers, shape, gateVars, flagVars, callVars,
     localVars, loopVars, ghostVars
<1>12. ASSUME NEW u \in Users, NEW s \in Streams, CloseResolves(u, s) PROVE ClosedStaysClosed'
  BY <1>12 DEF CloseResolves, Enters, Resolvable, ClosedStaysClosed, IInv, TypeOK, Located,
     Stepped, Held, Elsewhere, Steps, Holds, Callers, shape, gateVars, flagVars, callVars,
     localVars, loopVars, ghostVars
<1>13. ASSUME NEW c \in Callers, ResetMarks(c) PROVE ClosedStaysClosed'
  BY <1>13 DEF ResetMarks, MarkReset, Goes, ClosedStaysClosed, IInv, TypeOK, Located,
     Stepped, Held, Elsewhere, Steps, Holds, Callers, shape, gateVars, flagVars, callVars,
     localVars, loopVars, ghostVars
<1>14. ASSUME NEW c \in Callers, ResetWaits(c) PROVE ClosedStaysClosed'
  BY <1>14 DEF ResetWaits, Goes, ClosedStaysClosed, IInv, TypeOK, Located, Stepped, Held,
     Elsewhere, Steps, Holds, Callers, shape, gateVars, flagVars, callVars, localVars, loopVars,
     ghostVars
<1>15. ASSUME NEW c \in Callers, ResetRefused(c) PROVE ClosedStaysClosed'
  BY <1>15 DEF ResetRefused, Back, Leaves, ClosedStaysClosed, IInv, TypeOK, Located, Stepped,
     Held, Elsewhere, Steps, Holds, Callers, shape, gateVars, flagVars, callVars, localVars,
     loopVars, ghostVars
<1>16. ASSUME NEW c \in Callers, ResetProceeds(c) PROVE ClosedStaysClosed'
  BY <1>16 DEF ResetProceeds, MarkReset, Goes, ClosedStaysClosed, IInv, TypeOK, Located,
     Stepped, Held, Elsewhere, Steps, Holds, Callers, shape, gateVars, flagVars, callVars,
     localVars, loopVars, ghostVars
<1>17. ASSUME NEW c \in Callers, ResetSucceeds(c) PROVE ClosedStaysClosed'
  BY <1>17 DEF ResetSucceeds, FinishReset, Back, Leaves, ClosedStaysClosed, IInv, TypeOK,
     Located, Stepped, Held, Elsewhere, Steps, Holds, Callers, shape, gateVars, flagVars,
     callVars, localVars, loopVars, ghostVars
<1>18. ASSUME NEW c \in Callers, ResetFails(c) PROVE ClosedStaysClosed'
  <2>1. PICK left \in {"FAILED", "RESET_REQUIRED"} : FinishReset(c, left, "FAILED", FALSE)
    BY <1>18 DEF ResetFails
  <2> QED
    BY <1>18, <2>1 DEF ResetFails, FinishReset, Back, Leaves, ClosedStaysClosed, IInv, TypeOK,
       Located, Stepped, Held, Elsewhere, Steps, Holds, Callers, shape, gateVars, flagVars,
       callVars, localVars, loopVars, ghostVars
<1>19. ASSUME NEW c \in Callers, ResetUnsupported(c) PROVE ClosedStaysClosed'
  BY <1>19 DEF ResetUnsupported, FinishReset, Back, Leaves, ClosedStaysClosed, IInv, TypeOK,
     Located, Stepped, Held, Elsewhere, Steps, Holds, Callers, shape, gateVars, flagVars,
     callVars, localVars, loopVars, ghostVars
<1>20. ASSUME NEW c \in Callers, CloseMarks(c) PROVE ClosedStaysClosed'
  BY <1>20 DEF CloseMarks, MarkClosing, Goes, ClosedStaysClosed, IInv, TypeOK, Located,
     Stepped, Held, Elsewhere, Steps, Holds, Callers, shape, gateVars, flagVars, callVars,
     localVars, loopVars, ghostVars
<1>21. ASSUME NEW c \in Callers, CloseWaits(c) PROVE ClosedStaysClosed'
  BY <1>21 DEF CloseWaits, Goes, ClosedStaysClosed, IInv, TypeOK, Located, Stepped, Held,
     Elsewhere, Steps, Holds, Callers, shape, gateVars, flagVars, callVars, localVars, loopVars,
     ghostVars
<1>22. ASSUME NEW c \in Callers, CloseUnneeded(c) PROVE ClosedStaysClosed'
  BY <1>22 DEF CloseUnneeded, Back, Leaves, ClosedStaysClosed, IInv, TypeOK, Located,
     Stepped, Held, Elsewhere, Steps, Holds, Callers, shape, gateVars, flagVars, callVars,
     localVars, loopVars, ghostVars
<1>23. ASSUME NEW c \in Callers, CloseProceeds(c) PROVE ClosedStaysClosed'
  BY <1>23 DEF CloseProceeds, MarkClosing, Goes, ClosedStaysClosed, IInv, TypeOK, Located,
     Stepped, Held, Elsewhere, Steps, Holds, Callers, shape, gateVars, flagVars, callVars,
     localVars, loopVars, ghostVars
<1>24. ASSUME NEW c \in Callers, CloseReturns(c) PROVE ClosedStaysClosed'
  BY <1>24 DEF CloseReturns, Back, Leaves, ClosedStaysClosed, IInv, TypeOK, Located, Stepped,
     Held, Elsewhere, Steps, Holds, Callers, shape, gateVars, flagVars, callVars, localVars,
     loopVars, ghostVars
<1>25. ASSUME NEW c \in Callers, WaitExpires(c) PROVE ClosedStaysClosed'
  BY <1>25 DEF WaitExpires, Back, Leaves, ClosedStaysClosed, IInv, TypeOK, Located, Stepped,
     Held, Elsewhere, Steps, Holds, Callers, shape, gateVars, flagVars, callVars, localVars,
     loopVars, ghostVars
<1>26. ASSUME RuntimeResetBegins PROVE ClosedStaysClosed'
  BY <1>26 DEF RuntimeResetBegins, Drains, AfterReset, OpenStreams, stays, ClosedStaysClosed,
     IInv, TypeOK, Located, Stepped, Held, Elsewhere, Steps, Holds, Callers, shape, gateVars,
     flagVars, callVars, localVars, loopVars, ghostVars
<1>27. ASSUME RuntimeResetTimesOut PROVE ClosedStaysClosed'
  BY <1>27 DEF RuntimeResetTimesOut, stays, ClosedStaysClosed, IInv, TypeOK, Located,
     Stepped, Held, Elsewhere, Steps, Holds, Callers, shape, gateVars, flagVars, callVars,
     localVars, loopVars, ghostVars
<1>28. ASSUME RuntimeCloseBegins PROVE ClosedStaysClosed'
  BY <1>28 DEF RuntimeCloseBegins, Drains, OpenStreams, stays, ClosedStaysClosed, IInv,
     TypeOK, Located, Stepped, Held, Elsewhere, Steps, Holds, Callers, shape, gateVars,
     flagVars, callVars, localVars, loopVars, ghostVars
<1>29. ASSUME RuntimeCloseTimesOut PROVE ClosedStaysClosed'
  BY <1>29 DEF RuntimeCloseTimesOut, stays, ClosedStaysClosed, IInv, TypeOK, Located,
     Stepped, Held, Elsewhere, Steps, Holds, Callers, shape, gateVars, flagVars, callVars,
     localVars, loopVars, ghostVars
<1>30. ASSUME RuntimeDrained PROVE ClosedStaysClosed'
  BY <1>30 DEF RuntimeDrained, Drains, AfterReset, OpenStreams, stays, ClosedStaysClosed,
     IInv, TypeOK, Located, Stepped, Held, Elsewhere, Steps, Holds, Callers, shape, gateVars,
     flagVars, callVars, localVars, loopVars, ghostVars
<1>31. ASSUME NEW s \in Streams, RuntimeResets(s) PROVE ClosedStaysClosed'
  BY <1>31 DEF RuntimeResets, ResetResolves, Enters, Resolvable, ClosedStaysClosed, IInv,
     TypeOK, Located, Stepped, Held, Elsewhere, Steps, Holds, Callers, shape, gateVars,
     flagVars, callVars, localVars, loopVars, ghostVars
<1>32. ASSUME NEW s \in Streams, RuntimeMisses(s) PROVE ClosedStaysClosed'
  BY <1>32 DEF RuntimeMisses, stays, ClosedStaysClosed, IInv, TypeOK, Located, Stepped, Held,
     Elsewhere, Steps, Holds, Callers, shape, gateVars, flagVars, callVars, localVars, loopVars,
     ghostVars
<1>33. ASSUME NEW s \in Streams, RuntimeCloses(s) PROVE ClosedStaysClosed'
  BY <1>33 DEF RuntimeCloses, Enters, stays, ClosedStaysClosed, IInv, TypeOK, Located,
     Stepped, Held, Elsewhere, Steps, Holds, Callers, shape, gateVars, flagVars, callVars,
     localVars, loopVars, ghostVars
<1>34. ASSUME RuntimeResetDone PROVE ClosedStaysClosed'
  BY <1>34 DEF RuntimeResetDone, stays, ClosedStaysClosed, IInv, TypeOK, Located, Stepped,
     Held, Elsewhere, Steps, Holds, Callers, shape, gateVars, flagVars, callVars, localVars,
     loopVars, ghostVars
<1>35. ASSUME RuntimeResetFails PROVE ClosedStaysClosed'
  BY <1>35 DEF RuntimeResetFails, stays, ClosedStaysClosed, IInv, TypeOK, Located, Stepped,
     Held, Elsewhere, Steps, Holds, Callers, shape, gateVars, flagVars, callVars, localVars,
     loopVars, ghostVars
<1>36. ASSUME RuntimeCloseDone PROVE ClosedStaysClosed'
  BY <1>36 DEF RuntimeCloseDone, stays, ClosedStaysClosed, IInv, TypeOK, Located, Stepped,
     Held, Elsewhere, Steps, Holds, Callers, shape, gateVars, flagVars, callVars, localVars,
     loopVars, ghostVars
<1>37. ASSUME UNCHANGED vars PROVE ClosedStaysClosed'
  BY <1>37 DEF vars, ClosedStaysClosed, IInv, TypeOK, Located, Stepped, Held, Elsewhere,
     Steps, Holds, Callers, shape, gateVars, flagVars, callVars, localVars, loopVars, ghostVars
<1> QED
  BY <1>1, <1>2, <1>3, <1>4, <1>5, <1>6, <1>7, <1>8, <1>9, <1>10, <1>11, <1>12, <1>13, <1>14,
     <1>15, <1>16, <1>17, <1>18, <1>19, <1>20, <1>21, <1>22, <1>23, <1>24, <1>25, <1>26, <1>27,
     <1>28, <1>29, <1>30, <1>31, <1>32, <1>33, <1>34, <1>35, <1>36, <1>37 DEF Next, UserBegins,
     UserWork, StreamControl, RuntimeBegins, RuntimeWork, Expires

(* The streams that are open, and the openings that are reserved.          *)

Opening == {u \in Users : call[u] = "opening"}

\* Open and opening streams can be counted.
LEMMA OpeningsAreFinite ==
  /\ IsFiniteSet(OpenStreams) /\ IsFiniteSet(Opening) /\ IsFiniteSet(Openings)
  /\ Cardinality(OpenStreams) \in Nat /\ Cardinality(Opening) \in Nat
  /\ Cardinality(Openings) \in Nat /\ Cardinality(Opening) <= Cardinality(Openings)
<1>1. OpenStreams \subseteq Streams /\ Opening \subseteq Openings /\ Openings \subseteq Users
  BY DEF OpenStreams, Opening, Openings
<1>2. IsFiniteSet(OpenStreams) /\ IsFiniteSet(Openings)
  BY <1>1, FS_Subset
<1> QED BY <1>1, <1>2, FS_Subset, FS_CardinalityType

\* Fewer streams fit where more did.
LEMMA ShrinkingFits ==
  ASSUME WithinCapacity, UNCHANGED exclusive, OpenStreams' \subseteq OpenStreams,
         Opening' \subseteq Opening
  PROVE  WithinCapacity'
<1>1. /\ Cardinality(OpenStreams') \in Nat /\ Cardinality(OpenStreams') <= Cardinality(OpenStreams)
      /\ Cardinality(Opening') \in Nat /\ Cardinality(Opening') <= Cardinality(Opening)
  BY OpeningsAreFinite, FS_Subset, FS_CardinalityType
<1>2. Capacity \in Nat /\ Capacity' = Capacity
  BY DEF Capacity
<1> QED BY <1>1, <1>2, OpeningsAreFinite DEF WithinCapacity, Opening

\* Without a lapse the capacity is kept.
LEMMA CapacityNext ==
  ASSUME IInv, TypeOK', ~lapsed, ~lapsed', WithinCapacity, [Next]_vars PROVE WithinCapacity'
<1>1. ASSUME NEW u \in Users, OpenReserves(u) PROVE WithinCapacity'
  <2>1. Opening' = Opening \cup {u} /\ u \notin Opening /\ OpenStreams' = OpenStreams
    BY <1>1 DEF OpenReserves, Goes, Opening, OpenStreams, IInv, TypeOK, Callers
  <2>2. Cardinality(Opening') = Cardinality(Opening) + 1
    BY <2>1, OpeningsAreFinite, FS_AddElement
  <2>3. Cardinality(OpenStreams) + Cardinality(Openings) < Capacity /\ Capacity' = Capacity
    BY <1>1 DEF OpenReserves, Capacity, shape
  <2>4. u \in Openings' /\ Capacity \in Nat
    BY <1>1 DEF OpenReserves, Goes, Openings, IInv, TypeOK, Callers, Capacity
  <2> QED BY <2>1, <2>2, <2>3, <2>4, OpeningsAreFinite DEF WithinCapacity, Opening
<1>2. ASSUME NEW u \in Users, OpenInserts(u) PROVE WithinCapacity'
  <2>1. PICK s \in Streams : state[s] = "NONE" /\ state' = [state EXCEPT ![s] = "OPEN"]
    BY <1>2 DEF OpenInserts
  <2>2. OpenStreams' = OpenStreams \cup {s} /\ s \notin OpenStreams
    BY <2>1 DEF OpenStreams, IInv, TypeOK
  <2>3. Opening' = Opening \ {u} /\ u \in Opening
    BY <1>2 DEF OpenInserts, Goes, Opening, IInv, TypeOK, Callers
  <2>4. /\ Cardinality(OpenStreams') = Cardinality(OpenStreams) + 1
        /\ Cardinality(Opening') = Cardinality(Opening) - 1
    BY <2>2, <2>3, OpeningsAreFinite, FS_AddElement, FS_RemoveElement
  <2>5. Capacity \in Nat /\ Capacity' = Capacity
    BY <1>2 DEF OpenInserts, Capacity, shape
  <2> QED BY <2>4, <2>5, OpeningsAreFinite DEF WithinCapacity, Opening
<1>3. ASSUME NEW u \in Users, OpenFails(u) PROVE WithinCapacity'
  <2>1. UNCHANGED exclusive /\ OpenStreams' \subseteq OpenStreams /\ Opening' \subseteq Opening
    BY <1>3 DEF OpenFails, Leaves, OpenStreams, Opening, IInv, TypeOK, Located, Stepped, Held,
       Elsewhere, Steps, Holds, Callers, shape, gateVars, flagVars, callVars, localVars, loopVars,
       ghostVars
  <2> QED BY <2>1, ShrinkingFits
<1>4. ASSUME NEW u \in Users, OpenReturns(u) PROVE WithinCapacity'
  <2>1. UNCHANGED exclusive /\ OpenStreams' \subseteq OpenStreams /\ Opening' \subseteq Opening
    BY <1>4 DEF OpenReturns, Leaves, OpenStreams, Opening, IInv, TypeOK, Located, Stepped, Held,
       Elsewhere, Steps, Holds, Callers, shape, gateVars, flagVars, callVars, localVars, loopVars,
       ghostVars
  <2> QED BY <2>1, ShrinkingFits
<1>5. ASSUME NEW u \in Users, StepChecks(u) PROVE WithinCapacity'
  <2>1. UNCHANGED exclusive /\ OpenStreams' \subseteq OpenStreams /\ Opening' \subseteq Opening
    BY <1>5 DEF StepChecks, Goes, Leaves, OpenStreams, Opening, IInv, TypeOK, Located, Stepped,
       Held, Elsewhere, Steps, Holds, Callers, shape, gateVars, flagVars, callVars, localVars,
       loopVars, ghostVars
  <2> QED BY <2>1, ShrinkingFits
<1>6. ASSUME NEW u \in Users, StepStarts(u) PROVE WithinCapacity'
  <2>1. UNCHANGED exclusive /\ OpenStreams' \subseteq OpenStreams /\ Opening' \subseteq Opening
    BY <1>6 DEF StepStarts, Goes, OpenStreams, Opening, IInv, TypeOK, Located, Stepped, Held,
       Elsewhere, Steps, Holds, Callers, shape, gateVars, flagVars, callVars, localVars, loopVars,
       ghostVars
  <2> QED BY <2>1, ShrinkingFits
<1>7. ASSUME NEW u \in Users, StepGivesUp(u) PROVE WithinCapacity'
  <2>1. UNCHANGED exclusive /\ OpenStreams' \subseteq OpenStreams /\ Opening' \subseteq Opening
    BY <1>7 DEF StepGivesUp, Leaves, OpenStreams, Opening, IInv, TypeOK, Located, Stepped, Held,
       Elsewhere, Steps, Holds, Callers, shape, gateVars, flagVars, callVars, localVars, loopVars,
       ghostVars
  <2> QED BY <2>1, ShrinkingFits
<1>8. ASSUME NEW u \in Users, StepUncertain(u) PROVE WithinCapacity'
  <2>1. UNCHANGED exclusive /\ OpenStreams' \subseteq OpenStreams /\ Opening' \subseteq Opening
    BY <1>8 DEF StepUncertain, Goes, OpenStreams, Opening, IInv, TypeOK, Located, Stepped, Held,
       Elsewhere, Steps, Holds, Callers, shape, gateVars, flagVars, callVars, localVars, loopVars,
       ghostVars
  <2> QED BY <2>1, ShrinkingFits
<1>9. ASSUME NEW u \in Users, StepEnds(u) PROVE WithinCapacity'
  <2>1. UNCHANGED exclusive /\ OpenStreams' \subseteq OpenStreams /\ Opening' \subseteq Opening
    BY <1>9 DEF StepEnds, Leaves, OpenStreams, Opening, IInv, TypeOK, Located, Stepped, Held,
       Elsewhere, Steps, Holds, Callers, shape, gateVars, flagVars, callVars, localVars, loopVars,
       ghostVars
  <2> QED BY <2>1, ShrinkingFits
<1>10. ASSUME NEW u \in Users, NEW s \in Streams, StepResolves(u, s) PROVE WithinCapacity'
  <2>1. UNCHANGED exclusive /\ OpenStreams' \subseteq OpenStreams /\ Opening' \subseteq Opening
    BY <1>10 DEF StepResolves, Enters, Resolvable, OpenStreams, Opening, IInv, TypeOK, Located,
       Stepped, Held, Elsewhere, Steps, Holds, Callers, shape, gateVars, flagVars, callVars,
       localVars, loopVars, ghostVars
  <2> QED BY <2>1, ShrinkingFits
<1>11. ASSUME NEW u \in Users, NEW s \in Streams, ResetResolves(u, s) PROVE WithinCapacity'
  <2>1. UNCHANGED exclusive /\ OpenStreams' \subseteq OpenStreams /\ Opening' \subseteq Opening
    BY <1>11 DEF ResetResolves, Enters, Resolvable, OpenStreams, Opening, IInv, TypeOK, Located,
       Stepped, Held, Elsewhere, Steps, Holds, Callers, shape, gateVars, flagVars, callVars,
       localVars, loopVars, ghostVars
  <2> QED BY <2>1, ShrinkingFits
<1>12. ASSUME NEW u \in Users, NEW s \in Streams, CloseResolves(u, s) PROVE WithinCapacity'
  <2>1. UNCHANGED exclusive /\ OpenStreams' \subseteq OpenStreams /\ Opening' \subseteq Opening
    BY <1>12 DEF CloseResolves, Enters, Resolvable, OpenStreams, Opening, IInv, TypeOK, Located,
       Stepped, Held, Elsewhere, Steps, Holds, Callers, shape, gateVars, flagVars, callVars,
       localVars, loopVars, ghostVars
  <2> QED BY <2>1, ShrinkingFits
<1>13. ASSUME NEW c \in Callers, ResetMarks(c) PROVE WithinCapacity'
  <2>1. UNCHANGED exclusive /\ OpenStreams' \subseteq OpenStreams /\ Opening' \subseteq Opening
    BY <1>13 DEF ResetMarks, MarkReset, Goes, OpenStreams, Opening, IInv, TypeOK, Located, Stepped,
       Held, Elsewhere, Steps, Holds, Callers, shape, gateVars, flagVars, callVars, localVars,
       loopVars, ghostVars
  <2> QED BY <2>1, ShrinkingFits
<1>14. ASSUME NEW c \in Callers, ResetWaits(c) PROVE WithinCapacity'
  <2>1. UNCHANGED exclusive /\ OpenStreams' \subseteq OpenStreams /\ Opening' \subseteq Opening
    BY <1>14 DEF ResetWaits, Goes, OpenStreams, Opening, IInv, TypeOK, Located, Stepped, Held,
       Elsewhere, Steps, Holds, Callers, shape, gateVars, flagVars, callVars, localVars, loopVars,
       ghostVars
  <2> QED BY <2>1, ShrinkingFits
<1>15. ASSUME NEW c \in Callers, ResetRefused(c) PROVE WithinCapacity'
  <2>1. UNCHANGED exclusive /\ OpenStreams' \subseteq OpenStreams /\ Opening' \subseteq Opening
    BY <1>15 DEF ResetRefused, Back, Leaves, OpenStreams, Opening, IInv, TypeOK, Located, Stepped,
       Held, Elsewhere, Steps, Holds, Callers, shape, gateVars, flagVars, callVars, localVars,
       loopVars, ghostVars
  <2> QED BY <2>1, ShrinkingFits
<1>16. ASSUME NEW c \in Callers, ResetProceeds(c) PROVE WithinCapacity'
  <2>1. UNCHANGED exclusive /\ OpenStreams' \subseteq OpenStreams /\ Opening' \subseteq Opening
    BY <1>16 DEF ResetProceeds, MarkReset, Goes, OpenStreams, Opening, IInv, TypeOK, Located,
       Stepped, Held, Elsewhere, Steps, Holds, Callers, shape, gateVars, flagVars, callVars,
       localVars, loopVars, ghostVars
  <2> QED BY <2>1, ShrinkingFits
<1>17. ASSUME NEW c \in Callers, ResetSucceeds(c) PROVE WithinCapacity'
  <2>1. UNCHANGED exclusive /\ OpenStreams' \subseteq OpenStreams /\ Opening' \subseteq Opening
    BY <1>17 DEF ResetSucceeds, FinishReset, Back, Leaves, OpenStreams, Opening, IInv, TypeOK,
       Located, Stepped, Held, Elsewhere, Steps, Holds, Callers, shape, gateVars, flagVars,
       callVars, localVars, loopVars, ghostVars
  <2> QED BY <2>1, ShrinkingFits
<1>18. ASSUME NEW c \in Callers, ResetFails(c) PROVE WithinCapacity'
  <2>1. PICK left \in {"FAILED", "RESET_REQUIRED"} : FinishReset(c, left, "FAILED", FALSE)
    BY <1>18 DEF ResetFails
  <2>2. UNCHANGED exclusive /\ OpenStreams' \subseteq OpenStreams /\ Opening' \subseteq Opening
    BY <1>18, <2>1 DEF ResetFails, FinishReset, Back, Leaves, OpenStreams, Opening, IInv, TypeOK, Located, Stepped,
       Held, Elsewhere, Steps, Holds, Callers, shape, gateVars, flagVars, callVars, localVars,
       loopVars, ghostVars
  <2> QED BY <2>2, ShrinkingFits
<1>19. ASSUME NEW c \in Callers, ResetUnsupported(c) PROVE WithinCapacity'
  <2>1. UNCHANGED exclusive /\ OpenStreams' \subseteq OpenStreams /\ Opening' \subseteq Opening
    BY <1>19 DEF ResetUnsupported, FinishReset, Back, Leaves, OpenStreams, Opening, IInv, TypeOK,
       Located, Stepped, Held, Elsewhere, Steps, Holds, Callers, shape, gateVars, flagVars,
       callVars, localVars, loopVars, ghostVars
  <2> QED BY <2>1, ShrinkingFits
<1>20. ASSUME NEW c \in Callers, CloseMarks(c) PROVE WithinCapacity'
  <2>1. UNCHANGED exclusive /\ OpenStreams' \subseteq OpenStreams /\ Opening' \subseteq Opening
    BY <1>20 DEF CloseMarks, MarkClosing, Goes, OpenStreams, Opening, IInv, TypeOK, Located,
       Stepped, Held, Elsewhere, Steps, Holds, Callers, shape, gateVars, flagVars, callVars,
       localVars, loopVars, ghostVars
  <2> QED BY <2>1, ShrinkingFits
<1>21. ASSUME NEW c \in Callers, CloseWaits(c) PROVE WithinCapacity'
  <2>1. UNCHANGED exclusive /\ OpenStreams' \subseteq OpenStreams /\ Opening' \subseteq Opening
    BY <1>21 DEF CloseWaits, Goes, OpenStreams, Opening, IInv, TypeOK, Located, Stepped, Held,
       Elsewhere, Steps, Holds, Callers, shape, gateVars, flagVars, callVars, localVars, loopVars,
       ghostVars
  <2> QED BY <2>1, ShrinkingFits
<1>22. ASSUME NEW c \in Callers, CloseUnneeded(c) PROVE WithinCapacity'
  <2>1. UNCHANGED exclusive /\ OpenStreams' \subseteq OpenStreams /\ Opening' \subseteq Opening
    BY <1>22 DEF CloseUnneeded, Back, Leaves, OpenStreams, Opening, IInv, TypeOK, Located, Stepped,
       Held, Elsewhere, Steps, Holds, Callers, shape, gateVars, flagVars, callVars, localVars,
       loopVars, ghostVars
  <2> QED BY <2>1, ShrinkingFits
<1>23. ASSUME NEW c \in Callers, CloseProceeds(c) PROVE WithinCapacity'
  <2>1. UNCHANGED exclusive /\ OpenStreams' \subseteq OpenStreams /\ Opening' \subseteq Opening
    BY <1>23 DEF CloseProceeds, MarkClosing, Goes, OpenStreams, Opening, IInv, TypeOK, Located,
       Stepped, Held, Elsewhere, Steps, Holds, Callers, shape, gateVars, flagVars, callVars,
       localVars, loopVars, ghostVars
  <2> QED BY <2>1, ShrinkingFits
<1>24. ASSUME NEW c \in Callers, CloseReturns(c) PROVE WithinCapacity'
  <2>1. UNCHANGED exclusive /\ OpenStreams' \subseteq OpenStreams /\ Opening' \subseteq Opening
    BY <1>24 DEF CloseReturns, Back, Leaves, OpenStreams, Opening, IInv, TypeOK, Located, Stepped,
       Held, Elsewhere, Steps, Holds, Callers, shape, gateVars, flagVars, callVars, localVars,
       loopVars, ghostVars
  <2> QED BY <2>1, ShrinkingFits
<1>25. ASSUME NEW c \in Callers, WaitExpires(c) PROVE WithinCapacity'
  <2>1. UNCHANGED exclusive /\ OpenStreams' \subseteq OpenStreams /\ Opening' \subseteq Opening
    BY <1>25 DEF WaitExpires, Back, Leaves, OpenStreams, Opening, IInv, TypeOK, Located, Stepped,
       Held, Elsewhere, Steps, Holds, Callers, shape, gateVars, flagVars, callVars, localVars,
       loopVars, ghostVars
  <2> QED BY <2>1, ShrinkingFits
<1>26. ASSUME RuntimeResetBegins PROVE WithinCapacity'
  <2>1. UNCHANGED exclusive /\ OpenStreams' \subseteq OpenStreams /\ Opening' \subseteq Opening
    BY <1>26 DEF RuntimeResetBegins, Drains, AfterReset, OpenStreams, stays, OpenStreams, Opening,
       IInv, TypeOK, Located, Stepped, Held, Elsewhere, Steps, Holds, Callers, shape, gateVars,
       flagVars, callVars, localVars, loopVars, ghostVars
  <2> QED BY <2>1, ShrinkingFits
<1>27. ASSUME RuntimeResetTimesOut PROVE WithinCapacity'
  <2>1. UNCHANGED exclusive /\ OpenStreams' \subseteq OpenStreams /\ Opening' \subseteq Opening
    BY <1>27 DEF RuntimeResetTimesOut, stays, OpenStreams, Opening, IInv, TypeOK, Located, Stepped,
       Held, Elsewhere, Steps, Holds, Callers, shape, gateVars, flagVars, callVars, localVars,
       loopVars, ghostVars
  <2> QED BY <2>1, ShrinkingFits
<1>28. ASSUME RuntimeCloseBegins PROVE WithinCapacity'
  <2>1. UNCHANGED exclusive /\ OpenStreams' \subseteq OpenStreams /\ Opening' \subseteq Opening
    BY <1>28 DEF RuntimeCloseBegins, Drains, OpenStreams, stays, OpenStreams, Opening, IInv,
       TypeOK, Located, Stepped, Held, Elsewhere, Steps, Holds, Callers, shape, gateVars,
       flagVars, callVars, localVars, loopVars, ghostVars
  <2> QED BY <2>1, ShrinkingFits
<1>29. ASSUME RuntimeCloseTimesOut PROVE WithinCapacity'
  <2>1. UNCHANGED exclusive /\ OpenStreams' \subseteq OpenStreams /\ Opening' \subseteq Opening
    BY <1>29 DEF RuntimeCloseTimesOut, stays, OpenStreams, Opening, IInv, TypeOK, Located, Stepped,
       Held, Elsewhere, Steps, Holds, Callers, shape, gateVars, flagVars, callVars, localVars,
       loopVars, ghostVars
  <2> QED BY <2>1, ShrinkingFits
<1>30. ASSUME RuntimeDrained PROVE WithinCapacity'
  <2>1. UNCHANGED exclusive /\ OpenStreams' \subseteq OpenStreams /\ Opening' \subseteq Opening
    BY <1>30 DEF RuntimeDrained, Drains, AfterReset, OpenStreams, stays, OpenStreams, Opening,
       IInv, TypeOK, Located, Stepped, Held, Elsewhere, Steps, Holds, Callers, shape, gateVars,
       flagVars, callVars, localVars, loopVars, ghostVars
  <2> QED BY <2>1, ShrinkingFits
<1>31. ASSUME NEW s \in Streams, RuntimeResets(s) PROVE WithinCapacity'
  <2>1. UNCHANGED exclusive /\ OpenStreams' \subseteq OpenStreams /\ Opening' \subseteq Opening
    BY <1>31 DEF RuntimeResets, ResetResolves, Enters, Resolvable, OpenStreams, Opening, IInv,
       TypeOK, Located, Stepped, Held, Elsewhere, Steps, Holds, Callers, shape, gateVars,
       flagVars, callVars, localVars, loopVars, ghostVars
  <2> QED BY <2>1, ShrinkingFits
<1>32. ASSUME NEW s \in Streams, RuntimeMisses(s) PROVE WithinCapacity'
  <2>1. UNCHANGED exclusive /\ OpenStreams' \subseteq OpenStreams /\ Opening' \subseteq Opening
    BY <1>32 DEF RuntimeMisses, stays, OpenStreams, Opening, IInv, TypeOK, Located, Stepped, Held,
       Elsewhere, Steps, Holds, Callers, shape, gateVars, flagVars, callVars, localVars, loopVars,
       ghostVars
  <2> QED BY <2>1, ShrinkingFits
<1>33. ASSUME NEW s \in Streams, RuntimeCloses(s) PROVE WithinCapacity'
  <2>1. UNCHANGED exclusive /\ OpenStreams' \subseteq OpenStreams /\ Opening' \subseteq Opening
    BY <1>33 DEF RuntimeCloses, Enters, stays, OpenStreams, Opening, IInv, TypeOK, Located,
       Stepped, Held, Elsewhere, Steps, Holds, Callers, shape, gateVars, flagVars, callVars,
       localVars, loopVars, ghostVars
  <2> QED BY <2>1, ShrinkingFits
<1>34. ASSUME RuntimeResetDone PROVE WithinCapacity'
  <2>1. UNCHANGED exclusive /\ OpenStreams' \subseteq OpenStreams /\ Opening' \subseteq Opening
    BY <1>34 DEF RuntimeResetDone, stays, OpenStreams, Opening, IInv, TypeOK, Located, Stepped,
       Held, Elsewhere, Steps, Holds, Callers, shape, gateVars, flagVars, callVars, localVars,
       loopVars, ghostVars
  <2> QED BY <2>1, ShrinkingFits
<1>35. ASSUME RuntimeResetFails PROVE WithinCapacity'
  <2>1. UNCHANGED exclusive /\ OpenStreams' \subseteq OpenStreams /\ Opening' \subseteq Opening
    BY <1>35 DEF RuntimeResetFails, stays, OpenStreams, Opening, IInv, TypeOK, Located, Stepped,
       Held, Elsewhere, Steps, Holds, Callers, shape, gateVars, flagVars, callVars, localVars,
       loopVars, ghostVars
  <2> QED BY <2>1, ShrinkingFits
<1>36. ASSUME RuntimeCloseDone PROVE WithinCapacity'
  <2>1. UNCHANGED exclusive /\ OpenStreams' \subseteq OpenStreams /\ Opening' \subseteq Opening
    BY <1>36 DEF RuntimeCloseDone, stays, OpenStreams, Opening, IInv, TypeOK, Located, Stepped,
       Held, Elsewhere, Steps, Holds, Callers, shape, gateVars, flagVars, callVars, localVars,
       loopVars, ghostVars
  <2> QED BY <2>1, ShrinkingFits
<1>37. ASSUME UNCHANGED vars PROVE WithinCapacity'
  <2>1. UNCHANGED exclusive /\ OpenStreams' \subseteq OpenStreams /\ Opening' \subseteq Opening
    BY <1>37 DEF vars, OpenStreams, Opening, IInv, TypeOK, Located, Stepped, Held, Elsewhere,
       Steps, Holds, Callers, shape, gateVars, flagVars, callVars, localVars, loopVars, ghostVars
  <2> QED BY <2>1, ShrinkingFits
<1> QED
  BY <1>1, <1>2, <1>3, <1>4, <1>5, <1>6, <1>7, <1>8, <1>9, <1>10, <1>11, <1>12, <1>13, <1>14,
     <1>15, <1>16, <1>17, <1>18, <1>19, <1>20, <1>21, <1>22, <1>23, <1>24, <1>25, <1>26, <1>27,
     <1>28, <1>29, <1>30, <1>31, <1>32, <1>33, <1>34, <1>35, <1>36, <1>37 DEF Next, UserBegins,
     UserWork, StreamControl, RuntimeBegins, RuntimeWork, Expires

-----------------------------------------------------------------------------
(* The inductive invariant holds in every reachable state: who is inside a *)
(* stream, what its record may be, and which checks of an earlier section  *)
(* still hold.                                                             *)
THEOREM StreamsInvariant == Spec => []IInv
<1>1. ASSUME IInv, [Next]_vars PROVE IInv'
  <2> USE <1>1
  <2>1. TypeOK'
    BY TypeNext DEF IInv
  <2>2. Located'
    BY <2>1, LocatedNext DEF IInv
  <2>3. Stepped' /\ Held'
    BY <2>1, SteppedNext, HeldNext DEF IInv
  <2>4. Gated'
    BY <2>1, GatedNext DEF IInv
  <2>5. OnlyLapsesHarm'
    <3>1. SUFFICES ASSUME ~lapsed' PROVE OnlyLapsesHarm'
      BY DEF OnlyLapsesHarm
    <3>2. ~lapsed /\ ControlIsQuiet /\ UncertainWaits /\ ClosedStaysClosed /\ WithinCapacity
      BY <3>1, LapsesStay DEF IInv, OnlyLapsesHarm
    <3> QED BY <2>1, <2>2, <2>3, <2>4, <3>1, <3>2, QuietNext, UncertainNext, ClosedNext, CapacityNext
            DEF OnlyLapsesHarm
  <2> QED BY <2>1, <2>2, <2>3, <2>4, <2>5 DEF IInv
<1> QED BY <1>1, InitIInv, PTL DEF Spec

(* Every variable keeps its type.                                          *)
THEOREM TypeCorrect == Spec => []TypeOK
  BY StreamsInvariant, PTL DEF IInv

(* The streaming runtime serves one call per stream at a time, for every   *)
(* number of threads and streams, even after a lapse (step, reset_stream,  *)
(* _close_stream_record).                                                  *)
THEOREM ServesOneCall == Spec => []OneCallPerStream
<1>1. IInv => OneCallPerStream
  BY DEF IInv, Located, Stepped, Held, OneCallPerStream, AtBackend, Elsewhere, Steps, Holds, Callers
<1> QED BY <1>1, StreamsInvariant, PTL

(* Drained controls, fenced streams, closed streams and the limit of open  *)
(* streams are safe from everything but an operation that goes on with     *)
(* checks that no longer hold (open_stream, step, reset_stream, reset,     *)
(* close).                                                                 *)
THEOREM LapsesAreTheOnlyHole == Spec => []OnlyLapsesHarm
  BY StreamsInvariant, PTL DEF IInv

=============================================================================

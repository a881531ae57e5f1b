------------------------ MODULE GlobalSessionsProofs ------------------------
(***************************************************************************)
(* What is proved of GlobalSessions for every set of sessions, pipelines,  *)
(* dispatches and closers: a pipeline is leased to one session at a time,  *)
(* no binding that is served is lost, Close is a drain barrier, and a      *)
(* Close that answers COMPLETED has closed the session.                    *)
(***************************************************************************)
EXTENDS GlobalSessions, TLAPS

\* The session exists, or has, and admits nothing any more.
Ended(s) == session[s] \notin {"NONE", "ACTIVE"}

\* The stages in which a dispatch tries the candidate it is at.
Trying ==
  {"observed", "waiting", "reobserved", "prepared", "opening", "bound", "dispatching"}

\* Where a thread is says which of its variables are set.
Places ==
  /\ \A d \in Dispatches : pc[d] \in Trying \/ open[d] # "none" => at[d] \in Pipelines
  /\ \A d \in Dispatches : d \in inFlight <=> pc[d] \notin {"idle", "done"}
  /\ \A c \in Closers : close[c] \notin {"idle", "done"} => subject[c] \in Sessions
  /\ \A c \in Closers : close[c] = "calling" => calling[c] \in Pipelines

TypeInv == TypeOK /\ Places

\* An Open is sent once for a candidate, and a candidate is tried once.
GoalInv ==
  /\ \A d \in Dispatches :
       /\ pc[d] \in {"idle", "observed", "waiting", "reobserved", "prepared"} => open[d] = "none"
       /\ pc[d] = "idle" => at[d] = Nobody
       /\ pc[d] = "opening" => open[d] # "none"
       /\ open[d] = "sent" => pc[d] \in {"opening", "leaving", "done"}
       /\ at[d] \notin left[d]
  /\ \A d \in late : pc[d] \in {"leaving", "done"} /\ open[d] # "none"
  /\ \A d \in Dispatches : cleanup[d] # "none" => d \in late /\ open[d] \in {"succeeded", "failed"}
  /\ \A p \in Pipelines, d \in Dispatches : served[p] = d \/ drained[p] = d =>
       /\ pc[d] # "idle" /\ p \notin left[d]
       /\ at[d] = p => open[d] \in {"succeeded", "failed"}

\* What is known of a process is never newer than the process.
BootInv ==
  /\ \A p \in Pipelines : trusted[p] <= status[p] /\ status[p] <= boot[p]
  /\ \A d \in Dispatches : at[d] \in Pipelines => seen[d] <= status[at[d]]
  /\ \A s \in Sessions, p \in Pipelines : bindingBoot[s][p] <= status[p]

\* A session that has left ACTIVE does not come back to it.
SessionInv ==
  /\ \A s \in Sessions : session[s] \in {"NONE", "GONE"} => ~HasBindings(s)
  /\ \A d \in Dispatches : pc[d] # "idle" => session[SessionOf[d]] # "NONE"
  /\ \A d \in unknown \cup late : Ended(SessionOf[d])
  /\ \A c \in Closers : close[c] \notin {"idle", "done"} => Ended(subject[c])
  /\ DrainBarrier

\* The binding at a pipeline is that of the dispatch, or it is gone and no
\* other one will be created.
MineOrGone(d, p) ==
  \/ bindingId[SessionOf[d]][p] = d
  \/ bindingId[SessionOf[d]][p] = Nobody /\ Ended(SessionOf[d])

OneHolder ==
  \A p \in Pipelines, r \in Sessions, s \in Sessions :
    bindingId[r][p] # Nobody /\ bindingId[s][p] # Nobody => r = s

OwnIds ==
  \A s \in Sessions, p \in Pipelines :
    bindingId[s][p] # Nobody => SessionOf[bindingId[s][p]] = s

OpenersInv ==
  \A d \in Dispatches :
    /\ pc[d] \in {"prepared", "opening"} =>
         /\ MineOrGone(d, at[d])
         /\ bindingId[SessionOf[d]][at[d]] = d => bindingBoot[SessionOf[d]][at[d]] = seen[d]
    /\ d \in late => MineOrGone(d, at[d])

\* A dispatch that uses a binding finds it, or its session has ended.
BoundInv ==
  \A d \in Dispatches : pc[d] = "bound" =>
    Ended(SessionOf[d]) \/ binding[SessionOf[d]][at[d]] \notin {"NONE", "OPENING"}

\* The binding is served at the pipeline, may be let in, or may be sent.
Tenant(d, p) == served[p] = d \/ (at[d] = p /\ open[d] = "sent" /\ seen[d] = boot[p])
Viable(d, p) == Tenant(d, p) \/ (pc[d] = "prepared" /\ at[d] = p /\ seen[d] = boot[p])

ViableInv ==
  \A p \in Pipelines, d \in Dispatches : Viable(d, p) =>
    bindingId[SessionOf[d]][p] = d /\ bindingBoot[SessionOf[d]][p] = boot[p]

\* A Close works on the bindings it was returned, and on no other.
CopiesInv ==
  \A c \in Closers, p \in Pipelines :
    close[c] \in {"draining", "calling"} /\ copy[c][p] # Nobody =>
      /\ SessionOf[copy[c][p]] = subject[c]
      /\ bindingId[subject[c]][p] \in {Nobody, copy[c][p]}

\* What has been drained does not live any more.
DrainedInv ==
  /\ \A c \in Closers, p \in Pipelines :
       /\ goal[c][p] # "none" => copy[c][p] # Nobody
       /\ close[c] \in {"draining", "calling"} /\ goal[c][p] = "succeeded" => ~Tenant(copy[c][p], p)
  /\ \A d \in Dispatches : cleanup[d] = "succeeded" => ~Tenant(d, at[d])

LeaseInv ==
  OneHolder /\ OwnIds /\ OpenersInv /\ BoundInv /\ ViableInv /\ CopiesInv /\ DrainedInv

\* A Close without a failure has drained, or has yet to drain, whatever is
\* left.
RemainderInv ==
  \A c \in Closers :
    /\ close[c] = "settled" => \A p \in Pipelines : binding[subject[c]][p] # "OPENING"
    /\ close[c] \in {"draining", "calling"} /\ failure[c] = {} =>
         \A p \in Pipelines : bindingId[subject[c]][p] # Nobody =>
           /\ copy[c][p] # Nobody
           /\ goal[c][p] = "none" \/ (close[c] = "calling" /\ calling[c] = p)
    /\ close[c] \in {"idle", "settling", "settled"} =>
         failure[c] = {} /\ \A p \in Pipelines : goal[c][p] = "none"

IInv == TypeInv /\ GoalInv /\ BootInv /\ SessionInv /\ LeaseInv /\ RemainderInv

USE NobodyAssumption, SessionOfAssumption

-----------------------------------------------------------------------------
(* What the helpers of the core do.                                        *)

\* The part of the type invariant that is about the core.
CoreType ==
  /\ session \in [Sessions -> SessionStates]
  /\ binding \in [Sessions -> [Pipelines -> BindingStates]]
  /\ bindingId \in [Sessions -> [Pipelines -> Dispatches \cup {Nobody}]]
  /\ bindingBoot \in [Sessions -> [Pipelines -> Nat]]
  /\ \A s \in Sessions, p \in Pipelines : bindingId[s][p] = Nobody <=> binding[s][p] = "NONE"
  /\ closeRequested \subseteq Sessions /\ retryPending \subseteq Sessions
  /\ unresolved \subseteq Sessions /\ terminal \subseteq Sessions
  /\ inFlight \subseteq Dispatches /\ quarantined \subseteq Pipelines

\* A session that has begun stays so, and one that has ended.
SessionsMove ==
  \A s \in Sessions :
    /\ session[s] # "NONE" => session'[s] # "NONE"
    /\ Ended(s) => Ended(s)'
    /\ session'[s] \in {"NONE", "GONE"} => session[s] \in {"NONE", "GONE"} \/ ~HasBindings(s)

\* The one binding is dropped.
Drops(s, p) ==
  \A r \in Sessions, q \in Pipelines :
    /\ bindingId'[r][q] = IF r = s /\ q = p THEN Nobody ELSE bindingId[r][q]
    /\ bindingBoot'[r][q] = IF r = s /\ q = p THEN 0 ELSE bindingBoot[r][q]
    /\ binding'[r][q] = IF r = s /\ q = p THEN "NONE" ELSE binding[r][q]

KeepsIds == UNCHANGED <<bindingId, bindingBoot>>

\* Forgetting a binding drops it and nothing else.
LEMMA ForgetDrops ==
  ASSUME CoreType, NEW s \in Sessions, NEW p \in Pipelines, Forget(s, p)
  PROVE  /\ Drops(s, p)
         /\ binding' \in [Sessions -> [Pipelines -> BindingStates]]
         /\ bindingId' \in [Sessions -> [Pipelines -> Dispatches \cup {Nobody}]]
         /\ bindingBoot' \in [Sessions -> [Pipelines -> Nat]]
BY DEF CoreType, Forget, Drops, BindingStates

\* mark_session_failed on the state of the core.
LEMMA MarkEffect ==
  ASSUME CoreType, NEW s \in Sessions, NEW P \in SUBSET Pipelines, MarkSessionFailed(s, P)
  PROVE  /\ CoreType' /\ SessionsMove /\ KeepsIds /\ inFlight' = inFlight
         /\ session[s] # "NONE" => Ended(s)'
         /\ \A r \in Sessions, q \in Pipelines :
              binding'[r][q] = "OPENING" => binding[r][q] = "OPENING"
<1>1. CASE ~Known(s)
  BY <1>1 DEF MarkSessionFailed, Known, CoreType, SessionsMove, KeepsIds, Ended, coreVars, bindingVars, flagVars
<1>2. CASE Known(s)
  <2>1. /\ session' = [session EXCEPT ![s] = "QUARANTINED"]
        /\ unresolved' = unresolved \cup {s}
        /\ binding' = [binding EXCEPT ![s] = [p \in Pipelines |->
             IF p \in P /\ Bound(s, p) THEN "QUARANTINED" ELSE binding[s][p]]]
        /\ quarantined' = quarantined \cup {p \in P : Bound(s, p)}
        /\ UNCHANGED <<bindingId, bindingBoot, closeRequested, retryPending, terminal, inFlight>>
    BY <1>2 DEF MarkSessionFailed
  <2>2. \A r \in Sessions, q \in Pipelines : binding'[r][q] =
          IF r = s /\ q \in P /\ binding[s][q] # "NONE" THEN "QUARANTINED" ELSE binding[r][q]
    BY <2>1 DEF CoreType, Bound
  <2>3. binding' \in [Sessions -> [Pipelines -> BindingStates]]
    BY <2>1 DEF CoreType, BindingStates
  <2>4. session' \in [Sessions -> SessionStates]
    BY <2>1 DEF CoreType, SessionStates
  <2> QED BY <2>1, <2>2, <2>3, <2>4 DEF CoreType, SessionsMove, KeepsIds, Ended
<1> QED BY <1>1, <1>2

\* The release of a binding on the state of the core.
LEMMA ReleaseEffect ==
  ASSUME CoreType, NEW d \in Dispatches, at[d] \in Pipelines, ReleaseBinding(d)
  PROVE  /\ CoreType' /\ SessionsMove /\ UNCHANGED <<session, inFlight>>
         /\ \/ UNCHANGED bindingVars
            \/ binding[SessionOf[d]][at[d]] = "OPENING" /\ Drops(SessionOf[d], at[d])
<1>1. CASE binding[SessionOf[d]][at[d]] = "OPENING"
  <2>1. Forget(SessionOf[d], at[d]) /\ UNCHANGED <<session, flagVars, inFlight, quarantined>>
    BY <1>1 DEF ReleaseBinding
  <2>2. SessionOf[d] \in Sessions
    OBVIOUS
  <2> QED BY <1>1, <2>1, <2>2, ForgetDrops DEF CoreType, Drops, SessionsMove, Ended, flagVars
<1>2. CASE binding[SessionOf[d]][at[d]] # "OPENING"
  BY <1>2 DEF ReleaseBinding, CoreType, SessionsMove, Ended, flagVars, bindingVars
<1> QED BY <1>1, <1>2

\* record_binding_closed on the state of the core.
LEMMA ClosedEffect ==
  ASSUME CoreType, NEW s \in Sessions, NEW p \in Pipelines, RecordBindingClosed(s, p)
  PROVE  /\ CoreType' /\ SessionsMove /\ UNCHANGED <<session, inFlight>>
         /\ \/ UNCHANGED bindingVars /\ ~Known(s)
            \/ Drops(s, p)
<1>1. CASE ~Known(s)
  BY <1>1 DEF RecordBindingClosed, CoreType, SessionsMove, Ended, coreVars, bindingVars, flagVars
<1>2. CASE Known(s)
  <2>1. Forget(s, p) /\ UNCHANGED <<session, closeRequested, retryPending, inFlight>>
    BY <1>2 DEF RecordBindingClosed
  <2>2. unresolved' \subseteq Sessions /\ terminal' \subseteq Sessions
    BY <1>2 DEF RecordBindingClosed, RetainDrainedFailure, CoreType
  <2>3. quarantined' \subseteq Pipelines
    BY <1>2 DEF RecordBindingClosed, CoreType
  <2> QED BY <2>1, <2>2, <2>3, ForgetDrops DEF CoreType, Drops, SessionsMove, Ended
<1> QED BY <1>1, <1>2

\* record_close_complete on the state of the core.
LEMMA CompleteEffect ==
  ASSUME CoreType, NEW s \in Sessions, NEW success \in BOOLEAN, RecordCloseComplete(s, success)
  PROVE  CoreType' /\ SessionsMove /\ UNCHANGED <<bindingVars, inFlight>>
<1>1. CASE ~Known(s)
  BY <1>1 DEF RecordCloseComplete, CoreType, SessionsMove, Ended, coreVars, bindingVars, flagVars
<1>2. CASE Known(s)
  <2>1. UNCHANGED <<bindingVars, closeRequested, retryPending, inFlight, quarantined>>
    BY <1>2 DEF RecordCloseComplete
  <2>2. \E x \in {"CLOSED", "QUARANTINED"} : session' = [session EXCEPT ![s] = x]
    BY <1>2 DEF RecordCloseComplete
  <2>3. unresolved' \subseteq Sessions /\ terminal' \subseteq Sessions
    BY <1>2 DEF RecordCloseComplete, RetainDrainedFailure, CoreType
  <2>4. session' \in [Sessions -> SessionStates]
    BY <2>2 DEF CoreType, SessionStates
  <2> QED BY <2>1, <2>2, <2>3, <2>4 DEF CoreType, SessionsMove, Ended, Known, bindingVars
<1> QED BY <1>1, <1>2

-----------------------------------------------------------------------------
(* Types.                                                                  *)

\* The part of the type invariant that is about the threads.
ThreadType ==
  /\ status \in [Pipelines -> Nat] /\ trusted \in [Pipelines -> Nat]
  /\ pc \in [Dispatches -> DispatchStages]
  /\ at \in [Dispatches -> Pipelines \cup {Nobody}]
  /\ left \in [Dispatches -> SUBSET Pipelines]
  /\ seen \in [Dispatches -> Nat]
  /\ unknown \subseteq Dispatches
  /\ open \in [Dispatches -> GoalStates]
  /\ late \subseteq Dispatches
  /\ cleanup \in [Dispatches -> GoalStates \cup {"recorded", "done"}]
  /\ close \in [Closers -> CloseStages]
  /\ subject \in [Closers -> Sessions \cup {Nobody}]
  /\ calling \in [Closers -> Pipelines \cup {Nobody}]
  /\ copy \in [Closers -> [Pipelines -> Dispatches \cup {Nobody}]]
  /\ copyBoot \in [Closers -> [Pipelines -> Nat]]
  /\ goal \in [Closers -> [Pipelines -> GoalStates]]
  /\ failure \in [Closers -> SUBSET {"unknown", "failed", "not_started"}]
  /\ completed \subseteq Closers
  /\ boot \in [Pipelines -> Nat]
  /\ served \in [Pipelines -> Dispatches \cup {Nobody}]
  /\ drained \in [Pipelines -> Dispatches \cup {Nobody}]

\* The types are those of the core and those of the threads.
LEMMA TwoTypes == TypeOK <=> CoreType /\ ThreadType
BY DEF TypeOK, CoreType, ThreadType

\* A drain keeps the types of the pipelines.
LEMMA DrainTypes ==
  ASSUME ThreadType, NEW p \in Pipelines, NEW b \in Dispatches, NEW i, NEW result, Drain(p, b, i, result)
  PROVE  /\ served' \in [Pipelines -> Dispatches \cup {Nobody}]
         /\ drained' \in [Pipelines -> Dispatches \cup {Nobody}]
         /\ boot' = boot
<1>1. /\ served' = served \/ served' = [served EXCEPT ![p] = Nobody]
      /\ drained' = drained \/ drained' = [drained EXCEPT ![p] = b]
      /\ boot' = boot
  BY DEF Drain, pipelineVars
<1>2. /\ served \in [Pipelines -> Dispatches \cup {Nobody}]
      /\ drained \in [Pipelines -> Dispatches \cup {Nobody}]
  BY DEF ThreadType
<1>3. served' \in [Pipelines -> Dispatches \cup {Nobody}]
  BY <1>1, <1>2
<1>4. drained' \in [Pipelines -> Dispatches \cup {Nobody}]
  BY <1>1, <1>2
<1> QED BY <1>1, <1>3, <1>4

\* Every step keeps the types of the core.
LEMMA CoreStep == TypeInv /\ GoalInv /\ [Next]_vars => CoreType' /\ SessionsMove
<1> SUFFICES ASSUME CoreType, ThreadType, Places, GoalInv, [Next]_vars PROVE CoreType' /\ SessionsMove
  BY TwoTypes DEF TypeInv
<1> DEFINE Goal == CoreType' /\ SessionsMove
<1>k. ASSUME UNCHANGED coreVars PROVE Goal
  BY <1>k DEF CoreType, SessionsMove, Ended, coreVars, bindingVars, flagVars
<1>a. \A d \in Dispatches : SessionOf[d] \in Sessions
  OBVIOUS
<1>1. ASSUME NEW s \in Sessions, OpenSession(s) PROVE Goal
  <2>1. PICK P \in SUBSET (Purgeable \ {s}) :
          /\ session' = [r \in Sessions |->
               IF r \in P THEN "GONE"
               ELSE IF r = s /\ session[s] = "NONE" THEN "ACTIVE" ELSE session[r]]
          /\ terminal' = terminal \ P
          /\ closeRequested' = closeRequested \ P
          /\ retryPending' = retryPending \ P
          /\ UNCHANGED <<bindingVars, unresolved, inFlight, quarantined>>
    BY <1>1 DEF OpenSession
  <2>2. session' \in [Sessions -> SessionStates]
    BY <2>1 DEF CoreType, SessionStates
  <2>3. \A r \in P : ~HasBindings(r)
    BY <2>1 DEF Purgeable
  <2>4. SessionsMove
    BY <2>1, <2>3 DEF SessionsMove, Ended
  <2> QED BY <2>1, <2>2, <2>4 DEF CoreType, bindingVars
<1>2. ASSUME NEW d \in Dispatches, Begin(d) PROVE Goal
  BY <1>2 DEF Begin, CoreType, SessionsMove, Ended, Known, SessionStates, BindingStates,
     flagVars, bindingVars, coreVars, statusVars, dispatchVars, openVars, runVars,
     closeVars, pipelineVars
<1>3. ASSUME NEW d \in Dispatches, ReadBoot(d) PROVE Goal
  BY <1>3, <1>k DEF ReadBoot
<1>4. ASSUME NEW d \in Dispatches, Exhausted(d) PROVE Goal
  BY <1>4, <1>k DEF Exhausted
<1>5. ASSUME NEW d \in Dispatches, PrepareFails(d) PROVE Goal
  BY <1>5, <1>k DEF PrepareFails
<1>6. ASSUME NEW d \in Dispatches, PrepareSkips(d) PROVE Goal
  BY <1>6, <1>k DEF PrepareSkips
<1>7. ASSUME NEW d \in Dispatches, PrepareUses(d) PROVE Goal
  BY <1>7, <1>k DEF PrepareUses
<1>8. ASSUME NEW d \in Dispatches, PrepareWaits(d) PROVE Goal
  BY <1>8, <1>k DEF PrepareWaits
<1>9. ASSUME NEW d \in Dispatches, PrepareOpens(d) PROVE Goal
  <2> DEFINE s == SessionOf[d]
             p == at[d]
  <2>1. /\ s \in Sessions /\ p \in Pipelines
        /\ binding' = [binding EXCEPT ![s][p] = "OPENING"]
        /\ bindingId' = [bindingId EXCEPT ![s][p] = d]
        /\ bindingBoot' = [bindingBoot EXCEPT ![s][p] = seen[d]]
        /\ UNCHANGED <<session, flagVars, inFlight, quarantined>>
    BY <1>9 DEF PrepareOpens, Preparing, Places, Trying
  <2>2. seen[d] \in Nat
    BY DEF ThreadType
  <2>3. /\ binding' \in [Sessions -> [Pipelines -> BindingStates]]
        /\ bindingId' \in [Sessions -> [Pipelines -> Dispatches \cup {Nobody}]]
        /\ bindingBoot' \in [Sessions -> [Pipelines -> Nat]]
    BY <2>1, <2>2 DEF CoreType, BindingStates
  <2>4. \A r \in Sessions, q \in Pipelines : bindingId'[r][q] = Nobody <=> binding'[r][q] = "NONE"
    BY <2>1 DEF CoreType
  <2> QED BY <2>1, <2>3, <2>4 DEF CoreType, SessionsMove, Ended, flagVars
<1>10. ASSUME NEW d \in Dispatches, AwaitOpen(d) PROVE Goal
  BY <1>10, <1>k DEF AwaitOpen
<1>11. ASSUME NEW d \in Dispatches, Refuse(d) PROVE Goal
  <2>1. ReleaseBinding(d) /\ at[d] \in Pipelines
    BY <1>11 DEF Refuse, Places, Trying
  <2> QED BY <2>1, ReleaseEffect
<1>12. ASSUME NEW d \in Dispatches, SendOpen(d) PROVE Goal
  BY <1>12, <1>k DEF SendOpen
<1>13. ASSUME NEW d \in Dispatches, OpenNotStarted(d) PROVE Goal
  <2>1. ReleaseBinding(d) /\ at[d] \in Pipelines
    BY <1>13 DEF OpenNotStarted, Places, Trying
  <2> QED BY <2>1, ReleaseEffect
<1>14. ASSUME NEW d \in Dispatches, OpenFails(d) PROVE Goal
  <2>1. MarkSessionFailed(SessionOf[d], {at[d]}) /\ at[d] \in Pipelines
    BY <1>14 DEF OpenFails, Places, Trying
  <2> QED BY <1>a, <2>1, MarkEffect
<1>15. ASSUME NEW d \in Dispatches, OpenSucceeds(d) PROVE Goal
  <2> DEFINE s == SessionOf[d]
             p == at[d]
  <2>1. /\ s \in Sessions /\ p \in Pipelines
        /\ UNCHANGED <<bindingId, bindingBoot, flagVars, inFlight, quarantined>>
    BY <1>15 DEF OpenSucceeds, Places, Trying
  <2>2. CASE UNCHANGED <<binding, session>>
    BY <2>1, <2>2, <1>k DEF coreVars, bindingVars
  <2>3. CASE /\ binding[s][p] = "OPENING" /\ binding' = [binding EXCEPT ![s][p] = "ACTIVE"]
             /\ \/ session' = [session EXCEPT ![s] = "CLOSING"]
                \/ session' = [session EXCEPT ![s] = session[s]]
    <3>a. session' \in [Sessions -> SessionStates]
      BY <2>1, <2>3 DEF CoreType, SessionStates
    <3>b. binding \in [Sessions -> [Pipelines -> BindingStates]]
      BY DEF CoreType
    <3>1. binding' \in [Sessions -> [Pipelines -> BindingStates]]
      BY <2>1, <2>3, <3>b DEF BindingStates
    <3>2. \A r \in Sessions, q \in Pipelines : binding'[r][q] = "NONE" <=> binding[r][q] = "NONE"
      BY <2>1, <2>3 DEF CoreType
    <3>3. SessionsMove
      BY <2>1, <2>3 DEF CoreType, SessionsMove, Ended
    <3> QED BY <2>1, <3>a, <3>1, <3>2, <3>3 DEF CoreType, flagVars
  <2> QED BY <1>15, <2>2, <2>3 DEF OpenSucceeds
<1>16. ASSUME NEW d \in Dispatches, ReadBinding(d) PROVE Goal
  BY <1>16, <1>k DEF ReadBinding
<1>17. ASSUME NEW d \in Dispatches, DispatchNotStarted(d) PROVE Goal
  BY <1>17, <1>k DEF DispatchNotStarted
<1>18. ASSUME NEW d \in Dispatches, DispatchCompletes(d) PROVE Goal
  BY <1>18, <1>k DEF DispatchCompletes
<1>19. ASSUME NEW d \in Dispatches, DispatchUnknown(d) PROVE Goal
  <2>1. MarkSessionFailed(SessionOf[d], {at[d]}) /\ at[d] \in Pipelines
    BY <1>19 DEF DispatchUnknown, Places, Trying
  <2> QED BY <1>a, <2>1, MarkEffect
<1>20. ASSUME NEW d \in Dispatches, Leave(d) PROVE Goal
  <2>1. /\ UNCHANGED <<session, bindingVars, closeRequested, retryPending, quarantined>>
        /\ inFlight' = inFlight \ {d}
    BY <1>20 DEF Leave
  <2>2. unresolved' \subseteq Sessions /\ terminal' \subseteq Sessions
    BY <1>20, <1>a DEF Leave, RetainDrainedFailure, CoreType
  <2> QED BY <2>1, <2>2 DEF CoreType, SessionsMove, Ended, bindingVars
<1>21. ASSUME NEW d \in Dispatches, AwaitTimesOut(d) PROVE Goal
  BY <1>21, <1>k DEF AwaitTimesOut
<1>22. ASSUME NEW d \in Dispatches, OpenUnknown(d) PROVE Goal
  <2>1. MarkSessionFailed(SessionOf[d], {at[d]}) /\ at[d] \in Pipelines
    BY <1>22 DEF OpenUnknown, Places, Trying
  <2> QED BY <1>a, <2>1, MarkEffect
<1>23. ASSUME NEW d \in Dispatches, RefuseOpen(d) PROVE Goal
  BY <1>23, <1>k DEF RefuseOpen
<1>24. ASSUME NEW d \in Dispatches, ExecuteOpen(d) PROVE Goal
  BY <1>24, <1>k DEF ExecuteOpen
<1>25. ASSUME NEW d \in Dispatches, SendCleanup(d) PROVE Goal
  BY <1>25, <1>k DEF SendCleanup
<1>26. ASSUME NEW d \in Dispatches, CleanupDrained(d) PROVE Goal
  <2>1. RecordBindingClosed(SessionOf[d], at[d]) /\ at[d] \in Pipelines
    BY <1>26 DEF CleanupDrained, Places, GoalInv
  <2> QED BY <1>a, <2>1, ClosedEffect
<1>27. ASSUME NEW d \in Dispatches, CleanupCompletes(d) PROVE Goal
  <2>1. RecordCloseComplete(SessionOf[d], TRUE)
    BY <1>27 DEF CleanupCompletes
  <2> QED BY <1>a, <2>1, CompleteEffect
<1>28. ASSUME NEW d \in Dispatches, ExecuteCleanup(d) PROVE Goal
  BY <1>28, <1>k DEF ExecuteCleanup
<1>29. ASSUME NEW c \in Closers, NEW s \in Sessions, BeginClose(c, s) PROVE Goal
  BY <1>29 DEF BeginClose, CloseGoes, CoreType, SessionsMove, Ended, Known, SessionStates,
     BindingStates, flagVars, bindingVars, coreVars, statusVars, dispatchVars, openVars,
     runVars, closeVars, pipelineVars
<1>30. ASSUME NEW c \in Closers, Settle(c) PROVE Goal
  BY <1>30, <1>k DEF Settle
<1>31. ASSUME NEW c \in Closers, SettleTimesOut(c) PROVE Goal
  BY <1>31, <1>k DEF SettleTimesOut
<1>32. ASSUME NEW c \in Closers, CloseExpires(c) PROVE Goal
  <2>1. MarkSessionFailed(subject[c], Pipelines) /\ subject[c] \in Sessions
    BY <1>32 DEF CloseExpires, Places
  <2> QED BY <2>1, MarkEffect
<1>33. ASSUME NEW c \in Closers, CloseBindings(c) PROVE Goal
  <2>1. /\ subject[c] \in Sessions
        /\ UNCHANGED <<session, bindingId, bindingBoot, flagVars, inFlight, quarantined>>
    BY <1>33 DEF CloseBindings, Places
  <2>2. binding' = [binding EXCEPT ![subject[c]] = [p \in Pipelines |->
          IF binding[subject[c]][p] \in {"ACTIVE", "QUARANTINED", "CLOSING"}
          THEN "CLOSING" ELSE binding[subject[c]][p]]]
    BY <1>33 DEF CloseBindings
  <2>3. binding' \in [Sessions -> [Pipelines -> BindingStates]]
    BY <2>1, <2>2 DEF CoreType, BindingStates
  <2>4. \A s \in Sessions, p \in Pipelines : binding'[s][p] = "NONE" <=> binding[s][p] = "NONE"
    BY <2>1, <2>2 DEF CoreType
  <2> QED BY <2>1, <2>3, <2>4 DEF CoreType, SessionsMove, Ended, flagVars
<1>34. ASSUME NEW c \in Closers, FinishClose(c) PROVE Goal
  <2>1. subject[c] \in Sessions
    BY <1>34 DEF FinishClose, Places
  <2>2. CASE \E success \in BOOLEAN : RecordCloseComplete(subject[c], success)
    BY <2>1, <2>2, CompleteEffect
  <2>3. CASE RecordCloseNotStarted(subject[c]) /\ Known(subject[c])
    <3>1. /\ session' = [session EXCEPT ![subject[c]] = "CLOSING"]
          /\ UNCHANGED <<bindingVars, closeRequested, terminal, inFlight, quarantined>>
          /\ retryPending' \subseteq Sessions /\ unresolved' \subseteq Sessions
      BY <2>1, <2>3 DEF RecordCloseNotStarted, CoreType
    <3> QED BY <2>1, <2>3, <3>1 DEF CoreType, SessionsMove, Ended, Known, SessionStates, bindingVars
  <2>4. CASE RecordCloseNotStarted(subject[c]) /\ ~Known(subject[c])
    BY <2>4, <1>k DEF RecordCloseNotStarted
  <2> QED BY <1>34, <2>2, <2>3, <2>4 DEF FinishClose
<1>35. ASSUME NEW c \in Closers, NEW p \in Pipelines, SendClose(c, p) PROVE Goal
  BY <1>35, <1>k DEF SendClose
<1>36. ASSUME NEW c \in Closers, NEW p \in Pipelines, CloseRefused(c, p) PROVE Goal
  BY <1>36, <1>k DEF CloseRefused
<1>37. ASSUME NEW c \in Closers, NEW p \in Pipelines, CloseFails(c, p) PROVE Goal
  <2>1. MarkSessionFailed(subject[c], {p}) /\ subject[c] \in Sessions
    BY <1>37 DEF CloseFails, Places
  <2> QED BY <2>1, MarkEffect
<1>38. ASSUME NEW c \in Closers, NEW p \in Pipelines, CloseDrained(c, p) PROVE Goal
  <2>1. RecordBindingClosed(subject[c], p) /\ subject[c] \in Sessions
    BY <1>38 DEF CloseDrained, Places
  <2> QED BY <2>1, ClosedEffect
<1>39. ASSUME NEW c \in Closers, NEW p \in Pipelines, CloseUnknown(c, p) PROVE Goal
  <2>1. MarkSessionFailed(subject[c], {p}) /\ subject[c] \in Sessions
    BY <1>39 DEF CloseUnknown, Places
  <2> QED BY <2>1, MarkEffect
<1>40. ASSUME NEW c \in Closers, NEW p \in Pipelines, ExecuteClose(c, p) PROVE Goal
  BY <1>40, <1>k DEF ExecuteClose
<1>41. ASSUME NEW p \in Pipelines, StatusArrives(p) PROVE Goal
  BY <1>41, <1>k DEF StatusArrives
<1>42. ASSUME NEW p \in Pipelines, Reconcile(p) PROVE Goal
  BY <1>42 DEF Reconcile, CoreType, SessionsMove, Ended, Known, SessionStates,
     BindingStates, flagVars, bindingVars, coreVars, statusVars, dispatchVars, openVars,
     runVars, closeVars, pipelineVars
<1>43. ASSUME NEW p \in Pipelines, Reboot(p) PROVE Goal
  BY <1>43, <1>k DEF Reboot
<1>44. CASE UNCHANGED vars
  BY <1>44 DEF vars, CoreType, SessionsMove, Ended, Known, SessionStates, BindingStates,
     flagVars, bindingVars, coreVars, statusVars, dispatchVars, openVars, runVars,
     closeVars, pipelineVars
<1> QED BY <1>1, <1>2, <1>3, <1>4, <1>5, <1>6, <1>7, <1>8, <1>9, <1>10, <1>11, <1>12, <1>13,
     <1>14, <1>15, <1>16, <1>17, <1>18, <1>19, <1>20, <1>21, <1>22, <1>23, <1>24, <1>25,
     <1>26, <1>27, <1>28, <1>29, <1>30, <1>31, <1>32, <1>33, <1>34, <1>35, <1>36, <1>37,
     <1>38, <1>39, <1>40, <1>41, <1>42, <1>43, <1>44 DEF Next, DispatchStep, DispatchWork,
     CleanupStep, CloserStep, CloseWork, PipelineStep

\* Every step keeps the types of the threads.
LEMMA ThreadStep == TypeInv /\ GoalInv /\ [Next]_vars => ThreadType'
<1> SUFFICES ASSUME CoreType, ThreadType, Places, GoalInv, [Next]_vars PROVE ThreadType'
  BY TwoTypes DEF TypeInv
<1> USE DEF ThreadType, DispatchStages, CloseStages, GoalStates, statusVars, dispatchVars, openVars, closeVars, runVars, pipelineVars
<1>1. ASSUME NEW s \in Sessions, OpenSession(s) PROVE ThreadType'
  BY <1>1 DEF OpenSession
<1>2. ASSUME NEW d \in Dispatches, Begin(d) PROVE ThreadType'
  BY <1>2 DEF Begin
<1>3. ASSUME NEW d \in Dispatches, ReadBoot(d) PROVE ThreadType'
  BY <1>3 DEF ReadBoot
<1>4. ASSUME NEW d \in Dispatches, Exhausted(d) PROVE ThreadType'
  BY <1>4 DEF Exhausted, Answers, Answered
<1>5. ASSUME NEW d \in Dispatches, PrepareFails(d) PROVE ThreadType'
  BY <1>5 DEF PrepareFails, Answers, Answered
<1>6. ASSUME NEW d \in Dispatches, PrepareSkips(d) PROVE ThreadType'
  BY <1>6 DEF PrepareSkips, Goes, Preparing
<1>7. ASSUME NEW d \in Dispatches, PrepareUses(d) PROVE ThreadType'
  BY <1>7 DEF PrepareUses, Goes, Preparing
<1>8. ASSUME NEW d \in Dispatches, PrepareWaits(d) PROVE ThreadType'
  BY <1>8 DEF PrepareWaits, Goes, Preparing
<1>9. ASSUME NEW d \in Dispatches, PrepareOpens(d) PROVE ThreadType'
  BY <1>9 DEF PrepareOpens, Goes, Preparing
<1>10. ASSUME NEW d \in Dispatches, AwaitOpen(d) PROVE ThreadType'
  <2>1. at[d] \in Pipelines
    BY <1>10 DEF AwaitOpen, Places, Trying
  <2> QED BY <1>10, <2>1 DEF AwaitOpen
<1>11. ASSUME NEW d \in Dispatches, Refuse(d) PROVE ThreadType'
  BY <1>11 DEF Refuse, ReleaseBinding
<1>12. ASSUME NEW d \in Dispatches, SendOpen(d) PROVE ThreadType'
  BY <1>12 DEF SendOpen, Goes
<1>13. ASSUME NEW d \in Dispatches, OpenNotStarted(d) PROVE ThreadType'
  BY <1>13 DEF OpenNotStarted, Goes, ReleaseBinding
<1>14. ASSUME NEW d \in Dispatches, OpenFails(d) PROVE ThreadType'
  BY <1>14 DEF OpenFails, Answers, Answered
<1>15. ASSUME NEW d \in Dispatches, OpenSucceeds(d) PROVE ThreadType'
  BY <1>15 DEF OpenSucceeds, Goes, Answers, Answered
<1>16. ASSUME NEW d \in Dispatches, ReadBinding(d) PROVE ThreadType'
  <2>1. CASE Goes(d, "dispatching")
    BY <1>16, <2>1 DEF ReadBinding, Goes
  <2>2. CASE AnswersUnknown(d)
    BY <1>16, <2>2 DEF ReadBinding, AnswersUnknown, Answered
  <2> QED BY <1>16, <2>1, <2>2 DEF ReadBinding
<1>17. ASSUME NEW d \in Dispatches, DispatchNotStarted(d) PROVE ThreadType'
  BY <1>17 DEF DispatchNotStarted, Goes
<1>18. ASSUME NEW d \in Dispatches, DispatchCompletes(d) PROVE ThreadType'
  BY <1>18 DEF DispatchCompletes, Answers, Answered
<1>19. ASSUME NEW d \in Dispatches, DispatchUnknown(d) PROVE ThreadType'
  BY <1>19 DEF DispatchUnknown, AnswersUnknown, Answered
<1>20. ASSUME NEW d \in Dispatches, Leave(d) PROVE ThreadType'
  BY <1>20 DEF Leave, Goes
<1>21. ASSUME NEW d \in Dispatches, AwaitTimesOut(d) PROVE ThreadType'
  BY <1>21 DEF AwaitTimesOut, Goes
<1>22. ASSUME NEW d \in Dispatches, OpenUnknown(d) PROVE ThreadType'
  BY <1>22 DEF OpenUnknown, AnswersUnknown, Answered
<1>23. ASSUME NEW d \in Dispatches, RefuseOpen(d) PROVE ThreadType'
  BY <1>23 DEF RefuseOpen
<1>24. ASSUME NEW d \in Dispatches, ExecuteOpen(d) PROVE ThreadType'
  <2>1. at[d] \in Pipelines
    BY <1>24 DEF ExecuteOpen, Places
  <2>2. /\ open' \in [Dispatches -> GoalStates]
        /\ served' \in [Pipelines -> Dispatches \cup {Nobody}]
    BY <1>24, <2>1 DEF ExecuteOpen
  <2> QED BY <1>24, <2>2 DEF ExecuteOpen
<1>25. ASSUME NEW d \in Dispatches, SendCleanup(d) PROVE ThreadType'
  BY <1>25 DEF SendCleanup
<1>26. ASSUME NEW d \in Dispatches, CleanupDrained(d) PROVE ThreadType'
  BY <1>26 DEF CleanupDrained
<1>27. ASSUME NEW d \in Dispatches, CleanupCompletes(d) PROVE ThreadType'
  BY <1>27 DEF CleanupCompletes
<1>28. ASSUME NEW d \in Dispatches, ExecuteCleanup(d) PROVE ThreadType'
  <2>1. at[d] \in Pipelines
    BY <1>28 DEF ExecuteCleanup, GoalInv, Places
  <2>2. PICK result \in GoalStates :
          /\ Drain(at[d], d, seen[d], result) /\ cleanup' = [cleanup EXCEPT ![d] = result]
    BY <1>28 DEF ExecuteCleanup
  <2>3. /\ served' \in [Pipelines -> Dispatches \cup {Nobody}]
        /\ drained' \in [Pipelines -> Dispatches \cup {Nobody}] /\ boot' = boot
    BY <2>1, <2>2, DrainTypes
  <2>4. cleanup' \in [Dispatches -> GoalStates \cup {"recorded", "done"}]
    BY <2>2
  <2> QED BY <1>28, <2>3, <2>4 DEF ExecuteCleanup
<1>29. ASSUME NEW c \in Closers, NEW s \in Sessions, BeginClose(c, s) PROVE ThreadType'
  BY <1>29 DEF BeginClose, CloseGoes
<1>30. ASSUME NEW c \in Closers, Settle(c) PROVE ThreadType'
  BY <1>30 DEF Settle, CloseGoes, Settled
<1>31. ASSUME NEW c \in Closers, SettleTimesOut(c) PROVE ThreadType'
  BY <1>31 DEF SettleTimesOut, CloseGoes, Settled
<1>32. ASSUME NEW c \in Closers, CloseExpires(c) PROVE ThreadType'
  BY <1>32 DEF CloseExpires, CloseEnds, CloseGoes
<1>33. ASSUME NEW c \in Closers, CloseBindings(c) PROVE ThreadType'
  <2> DEFINE s == subject[c]
             closing == {p \in Pipelines : binding[s][p] \in {"ACTIVE", "QUARANTINED", "CLOSING"}}
  <2>1. /\ s \in Sessions
        /\ copy' = [copy EXCEPT ![c] = [p \in Pipelines |->
             IF p \in closing THEN bindingId[s][p] ELSE Nobody]]
        /\ copyBoot' = [copyBoot EXCEPT ![c] = [p \in Pipelines |->
             IF p \in closing THEN bindingBoot[s][p] ELSE 0]]
    BY <1>33 DEF CloseBindings, Places
  <2>2. \A p \in Pipelines : bindingId[s][p] \in Dispatches \cup {Nobody} /\ bindingBoot[s][p] \in Nat
    BY <2>1 DEF CoreType
  <2>3. /\ copy' \in [Closers -> [Pipelines -> Dispatches \cup {Nobody}]]
        /\ copyBoot' \in [Closers -> [Pipelines -> Nat]]
    BY <2>1, <2>2
  <2> QED BY <1>33, <2>3 DEF CloseBindings, CloseGoes
<1>34. ASSUME NEW c \in Closers, FinishClose(c) PROVE ThreadType'
  <2>1. CloseEnds(c) /\ completed' \subseteq Closers
    BY <1>34 DEF FinishClose
  <2>2. /\ goal' \in [Closers -> [Pipelines -> GoalStates]]
        /\ copy' \in [Closers -> [Pipelines -> Dispatches \cup {Nobody}]]
        /\ copyBoot' \in [Closers -> [Pipelines -> Nat]]
    BY <2>1 DEF CloseEnds
  <2>3. /\ close' \in [Closers -> CloseStages] /\ subject' \in [Closers -> Sessions \cup {Nobody}]
        /\ calling' \in [Closers -> Pipelines \cup {Nobody}]
        /\ failure' \in [Closers -> SUBSET {"unknown", "failed", "not_started"}]
    BY <2>1 DEF CloseEnds, CloseGoes
  <2> QED BY <1>34, <2>1, <2>2, <2>3 DEF FinishClose
<1>35. ASSUME NEW c \in Closers, NEW p \in Pipelines, SendClose(c, p) PROVE ThreadType'
  BY <1>35 DEF SendClose, CloseGoes, Remaining
<1>36. ASSUME NEW c \in Closers, NEW p \in Pipelines, CloseRefused(c, p) PROVE ThreadType'
  BY <1>36 DEF CloseRefused, CloseGoes
<1>37. ASSUME NEW c \in Closers, NEW p \in Pipelines, CloseFails(c, p) PROVE ThreadType'
  BY <1>37 DEF CloseFails, CloseGoes
<1>38. ASSUME NEW c \in Closers, NEW p \in Pipelines, CloseDrained(c, p) PROVE ThreadType'
  BY <1>38 DEF CloseDrained, CloseGoes
<1>39. ASSUME NEW c \in Closers, NEW p \in Pipelines, CloseUnknown(c, p) PROVE ThreadType'
  BY <1>39 DEF CloseUnknown, CloseGoes
<1>40. ASSUME NEW c \in Closers, NEW p \in Pipelines, ExecuteClose(c, p) PROVE ThreadType'
  <2>1. PICK result \in GoalStates :
          /\ Drain(p, copy[c][p], copyBoot[c][p], result)
          /\ goal' = [goal EXCEPT ![c][p] = result]
    BY <1>40 DEF ExecuteClose
  <2>2. copy[c][p] \in Dispatches \cup {Nobody}
    OBVIOUS
  <2>3. /\ served' \in [Pipelines -> Dispatches \cup {Nobody}]
        /\ drained' \in [Pipelines -> Dispatches \cup {Nobody}] /\ boot' = boot
    BY <2>1, <2>2 DEF Drain
  <2>4. goal' \in [Closers -> [Pipelines -> GoalStates]]
    BY <2>1
  <2> QED BY <1>40, <2>3, <2>4 DEF ExecuteClose
<1>41. ASSUME NEW p \in Pipelines, StatusArrives(p) PROVE ThreadType'
  BY <1>41 DEF StatusArrives
<1>42. ASSUME NEW p \in Pipelines, Reconcile(p) PROVE ThreadType'
  BY <1>42 DEF Reconcile
<1>43. ASSUME NEW p \in Pipelines, Reboot(p) PROVE ThreadType'
  BY <1>43 DEF Reboot
<1>44. CASE UNCHANGED vars
  BY <1>44 DEF vars
<1> QED BY <1>1, <1>2, <1>3, <1>4, <1>5, <1>6, <1>7, <1>8, <1>9, <1>10, <1>11, <1>12, <1>13,
     <1>14, <1>15, <1>16, <1>17, <1>18, <1>19, <1>20, <1>21, <1>22, <1>23, <1>24, <1>25,
     <1>26, <1>27, <1>28, <1>29, <1>30, <1>31, <1>32, <1>33, <1>34, <1>35, <1>36, <1>37,
     <1>38, <1>39, <1>40, <1>41, <1>42, <1>43, <1>44 DEF Next, DispatchStep, DispatchWork,
     CleanupStep, CloserStep, CloseWork, PipelineStep

-----------------------------------------------------------------------------
(* Where the threads are.                                                  *)

\* A dispatch is in flight between its admission and its end.
LEMMA FlightStep == TypeInv /\ GoalInv /\ [Next]_vars =>
  \A x \in Dispatches : x \in inFlight' <=> pc'[x] \notin {"idle", "done"}
<1> DEFINE Goal == \A x \in Dispatches : x \in inFlight' <=> pc'[x] \notin {"idle", "done"}
<1> SUFFICES ASSUME CoreType, ThreadType, Places, GoalInv, [Next]_vars PROVE Goal
  BY TwoTypes DEF TypeInv
<1>pc. pc \in [Dispatches -> DispatchStages] /\ inFlight \subseteq Dispatches
  BY DEF ThreadType, CoreType
<1>in. \A x \in Dispatches : x \in inFlight <=> pc[x] \notin {"idle", "done"}
  BY DEF Places
<1>1. ASSUME NEW s \in Sessions, OpenSession(s) PROVE Goal
  BY <1>1, <1>pc, <1>in DEF OpenSession, coreVars, dispatchVars
<1>2. ASSUME NEW d \in Dispatches, Begin(d) PROVE Goal
  BY <1>2, <1>pc, <1>in DEF Begin, coreVars, dispatchVars
<1>3. ASSUME NEW d \in Dispatches, ReadBoot(d) PROVE Goal
  BY <1>3, <1>pc, <1>in DEF ReadBoot, coreVars, dispatchVars
<1>4. ASSUME NEW d \in Dispatches, Exhausted(d) PROVE Goal
  BY <1>4, <1>pc, <1>in DEF Exhausted, Answers, Answered, coreVars, dispatchVars
<1>5. ASSUME NEW d \in Dispatches, PrepareFails(d) PROVE Goal
  BY <1>5, <1>pc, <1>in DEF PrepareFails, Answers, Answered, coreVars, dispatchVars
<1>6. ASSUME NEW d \in Dispatches, PrepareSkips(d) PROVE Goal
  BY <1>6, <1>pc, <1>in DEF PrepareSkips, Goes, Preparing, coreVars, dispatchVars
<1>7. ASSUME NEW d \in Dispatches, PrepareUses(d) PROVE Goal
  BY <1>7, <1>pc, <1>in DEF PrepareUses, Goes, Preparing, coreVars, dispatchVars
<1>8. ASSUME NEW d \in Dispatches, PrepareWaits(d) PROVE Goal
  BY <1>8, <1>pc, <1>in DEF PrepareWaits, Goes, Preparing, coreVars, dispatchVars
<1>9. ASSUME NEW d \in Dispatches, PrepareOpens(d) PROVE Goal
  BY <1>9, <1>pc, <1>in DEF PrepareOpens, Goes, Preparing, coreVars, dispatchVars
<1>10. ASSUME NEW d \in Dispatches, AwaitOpen(d) PROVE Goal
  BY <1>10, <1>pc, <1>in DEF AwaitOpen, coreVars, dispatchVars
<1>11. ASSUME NEW d \in Dispatches, Refuse(d) PROVE Goal
  <2>1. ReleaseBinding(d) /\ at[d] \in Pipelines /\ SessionOf[d] \in Sessions
    BY <1>11 DEF Refuse, Places, Trying
  <2>2. UNCHANGED <<session, inFlight>> /\ SessionsMove
        /\ \/ UNCHANGED bindingVars
           \/ binding[SessionOf[d]][at[d]] = "OPENING" /\ Drops(SessionOf[d], at[d])
    BY <2>1, ReleaseEffect
  <2> QED BY <1>11, <2>2, <1>pc, <1>in DEF Refuse, coreVars, dispatchVars
<1>12. ASSUME NEW d \in Dispatches, SendOpen(d) PROVE Goal
  BY <1>12, <1>pc, <1>in DEF SendOpen, Goes, coreVars, dispatchVars
<1>13. ASSUME NEW d \in Dispatches, OpenNotStarted(d) PROVE Goal
  <2>1. ReleaseBinding(d) /\ at[d] \in Pipelines /\ SessionOf[d] \in Sessions
    BY <1>13 DEF OpenNotStarted, Places, Trying
  <2>2. UNCHANGED <<session, inFlight>> /\ SessionsMove
        /\ \/ UNCHANGED bindingVars
           \/ binding[SessionOf[d]][at[d]] = "OPENING" /\ Drops(SessionOf[d], at[d])
    BY <2>1, ReleaseEffect
  <2> QED BY <1>13, <2>2, <1>pc, <1>in DEF OpenNotStarted, Goes, coreVars, dispatchVars
<1>14. ASSUME NEW d \in Dispatches, OpenFails(d) PROVE Goal
  <2>1. MarkSessionFailed(SessionOf[d], {at[d]}) /\ at[d] \in Pipelines /\ SessionOf[d] \in Sessions
    BY <1>14 DEF OpenFails, Places, Trying
  <2>2. CoreType' /\ SessionsMove /\ KeepsIds /\ inFlight' = inFlight
        /\ (session[SessionOf[d]] # "NONE" => session'[SessionOf[d]] \notin {"NONE", "ACTIVE"})
    BY <2>1, MarkEffect DEF Ended
  <2> QED BY <1>14, <2>2, <1>pc, <1>in DEF OpenFails, Answers, Answered, coreVars, dispatchVars
<1>15. ASSUME NEW d \in Dispatches, OpenSucceeds(d) PROVE Goal
  BY <1>15, <1>pc, <1>in DEF OpenSucceeds, Goes, Answers, Answered, coreVars, dispatchVars
<1>16. ASSUME NEW d \in Dispatches, ReadBinding(d) PROVE Goal
  BY <1>16, <1>pc, <1>in DEF ReadBinding, Goes, AnswersUnknown, Answered, coreVars,
     dispatchVars
<1>17. ASSUME NEW d \in Dispatches, DispatchNotStarted(d) PROVE Goal
  BY <1>17, <1>pc, <1>in DEF DispatchNotStarted, Goes, coreVars, dispatchVars
<1>18. ASSUME NEW d \in Dispatches, DispatchCompletes(d) PROVE Goal
  BY <1>18, <1>pc, <1>in DEF DispatchCompletes, Answers, Answered, coreVars, dispatchVars
<1>19. ASSUME NEW d \in Dispatches, DispatchUnknown(d) PROVE Goal
  <2>1. MarkSessionFailed(SessionOf[d], {at[d]}) /\ at[d] \in Pipelines /\ SessionOf[d] \in Sessions
    BY <1>19 DEF DispatchUnknown, Places, Trying
  <2>2. CoreType' /\ SessionsMove /\ KeepsIds /\ inFlight' = inFlight
        /\ (session[SessionOf[d]] # "NONE" => session'[SessionOf[d]] \notin {"NONE", "ACTIVE"})
    BY <2>1, MarkEffect DEF Ended
  <2> QED BY <1>19, <2>2, <1>pc, <1>in DEF DispatchUnknown, AnswersUnknown, Answered, coreVars,
      dispatchVars
<1>20. ASSUME NEW d \in Dispatches, Leave(d) PROVE Goal
  BY <1>20, <1>pc, <1>in DEF Leave, Goes, coreVars, dispatchVars
<1>21. ASSUME NEW d \in Dispatches, AwaitTimesOut(d) PROVE Goal
  BY <1>21, <1>pc, <1>in DEF AwaitTimesOut, Goes, coreVars, dispatchVars
<1>22. ASSUME NEW d \in Dispatches, OpenUnknown(d) PROVE Goal
  <2>1. MarkSessionFailed(SessionOf[d], {at[d]}) /\ at[d] \in Pipelines /\ SessionOf[d] \in Sessions
    BY <1>22 DEF OpenUnknown, Places, Trying
  <2>2. CoreType' /\ SessionsMove /\ KeepsIds /\ inFlight' = inFlight
        /\ (session[SessionOf[d]] # "NONE" => session'[SessionOf[d]] \notin {"NONE", "ACTIVE"})
    BY <2>1, MarkEffect DEF Ended
  <2> QED BY <1>22, <2>2, <1>pc, <1>in DEF OpenUnknown, AnswersUnknown, Answered, coreVars,
      dispatchVars
<1>23. ASSUME NEW d \in Dispatches, RefuseOpen(d) PROVE Goal
  BY <1>23, <1>pc, <1>in DEF RefuseOpen, coreVars, dispatchVars
<1>24. ASSUME NEW d \in Dispatches, ExecuteOpen(d) PROVE Goal
  BY <1>24, <1>pc, <1>in DEF ExecuteOpen, coreVars, dispatchVars
<1>25. ASSUME NEW d \in Dispatches, SendCleanup(d) PROVE Goal
  BY <1>25, <1>pc, <1>in DEF SendCleanup, coreVars, dispatchVars
<1>26. ASSUME NEW d \in Dispatches, CleanupDrained(d) PROVE Goal
  <2>1. RecordBindingClosed(SessionOf[d], at[d]) /\ at[d] \in Pipelines /\ SessionOf[d] \in Sessions
    BY <1>26 DEF CleanupDrained, Places, GoalInv
  <2>2. UNCHANGED <<session, inFlight>> /\ SessionsMove
        /\ (UNCHANGED bindingVars \/ Drops(SessionOf[d], at[d]))
    BY <2>1, ClosedEffect
  <2> QED BY <1>26, <2>2, <1>pc, <1>in DEF CleanupDrained, coreVars, dispatchVars
<1>27. ASSUME NEW d \in Dispatches, CleanupCompletes(d) PROVE Goal
  <2>1. RecordCloseComplete(SessionOf[d], TRUE) /\ SessionOf[d] \in Sessions
    BY <1>27 DEF CleanupCompletes, Places
  <2>2. SessionsMove /\ UNCHANGED <<bindingVars, inFlight>>
    BY <2>1, CompleteEffect
  <2> QED BY <1>27, <2>2, <1>pc, <1>in DEF CleanupCompletes, coreVars, dispatchVars
<1>28. ASSUME NEW d \in Dispatches, ExecuteCleanup(d) PROVE Goal
  BY <1>28, <1>pc, <1>in DEF ExecuteCleanup, Drain, coreVars, dispatchVars
<1>29. ASSUME NEW c \in Closers, NEW s \in Sessions, BeginClose(c, s) PROVE Goal
  BY <1>29, <1>pc, <1>in DEF BeginClose, CloseGoes, coreVars, dispatchVars
<1>30. ASSUME NEW c \in Closers, Settle(c) PROVE Goal
  BY <1>30, <1>pc, <1>in DEF Settle, CloseGoes, Settled, coreVars, dispatchVars
<1>31. ASSUME NEW c \in Closers, SettleTimesOut(c) PROVE Goal
  BY <1>31, <1>pc, <1>in DEF SettleTimesOut, CloseGoes, Settled, coreVars, dispatchVars
<1>32. ASSUME NEW c \in Closers, CloseExpires(c) PROVE Goal
  <2>1. MarkSessionFailed(subject[c], Pipelines) /\ subject[c] \in Sessions
    BY <1>32 DEF CloseExpires, Places
  <2>2. CoreType' /\ SessionsMove /\ KeepsIds /\ inFlight' = inFlight
        /\ (session[subject[c]] # "NONE" => session'[subject[c]] \notin {"NONE", "ACTIVE"})
    BY <2>1, MarkEffect DEF Ended
  <2> QED BY <1>32, <2>2, <1>pc, <1>in DEF CloseExpires, coreVars, dispatchVars
<1>33. ASSUME NEW c \in Closers, CloseBindings(c) PROVE Goal
  BY <1>33, <1>pc, <1>in DEF CloseBindings, CloseGoes, coreVars, dispatchVars
<1>34. ASSUME NEW c \in Closers, FinishClose(c) PROVE Goal
  <2>1. subject[c] \in Sessions /\ pc' = pc
    BY <1>34 DEF FinishClose, Places, dispatchVars
  <2>2. CASE \E success \in BOOLEAN : RecordCloseComplete(subject[c], success)
    BY <2>1, <2>2, <1>in, CompleteEffect
  <2>3. CASE RecordCloseNotStarted(subject[c])
    BY <2>1, <2>3, <1>in DEF RecordCloseNotStarted, coreVars
  <2> QED BY <1>34, <2>2, <2>3 DEF FinishClose
<1>35. ASSUME NEW c \in Closers, NEW p \in Pipelines, SendClose(c, p) PROVE Goal
  BY <1>35, <1>pc, <1>in DEF SendClose, CloseGoes, Remaining, coreVars, dispatchVars
<1>36. ASSUME NEW c \in Closers, NEW p \in Pipelines, CloseRefused(c, p) PROVE Goal
  BY <1>36, <1>pc, <1>in DEF CloseRefused, CloseGoes, coreVars, dispatchVars
<1>37. ASSUME NEW c \in Closers, NEW p \in Pipelines, CloseFails(c, p) PROVE Goal
  <2>1. MarkSessionFailed(subject[c], {p}) /\ subject[c] \in Sessions
    BY <1>37 DEF CloseFails, Places
  <2>2. CoreType' /\ SessionsMove /\ KeepsIds /\ inFlight' = inFlight
        /\ (session[subject[c]] # "NONE" => session'[subject[c]] \notin {"NONE", "ACTIVE"})
    BY <2>1, MarkEffect DEF Ended
  <2> QED BY <1>37, <2>2, <1>pc, <1>in DEF CloseFails, coreVars, dispatchVars
<1>38. ASSUME NEW c \in Closers, NEW p \in Pipelines, CloseDrained(c, p) PROVE Goal
  <2>1. RecordBindingClosed(subject[c], p) /\ subject[c] \in Sessions
    BY <1>38 DEF CloseDrained, Places
  <2>2. UNCHANGED <<session, inFlight>> /\ SessionsMove
        /\ (UNCHANGED bindingVars \/ Drops(subject[c], p))
    BY <2>1, ClosedEffect
  <2> QED BY <1>38, <2>2, <1>pc, <1>in DEF CloseDrained, coreVars, dispatchVars
<1>39. ASSUME NEW c \in Closers, NEW p \in Pipelines, CloseUnknown(c, p) PROVE Goal
  <2>1. MarkSessionFailed(subject[c], {p}) /\ subject[c] \in Sessions
    BY <1>39 DEF CloseUnknown, Places
  <2>2. CoreType' /\ SessionsMove /\ KeepsIds /\ inFlight' = inFlight
        /\ (session[subject[c]] # "NONE" => session'[subject[c]] \notin {"NONE", "ACTIVE"})
    BY <2>1, MarkEffect DEF Ended
  <2> QED BY <1>39, <2>2, <1>pc, <1>in DEF CloseUnknown, coreVars, dispatchVars
<1>40. ASSUME NEW c \in Closers, NEW p \in Pipelines, ExecuteClose(c, p) PROVE Goal
  BY <1>40, <1>pc, <1>in DEF ExecuteClose, Drain, coreVars, dispatchVars
<1>41. ASSUME NEW p \in Pipelines, StatusArrives(p) PROVE Goal
  BY <1>41, <1>pc, <1>in DEF StatusArrives, coreVars, dispatchVars
<1>42. ASSUME NEW p \in Pipelines, Reconcile(p) PROVE Goal
  BY <1>42, <1>pc, <1>in DEF Reconcile, coreVars, dispatchVars
<1>43. ASSUME NEW p \in Pipelines, Reboot(p) PROVE Goal
  BY <1>43, <1>pc, <1>in DEF Reboot, coreVars, dispatchVars
<1>44. CASE UNCHANGED vars
  BY <1>44, <1>pc, <1>in DEF vars, coreVars, dispatchVars
<1> QED BY <1>1, <1>2, <1>3, <1>4, <1>5, <1>6, <1>7, <1>8, <1>9, <1>10, <1>11, <1>12, <1>13,
     <1>14, <1>15, <1>16, <1>17, <1>18, <1>19, <1>20, <1>21, <1>22, <1>23, <1>24, <1>25,
     <1>26, <1>27, <1>28, <1>29, <1>30, <1>31, <1>32, <1>33, <1>34, <1>35, <1>36, <1>37,
     <1>38, <1>39, <1>40, <1>41, <1>42, <1>43, <1>44 DEF Next, DispatchStep, DispatchWork,
     CleanupStep, CloserStep, CloseWork, PipelineStep

\* Every step keeps threads at the places they are about.
LEMMA PlacesStep == TypeInv /\ GoalInv /\ [Next]_vars => Places'
<1> DEFINE AtPlace == \A x \in Dispatches : pc'[x] \in Trying \/ open'[x] # "none" => at'[x] \in Pipelines
           Closing == /\ \A x \in Closers : close'[x] \notin {"idle", "done"} => subject'[x] \in Sessions
                      /\ \A x \in Closers : close'[x] = "calling" => calling'[x] \in Pipelines
<1> SUFFICES ASSUME ThreadType, Places, GoalInv, [Next]_vars PROVE AtPlace /\ Closing
  BY FlightStep, TwoTypes DEF TypeInv, Places
<1> USE DEF ThreadType, Places, Trying, dispatchVars, openVars, closeVars, runVars
<1>1. ASSUME NEW s \in Sessions, OpenSession(s) PROVE AtPlace /\ Closing
  BY <1>1 DEF OpenSession
<1>2. ASSUME NEW d \in Dispatches, Begin(d) PROVE AtPlace /\ Closing
  BY <1>2 DEF Begin
<1>3. ASSUME NEW d \in Dispatches, ReadBoot(d) PROVE AtPlace /\ Closing
  BY <1>3 DEF ReadBoot
<1>4. ASSUME NEW d \in Dispatches, Exhausted(d) PROVE AtPlace /\ Closing
  BY <1>4 DEF Exhausted, Answers, Answered
<1>5. ASSUME NEW d \in Dispatches, PrepareFails(d) PROVE AtPlace /\ Closing
  BY <1>5 DEF PrepareFails, Answers, Answered
<1>6. ASSUME NEW d \in Dispatches, PrepareSkips(d) PROVE AtPlace /\ Closing
  BY <1>6 DEF PrepareSkips, Goes, Preparing
<1>7. ASSUME NEW d \in Dispatches, PrepareUses(d) PROVE AtPlace /\ Closing
  BY <1>7 DEF PrepareUses, Goes, Preparing
<1>8. ASSUME NEW d \in Dispatches, PrepareWaits(d) PROVE AtPlace /\ Closing
  BY <1>8 DEF PrepareWaits, Goes, Preparing
<1>9. ASSUME NEW d \in Dispatches, PrepareOpens(d) PROVE AtPlace /\ Closing
  BY <1>9 DEF PrepareOpens, Goes, Preparing
<1>10. ASSUME NEW d \in Dispatches, AwaitOpen(d) PROVE AtPlace /\ Closing
  BY <1>10 DEF AwaitOpen
<1>11. ASSUME NEW d \in Dispatches, Refuse(d) PROVE AtPlace /\ Closing
  BY <1>11 DEF Refuse, ReleaseBinding
<1>12. ASSUME NEW d \in Dispatches, SendOpen(d) PROVE AtPlace /\ Closing
  BY <1>12 DEF SendOpen, Goes
<1>13. ASSUME NEW d \in Dispatches, OpenNotStarted(d) PROVE AtPlace /\ Closing
  BY <1>13 DEF OpenNotStarted, Goes, ReleaseBinding
<1>14. ASSUME NEW d \in Dispatches, OpenFails(d) PROVE AtPlace /\ Closing
  BY <1>14 DEF OpenFails, Answers, Answered
<1>15. ASSUME NEW d \in Dispatches, OpenSucceeds(d) PROVE AtPlace /\ Closing
  BY <1>15 DEF OpenSucceeds, Goes, Answers, Answered
<1>16. ASSUME NEW d \in Dispatches, ReadBinding(d) PROVE AtPlace /\ Closing
  BY <1>16 DEF ReadBinding, Goes, AnswersUnknown, Answered
<1>17. ASSUME NEW d \in Dispatches, DispatchNotStarted(d) PROVE AtPlace /\ Closing
  BY <1>17 DEF DispatchNotStarted, Goes
<1>18. ASSUME NEW d \in Dispatches, DispatchCompletes(d) PROVE AtPlace /\ Closing
  BY <1>18 DEF DispatchCompletes, Answers, Answered
<1>19. ASSUME NEW d \in Dispatches, DispatchUnknown(d) PROVE AtPlace /\ Closing
  BY <1>19 DEF DispatchUnknown, AnswersUnknown, Answered
<1>20. ASSUME NEW d \in Dispatches, Leave(d) PROVE AtPlace /\ Closing
  BY <1>20 DEF Leave, Goes
<1>21. ASSUME NEW d \in Dispatches, AwaitTimesOut(d) PROVE AtPlace /\ Closing
  BY <1>21 DEF AwaitTimesOut, Goes
<1>22. ASSUME NEW d \in Dispatches, OpenUnknown(d) PROVE AtPlace /\ Closing
  BY <1>22 DEF OpenUnknown, AnswersUnknown, Answered
<1>23. ASSUME NEW d \in Dispatches, RefuseOpen(d) PROVE AtPlace /\ Closing
  BY <1>23 DEF RefuseOpen
<1>24. ASSUME NEW d \in Dispatches, ExecuteOpen(d) PROVE AtPlace /\ Closing
  BY <1>24 DEF ExecuteOpen
<1>25. ASSUME NEW d \in Dispatches, SendCleanup(d) PROVE AtPlace /\ Closing
  BY <1>25 DEF SendCleanup
<1>26. ASSUME NEW d \in Dispatches, CleanupDrained(d) PROVE AtPlace /\ Closing
  BY <1>26 DEF CleanupDrained
<1>27. ASSUME NEW d \in Dispatches, CleanupCompletes(d) PROVE AtPlace /\ Closing
  BY <1>27 DEF CleanupCompletes
<1>28. ASSUME NEW d \in Dispatches, ExecuteCleanup(d) PROVE AtPlace /\ Closing
  BY <1>28 DEF ExecuteCleanup, Drain
<1>29. ASSUME NEW c \in Closers, NEW s \in Sessions, BeginClose(c, s) PROVE AtPlace /\ Closing
  BY <1>29 DEF BeginClose, CloseGoes
<1>30. ASSUME NEW c \in Closers, Settle(c) PROVE AtPlace /\ Closing
  BY <1>30 DEF Settle, CloseGoes, Settled
<1>31. ASSUME NEW c \in Closers, SettleTimesOut(c) PROVE AtPlace /\ Closing
  BY <1>31 DEF SettleTimesOut, CloseGoes, Settled
<1>32. ASSUME NEW c \in Closers, CloseExpires(c) PROVE AtPlace /\ Closing
  BY <1>32 DEF CloseExpires, CloseEnds, CloseGoes
<1>33. ASSUME NEW c \in Closers, CloseBindings(c) PROVE AtPlace /\ Closing
  BY <1>33 DEF CloseBindings, CloseGoes
<1>34. ASSUME NEW c \in Closers, FinishClose(c) PROVE AtPlace /\ Closing
  BY <1>34 DEF FinishClose, CloseEnds, CloseGoes, Remaining
<1>35. ASSUME NEW c \in Closers, NEW p \in Pipelines, SendClose(c, p) PROVE AtPlace /\ Closing
  BY <1>35 DEF SendClose, CloseGoes, Remaining
<1>36. ASSUME NEW c \in Closers, NEW p \in Pipelines, CloseRefused(c, p) PROVE AtPlace /\ Closing
  BY <1>36 DEF CloseRefused, CloseGoes
<1>37. ASSUME NEW c \in Closers, NEW p \in Pipelines, CloseFails(c, p) PROVE AtPlace /\ Closing
  BY <1>37 DEF CloseFails, CloseGoes
<1>38. ASSUME NEW c \in Closers, NEW p \in Pipelines, CloseDrained(c, p) PROVE AtPlace /\ Closing
  BY <1>38 DEF CloseDrained, CloseGoes
<1>39. ASSUME NEW c \in Closers, NEW p \in Pipelines, CloseUnknown(c, p) PROVE AtPlace /\ Closing
  BY <1>39 DEF CloseUnknown, CloseGoes
<1>40. ASSUME NEW c \in Closers, NEW p \in Pipelines, ExecuteClose(c, p) PROVE AtPlace /\ Closing
  BY <1>40 DEF ExecuteClose, Drain
<1>41. ASSUME NEW p \in Pipelines, StatusArrives(p) PROVE AtPlace /\ Closing
  BY <1>41 DEF StatusArrives
<1>42. ASSUME NEW p \in Pipelines, Reconcile(p) PROVE AtPlace /\ Closing
  BY <1>42 DEF Reconcile
<1>43. ASSUME NEW p \in Pipelines, Reboot(p) PROVE AtPlace /\ Closing
  BY <1>43 DEF Reboot
<1>44. CASE UNCHANGED vars
  BY <1>44 DEF vars
<1> QED BY <1>1, <1>2, <1>3, <1>4, <1>5, <1>6, <1>7, <1>8, <1>9, <1>10, <1>11, <1>12, <1>13,
     <1>14, <1>15, <1>16, <1>17, <1>18, <1>19, <1>20, <1>21, <1>22, <1>23, <1>24, <1>25,
     <1>26, <1>27, <1>28, <1>29, <1>30, <1>31, <1>32, <1>33, <1>34, <1>35, <1>36, <1>37,
     <1>38, <1>39, <1>40, <1>41, <1>42, <1>43, <1>44 DEF Next, DispatchStep, DispatchWork,
     CleanupStep, CloserStep, CloseWork, PipelineStep

\* Every step keeps goals at the stage of their thread.
LEMMA GoalStep == TypeInv /\ GoalInv /\ [Next]_vars => GoalInv'
<1> SUFFICES ASSUME ThreadType, Places, GoalInv, [Next]_vars PROVE GoalInv'
  BY TwoTypes DEF TypeInv
<1> USE DEF ThreadType, GoalInv, Places, Trying, DispatchStages, dispatchVars, openVars, pipelineVars
<1>1. ASSUME NEW s \in Sessions, OpenSession(s) PROVE GoalInv'
  BY <1>1 DEF OpenSession
<1>2. ASSUME NEW d \in Dispatches, Begin(d) PROVE GoalInv'
  <2>1. /\ pc[d] = "idle" /\ pc' = [pc EXCEPT ![d] = "next"]
        /\ \A x \in Dispatches \ {d} : left'[x] = left[x]
        /\ left'[d] \subseteq Pipelines /\ UNCHANGED <<at, openVars, pipelineVars>>
    BY <1>2 DEF Begin
  <2>2. at[d] \notin left'[d]
    BY <2>1
  <2> QED BY <2>1, <2>2
<1>3. ASSUME NEW d \in Dispatches, ReadBoot(d) PROVE GoalInv'
  BY <1>3 DEF ReadBoot
<1>4. ASSUME NEW d \in Dispatches, Exhausted(d) PROVE GoalInv'
  BY <1>4 DEF Exhausted, Answers, Answered
<1>5. ASSUME NEW d \in Dispatches, PrepareFails(d) PROVE GoalInv'
  BY <1>5 DEF PrepareFails, Answers, Answered
<1>6. ASSUME NEW d \in Dispatches, PrepareSkips(d) PROVE GoalInv'
  BY <1>6 DEF PrepareSkips, Goes, Preparing
<1>7. ASSUME NEW d \in Dispatches, PrepareUses(d) PROVE GoalInv'
  BY <1>7 DEF PrepareUses, Goes, Preparing
<1>8. ASSUME NEW d \in Dispatches, PrepareWaits(d) PROVE GoalInv'
  BY <1>8 DEF PrepareWaits, Goes, Preparing
<1>9. ASSUME NEW d \in Dispatches, PrepareOpens(d) PROVE GoalInv'
  BY <1>9 DEF PrepareOpens, Goes, Preparing
<1>10. ASSUME NEW d \in Dispatches, AwaitOpen(d) PROVE GoalInv'
  BY <1>10 DEF AwaitOpen
<1>11. ASSUME NEW d \in Dispatches, Refuse(d) PROVE GoalInv'
  BY <1>11 DEF Refuse, ReleaseBinding
<1>12. ASSUME NEW d \in Dispatches, SendOpen(d) PROVE GoalInv'
  BY <1>12 DEF SendOpen, Goes
<1>13. ASSUME NEW d \in Dispatches, OpenNotStarted(d) PROVE GoalInv'
  BY <1>13 DEF OpenNotStarted, Goes, ReleaseBinding
<1>14. ASSUME NEW d \in Dispatches, OpenFails(d) PROVE GoalInv'
  BY <1>14 DEF OpenFails, Answers, Answered
<1>15. ASSUME NEW d \in Dispatches, OpenSucceeds(d) PROVE GoalInv'
  <2>1. CASE Goes(d, "bound")
    BY <1>15, <2>1 DEF OpenSucceeds, Goes
  <2>2. CASE Answers(d)
    BY <1>15, <2>2 DEF OpenSucceeds, Answers, Answered
  <2> QED BY <1>15, <2>1, <2>2 DEF OpenSucceeds
<1>16. ASSUME NEW d \in Dispatches, ReadBinding(d) PROVE GoalInv'
  <2>1. CASE Goes(d, "dispatching")
    BY <1>16, <2>1 DEF ReadBinding, Goes
  <2>2. CASE AnswersUnknown(d)
    BY <1>16, <2>2 DEF ReadBinding, AnswersUnknown, Answered
  <2> QED BY <1>16, <2>1, <2>2 DEF ReadBinding
<1>17. ASSUME NEW d \in Dispatches, DispatchNotStarted(d) PROVE GoalInv'
  BY <1>17 DEF DispatchNotStarted, Goes
<1>18. ASSUME NEW d \in Dispatches, DispatchCompletes(d) PROVE GoalInv'
  BY <1>18 DEF DispatchCompletes, Answers, Answered
<1>19. ASSUME NEW d \in Dispatches, DispatchUnknown(d) PROVE GoalInv'
  BY <1>19 DEF DispatchUnknown, AnswersUnknown, Answered
<1>20. ASSUME NEW d \in Dispatches, Leave(d) PROVE GoalInv'
  BY <1>20 DEF Leave, Goes
<1>21. ASSUME NEW d \in Dispatches, AwaitTimesOut(d) PROVE GoalInv'
  BY <1>21 DEF AwaitTimesOut, Goes
<1>22. ASSUME NEW d \in Dispatches, OpenUnknown(d) PROVE GoalInv'
  <2>1. /\ pc[d] = "opening" /\ pc' = [pc EXCEPT ![d] = "leaving"]
        /\ left' = [left EXCEPT ![d] = {}] /\ UNCHANGED <<open, at, cleanup, pipelineVars>>
    BY <1>22 DEF OpenUnknown, AnswersUnknown, Answered
  <2>2. /\ \A x \in late' : x \in late \/ x = d
        /\ cleanup[d] # "none" => d \in late'
        /\ late \subseteq late'
    BY <1>22 DEF OpenUnknown
  <2>3. open[d] # "none"
    BY <2>1
  <2> QED BY <2>1, <2>2, <2>3
<1>23. ASSUME NEW d \in Dispatches, RefuseOpen(d) PROVE GoalInv'
  BY <1>23 DEF RefuseOpen
<1>24. ASSUME NEW d \in Dispatches, ExecuteOpen(d) PROVE GoalInv'
  BY <1>24 DEF ExecuteOpen
<1>25. ASSUME NEW d \in Dispatches, SendCleanup(d) PROVE GoalInv'
  BY <1>25 DEF SendCleanup
<1>26. ASSUME NEW d \in Dispatches, CleanupDrained(d) PROVE GoalInv'
  BY <1>26 DEF CleanupDrained
<1>27. ASSUME NEW d \in Dispatches, CleanupCompletes(d) PROVE GoalInv'
  BY <1>27 DEF CleanupCompletes
<1>28. ASSUME NEW d \in Dispatches, ExecuteCleanup(d) PROVE GoalInv'
  BY <1>28 DEF ExecuteCleanup, Drain
<1>29. ASSUME NEW c \in Closers, NEW s \in Sessions, BeginClose(c, s) PROVE GoalInv'
  BY <1>29 DEF BeginClose, CloseGoes
<1>30. ASSUME NEW c \in Closers, Settle(c) PROVE GoalInv'
  BY <1>30 DEF Settle, CloseGoes, Settled
<1>31. ASSUME NEW c \in Closers, SettleTimesOut(c) PROVE GoalInv'
  BY <1>31 DEF SettleTimesOut, CloseGoes, Settled
<1>32. ASSUME NEW c \in Closers, CloseExpires(c) PROVE GoalInv'
  BY <1>32 DEF CloseExpires, CloseEnds, CloseGoes
<1>33. ASSUME NEW c \in Closers, CloseBindings(c) PROVE GoalInv'
  BY <1>33 DEF CloseBindings, CloseGoes
<1>34. ASSUME NEW c \in Closers, FinishClose(c) PROVE GoalInv'
  BY <1>34 DEF FinishClose, CloseEnds, CloseGoes, Remaining
<1>35. ASSUME NEW c \in Closers, NEW p \in Pipelines, SendClose(c, p) PROVE GoalInv'
  BY <1>35 DEF SendClose, CloseGoes, Remaining
<1>36. ASSUME NEW c \in Closers, NEW p \in Pipelines, CloseRefused(c, p) PROVE GoalInv'
  BY <1>36 DEF CloseRefused, CloseGoes
<1>37. ASSUME NEW c \in Closers, NEW p \in Pipelines, CloseFails(c, p) PROVE GoalInv'
  BY <1>37 DEF CloseFails, CloseGoes
<1>38. ASSUME NEW c \in Closers, NEW p \in Pipelines, CloseDrained(c, p) PROVE GoalInv'
  BY <1>38 DEF CloseDrained, CloseGoes
<1>39. ASSUME NEW c \in Closers, NEW p \in Pipelines, CloseUnknown(c, p) PROVE GoalInv'
  BY <1>39 DEF CloseUnknown, CloseGoes
<1>40. ASSUME NEW c \in Closers, NEW p \in Pipelines, ExecuteClose(c, p) PROVE GoalInv'
  BY <1>40 DEF ExecuteClose, Drain
<1>41. ASSUME NEW p \in Pipelines, StatusArrives(p) PROVE GoalInv'
  BY <1>41 DEF StatusArrives
<1>42. ASSUME NEW p \in Pipelines, Reconcile(p) PROVE GoalInv'
  BY <1>42 DEF Reconcile
<1>43. ASSUME NEW p \in Pipelines, Reboot(p) PROVE GoalInv'
  BY <1>43 DEF Reboot
<1>44. CASE UNCHANGED vars
  BY <1>44 DEF vars
<1> QED BY <1>1, <1>2, <1>3, <1>4, <1>5, <1>6, <1>7, <1>8, <1>9, <1>10, <1>11, <1>12, <1>13,
     <1>14, <1>15, <1>16, <1>17, <1>18, <1>19, <1>20, <1>21, <1>22, <1>23, <1>24, <1>25,
     <1>26, <1>27, <1>28, <1>29, <1>30, <1>31, <1>32, <1>33, <1>34, <1>35, <1>36, <1>37,
     <1>38, <1>39, <1>40, <1>41, <1>42, <1>43, <1>44 DEF Next, DispatchStep, DispatchWork,
     CleanupStep, CloserStep, CloseWork, PipelineStep

-----------------------------------------------------------------------------
(* Boots.                                                                  *)

\* What is known of a boot stays no newer than the process.
LEMMA BootStep == TypeInv /\ GoalInv /\ BootInv /\ [Next]_vars => BootInv'
<1> SUFFICES ASSUME CoreType, ThreadType, Places, GoalInv, BootInv, [Next]_vars PROVE BootInv'
  BY TwoTypes DEF TypeInv
<1> DEFINE Cursors == \A p \in Pipelines : trusted'[p] <= status'[p] /\ status'[p] <= boot'[p]
           Reads == \A d \in Dispatches : at'[d] \in Pipelines => seen'[d] <= status'[at'[d]]
           Bound2 == \A s \in Sessions, p \in Pipelines : bindingBoot'[s][p] <= status'[p]
<1>k. ASSUME UNCHANGED <<status, trusted, boot, at, seen, bindingBoot>> PROVE BootInv'
  BY <1>k DEF BootInv
<1>a. \A s \in Sessions, p \in Pipelines : bindingBoot[s][p] \in Nat /\ status[p] \in Nat /\ boot[p] \in Nat /\ trusted[p] \in Nat
  BY DEF CoreType, ThreadType
<1>1. ASSUME NEW s \in Sessions, OpenSession(s) PROVE BootInv'
  BY <1>1, <1>k DEF OpenSession, flagVars, bindingVars, coreVars, statusVars, dispatchVars,
     openVars, runVars, closeVars, pipelineVars
<1>2. ASSUME NEW d \in Dispatches, Begin(d) PROVE BootInv'
  BY <1>2, <1>k DEF Begin, flagVars, bindingVars, coreVars, statusVars, dispatchVars, openVars,
     runVars, closeVars, pipelineVars
<1>3. ASSUME NEW d \in Dispatches, ReadBoot(d) PROVE BootInv'
  <2>1. PICK p \in left[d] : /\ at' = [at EXCEPT ![d] = p]
                             /\ seen' = [seen EXCEPT ![d] = status[p]]
    BY <1>3 DEF ReadBoot
  <2>2. UNCHANGED <<status, trusted, boot, bindingBoot>>
    BY <1>3 DEF ReadBoot, coreVars, bindingVars, statusVars, pipelineVars
  <2>3. Reads
    BY <2>1, <2>2, <1>a DEF ThreadType, BootInv
  <2> QED BY <2>2, <2>3 DEF BootInv
<1>4. ASSUME NEW d \in Dispatches, Exhausted(d) PROVE BootInv'
  BY <1>4, <1>k DEF Exhausted, Answers, Answered, flagVars, bindingVars, coreVars, statusVars,
     dispatchVars, openVars, runVars, closeVars, pipelineVars
<1>5. ASSUME NEW d \in Dispatches, PrepareFails(d) PROVE BootInv'
  BY <1>5, <1>k DEF PrepareFails, Answers, Answered, flagVars, bindingVars, coreVars,
     statusVars, dispatchVars, openVars, runVars, closeVars, pipelineVars
<1>6. ASSUME NEW d \in Dispatches, PrepareSkips(d) PROVE BootInv'
  BY <1>6, <1>k DEF PrepareSkips, Goes, Preparing, flagVars, bindingVars, coreVars, statusVars,
     dispatchVars, openVars, runVars, closeVars, pipelineVars
<1>7. ASSUME NEW d \in Dispatches, PrepareUses(d) PROVE BootInv'
  BY <1>7, <1>k DEF PrepareUses, Goes, Preparing, flagVars, bindingVars, coreVars, statusVars,
     dispatchVars, openVars, runVars, closeVars, pipelineVars
<1>8. ASSUME NEW d \in Dispatches, PrepareWaits(d) PROVE BootInv'
  BY <1>8, <1>k DEF PrepareWaits, Goes, Preparing, flagVars, bindingVars, coreVars, statusVars,
     dispatchVars, openVars, runVars, closeVars, pipelineVars
<1>9. ASSUME NEW d \in Dispatches, PrepareOpens(d) PROVE BootInv'
  <2>1. /\ bindingBoot' = [bindingBoot EXCEPT ![SessionOf[d]][at[d]] = seen[d]]
        /\ at[d] \in Pipelines /\ SessionOf[d] \in Sessions
    BY <1>9 DEF PrepareOpens, Preparing, Places, Trying
  <2>2. UNCHANGED <<status, trusted, boot, at, seen>>
    BY <1>9 DEF PrepareOpens, Goes, statusVars, pipelineVars
  <2>3. Bound2
    BY <2>1, <2>2, <1>a DEF CoreType, BootInv
  <2> QED BY <2>2, <2>3 DEF BootInv
<1>10. ASSUME NEW d \in Dispatches, AwaitOpen(d) PROVE BootInv'
  <2>1. seen' = [seen EXCEPT ![d] = status[at[d]]] /\ at[d] \in Pipelines
    BY <1>10 DEF AwaitOpen, Places, Trying
  <2>2. UNCHANGED <<status, trusted, boot, bindingBoot, at>>
    BY <1>10 DEF AwaitOpen, coreVars, bindingVars, statusVars, pipelineVars
  <2>3. Reads
    BY <2>1, <2>2, <1>a DEF ThreadType, BootInv
  <2> QED BY <2>2, <2>3 DEF BootInv
<1>11. ASSUME NEW d \in Dispatches, Refuse(d) PROVE BootInv'
  <2>1. ReleaseBinding(d) /\ at[d] \in Pipelines /\ SessionOf[d] \in Sessions
    BY <1>11 DEF Refuse, Places, Trying
  <2>2. UNCHANGED <<session, inFlight>> /\ SessionsMove
        /\ \/ UNCHANGED bindingVars
           \/ binding[SessionOf[d]][at[d]] = "OPENING" /\ Drops(SessionOf[d], at[d])
    BY <2>1, ReleaseEffect
  <2>3. UNCHANGED <<status, trusted, boot, at, seen>>
    BY <1>11 DEF Refuse, flagVars, bindingVars, coreVars, statusVars, dispatchVars, openVars,
      runVars, closeVars, pipelineVars
  <2>4. CASE UNCHANGED bindingVars
    BY <2>3, <2>4, <1>k DEF bindingVars
  <2>5. CASE Drops(SessionOf[d], at[d])
    BY <2>3, <2>5, <1>a DEF BootInv, Drops
  <2> QED BY <2>2, <2>4, <2>5
<1>12. ASSUME NEW d \in Dispatches, SendOpen(d) PROVE BootInv'
  BY <1>12, <1>k DEF SendOpen, Goes, flagVars, bindingVars, coreVars, statusVars, dispatchVars,
     openVars, runVars, closeVars, pipelineVars
<1>13. ASSUME NEW d \in Dispatches, OpenNotStarted(d) PROVE BootInv'
  <2>1. ReleaseBinding(d) /\ at[d] \in Pipelines /\ SessionOf[d] \in Sessions
    BY <1>13 DEF OpenNotStarted, Places, Trying
  <2>2. UNCHANGED <<session, inFlight>> /\ SessionsMove
        /\ \/ UNCHANGED bindingVars
           \/ binding[SessionOf[d]][at[d]] = "OPENING" /\ Drops(SessionOf[d], at[d])
    BY <2>1, ReleaseEffect
  <2>3. UNCHANGED <<status, trusted, boot, at, seen>>
    BY <1>13 DEF OpenNotStarted, Goes, flagVars, bindingVars, coreVars, statusVars,
      dispatchVars, openVars, runVars, closeVars, pipelineVars
  <2>4. CASE UNCHANGED bindingVars
    BY <2>3, <2>4, <1>k DEF bindingVars
  <2>5. CASE Drops(SessionOf[d], at[d])
    BY <2>3, <2>5, <1>a DEF BootInv, Drops
  <2> QED BY <2>2, <2>4, <2>5
<1>14. ASSUME NEW d \in Dispatches, OpenFails(d) PROVE BootInv'
  <2>1. MarkSessionFailed(SessionOf[d], {at[d]}) /\ at[d] \in Pipelines /\ SessionOf[d] \in Sessions
    BY <1>14 DEF OpenFails, Places, Trying
  <2>2. CoreType' /\ SessionsMove /\ KeepsIds /\ inFlight' = inFlight
        /\ (session[SessionOf[d]] # "NONE" => session'[SessionOf[d]] \notin {"NONE", "ACTIVE"})
    BY <2>1, MarkEffect DEF Ended
  <2> QED BY <1>14, <2>2, <1>k DEF OpenFails, KeepsIds, Answers, Answered, flagVars,
      bindingVars, coreVars, statusVars, dispatchVars, openVars, runVars, closeVars,
      pipelineVars
<1>15. ASSUME NEW d \in Dispatches, OpenSucceeds(d) PROVE BootInv'
  BY <1>15, <1>k DEF OpenSucceeds, Goes, Answers, Answered, flagVars, bindingVars, coreVars,
     statusVars, dispatchVars, openVars, runVars, closeVars, pipelineVars
<1>16. ASSUME NEW d \in Dispatches, ReadBinding(d) PROVE BootInv'
  BY <1>16, <1>k DEF ReadBinding, Goes, AnswersUnknown, Answered, flagVars, bindingVars,
     coreVars, statusVars, dispatchVars, openVars, runVars, closeVars, pipelineVars
<1>17. ASSUME NEW d \in Dispatches, DispatchNotStarted(d) PROVE BootInv'
  BY <1>17, <1>k DEF DispatchNotStarted, Goes, flagVars, bindingVars, coreVars, statusVars,
     dispatchVars, openVars, runVars, closeVars, pipelineVars
<1>18. ASSUME NEW d \in Dispatches, DispatchCompletes(d) PROVE BootInv'
  BY <1>18, <1>k DEF DispatchCompletes, Answers, Answered, flagVars, bindingVars, coreVars,
     statusVars, dispatchVars, openVars, runVars, closeVars, pipelineVars
<1>19. ASSUME NEW d \in Dispatches, DispatchUnknown(d) PROVE BootInv'
  <2>1. MarkSessionFailed(SessionOf[d], {at[d]}) /\ at[d] \in Pipelines /\ SessionOf[d] \in Sessions
    BY <1>19 DEF DispatchUnknown, Places, Trying
  <2>2. CoreType' /\ SessionsMove /\ KeepsIds /\ inFlight' = inFlight
        /\ (session[SessionOf[d]] # "NONE" => session'[SessionOf[d]] \notin {"NONE", "ACTIVE"})
    BY <2>1, MarkEffect DEF Ended
  <2> QED BY <1>19, <2>2, <1>k DEF DispatchUnknown, KeepsIds, AnswersUnknown, Answered,
      flagVars, bindingVars, coreVars, statusVars, dispatchVars, openVars, runVars,
      closeVars, pipelineVars
<1>20. ASSUME NEW d \in Dispatches, Leave(d) PROVE BootInv'
  BY <1>20, <1>k DEF Leave, Goes, flagVars, bindingVars, coreVars, statusVars, dispatchVars,
     openVars, runVars, closeVars, pipelineVars
<1>21. ASSUME NEW d \in Dispatches, AwaitTimesOut(d) PROVE BootInv'
  BY <1>21, <1>k DEF AwaitTimesOut, Goes, flagVars, bindingVars, coreVars, statusVars,
     dispatchVars, openVars, runVars, closeVars, pipelineVars
<1>22. ASSUME NEW d \in Dispatches, OpenUnknown(d) PROVE BootInv'
  <2>1. MarkSessionFailed(SessionOf[d], {at[d]}) /\ at[d] \in Pipelines /\ SessionOf[d] \in Sessions
    BY <1>22 DEF OpenUnknown, Places, Trying
  <2>2. CoreType' /\ SessionsMove /\ KeepsIds /\ inFlight' = inFlight
        /\ (session[SessionOf[d]] # "NONE" => session'[SessionOf[d]] \notin {"NONE", "ACTIVE"})
    BY <2>1, MarkEffect DEF Ended
  <2> QED BY <1>22, <2>2, <1>k DEF OpenUnknown, KeepsIds, AnswersUnknown, Answered, flagVars,
      bindingVars, coreVars, statusVars, dispatchVars, openVars, runVars, closeVars,
      pipelineVars
<1>23. ASSUME NEW d \in Dispatches, RefuseOpen(d) PROVE BootInv'
  BY <1>23, <1>k DEF RefuseOpen, flagVars, bindingVars, coreVars, statusVars, dispatchVars,
     openVars, runVars, closeVars, pipelineVars
<1>24. ASSUME NEW d \in Dispatches, ExecuteOpen(d) PROVE BootInv'
  BY <1>24, <1>k DEF ExecuteOpen, flagVars, bindingVars, coreVars, statusVars, dispatchVars,
     openVars, runVars, closeVars, pipelineVars
<1>25. ASSUME NEW d \in Dispatches, SendCleanup(d) PROVE BootInv'
  BY <1>25, <1>k DEF SendCleanup, flagVars, bindingVars, coreVars, statusVars, dispatchVars,
     openVars, runVars, closeVars, pipelineVars
<1>26. ASSUME NEW d \in Dispatches, CleanupDrained(d) PROVE BootInv'
  <2>1. RecordBindingClosed(SessionOf[d], at[d]) /\ at[d] \in Pipelines /\ SessionOf[d] \in Sessions
    BY <1>26 DEF CleanupDrained, Places, GoalInv
  <2>2. UNCHANGED <<session, inFlight>> /\ SessionsMove
        /\ (UNCHANGED bindingVars \/ Drops(SessionOf[d], at[d]))
    BY <2>1, ClosedEffect
  <2>3. UNCHANGED <<status, trusted, boot, at, seen>>
    BY <1>26 DEF CleanupDrained, flagVars, bindingVars, coreVars, statusVars, dispatchVars,
      openVars, runVars, closeVars, pipelineVars
  <2>4. CASE UNCHANGED bindingVars
    BY <2>3, <2>4, <1>k DEF bindingVars
  <2>5. CASE Drops(SessionOf[d], at[d])
    BY <2>3, <2>5, <1>a DEF BootInv, Drops
  <2> QED BY <2>2, <2>4, <2>5
<1>27. ASSUME NEW d \in Dispatches, CleanupCompletes(d) PROVE BootInv'
  <2>1. RecordCloseComplete(SessionOf[d], TRUE) /\ SessionOf[d] \in Sessions
    BY <1>27 DEF CleanupCompletes, Places
  <2>2. SessionsMove /\ UNCHANGED <<bindingVars, inFlight>>
    BY <2>1, CompleteEffect
  <2> QED BY <1>27, <2>2, <1>k DEF CleanupCompletes, flagVars, bindingVars, coreVars,
      statusVars, dispatchVars, openVars, runVars, closeVars, pipelineVars
<1>28. ASSUME NEW d \in Dispatches, ExecuteCleanup(d) PROVE BootInv'
  BY <1>28, <1>k DEF ExecuteCleanup, Drain, flagVars, bindingVars, coreVars, statusVars,
     dispatchVars, openVars, runVars, closeVars, pipelineVars
<1>29. ASSUME NEW c \in Closers, NEW s \in Sessions, BeginClose(c, s) PROVE BootInv'
  BY <1>29, <1>k DEF BeginClose, CloseGoes, flagVars, bindingVars, coreVars, statusVars,
     dispatchVars, openVars, runVars, closeVars, pipelineVars
<1>30. ASSUME NEW c \in Closers, Settle(c) PROVE BootInv'
  BY <1>30, <1>k DEF Settle, CloseGoes, Settled, flagVars, bindingVars, coreVars, statusVars,
     dispatchVars, openVars, runVars, closeVars, pipelineVars
<1>31. ASSUME NEW c \in Closers, SettleTimesOut(c) PROVE BootInv'
  BY <1>31, <1>k DEF SettleTimesOut, CloseGoes, Settled, flagVars, bindingVars, coreVars,
     statusVars, dispatchVars, openVars, runVars, closeVars, pipelineVars
<1>32. ASSUME NEW c \in Closers, CloseExpires(c) PROVE BootInv'
  <2>1. MarkSessionFailed(subject[c], Pipelines) /\ subject[c] \in Sessions
    BY <1>32 DEF CloseExpires, Places
  <2>2. CoreType' /\ SessionsMove /\ KeepsIds /\ inFlight' = inFlight
        /\ (session[subject[c]] # "NONE" => session'[subject[c]] \notin {"NONE", "ACTIVE"})
    BY <2>1, MarkEffect DEF Ended
  <2> QED BY <1>32, <2>2, <1>k DEF CloseExpires, KeepsIds, CloseEnds, CloseGoes, flagVars,
      bindingVars, coreVars, statusVars, dispatchVars, openVars, runVars, closeVars,
      pipelineVars
<1>33. ASSUME NEW c \in Closers, CloseBindings(c) PROVE BootInv'
  BY <1>33, <1>k DEF CloseBindings, CloseGoes, flagVars, bindingVars, coreVars, statusVars,
     dispatchVars, openVars, runVars, closeVars, pipelineVars
<1>34. ASSUME NEW c \in Closers, FinishClose(c) PROVE BootInv'
  <2>1. subject[c] \in Sessions /\ UNCHANGED <<status, trusted, boot, at, seen>>
    BY <1>34 DEF FinishClose, Places, statusVars, dispatchVars, pipelineVars
  <2>2. bindingBoot' = bindingBoot
    BY <1>34, <2>1, CompleteEffect DEF FinishClose, RecordCloseNotStarted, bindingVars, coreVars
  <2> QED BY <2>1, <2>2, <1>k
<1>35. ASSUME NEW c \in Closers, NEW p \in Pipelines, SendClose(c, p) PROVE BootInv'
  BY <1>35, <1>k DEF SendClose, CloseGoes, Remaining, flagVars, bindingVars, coreVars,
     statusVars, dispatchVars, openVars, runVars, closeVars, pipelineVars
<1>36. ASSUME NEW c \in Closers, NEW p \in Pipelines, CloseRefused(c, p) PROVE BootInv'
  BY <1>36, <1>k DEF CloseRefused, CloseGoes, flagVars, bindingVars, coreVars, statusVars,
     dispatchVars, openVars, runVars, closeVars, pipelineVars
<1>37. ASSUME NEW c \in Closers, NEW p \in Pipelines, CloseFails(c, p) PROVE BootInv'
  <2>1. MarkSessionFailed(subject[c], {p}) /\ subject[c] \in Sessions
    BY <1>37 DEF CloseFails, Places
  <2>2. CoreType' /\ SessionsMove /\ KeepsIds /\ inFlight' = inFlight
        /\ (session[subject[c]] # "NONE" => session'[subject[c]] \notin {"NONE", "ACTIVE"})
    BY <2>1, MarkEffect DEF Ended
  <2> QED BY <1>37, <2>2, <1>k DEF CloseFails, KeepsIds, CloseGoes, flagVars, bindingVars,
      coreVars, statusVars, dispatchVars, openVars, runVars, closeVars, pipelineVars
<1>38. ASSUME NEW c \in Closers, NEW p \in Pipelines, CloseDrained(c, p) PROVE BootInv'
  <2>1. RecordBindingClosed(subject[c], p) /\ subject[c] \in Sessions
    BY <1>38 DEF CloseDrained, Places
  <2>2. UNCHANGED <<session, inFlight>> /\ SessionsMove
        /\ (UNCHANGED bindingVars \/ Drops(subject[c], p))
    BY <2>1, ClosedEffect
  <2>3. UNCHANGED <<status, trusted, boot, at, seen>>
    BY <1>38 DEF CloseDrained, CloseGoes, flagVars, bindingVars, coreVars, statusVars,
      dispatchVars, openVars, runVars, closeVars, pipelineVars
  <2>4. CASE UNCHANGED bindingVars
    BY <2>3, <2>4, <1>k DEF bindingVars
  <2>5. CASE Drops(subject[c], p)
    BY <2>3, <2>5, <1>a DEF BootInv, Drops
  <2> QED BY <2>2, <2>4, <2>5
<1>39. ASSUME NEW c \in Closers, NEW p \in Pipelines, CloseUnknown(c, p) PROVE BootInv'
  <2>1. MarkSessionFailed(subject[c], {p}) /\ subject[c] \in Sessions
    BY <1>39 DEF CloseUnknown, Places
  <2>2. CoreType' /\ SessionsMove /\ KeepsIds /\ inFlight' = inFlight
        /\ (session[subject[c]] # "NONE" => session'[subject[c]] \notin {"NONE", "ACTIVE"})
    BY <2>1, MarkEffect DEF Ended
  <2> QED BY <1>39, <2>2, <1>k DEF CloseUnknown, KeepsIds, CloseGoes, flagVars, bindingVars,
      coreVars, statusVars, dispatchVars, openVars, runVars, closeVars, pipelineVars
<1>40. ASSUME NEW c \in Closers, NEW p \in Pipelines, ExecuteClose(c, p) PROVE BootInv'
  BY <1>40, <1>k DEF ExecuteClose, Drain, flagVars, bindingVars, coreVars, statusVars,
     dispatchVars, openVars, runVars, closeVars, pipelineVars
<1>41. ASSUME NEW p \in Pipelines, StatusArrives(p) PROVE BootInv'
  <2>1. status' = [status EXCEPT ![p] = boot[p]] /\ UNCHANGED <<trusted, boot, at, seen, bindingBoot>>
    BY <1>41 DEF StatusArrives, coreVars, bindingVars, dispatchVars, pipelineVars
  <2>2. \A q \in Pipelines : status[q] <= status'[q] /\ status'[q] <= boot[q]
    BY <2>1, <1>a DEF ThreadType, BootInv
  <2>3. \A x \in Dispatches : seen[x] \in Nat
    BY DEF ThreadType
  <2>4. \A q \in Pipelines : status'[q] \in Nat /\ status[q] \in Nat /\ boot[q] \in Nat /\ trusted[q] \in Nat
    BY <2>1 DEF ThreadType
  <2>5. Cursors
    BY <2>1, <2>2, <2>4 DEF BootInv
  <2>6. Reads
    BY <2>1, <2>2, <2>3, <2>4 DEF BootInv
  <2>7. Bound2
    BY <2>1, <2>2, <2>4, <1>a DEF BootInv
  <2> QED BY <2>5, <2>6, <2>7 DEF BootInv
<1>42. ASSUME NEW p \in Pipelines, Reconcile(p) PROVE BootInv'
  <2>1. trusted' = [trusted EXCEPT ![p] = status[p]] /\ UNCHANGED <<status, boot, at, seen>>
    BY <1>42 DEF Reconcile, dispatchVars, pipelineVars
  <2>2. \A s \in Sessions, q \in Pipelines : bindingBoot'[s][q] \in {bindingBoot[s][q], 0}
    BY <1>42 DEF Reconcile, CoreType
  <2>3. Cursors
    BY <2>1, <1>a DEF BootInv, ThreadType
  <2>4. Bound2
    BY <2>1, <2>2, <1>a DEF BootInv
  <2> QED BY <2>1, <2>3, <2>4 DEF BootInv
<1>43. ASSUME NEW p \in Pipelines, Reboot(p) PROVE BootInv'
  <2>1. boot' = [boot EXCEPT ![p] = boot[p] + 1] /\ UNCHANGED <<status, trusted, at, seen, bindingBoot>>
    BY <1>43 DEF Reboot, coreVars, bindingVars, statusVars, dispatchVars
  <2>2. \A q \in Pipelines : boot[q] <= boot'[q] /\ boot'[q] \in Nat
    BY <2>1 DEF ThreadType
  <2>3. Cursors
    BY <2>1, <2>2 DEF ThreadType, BootInv
  <2> QED BY <2>1, <2>3 DEF BootInv
<1>44. CASE UNCHANGED vars
  BY <1>44, <1>k DEF vars, flagVars, bindingVars, coreVars, statusVars, dispatchVars,
     openVars, runVars, closeVars, pipelineVars
<1> QED BY <1>1, <1>2, <1>3, <1>4, <1>5, <1>6, <1>7, <1>8, <1>9, <1>10, <1>11, <1>12, <1>13,
     <1>14, <1>15, <1>16, <1>17, <1>18, <1>19, <1>20, <1>21, <1>22, <1>23, <1>24, <1>25,
     <1>26, <1>27, <1>28, <1>29, <1>30, <1>31, <1>32, <1>33, <1>34, <1>35, <1>36, <1>37,
     <1>38, <1>39, <1>40, <1>41, <1>42, <1>43, <1>44 DEF Next, DispatchStep, DispatchWork,
     CleanupStep, CloserStep, CloseWork, PipelineStep

-----------------------------------------------------------------------------
(* How dispatches move.                                                    *)

\* The stages of an Open are entered in order, for one candidate and boot.
OpenersMove ==
  \A x \in Dispatches :
    /\ pc'[x] = "prepared" =>
         \/ pc[x] = "prepared" /\ at'[x] = at[x] /\ seen'[x] = seen[x]
         \/ PrepareOpens(x) /\ at'[x] = at[x] /\ seen'[x] = seen[x]
    /\ pc'[x] = "opening" =>
         pc[x] \in {"prepared", "opening"} /\ at'[x] = at[x] /\ seen'[x] = seen[x]
    /\ x \in late' =>
         (x \in late \/ pc[x] = "opening") /\ at'[x] = at[x]

\* Only a binding that was just created comes to life.
ViableMove ==
  \A x \in Dispatches, q \in Pipelines : Viable(x, q)' =>
    /\ boot'[q] = boot[q]
    /\ Viable(x, q) \/ (PrepareOpens(x) /\ at[x] = q)

\* What a step does to the threads that open a binding.
LEMMA OpenersStep == TypeInv /\ GoalInv /\ [Next]_vars => OpenersMove
<1> SUFFICES ASSUME ThreadType, Places, GoalInv, [Next]_vars PROVE OpenersMove
  BY TwoTypes DEF TypeInv
<1> USE DEF ThreadType, GoalInv, OpenersMove, DispatchStages, dispatchVars, openVars
<1>1. ASSUME NEW s \in Sessions, OpenSession(s) PROVE OpenersMove
  BY <1>1 DEF OpenSession
<1>2. ASSUME NEW d \in Dispatches, Begin(d) PROVE OpenersMove
  BY <1>2 DEF Begin
<1>3. ASSUME NEW d \in Dispatches, ReadBoot(d) PROVE OpenersMove
  <2>1. /\ pc[d] = "next" /\ pc' = [pc EXCEPT ![d] = "observed"] /\ late' = late
        /\ \A x \in Dispatches \ {d} : at'[x] = at[x] /\ seen'[x] = seen[x]
    BY <1>3 DEF ReadBoot
  <2>2. d \notin late
    BY <2>1
  <2> QED BY <2>1, <2>2
<1>4. ASSUME NEW d \in Dispatches, Exhausted(d) PROVE OpenersMove
  BY <1>4 DEF Exhausted, Answers, Answered
<1>5. ASSUME NEW d \in Dispatches, PrepareFails(d) PROVE OpenersMove
  BY <1>5 DEF PrepareFails, Answers, Answered
<1>6. ASSUME NEW d \in Dispatches, PrepareSkips(d) PROVE OpenersMove
  BY <1>6 DEF PrepareSkips, Goes, Preparing
<1>7. ASSUME NEW d \in Dispatches, PrepareUses(d) PROVE OpenersMove
  BY <1>7 DEF PrepareUses, Goes, Preparing
<1>8. ASSUME NEW d \in Dispatches, PrepareWaits(d) PROVE OpenersMove
  BY <1>8 DEF PrepareWaits, Goes, Preparing
<1>9. ASSUME NEW d \in Dispatches, PrepareOpens(d) PROVE OpenersMove
  <2>1. /\ pc' = [pc EXCEPT ![d] = "prepared"] /\ UNCHANGED <<at, seen, late>>
    BY <1>9 DEF PrepareOpens, Goes
  <2> QED BY <1>9, <2>1
<1>10. ASSUME NEW d \in Dispatches, AwaitOpen(d) PROVE OpenersMove
  BY <1>10 DEF AwaitOpen
<1>11. ASSUME NEW d \in Dispatches, Refuse(d) PROVE OpenersMove
  BY <1>11 DEF Refuse, ReleaseBinding
<1>12. ASSUME NEW d \in Dispatches, SendOpen(d) PROVE OpenersMove
  BY <1>12 DEF SendOpen, Goes
<1>13. ASSUME NEW d \in Dispatches, OpenNotStarted(d) PROVE OpenersMove
  BY <1>13 DEF OpenNotStarted, Goes, ReleaseBinding
<1>14. ASSUME NEW d \in Dispatches, OpenFails(d) PROVE OpenersMove
  BY <1>14 DEF OpenFails, Answers, Answered
<1>15. ASSUME NEW d \in Dispatches, OpenSucceeds(d) PROVE OpenersMove
  <2>1. CASE Goes(d, "bound")
    BY <1>15, <2>1 DEF OpenSucceeds, Goes
  <2>2. CASE Answers(d)
    BY <1>15, <2>2 DEF OpenSucceeds, Answers, Answered
  <2> QED BY <1>15, <2>1, <2>2 DEF OpenSucceeds
<1>16. ASSUME NEW d \in Dispatches, ReadBinding(d) PROVE OpenersMove
  <2>1. CASE Goes(d, "dispatching")
    BY <1>16, <2>1 DEF ReadBinding, Goes
  <2>2. CASE AnswersUnknown(d)
    BY <1>16, <2>2 DEF ReadBinding, AnswersUnknown, Answered
  <2> QED BY <1>16, <2>1, <2>2 DEF ReadBinding
<1>17. ASSUME NEW d \in Dispatches, DispatchNotStarted(d) PROVE OpenersMove
  BY <1>17 DEF DispatchNotStarted, Goes
<1>18. ASSUME NEW d \in Dispatches, DispatchCompletes(d) PROVE OpenersMove
  BY <1>18 DEF DispatchCompletes, Answers, Answered
<1>19. ASSUME NEW d \in Dispatches, DispatchUnknown(d) PROVE OpenersMove
  BY <1>19 DEF DispatchUnknown, AnswersUnknown, Answered
<1>20. ASSUME NEW d \in Dispatches, Leave(d) PROVE OpenersMove
  BY <1>20 DEF Leave, Goes
<1>21. ASSUME NEW d \in Dispatches, AwaitTimesOut(d) PROVE OpenersMove
  BY <1>21 DEF AwaitTimesOut, Goes
<1>22. ASSUME NEW d \in Dispatches, OpenUnknown(d) PROVE OpenersMove
  BY <1>22 DEF OpenUnknown, AnswersUnknown, Answered
<1>23. ASSUME NEW d \in Dispatches, RefuseOpen(d) PROVE OpenersMove
  BY <1>23 DEF RefuseOpen
<1>24. ASSUME NEW d \in Dispatches, ExecuteOpen(d) PROVE OpenersMove
  BY <1>24 DEF ExecuteOpen
<1>25. ASSUME NEW d \in Dispatches, SendCleanup(d) PROVE OpenersMove
  BY <1>25 DEF SendCleanup
<1>26. ASSUME NEW d \in Dispatches, CleanupDrained(d) PROVE OpenersMove
  BY <1>26 DEF CleanupDrained
<1>27. ASSUME NEW d \in Dispatches, CleanupCompletes(d) PROVE OpenersMove
  BY <1>27 DEF CleanupCompletes
<1>28. ASSUME NEW d \in Dispatches, ExecuteCleanup(d) PROVE OpenersMove
  BY <1>28 DEF ExecuteCleanup, Drain
<1>29. ASSUME NEW c \in Closers, NEW s \in Sessions, BeginClose(c, s) PROVE OpenersMove
  BY <1>29 DEF BeginClose, CloseGoes
<1>30. ASSUME NEW c \in Closers, Settle(c) PROVE OpenersMove
  BY <1>30 DEF Settle, CloseGoes, Settled
<1>31. ASSUME NEW c \in Closers, SettleTimesOut(c) PROVE OpenersMove
  BY <1>31 DEF SettleTimesOut, CloseGoes, Settled
<1>32. ASSUME NEW c \in Closers, CloseExpires(c) PROVE OpenersMove
  BY <1>32 DEF CloseExpires, CloseEnds, CloseGoes
<1>33. ASSUME NEW c \in Closers, CloseBindings(c) PROVE OpenersMove
  BY <1>33 DEF CloseBindings, CloseGoes
<1>34. ASSUME NEW c \in Closers, FinishClose(c) PROVE OpenersMove
  BY <1>34 DEF FinishClose, CloseEnds, CloseGoes, Remaining
<1>35. ASSUME NEW c \in Closers, NEW p \in Pipelines, SendClose(c, p) PROVE OpenersMove
  BY <1>35 DEF SendClose, CloseGoes, Remaining
<1>36. ASSUME NEW c \in Closers, NEW p \in Pipelines, CloseRefused(c, p) PROVE OpenersMove
  BY <1>36 DEF CloseRefused, CloseGoes
<1>37. ASSUME NEW c \in Closers, NEW p \in Pipelines, CloseFails(c, p) PROVE OpenersMove
  BY <1>37 DEF CloseFails, CloseGoes
<1>38. ASSUME NEW c \in Closers, NEW p \in Pipelines, CloseDrained(c, p) PROVE OpenersMove
  BY <1>38 DEF CloseDrained, CloseGoes
<1>39. ASSUME NEW c \in Closers, NEW p \in Pipelines, CloseUnknown(c, p) PROVE OpenersMove
  BY <1>39 DEF CloseUnknown, CloseGoes
<1>40. ASSUME NEW c \in Closers, NEW p \in Pipelines, ExecuteClose(c, p) PROVE OpenersMove
  BY <1>40 DEF ExecuteClose, Drain
<1>41. ASSUME NEW p \in Pipelines, StatusArrives(p) PROVE OpenersMove
  BY <1>41 DEF StatusArrives
<1>42. ASSUME NEW p \in Pipelines, Reconcile(p) PROVE OpenersMove
  BY <1>42 DEF Reconcile
<1>43. ASSUME NEW p \in Pipelines, Reboot(p) PROVE OpenersMove
  BY <1>43 DEF Reboot
<1>44. CASE UNCHANGED vars
  BY <1>44 DEF vars
<1> QED BY <1>1, <1>2, <1>3, <1>4, <1>5, <1>6, <1>7, <1>8, <1>9, <1>10, <1>11, <1>12, <1>13,
     <1>14, <1>15, <1>16, <1>17, <1>18, <1>19, <1>20, <1>21, <1>22, <1>23, <1>24, <1>25,
     <1>26, <1>27, <1>28, <1>29, <1>30, <1>31, <1>32, <1>33, <1>34, <1>35, <1>36, <1>37,
     <1>38, <1>39, <1>40, <1>41, <1>42, <1>43, <1>44 DEF Next, DispatchStep, DispatchWork,
     CleanupStep, CloserStep, CloseWork, PipelineStep

\* What a step does to the goals that may still be served.
LEMMA ViableStep == TypeInv /\ GoalInv /\ BootInv /\ [Next]_vars => ViableMove
<1> SUFFICES ASSUME ThreadType, Places, GoalInv, BootInv, [Next]_vars PROVE ViableMove
  BY TwoTypes DEF TypeInv
<1> USE DEF ThreadType, GoalInv, ViableMove, Viable, Tenant, DispatchStages, dispatchVars, openVars, pipelineVars
<1>1. ASSUME NEW s \in Sessions, OpenSession(s) PROVE ViableMove
  BY <1>1 DEF OpenSession
<1>2. ASSUME NEW d \in Dispatches, Begin(d) PROVE ViableMove
  BY <1>2 DEF Begin
<1>3. ASSUME NEW d \in Dispatches, ReadBoot(d) PROVE ViableMove
  BY <1>3 DEF ReadBoot
<1>4. ASSUME NEW d \in Dispatches, Exhausted(d) PROVE ViableMove
  BY <1>4 DEF Exhausted, Answers, Answered
<1>5. ASSUME NEW d \in Dispatches, PrepareFails(d) PROVE ViableMove
  BY <1>5 DEF PrepareFails, Answers, Answered
<1>6. ASSUME NEW d \in Dispatches, PrepareSkips(d) PROVE ViableMove
  BY <1>6 DEF PrepareSkips, Goes, Preparing
<1>7. ASSUME NEW d \in Dispatches, PrepareUses(d) PROVE ViableMove
  BY <1>7 DEF PrepareUses, Goes, Preparing
<1>8. ASSUME NEW d \in Dispatches, PrepareWaits(d) PROVE ViableMove
  BY <1>8 DEF PrepareWaits, Goes, Preparing
<1>9. ASSUME NEW d \in Dispatches, PrepareOpens(d) PROVE ViableMove
  <2>1. pc' = [pc EXCEPT ![d] = "prepared"] /\ UNCHANGED <<at, seen, openVars, pipelineVars>>
    BY <1>9 DEF PrepareOpens, Goes
  <2> QED BY <1>9, <2>1
<1>10. ASSUME NEW d \in Dispatches, AwaitOpen(d) PROVE ViableMove
  BY <1>10 DEF AwaitOpen
<1>11. ASSUME NEW d \in Dispatches, Refuse(d) PROVE ViableMove
  BY <1>11 DEF Refuse, ReleaseBinding
<1>12. ASSUME NEW d \in Dispatches, SendOpen(d) PROVE ViableMove
  BY <1>12 DEF SendOpen, Goes
<1>13. ASSUME NEW d \in Dispatches, OpenNotStarted(d) PROVE ViableMove
  BY <1>13 DEF OpenNotStarted, Goes, ReleaseBinding
<1>14. ASSUME NEW d \in Dispatches, OpenFails(d) PROVE ViableMove
  BY <1>14 DEF OpenFails, Answers, Answered
<1>15. ASSUME NEW d \in Dispatches, OpenSucceeds(d) PROVE ViableMove
  <2>1. CASE Goes(d, "bound")
    BY <1>15, <2>1 DEF OpenSucceeds, Goes
  <2>2. CASE Answers(d)
    BY <1>15, <2>2 DEF OpenSucceeds, Answers, Answered
  <2> QED BY <1>15, <2>1, <2>2 DEF OpenSucceeds
<1>16. ASSUME NEW d \in Dispatches, ReadBinding(d) PROVE ViableMove
  <2>1. CASE Goes(d, "dispatching")
    BY <1>16, <2>1 DEF ReadBinding, Goes
  <2>2. CASE AnswersUnknown(d)
    BY <1>16, <2>2 DEF ReadBinding, AnswersUnknown, Answered
  <2> QED BY <1>16, <2>1, <2>2 DEF ReadBinding
<1>17. ASSUME NEW d \in Dispatches, DispatchNotStarted(d) PROVE ViableMove
  BY <1>17 DEF DispatchNotStarted, Goes
<1>18. ASSUME NEW d \in Dispatches, DispatchCompletes(d) PROVE ViableMove
  BY <1>18 DEF DispatchCompletes, Answers, Answered
<1>19. ASSUME NEW d \in Dispatches, DispatchUnknown(d) PROVE ViableMove
  BY <1>19 DEF DispatchUnknown, AnswersUnknown, Answered
<1>20. ASSUME NEW d \in Dispatches, Leave(d) PROVE ViableMove
  BY <1>20 DEF Leave, Goes
<1>21. ASSUME NEW d \in Dispatches, AwaitTimesOut(d) PROVE ViableMove
  BY <1>21 DEF AwaitTimesOut, Goes
<1>22. ASSUME NEW d \in Dispatches, OpenUnknown(d) PROVE ViableMove
  BY <1>22 DEF OpenUnknown, AnswersUnknown, Answered
<1>23. ASSUME NEW d \in Dispatches, RefuseOpen(d) PROVE ViableMove
  BY <1>23 DEF RefuseOpen
<1>24. ASSUME NEW d \in Dispatches, ExecuteOpen(d) PROVE ViableMove
  BY <1>24 DEF ExecuteOpen
<1>25. ASSUME NEW d \in Dispatches, SendCleanup(d) PROVE ViableMove
  BY <1>25 DEF SendCleanup
<1>26. ASSUME NEW d \in Dispatches, CleanupDrained(d) PROVE ViableMove
  BY <1>26 DEF CleanupDrained
<1>27. ASSUME NEW d \in Dispatches, CleanupCompletes(d) PROVE ViableMove
  BY <1>27 DEF CleanupCompletes
<1>28. ASSUME NEW d \in Dispatches, ExecuteCleanup(d) PROVE ViableMove
  <2>1. PICK result \in GoalStates : Drain(at[d], d, seen[d], result)
    BY <1>28 DEF ExecuteCleanup
  <2>2. boot' = boot /\ (served' = served \/ served' = [served EXCEPT ![at[d]] = Nobody])
    BY <2>1 DEF Drain
  <2> QED BY <1>28, <2>2 DEF ExecuteCleanup
<1>29. ASSUME NEW c \in Closers, NEW s \in Sessions, BeginClose(c, s) PROVE ViableMove
  BY <1>29 DEF BeginClose, CloseGoes
<1>30. ASSUME NEW c \in Closers, Settle(c) PROVE ViableMove
  BY <1>30 DEF Settle, CloseGoes, Settled
<1>31. ASSUME NEW c \in Closers, SettleTimesOut(c) PROVE ViableMove
  BY <1>31 DEF SettleTimesOut, CloseGoes, Settled
<1>32. ASSUME NEW c \in Closers, CloseExpires(c) PROVE ViableMove
  BY <1>32 DEF CloseExpires, CloseEnds, CloseGoes
<1>33. ASSUME NEW c \in Closers, CloseBindings(c) PROVE ViableMove
  BY <1>33 DEF CloseBindings, CloseGoes
<1>34. ASSUME NEW c \in Closers, FinishClose(c) PROVE ViableMove
  BY <1>34 DEF FinishClose, CloseEnds, CloseGoes, Remaining
<1>35. ASSUME NEW c \in Closers, NEW p \in Pipelines, SendClose(c, p) PROVE ViableMove
  BY <1>35 DEF SendClose, CloseGoes, Remaining
<1>36. ASSUME NEW c \in Closers, NEW p \in Pipelines, CloseRefused(c, p) PROVE ViableMove
  BY <1>36 DEF CloseRefused, CloseGoes
<1>37. ASSUME NEW c \in Closers, NEW p \in Pipelines, CloseFails(c, p) PROVE ViableMove
  BY <1>37 DEF CloseFails, CloseGoes
<1>38. ASSUME NEW c \in Closers, NEW p \in Pipelines, CloseDrained(c, p) PROVE ViableMove
  BY <1>38 DEF CloseDrained, CloseGoes
<1>39. ASSUME NEW c \in Closers, NEW p \in Pipelines, CloseUnknown(c, p) PROVE ViableMove
  BY <1>39 DEF CloseUnknown, CloseGoes
<1>40. ASSUME NEW c \in Closers, NEW p \in Pipelines, ExecuteClose(c, p) PROVE ViableMove
  <2>1. PICK result \in GoalStates : Drain(p, copy[c][p], copyBoot[c][p], result)
    BY <1>40 DEF ExecuteClose
  <2>2. boot' = boot /\ (served' = served \/ served' = [served EXCEPT ![p] = Nobody])
    BY <2>1 DEF Drain
  <2> QED BY <1>40, <2>2 DEF ExecuteClose
<1>41. ASSUME NEW p \in Pipelines, StatusArrives(p) PROVE ViableMove
  BY <1>41 DEF StatusArrives
<1>42. ASSUME NEW p \in Pipelines, Reconcile(p) PROVE ViableMove
  BY <1>42 DEF Reconcile
<1>43. ASSUME NEW p \in Pipelines, Reboot(p) PROVE ViableMove
  <2>1. /\ boot' = [boot EXCEPT ![p] = boot[p] + 1] /\ served' = [served EXCEPT ![p] = Nobody]
        /\ UNCHANGED <<pc, at, seen, open>>
    BY <1>43 DEF Reboot
  <2>2. \A x \in Dispatches : at[x] = p => seen[x] # boot'[p]
    BY <2>1 DEF BootInv
  <2>3. \A x \in Dispatches : ~Viable(x, p)'
    BY <2>1, <2>2
  <2>4. \A x \in Dispatches, q \in Pipelines \ {p} : Viable(x, q)' => Viable(x, q) /\ boot'[q] = boot[q]
    BY <2>1
  <2> QED BY <2>3, <2>4
<1>44. CASE UNCHANGED vars
  BY <1>44 DEF vars
<1> QED BY <1>1, <1>2, <1>3, <1>4, <1>5, <1>6, <1>7, <1>8, <1>9, <1>10, <1>11, <1>12, <1>13,
     <1>14, <1>15, <1>16, <1>17, <1>18, <1>19, <1>20, <1>21, <1>22, <1>23, <1>24, <1>25,
     <1>26, <1>27, <1>28, <1>29, <1>30, <1>31, <1>32, <1>33, <1>34, <1>35, <1>36, <1>37,
     <1>38, <1>39, <1>40, <1>41, <1>42, <1>43, <1>44 DEF Next, DispatchStep, DispatchWork,
     CleanupStep, CloserStep, CloseWork, PipelineStep

-----------------------------------------------------------------------------
(* How bindings move.                                                      *)

\* A dispatch without an Open creates the binding it will send.
Creates(s, p) ==
  /\ bindingId[s][p] = Nobody /\ session[s] = "ACTIVE"
  /\ \A r \in Sessions : bindingId[r][p] = Nobody
  /\ \E d \in Dispatches :
       /\ PrepareOpens(d) /\ pc'[d] = "prepared" /\ at[d] = p /\ SessionOf[d] = s
       /\ bindingId'[s][p] = d /\ bindingBoot'[s][p] = seen[d]

\* A binding that is dropped does not live, and nobody works on it who does
\* not know that the session has ended.
Loses(s, p) ==
  /\ bindingId'[s][p] = Nobody /\ binding'[s][p] = "NONE"
  /\ \/ Ended(s)'
     \/ ~Busy(s)
     \/ binding[s][p] = "OPENING" /\ pc'[bindingId[s][p]] = "next"
  /\ \A x \in Dispatches : bindingId[s][p] = x => ~Viable(x, p)'

\* The record stays, and is not OPENING again.
Stays(s, p) ==
  /\ bindingId'[s][p] = bindingId[s][p] /\ bindingBoot'[s][p] = bindingBoot[s][p]
  /\ binding'[s][p] = "OPENING" => binding[s][p] = "OPENING"

BindingsMove == \A s \in Sessions, p \in Pipelines : Stays(s, p) \/ Loses(s, p) \/ Creates(s, p)

\* What a step does to the bindings on record.
LEMMA BindingsStep == IInv /\ [Next]_vars => BindingsMove
<1> SUFFICES ASSUME IInv, [Next]_vars PROVE BindingsMove
  OBVIOUS
<1>1a. CoreType /\ ThreadType /\ Places /\ GoalInv /\ BootInv /\ SessionInv /\ LeaseInv
  BY TwoTypes DEF IInv, TypeInv
<1>1b. (CoreType /\ ThreadType)' /\ SessionsMove
  BY CoreStep, ThreadStep DEF IInv
<1>k. ASSUME UNCHANGED bindingVars PROVE BindingsMove
  BY <1>k DEF BindingsMove, Stays, bindingVars
<1>s. \A x \in Dispatches : SessionOf[x] \in Sessions
  OBVIOUS
<1>1. ASSUME NEW s \in Sessions, OpenSession(s) PROVE BindingsMove
  BY <1>1, <1>k DEF OpenSession, flagVars, bindingVars, coreVars, statusVars, dispatchVars,
     openVars, runVars, closeVars, pipelineVars
<1>2. ASSUME NEW d \in Dispatches, Begin(d) PROVE BindingsMove
  BY <1>2, <1>k DEF Begin, flagVars, bindingVars, coreVars, statusVars, dispatchVars, openVars,
     runVars, closeVars, pipelineVars
<1>3. ASSUME NEW d \in Dispatches, ReadBoot(d) PROVE BindingsMove
  BY <1>3, <1>k DEF ReadBoot, flagVars, bindingVars, coreVars, statusVars, dispatchVars,
     openVars, runVars, closeVars, pipelineVars
<1>4. ASSUME NEW d \in Dispatches, Exhausted(d) PROVE BindingsMove
  BY <1>4, <1>k DEF Exhausted, Answers, Answered, flagVars, bindingVars, coreVars, statusVars,
     dispatchVars, openVars, runVars, closeVars, pipelineVars
<1>5. ASSUME NEW d \in Dispatches, PrepareFails(d) PROVE BindingsMove
  BY <1>5, <1>k DEF PrepareFails, Answers, Answered, flagVars, bindingVars, coreVars,
     statusVars, dispatchVars, openVars, runVars, closeVars, pipelineVars
<1>6. ASSUME NEW d \in Dispatches, PrepareSkips(d) PROVE BindingsMove
  BY <1>6, <1>k DEF PrepareSkips, Goes, Preparing, flagVars, bindingVars, coreVars, statusVars,
     dispatchVars, openVars, runVars, closeVars, pipelineVars
<1>7. ASSUME NEW d \in Dispatches, PrepareUses(d) PROVE BindingsMove
  BY <1>7, <1>k DEF PrepareUses, Goes, Preparing, flagVars, bindingVars, coreVars, statusVars,
     dispatchVars, openVars, runVars, closeVars, pipelineVars
<1>8. ASSUME NEW d \in Dispatches, PrepareWaits(d) PROVE BindingsMove
  BY <1>8, <1>k DEF PrepareWaits, Goes, Preparing, flagVars, bindingVars, coreVars, statusVars,
     dispatchVars, openVars, runVars, closeVars, pipelineVars
<1>9. ASSUME NEW d \in Dispatches, PrepareOpens(d) PROVE BindingsMove
  <2> DEFINE s == SessionOf[d]
             p == at[d]
  <2>1. /\ s \in Sessions /\ p \in Pipelines /\ session[s] = "ACTIVE"
        /\ ~Bound(s, p) /\ ~OwnedByOther(p, s)
        /\ binding' = [binding EXCEPT ![s][p] = "OPENING"]
        /\ bindingId' = [bindingId EXCEPT ![s][p] = d]
        /\ bindingBoot' = [bindingBoot EXCEPT ![s][p] = seen[d]]
        /\ pc' = [pc EXCEPT ![d] = "prepared"]
    BY <1>9, <1>1a DEF PrepareOpens, Preparing, Places, Trying, Goes
  <2>2. \A r \in Sessions : bindingId[r][p] = Nobody
    BY <2>1, <1>1a DEF OwnedByOther, Bound, CoreType
  <2>3. bindingId'[s][p] = d /\ bindingBoot'[s][p] = seen[d] /\ pc'[d] = "prepared"
    BY <2>1, <1>1a DEF CoreType, ThreadType
  <2>4. Creates(s, p)
    BY <1>9, <2>1, <2>2, <2>3 DEF Creates
  <2>5. \A r \in Sessions, q \in Pipelines : r # s \/ q # p => Stays(r, q)
    BY <2>1, <1>1a DEF Stays, CoreType
  <2> QED BY <2>4, <2>5 DEF BindingsMove
<1>10. ASSUME NEW d \in Dispatches, AwaitOpen(d) PROVE BindingsMove
  BY <1>10, <1>k DEF AwaitOpen, flagVars, bindingVars, coreVars, statusVars, dispatchVars,
     openVars, runVars, closeVars, pipelineVars
<1>11. ASSUME NEW d \in Dispatches, Refuse(d) PROVE BindingsMove
  <2> DEFINE s == SessionOf[d]
             p == at[d]
  <2>1. ReleaseBinding(d) /\ p \in Pipelines /\ s \in Sessions
    BY <1>11, <1>1a DEF Refuse, Places, Trying
  <2>2. CASE UNCHANGED bindingVars
    BY <2>2, <1>k
  <2>3. CASE binding[s][p] = "OPENING" /\ Drops(s, p)
    <3>1. bindingId[s][p] = d
      BY <1>11, <1>1a, <2>1, <2>3 DEF Refuse, CoreType, LeaseInv, OpenersInv, MineOrGone
    <3>2. /\ pc' = [pc EXCEPT ![d] = "next"] /\ open[d] \in {"none", "refused"}
          /\ UNCHANGED <<at, openVars, pipelineVars>>
      BY <1>11, <1>1a DEF Refuse, Goes, GoalInv
    <3>a. pc'[d] = "next" /\ served'[p] = served[p] /\ open'[d] = open[d] /\ at'[d] = p
      BY <3>2, <1>1a DEF ThreadType, openVars, pipelineVars
    <3>b. served[p] # d
      BY <3>2, <2>1, <1>1a DEF GoalInv
    <3>3. ~Viable(d, p)'
      BY <3>2, <3>a, <3>b DEF Viable, Tenant
    <3>4. Loses(s, p)
      BY <3>1, <3>2, <3>3, <2>1, <2>3, <1>1a DEF Loses, Drops, ThreadType
    <3> QED BY <2>1, <2>3, <3>4 DEF BindingsMove, Stays, Drops
  <2> QED BY <2>1, <2>2, <2>3, <1>1a, ReleaseEffect
<1>12. ASSUME NEW d \in Dispatches, SendOpen(d) PROVE BindingsMove
  BY <1>12, <1>k DEF SendOpen, Goes, flagVars, bindingVars, coreVars, statusVars, dispatchVars,
     openVars, runVars, closeVars, pipelineVars
<1>13. ASSUME NEW d \in Dispatches, OpenNotStarted(d) PROVE BindingsMove
  <2> DEFINE s == SessionOf[d]
             p == at[d]
  <2>1. ReleaseBinding(d) /\ p \in Pipelines /\ s \in Sessions
    BY <1>13, <1>1a DEF OpenNotStarted, Places, Trying
  <2>2. CASE UNCHANGED bindingVars
    BY <2>2, <1>k
  <2>3. CASE binding[s][p] = "OPENING" /\ Drops(s, p)
    <3>1. bindingId[s][p] = d
      BY <1>13, <1>1a, <2>1, <2>3 DEF OpenNotStarted, CoreType, LeaseInv, OpenersInv, MineOrGone
    <3>2. /\ pc' = [pc EXCEPT ![d] = "next"] /\ open[d] \in {"none", "refused"}
          /\ UNCHANGED <<at, openVars, pipelineVars>>
      BY <1>13, <1>1a DEF OpenNotStarted, Goes, GoalInv
    <3>a. pc'[d] = "next" /\ served'[p] = served[p] /\ open'[d] = open[d] /\ at'[d] = p
      BY <3>2, <1>1a DEF ThreadType, openVars, pipelineVars
    <3>b. served[p] # d
      BY <3>2, <2>1, <1>1a DEF GoalInv
    <3>3. ~Viable(d, p)'
      BY <3>2, <3>a, <3>b DEF Viable, Tenant
    <3>4. Loses(s, p)
      BY <3>1, <3>2, <3>3, <2>1, <2>3, <1>1a DEF Loses, Drops, ThreadType
    <3> QED BY <2>1, <2>3, <3>4 DEF BindingsMove, Stays, Drops
  <2> QED BY <2>1, <2>2, <2>3, <1>1a, ReleaseEffect
<1>14. ASSUME NEW d \in Dispatches, OpenFails(d) PROVE BindingsMove
  <2>1. MarkSessionFailed(SessionOf[d], {at[d]}) /\ at[d] \in Pipelines /\ SessionOf[d] \in Sessions
    BY <1>14, <1>1a DEF OpenFails, Places, Trying
  <2>2. /\ KeepsIds
        /\ \A r \in Sessions, q \in Pipelines :
             binding'[r][q] = "OPENING" => binding[r][q] = "OPENING"
    BY <2>1, <1>1a, MarkEffect
  <2> QED BY <2>2 DEF BindingsMove, Stays, KeepsIds
<1>15. ASSUME NEW d \in Dispatches, OpenSucceeds(d) PROVE BindingsMove
  <2> DEFINE s == SessionOf[d]
             p == at[d]
  <2>1. s \in Sessions /\ p \in Pipelines /\ UNCHANGED <<bindingId, bindingBoot>>
    BY <1>15, <1>1a DEF OpenSucceeds, Places, Trying
  <2>2. binding' = binding \/ binding' = [binding EXCEPT ![s][p] = "ACTIVE"]
    BY <1>15 DEF OpenSucceeds
  <2>3. \A r \in Sessions, q \in Pipelines : binding'[r][q] = "OPENING" => binding[r][q] = "OPENING"
    BY <2>1, <2>2, <1>1a DEF CoreType
  <2> QED BY <2>1, <2>3 DEF BindingsMove, Stays
<1>16. ASSUME NEW d \in Dispatches, ReadBinding(d) PROVE BindingsMove
  BY <1>16, <1>k DEF ReadBinding, Goes, AnswersUnknown, Answered, flagVars, bindingVars,
     coreVars, statusVars, dispatchVars, openVars, runVars, closeVars, pipelineVars
<1>17. ASSUME NEW d \in Dispatches, DispatchNotStarted(d) PROVE BindingsMove
  BY <1>17, <1>k DEF DispatchNotStarted, Goes, flagVars, bindingVars, coreVars, statusVars,
     dispatchVars, openVars, runVars, closeVars, pipelineVars
<1>18. ASSUME NEW d \in Dispatches, DispatchCompletes(d) PROVE BindingsMove
  BY <1>18, <1>k DEF DispatchCompletes, Answers, Answered, flagVars, bindingVars, coreVars,
     statusVars, dispatchVars, openVars, runVars, closeVars, pipelineVars
<1>19. ASSUME NEW d \in Dispatches, DispatchUnknown(d) PROVE BindingsMove
  <2>1. MarkSessionFailed(SessionOf[d], {at[d]}) /\ at[d] \in Pipelines /\ SessionOf[d] \in Sessions
    BY <1>19, <1>1a DEF DispatchUnknown, Places, Trying
  <2>2. /\ KeepsIds
        /\ \A r \in Sessions, q \in Pipelines :
             binding'[r][q] = "OPENING" => binding[r][q] = "OPENING"
    BY <2>1, <1>1a, MarkEffect
  <2> QED BY <2>2 DEF BindingsMove, Stays, KeepsIds
<1>20. ASSUME NEW d \in Dispatches, Leave(d) PROVE BindingsMove
  BY <1>20, <1>k DEF Leave, Goes, flagVars, bindingVars, coreVars, statusVars, dispatchVars,
     openVars, runVars, closeVars, pipelineVars
<1>21. ASSUME NEW d \in Dispatches, AwaitTimesOut(d) PROVE BindingsMove
  BY <1>21, <1>k DEF AwaitTimesOut, Goes, flagVars, bindingVars, coreVars, statusVars,
     dispatchVars, openVars, runVars, closeVars, pipelineVars
<1>22. ASSUME NEW d \in Dispatches, OpenUnknown(d) PROVE BindingsMove
  <2>1. MarkSessionFailed(SessionOf[d], {at[d]}) /\ at[d] \in Pipelines /\ SessionOf[d] \in Sessions
    BY <1>22, <1>1a DEF OpenUnknown, Places, Trying
  <2>2. /\ KeepsIds
        /\ \A r \in Sessions, q \in Pipelines :
             binding'[r][q] = "OPENING" => binding[r][q] = "OPENING"
    BY <2>1, <1>1a, MarkEffect
  <2> QED BY <2>2 DEF BindingsMove, Stays, KeepsIds
<1>23. ASSUME NEW d \in Dispatches, RefuseOpen(d) PROVE BindingsMove
  BY <1>23, <1>k DEF RefuseOpen, flagVars, bindingVars, coreVars, statusVars, dispatchVars,
     openVars, runVars, closeVars, pipelineVars
<1>24. ASSUME NEW d \in Dispatches, ExecuteOpen(d) PROVE BindingsMove
  BY <1>24, <1>k DEF ExecuteOpen, flagVars, bindingVars, coreVars, statusVars, dispatchVars,
     openVars, runVars, closeVars, pipelineVars
<1>25. ASSUME NEW d \in Dispatches, SendCleanup(d) PROVE BindingsMove
  BY <1>25, <1>k DEF SendCleanup, flagVars, bindingVars, coreVars, statusVars, dispatchVars,
     openVars, runVars, closeVars, pipelineVars
<1>26. ASSUME NEW d \in Dispatches, CleanupDrained(d) PROVE BindingsMove
  <2> DEFINE s == SessionOf[d]
             p == at[d]
  <2>1. /\ RecordBindingClosed(s, p) /\ p \in Pipelines /\ s \in Sessions
        /\ d \in late /\ cleanup[d] = "succeeded"
    BY <1>26, <1>1a DEF CleanupDrained, Places, GoalInv
  <2>2. CASE UNCHANGED bindingVars
    BY <2>2, <1>k
  <2>3. CASE Drops(s, p)
    <3>1. Ended(s)' /\ bindingId[s][p] \in {d, Nobody}
      BY <2>1, <1>1a, <1>1b DEF SessionInv, SessionsMove, LeaseInv, OpenersInv, MineOrGone
    <3>2. UNCHANGED <<pc, at, open, seen, pipelineVars>>
      BY <1>26 DEF CleanupDrained, dispatchVars
    <3>3. ~Viable(d, p)'
      BY <3>2, <2>1, <1>1a DEF Viable, Tenant, GoalInv, LeaseInv, DrainedInv, pipelineVars
    <3>4. Loses(s, p)
      BY <3>1, <3>3, <2>1, <2>3 DEF Loses, Drops
    <3> QED BY <2>1, <2>3, <3>4 DEF BindingsMove, Stays, Drops
  <2> QED BY <2>1, <2>2, <2>3, <1>1a, ClosedEffect
<1>27. ASSUME NEW d \in Dispatches, CleanupCompletes(d) PROVE BindingsMove
  <2>1. RecordCloseComplete(SessionOf[d], TRUE) /\ SessionOf[d] \in Sessions
    BY <1>27, <1>1a, <1>s DEF CleanupCompletes
  <2> QED BY <2>1, <1>1a, <1>k, CompleteEffect
<1>28. ASSUME NEW d \in Dispatches, ExecuteCleanup(d) PROVE BindingsMove
  BY <1>28, <1>k DEF ExecuteCleanup, Drain, flagVars, bindingVars, coreVars, statusVars,
     dispatchVars, openVars, runVars, closeVars, pipelineVars
<1>29. ASSUME NEW c \in Closers, NEW s \in Sessions, BeginClose(c, s) PROVE BindingsMove
  BY <1>29, <1>k DEF BeginClose, CloseGoes, flagVars, bindingVars, coreVars, statusVars,
     dispatchVars, openVars, runVars, closeVars, pipelineVars
<1>30. ASSUME NEW c \in Closers, Settle(c) PROVE BindingsMove
  BY <1>30, <1>k DEF Settle, CloseGoes, Settled, flagVars, bindingVars, coreVars, statusVars,
     dispatchVars, openVars, runVars, closeVars, pipelineVars
<1>31. ASSUME NEW c \in Closers, SettleTimesOut(c) PROVE BindingsMove
  BY <1>31, <1>k DEF SettleTimesOut, CloseGoes, Settled, flagVars, bindingVars, coreVars,
     statusVars, dispatchVars, openVars, runVars, closeVars, pipelineVars
<1>32. ASSUME NEW c \in Closers, CloseExpires(c) PROVE BindingsMove
  <2>1. MarkSessionFailed(subject[c], Pipelines) /\ subject[c] \in Sessions
    BY <1>32, <1>1a DEF CloseExpires, Places
  <2>2. /\ KeepsIds
        /\ \A r \in Sessions, q \in Pipelines :
             binding'[r][q] = "OPENING" => binding[r][q] = "OPENING"
    BY <2>1, <1>1a, MarkEffect
  <2> QED BY <2>2 DEF BindingsMove, Stays, KeepsIds
<1>33. ASSUME NEW c \in Closers, CloseBindings(c) PROVE BindingsMove
  <2>1. subject[c] \in Sessions /\ UNCHANGED <<bindingId, bindingBoot>>
    BY <1>33, <1>1a DEF CloseBindings, Places
  <2>2. binding' = [binding EXCEPT ![subject[c]] = [p \in Pipelines |->
          IF binding[subject[c]][p] \in {"ACTIVE", "QUARANTINED", "CLOSING"}
          THEN "CLOSING" ELSE binding[subject[c]][p]]]
    BY <1>33 DEF CloseBindings
  <2>3. \A r \in Sessions, q \in Pipelines : binding'[r][q] = "OPENING" => binding[r][q] = "OPENING"
    BY <2>1, <2>2, <1>1a DEF CoreType
  <2> QED BY <2>1, <2>3 DEF BindingsMove, Stays
<1>34. ASSUME NEW c \in Closers, FinishClose(c) PROVE BindingsMove
  <2>1. subject[c] \in Sessions
    BY <1>34, <1>1a DEF FinishClose, Places
  <2>2. UNCHANGED bindingVars
    BY <1>34, <2>1, <1>1a, CompleteEffect DEF FinishClose, RecordCloseNotStarted, coreVars
  <2> QED BY <2>2, <1>k
<1>35. ASSUME NEW c \in Closers, NEW p \in Pipelines, SendClose(c, p) PROVE BindingsMove
  BY <1>35, <1>k DEF SendClose, CloseGoes, Remaining, flagVars, bindingVars, coreVars,
     statusVars, dispatchVars, openVars, runVars, closeVars, pipelineVars
<1>36. ASSUME NEW c \in Closers, NEW p \in Pipelines, CloseRefused(c, p) PROVE BindingsMove
  BY <1>36, <1>k DEF CloseRefused, CloseGoes, flagVars, bindingVars, coreVars, statusVars,
     dispatchVars, openVars, runVars, closeVars, pipelineVars
<1>37. ASSUME NEW c \in Closers, NEW p \in Pipelines, CloseFails(c, p) PROVE BindingsMove
  <2>1. MarkSessionFailed(subject[c], {p}) /\ subject[c] \in Sessions
    BY <1>37, <1>1a DEF CloseFails, Places
  <2>2. /\ KeepsIds
        /\ \A r \in Sessions, q \in Pipelines :
             binding'[r][q] = "OPENING" => binding[r][q] = "OPENING"
    BY <2>1, <1>1a, MarkEffect
  <2> QED BY <2>2 DEF BindingsMove, Stays, KeepsIds
<1>38. ASSUME NEW c \in Closers, NEW p \in Pipelines, CloseDrained(c, p) PROVE BindingsMove
  <2> DEFINE s == subject[c]
  <2>1. /\ RecordBindingClosed(s, p) /\ s \in Sessions
        /\ close[c] = "calling" /\ goal[c][p] = "succeeded"
    BY <1>38, <1>1a DEF CloseDrained, Places
  <2>2. CASE UNCHANGED bindingVars
    BY <2>2, <1>k
  <2>3. CASE Drops(s, p)
    <3>1. /\ session'[s] \notin {"NONE", "ACTIVE"} /\ ~Busy(s)
          /\ subject'[c] = s
      BY <1>38, <2>1, <1>1a, <1>1b DEF CloseDrained, SessionInv, SessionsMove, DrainBarrier, Busy, Ended, runVars
    <3>2. UNCHANGED <<pc, at, open, seen, pipelineVars>>
      BY <1>38 DEF CloseDrained, dispatchVars, openVars
    <3>3. ASSUME NEW x \in Dispatches, bindingId[s][p] = x PROVE ~Viable(x, p)'
      <4>1. copy[c][p] = x /\ SessionOf[x] = s
        BY <3>3, <2>1, <1>1a DEF LeaseInv, DrainedInv, CopiesInv, OwnIds
      <4>2. ~Tenant(x, p) /\ pc[x] # "prepared"
        BY <4>1, <2>1, <3>1, <1>1a DEF LeaseInv, DrainedInv, Busy, Places
      <4> QED BY <4>2, <3>2 DEF Viable, Tenant, pipelineVars
    <3>4. Loses(s, p)
      BY <3>1, <3>3, <2>1, <2>3 DEF Loses, Drops, Ended
    <3> QED BY <2>1, <2>3, <3>4 DEF BindingsMove, Stays, Drops
  <2> QED BY <2>1, <2>2, <2>3, <1>1a, ClosedEffect
<1>39. ASSUME NEW c \in Closers, NEW p \in Pipelines, CloseUnknown(c, p) PROVE BindingsMove
  <2>1. MarkSessionFailed(subject[c], {p}) /\ subject[c] \in Sessions
    BY <1>39, <1>1a DEF CloseUnknown, Places
  <2>2. /\ KeepsIds
        /\ \A r \in Sessions, q \in Pipelines :
             binding'[r][q] = "OPENING" => binding[r][q] = "OPENING"
    BY <2>1, <1>1a, MarkEffect
  <2> QED BY <2>2 DEF BindingsMove, Stays, KeepsIds
<1>40. ASSUME NEW c \in Closers, NEW p \in Pipelines, ExecuteClose(c, p) PROVE BindingsMove
  BY <1>40, <1>k DEF ExecuteClose, Drain, flagVars, bindingVars, coreVars, statusVars,
     dispatchVars, openVars, runVars, closeVars, pipelineVars
<1>41. ASSUME NEW p \in Pipelines, StatusArrives(p) PROVE BindingsMove
  BY <1>41, <1>k DEF StatusArrives, flagVars, bindingVars, coreVars, statusVars, dispatchVars,
     openVars, runVars, closeVars, pipelineVars
<1>42. ASSUME NEW p \in Pipelines, Reconcile(p) PROVE BindingsMove
  <2> DEFINE fenced == {s \in Sessions : Bound(s, p) /\ bindingBoot[s][p] # status[p]}
             failed == {s \in fenced : session[s] # "ACTIVE" \/ s \in closeRequested \/ Busy(s)}
  <2>1. /\ binding' = [s \in Sessions |->
             IF s \in fenced THEN [binding[s] EXCEPT ![p] = "NONE"] ELSE binding[s]]
        /\ bindingId' = [s \in Sessions |->
             IF s \in fenced THEN [bindingId[s] EXCEPT ![p] = Nobody] ELSE bindingId[s]]
        /\ bindingBoot' = [s \in Sessions |->
             IF s \in fenced THEN [bindingBoot[s] EXCEPT ![p] = 0] ELSE bindingBoot[s]]
        /\ session' = [s \in Sessions |-> IF s \in failed THEN "QUARANTINED" ELSE session[s]]
        /\ UNCHANGED <<pc, at, seen, open, served, boot>>
    BY <1>42 DEF Reconcile, dispatchVars, openVars, pipelineVars
  <2>2. ASSUME NEW s \in fenced PROVE Loses(s, p)
    <3>1. bindingId'[s][p] = Nobody /\ binding'[s][p] = "NONE"
      BY <2>1, <1>1a DEF CoreType
    <3>2. Ended(s)' \/ ~Busy(s)
      BY <2>1 DEF Ended
    <3>3. ASSUME NEW x \in Dispatches, bindingId[s][p] = x PROVE ~Viable(x, p)'
      <4>1. SUFFICES ASSUME Viable(x, p) PROVE FALSE
        BY <2>1 DEF Viable, Tenant
      <4>2. bindingBoot[s][p] = boot[p] /\ SessionOf[x] = s
        BY <4>1, <3>3, <1>1a DEF LeaseInv, ViableInv, OwnIds
      <4>3. bindingBoot[s][p] <= status[p] /\ status[p] <= boot[p]
        BY <1>1a DEF BootInv
      <4>a. bindingBoot[s][p] \in Nat /\ status[p] \in Nat /\ boot[p] \in Nat
        BY <1>1a DEF CoreType, ThreadType
      <4>4. bindingBoot[s][p] = status[p]
        BY <4>2, <4>3, <4>a
      <4> QED BY <4>4
    <3> QED BY <3>1, <3>2, <3>3 DEF Loses
  <2>3. \A s \in Sessions, q \in Pipelines : s \notin fenced \/ q # p => Stays(s, q)
    BY <2>1, <1>1a DEF Stays, CoreType
  <2> QED BY <2>2, <2>3 DEF BindingsMove
<1>43. ASSUME NEW p \in Pipelines, Reboot(p) PROVE BindingsMove
  BY <1>43, <1>k DEF Reboot, flagVars, bindingVars, coreVars, statusVars, dispatchVars,
     openVars, runVars, closeVars, pipelineVars
<1>44. CASE UNCHANGED vars
  BY <1>44, <1>k DEF vars, flagVars, bindingVars, coreVars, statusVars, dispatchVars,
     openVars, runVars, closeVars, pipelineVars
<1> QED BY <1>1, <1>2, <1>3, <1>4, <1>5, <1>6, <1>7, <1>8, <1>9, <1>10, <1>11, <1>12, <1>13,
     <1>14, <1>15, <1>16, <1>17, <1>18, <1>19, <1>20, <1>21, <1>22, <1>23, <1>24, <1>25,
     <1>26, <1>27, <1>28, <1>29, <1>30, <1>31, <1>32, <1>33, <1>34, <1>35, <1>36, <1>37,
     <1>38, <1>39, <1>40, <1>41, <1>42, <1>43, <1>44 DEF Next, DispatchStep, DispatchWork,
     CleanupStep, CloserStep, CloseWork, PipelineStep

-----------------------------------------------------------------------------
(* How the threads move.                                                   *)

\* Who begins finds an open session, and who gives up leaves none behind.
EntriesMove ==
  \A x \in Dispatches :
    /\ pc'[x] # "idle" => pc[x] # "idle" \/ session[SessionOf[x]] = "ACTIVE"
    /\ x \in inFlight' => x \in inFlight \/ session[SessionOf[x]] = "ACTIVE"
    /\ x \in unknown' \cup late' =>
         x \in unknown \cup late \/ session'[SessionOf[x]] \notin {"NONE", "ACTIVE"}

\* How a step begins and gives up dispatches.
LEMMA EntriesStep == IInv /\ [Next]_vars => EntriesMove
<1> SUFFICES ASSUME IInv, [Next]_vars PROVE EntriesMove
  OBVIOUS
<1>1a. CoreType /\ ThreadType /\ Places /\ GoalInv /\ SessionInv /\ BoundInv
  BY TwoTypes DEF IInv, TypeInv, LeaseInv
<1>t. /\ pc \in [Dispatches -> DispatchStages] /\ inFlight \subseteq Dispatches
      /\ \A x \in Dispatches : SessionOf[x] \in Sessions
  BY <1>1a DEF CoreType, ThreadType
<1> USE <1>t DEF EntriesMove
<1>1. ASSUME NEW s \in Sessions, OpenSession(s) PROVE EntriesMove
  BY <1>1 DEF OpenSession, flagVars, bindingVars, coreVars, statusVars, dispatchVars,
     openVars, runVars, closeVars, pipelineVars
<1>2. ASSUME NEW d \in Dispatches, Begin(d) PROVE EntriesMove
  BY <1>2 DEF Begin, flagVars, bindingVars, coreVars, statusVars, dispatchVars, openVars,
     runVars, closeVars, pipelineVars
<1>3. ASSUME NEW d \in Dispatches, ReadBoot(d) PROVE EntriesMove
  BY <1>3 DEF ReadBoot, flagVars, bindingVars, coreVars, statusVars, dispatchVars, openVars,
     runVars, closeVars, pipelineVars
<1>4. ASSUME NEW d \in Dispatches, Exhausted(d) PROVE EntriesMove
  BY <1>4 DEF Exhausted, Answers, Answered, flagVars, bindingVars, coreVars, statusVars,
     dispatchVars, openVars, runVars, closeVars, pipelineVars
<1>5. ASSUME NEW d \in Dispatches, PrepareFails(d) PROVE EntriesMove
  BY <1>5 DEF PrepareFails, Answers, Answered, flagVars, bindingVars, coreVars, statusVars,
     dispatchVars, openVars, runVars, closeVars, pipelineVars
<1>6. ASSUME NEW d \in Dispatches, PrepareSkips(d) PROVE EntriesMove
  BY <1>6 DEF PrepareSkips, Goes, Preparing, flagVars, bindingVars, coreVars, statusVars,
     dispatchVars, openVars, runVars, closeVars, pipelineVars
<1>7. ASSUME NEW d \in Dispatches, PrepareUses(d) PROVE EntriesMove
  BY <1>7 DEF PrepareUses, Goes, Preparing, flagVars, bindingVars, coreVars, statusVars,
     dispatchVars, openVars, runVars, closeVars, pipelineVars
<1>8. ASSUME NEW d \in Dispatches, PrepareWaits(d) PROVE EntriesMove
  BY <1>8 DEF PrepareWaits, Goes, Preparing, flagVars, bindingVars, coreVars, statusVars,
     dispatchVars, openVars, runVars, closeVars, pipelineVars
<1>9. ASSUME NEW d \in Dispatches, PrepareOpens(d) PROVE EntriesMove
  BY <1>9 DEF PrepareOpens, Goes, Preparing, flagVars, bindingVars, coreVars, statusVars,
     dispatchVars, openVars, runVars, closeVars, pipelineVars
<1>10. ASSUME NEW d \in Dispatches, AwaitOpen(d) PROVE EntriesMove
  BY <1>10 DEF AwaitOpen, flagVars, bindingVars, coreVars, statusVars, dispatchVars,
     openVars, runVars, closeVars, pipelineVars
<1>11. ASSUME NEW d \in Dispatches, Refuse(d) PROVE EntriesMove
  <2>1. ReleaseBinding(d) /\ at[d] \in Pipelines /\ SessionOf[d] \in Sessions
    BY <1>11, <1>1a DEF Refuse, Places, Trying
  <2>2. inFlight' = inFlight
    BY <1>11, <2>1, <1>1a, ReleaseEffect DEF Ended, SessionInv, Refuse
  <2> QED BY <1>11, <2>2 DEF Refuse, openVars, dispatchVars, statusVars
<1>12. ASSUME NEW d \in Dispatches, SendOpen(d) PROVE EntriesMove
  BY <1>12 DEF SendOpen, Goes, flagVars, bindingVars, coreVars, statusVars, dispatchVars,
     openVars, runVars, closeVars, pipelineVars
<1>13. ASSUME NEW d \in Dispatches, OpenNotStarted(d) PROVE EntriesMove
  <2>1. ReleaseBinding(d) /\ at[d] \in Pipelines /\ SessionOf[d] \in Sessions
    BY <1>13, <1>1a DEF OpenNotStarted, Places, Trying
  <2>2. inFlight' = inFlight
    BY <1>13, <2>1, <1>1a, ReleaseEffect DEF Ended, SessionInv, OpenNotStarted
  <2> QED BY <1>13, <2>2 DEF OpenNotStarted, Goes, openVars, dispatchVars, statusVars
<1>14. ASSUME NEW d \in Dispatches, OpenFails(d) PROVE EntriesMove
  <2>1. MarkSessionFailed(SessionOf[d], {at[d]}) /\ at[d] \in Pipelines /\ SessionOf[d] \in Sessions
    BY <1>14, <1>1a DEF OpenFails, Places, Trying
  <2>2. inFlight' = inFlight
    BY <1>14, <2>1, <1>1a, MarkEffect DEF Ended, SessionInv, OpenFails
  <2> QED BY <1>14, <2>2 DEF OpenFails, Answers, Answered, openVars, dispatchVars, statusVars
<1>15. ASSUME NEW d \in Dispatches, OpenSucceeds(d) PROVE EntriesMove
  BY <1>15 DEF OpenSucceeds, Goes, Answers, Answered, flagVars, bindingVars, coreVars,
     statusVars, dispatchVars, openVars, runVars, closeVars, pipelineVars
<1>16. ASSUME NEW d \in Dispatches, ReadBinding(d) PROVE EntriesMove
  <2>1. CASE Goes(d, "dispatching")
    BY <1>16, <2>1 DEF ReadBinding, Goes, coreVars, openVars
  <2>2. CASE AnswersUnknown(d) /\ ~Bound(SessionOf[d], at[d])
    <3>1. Ended(SessionOf[d]) /\ session' = session
      BY <1>16, <2>2, <1>1a DEF ReadBinding, BoundInv, Bound, coreVars
    <3> QED BY <1>16, <2>2, <3>1 DEF ReadBinding, AnswersUnknown, Answered, Ended, coreVars, openVars
  <2> QED BY <1>16, <2>1, <2>2 DEF ReadBinding
<1>17. ASSUME NEW d \in Dispatches, DispatchNotStarted(d) PROVE EntriesMove
  BY <1>17 DEF DispatchNotStarted, Goes, flagVars, bindingVars, coreVars, statusVars,
     dispatchVars, openVars, runVars, closeVars, pipelineVars
<1>18. ASSUME NEW d \in Dispatches, DispatchCompletes(d) PROVE EntriesMove
  BY <1>18 DEF DispatchCompletes, Answers, Answered, flagVars, bindingVars, coreVars,
     statusVars, dispatchVars, openVars, runVars, closeVars, pipelineVars
<1>19. ASSUME NEW d \in Dispatches, DispatchUnknown(d) PROVE EntriesMove
  <2>1. MarkSessionFailed(SessionOf[d], {at[d]}) /\ at[d] \in Pipelines /\ SessionOf[d] \in Sessions
    BY <1>19, <1>1a DEF DispatchUnknown, Places, Trying
  <2>2. inFlight' = inFlight /\ session'[SessionOf[d]] \notin {"NONE", "ACTIVE"}
    BY <1>19, <2>1, <1>1a, MarkEffect DEF Ended, SessionInv, DispatchUnknown
  <2> QED BY <1>19, <2>2 DEF DispatchUnknown, AnswersUnknown, Answered, openVars, dispatchVars,
     statusVars
<1>20. ASSUME NEW d \in Dispatches, Leave(d) PROVE EntriesMove
  BY <1>20 DEF Leave, Goes, flagVars, bindingVars, coreVars, statusVars, dispatchVars,
     openVars, runVars, closeVars, pipelineVars
<1>21. ASSUME NEW d \in Dispatches, AwaitTimesOut(d) PROVE EntriesMove
  BY <1>21 DEF AwaitTimesOut, Goes, flagVars, bindingVars, coreVars, statusVars,
     dispatchVars, openVars, runVars, closeVars, pipelineVars
<1>22. ASSUME NEW d \in Dispatches, OpenUnknown(d) PROVE EntriesMove
  <2>1. MarkSessionFailed(SessionOf[d], {at[d]}) /\ at[d] \in Pipelines /\ SessionOf[d] \in Sessions
    BY <1>22, <1>1a DEF OpenUnknown, Places, Trying
  <2>2. inFlight' = inFlight /\ session'[SessionOf[d]] \notin {"NONE", "ACTIVE"}
    BY <1>22, <2>1, <1>1a, MarkEffect DEF Ended, SessionInv, OpenUnknown
  <2> QED BY <1>22, <2>2 DEF OpenUnknown, AnswersUnknown, Answered, openVars, dispatchVars,
     statusVars
<1>23. ASSUME NEW d \in Dispatches, RefuseOpen(d) PROVE EntriesMove
  BY <1>23 DEF RefuseOpen, flagVars, bindingVars, coreVars, statusVars, dispatchVars,
     openVars, runVars, closeVars, pipelineVars
<1>24. ASSUME NEW d \in Dispatches, ExecuteOpen(d) PROVE EntriesMove
  BY <1>24 DEF ExecuteOpen, flagVars, bindingVars, coreVars, statusVars, dispatchVars,
     openVars, runVars, closeVars, pipelineVars
<1>25. ASSUME NEW d \in Dispatches, SendCleanup(d) PROVE EntriesMove
  BY <1>25 DEF SendCleanup, flagVars, bindingVars, coreVars, statusVars, dispatchVars,
     openVars, runVars, closeVars, pipelineVars
<1>26. ASSUME NEW d \in Dispatches, CleanupDrained(d) PROVE EntriesMove
  <2>1. RecordBindingClosed(SessionOf[d], at[d]) /\ at[d] \in Pipelines /\ SessionOf[d] \in Sessions
    BY <1>26, <1>1a DEF CleanupDrained, Places, GoalInv
  <2>2. inFlight' = inFlight
    BY <1>26, <2>1, <1>1a, ClosedEffect DEF Ended, SessionInv, CleanupDrained
  <2> QED BY <1>26, <2>2 DEF CleanupDrained, openVars, dispatchVars, statusVars
<1>27. ASSUME NEW d \in Dispatches, CleanupCompletes(d) PROVE EntriesMove
  <2>1. RecordCloseComplete(SessionOf[d], TRUE) /\ SessionOf[d] \in Sessions
    BY <1>27, <1>1a DEF CleanupCompletes, Places
  <2>2. inFlight' = inFlight
    BY <1>27, <2>1, <1>1a, CompleteEffect DEF Ended, SessionInv, CleanupCompletes
  <2> QED BY <1>27, <2>2 DEF CleanupCompletes, openVars, dispatchVars, statusVars
<1>28. ASSUME NEW d \in Dispatches, ExecuteCleanup(d) PROVE EntriesMove
  BY <1>28 DEF ExecuteCleanup, Drain, flagVars, bindingVars, coreVars, statusVars,
     dispatchVars, openVars, runVars, closeVars, pipelineVars
<1>29. ASSUME NEW c \in Closers, NEW s \in Sessions, BeginClose(c, s) PROVE EntriesMove
  BY <1>29 DEF BeginClose, CloseGoes, flagVars, bindingVars, coreVars, statusVars,
     dispatchVars, openVars, runVars, closeVars, pipelineVars
<1>30. ASSUME NEW c \in Closers, Settle(c) PROVE EntriesMove
  BY <1>30 DEF Settle, CloseGoes, Settled, flagVars, bindingVars, coreVars, statusVars,
     dispatchVars, openVars, runVars, closeVars, pipelineVars
<1>31. ASSUME NEW c \in Closers, SettleTimesOut(c) PROVE EntriesMove
  BY <1>31 DEF SettleTimesOut, CloseGoes, Settled, flagVars, bindingVars, coreVars,
     statusVars, dispatchVars, openVars, runVars, closeVars, pipelineVars
<1>32. ASSUME NEW c \in Closers, CloseExpires(c) PROVE EntriesMove
  <2>1. MarkSessionFailed(subject[c], Pipelines) /\ subject[c] \in Sessions
    BY <1>32, <1>1a DEF CloseExpires, Places
  <2>2. inFlight' = inFlight
    BY <1>32, <2>1, <1>1a, MarkEffect DEF Ended, SessionInv, CloseExpires
  <2> QED BY <1>32, <2>2 DEF CloseExpires, CloseEnds, CloseGoes, openVars, dispatchVars,
     statusVars
<1>33. ASSUME NEW c \in Closers, CloseBindings(c) PROVE EntriesMove
  BY <1>33 DEF CloseBindings, CloseGoes, flagVars, bindingVars, coreVars, statusVars,
     dispatchVars, openVars, runVars, closeVars, pipelineVars
<1>34. ASSUME NEW c \in Closers, FinishClose(c) PROVE EntriesMove
  <2>1. subject[c] \in Sessions
    BY <1>34, <1>1a DEF FinishClose, Places
  <2>2. inFlight' = inFlight
    BY <1>34, <2>1, <1>1a, CompleteEffect DEF FinishClose, RecordCloseNotStarted, coreVars
  <2> QED BY <1>34, <2>2 DEF FinishClose, dispatchVars, openVars
<1>35. ASSUME NEW c \in Closers, NEW p \in Pipelines, SendClose(c, p) PROVE EntriesMove
  BY <1>35 DEF SendClose, CloseGoes, Remaining, flagVars, bindingVars, coreVars, statusVars,
     dispatchVars, openVars, runVars, closeVars, pipelineVars
<1>36. ASSUME NEW c \in Closers, NEW p \in Pipelines, CloseRefused(c, p) PROVE EntriesMove
  BY <1>36 DEF CloseRefused, CloseGoes, flagVars, bindingVars, coreVars, statusVars,
     dispatchVars, openVars, runVars, closeVars, pipelineVars
<1>37. ASSUME NEW c \in Closers, NEW p \in Pipelines, CloseFails(c, p) PROVE EntriesMove
  <2>1. MarkSessionFailed(subject[c], {p}) /\ subject[c] \in Sessions
    BY <1>37, <1>1a DEF CloseFails, Places
  <2>2. inFlight' = inFlight
    BY <1>37, <2>1, <1>1a, MarkEffect DEF Ended, SessionInv, CloseFails
  <2> QED BY <1>37, <2>2 DEF CloseFails, CloseGoes, openVars, dispatchVars, statusVars
<1>38. ASSUME NEW c \in Closers, NEW p \in Pipelines, CloseDrained(c, p) PROVE EntriesMove
  <2>1. RecordBindingClosed(subject[c], p) /\ subject[c] \in Sessions
    BY <1>38, <1>1a DEF CloseDrained, Places
  <2>2. inFlight' = inFlight
    BY <1>38, <2>1, <1>1a, ClosedEffect DEF Ended, SessionInv, CloseDrained
  <2> QED BY <1>38, <2>2 DEF CloseDrained, CloseGoes, openVars, dispatchVars, statusVars
<1>39. ASSUME NEW c \in Closers, NEW p \in Pipelines, CloseUnknown(c, p) PROVE EntriesMove
  <2>1. MarkSessionFailed(subject[c], {p}) /\ subject[c] \in Sessions
    BY <1>39, <1>1a DEF CloseUnknown, Places
  <2>2. inFlight' = inFlight
    BY <1>39, <2>1, <1>1a, MarkEffect DEF Ended, SessionInv, CloseUnknown
  <2> QED BY <1>39, <2>2 DEF CloseUnknown, CloseGoes, openVars, dispatchVars, statusVars
<1>40. ASSUME NEW c \in Closers, NEW p \in Pipelines, ExecuteClose(c, p) PROVE EntriesMove
  BY <1>40 DEF ExecuteClose, Drain, flagVars, bindingVars, coreVars, statusVars,
     dispatchVars, openVars, runVars, closeVars, pipelineVars
<1>41. ASSUME NEW p \in Pipelines, StatusArrives(p) PROVE EntriesMove
  BY <1>41 DEF StatusArrives, flagVars, bindingVars, coreVars, statusVars, dispatchVars,
     openVars, runVars, closeVars, pipelineVars
<1>42. ASSUME NEW p \in Pipelines, Reconcile(p) PROVE EntriesMove
  BY <1>42 DEF Reconcile, flagVars, bindingVars, coreVars, statusVars, dispatchVars,
     openVars, runVars, closeVars, pipelineVars
<1>43. ASSUME NEW p \in Pipelines, Reboot(p) PROVE EntriesMove
  BY <1>43 DEF Reboot, flagVars, bindingVars, coreVars, statusVars, dispatchVars, openVars,
     runVars, closeVars, pipelineVars
<1>44. CASE UNCHANGED vars
  BY <1>44 DEF vars, flagVars, bindingVars, coreVars, statusVars, dispatchVars, openVars,
     runVars, closeVars, pipelineVars
<1> QED BY <1>1, <1>2, <1>3, <1>4, <1>5, <1>6, <1>7, <1>8, <1>9, <1>10, <1>11, <1>12, <1>13,
     <1>14, <1>15, <1>16, <1>17, <1>18, <1>19, <1>20, <1>21, <1>22, <1>23, <1>24, <1>25,
     <1>26, <1>27, <1>28, <1>29, <1>30, <1>31, <1>32, <1>33, <1>34, <1>35, <1>36, <1>37,
     <1>38, <1>39, <1>40, <1>41, <1>42, <1>43, <1>44 DEF Next, DispatchStep, DispatchWork,
     CleanupStep, CloserStep, CloseWork, PipelineStep

\* A Close begins with a session that has ended, and settles once.
ClosersMove ==
  \A c \in Closers :
    /\ close'[c] \notin {"idle", "done"} =>
         \/ close[c] \notin {"idle", "done"} /\ subject'[c] = subject[c]
         \/ close'[c] = "settling" /\ session'[subject'[c]] \notin {"NONE", "ACTIVE"}
    /\ close'[c] \in {"settled", "draining", "calling"} =>
         \/ close[c] \in {"settled", "draining", "calling"}
         \/ Settled(subject[c]) /\ UNCHANGED <<binding, inFlight>>
    /\ close'[c] = "settled" => close[c] \in {"settling", "settled"}
    /\ close'[c] \in {"draining", "calling"} =>
         \/ close[c] \in {"draining", "calling"} /\ copy'[c] = copy[c]
         \/ /\ close[c] = "settled" /\ KeepsIds /\ CloseBindings(c)
            /\ \A p \in Pipelines :
                 copy'[c][p] = IF binding[subject[c]][p] \in {"ACTIVE", "QUARANTINED", "CLOSING"}
                               THEN bindingId[subject[c]][p] ELSE Nobody

\* What a step does to the threads that close.
LEMMA ClosersStep == IInv /\ [Next]_vars => ClosersMove
<1> SUFFICES ASSUME IInv, [Next]_vars PROVE ClosersMove
  OBVIOUS
<1>1a. CoreType /\ ThreadType /\ Places
  BY TwoTypes DEF IInv, TypeInv
<1>t. /\ close \in [Closers -> CloseStages]
      /\ subject \in [Closers -> Sessions \cup {Nobody}]
      /\ copy \in [Closers -> [Pipelines -> Dispatches \cup {Nobody}]]
      /\ session \in [Sessions -> SessionStates]
  BY <1>1a DEF CoreType, ThreadType
<1>k. ASSUME UNCHANGED <<close, subject, copy>> PROVE ClosersMove
  BY <1>k DEF ClosersMove
<1> USE <1>t DEF ClosersMove
<1>1. ASSUME NEW s \in Sessions, OpenSession(s) PROVE ClosersMove
  BY <1>1, <1>k DEF OpenSession, openVars, closeVars, runVars
<1>2. ASSUME NEW d \in Dispatches, Begin(d) PROVE ClosersMove
  BY <1>2, <1>k DEF Begin, openVars, closeVars, runVars
<1>3. ASSUME NEW d \in Dispatches, ReadBoot(d) PROVE ClosersMove
  BY <1>3, <1>k DEF ReadBoot, openVars, closeVars, runVars
<1>4. ASSUME NEW d \in Dispatches, Exhausted(d) PROVE ClosersMove
  BY <1>4, <1>k DEF Exhausted, openVars, closeVars, runVars
<1>5. ASSUME NEW d \in Dispatches, PrepareFails(d) PROVE ClosersMove
  BY <1>5, <1>k DEF PrepareFails, openVars, closeVars, runVars
<1>6. ASSUME NEW d \in Dispatches, PrepareSkips(d) PROVE ClosersMove
  BY <1>6, <1>k DEF PrepareSkips, openVars, closeVars, runVars
<1>7. ASSUME NEW d \in Dispatches, PrepareUses(d) PROVE ClosersMove
  BY <1>7, <1>k DEF PrepareUses, openVars, closeVars, runVars
<1>8. ASSUME NEW d \in Dispatches, PrepareWaits(d) PROVE ClosersMove
  BY <1>8, <1>k DEF PrepareWaits, openVars, closeVars, runVars
<1>9. ASSUME NEW d \in Dispatches, PrepareOpens(d) PROVE ClosersMove
  BY <1>9, <1>k DEF PrepareOpens, openVars, closeVars, runVars
<1>10. ASSUME NEW d \in Dispatches, AwaitOpen(d) PROVE ClosersMove
  BY <1>10, <1>k DEF AwaitOpen, openVars, closeVars, runVars
<1>11. ASSUME NEW d \in Dispatches, Refuse(d) PROVE ClosersMove
  BY <1>11, <1>k DEF Refuse, openVars, closeVars, runVars
<1>12. ASSUME NEW d \in Dispatches, SendOpen(d) PROVE ClosersMove
  BY <1>12, <1>k DEF SendOpen, openVars, closeVars, runVars
<1>13. ASSUME NEW d \in Dispatches, OpenNotStarted(d) PROVE ClosersMove
  BY <1>13, <1>k DEF OpenNotStarted, openVars, closeVars, runVars
<1>14. ASSUME NEW d \in Dispatches, OpenFails(d) PROVE ClosersMove
  BY <1>14, <1>k DEF OpenFails, openVars, closeVars, runVars
<1>15. ASSUME NEW d \in Dispatches, OpenSucceeds(d) PROVE ClosersMove
  BY <1>15, <1>k DEF OpenSucceeds, openVars, closeVars, runVars
<1>16. ASSUME NEW d \in Dispatches, ReadBinding(d) PROVE ClosersMove
  BY <1>16, <1>k DEF ReadBinding, openVars, closeVars, runVars
<1>17. ASSUME NEW d \in Dispatches, DispatchNotStarted(d) PROVE ClosersMove
  BY <1>17, <1>k DEF DispatchNotStarted, openVars, closeVars, runVars
<1>18. ASSUME NEW d \in Dispatches, DispatchCompletes(d) PROVE ClosersMove
  BY <1>18, <1>k DEF DispatchCompletes, openVars, closeVars, runVars
<1>19. ASSUME NEW d \in Dispatches, DispatchUnknown(d) PROVE ClosersMove
  BY <1>19, <1>k DEF DispatchUnknown, openVars, closeVars, runVars
<1>20. ASSUME NEW d \in Dispatches, Leave(d) PROVE ClosersMove
  BY <1>20, <1>k DEF Leave, openVars, closeVars, runVars
<1>21. ASSUME NEW d \in Dispatches, AwaitTimesOut(d) PROVE ClosersMove
  BY <1>21, <1>k DEF AwaitTimesOut, openVars, closeVars, runVars
<1>22. ASSUME NEW d \in Dispatches, OpenUnknown(d) PROVE ClosersMove
  BY <1>22, <1>k DEF OpenUnknown, openVars, closeVars, runVars
<1>23. ASSUME NEW d \in Dispatches, RefuseOpen(d) PROVE ClosersMove
  BY <1>23, <1>k DEF RefuseOpen, openVars, closeVars, runVars
<1>24. ASSUME NEW d \in Dispatches, ExecuteOpen(d) PROVE ClosersMove
  BY <1>24, <1>k DEF ExecuteOpen, openVars, closeVars, runVars
<1>25. ASSUME NEW d \in Dispatches, SendCleanup(d) PROVE ClosersMove
  BY <1>25, <1>k DEF SendCleanup, openVars, closeVars, runVars
<1>26. ASSUME NEW d \in Dispatches, CleanupDrained(d) PROVE ClosersMove
  BY <1>26, <1>k DEF CleanupDrained, openVars, closeVars, runVars
<1>27. ASSUME NEW d \in Dispatches, CleanupCompletes(d) PROVE ClosersMove
  BY <1>27, <1>k DEF CleanupCompletes, openVars, closeVars, runVars
<1>28. ASSUME NEW d \in Dispatches, ExecuteCleanup(d) PROVE ClosersMove
  BY <1>28, <1>k DEF ExecuteCleanup, openVars, closeVars, runVars
<1>29. ASSUME NEW c \in Closers, NEW s \in Sessions, BeginClose(c, s) PROVE ClosersMove
  <2>1. /\ close' = [close EXCEPT ![c] = "settling"] /\ subject' = [subject EXCEPT ![c] = s]
        /\ copy' = copy
    BY <1>29 DEF BeginClose, CloseGoes
  <2>2. session'[s] \notin {"NONE", "ACTIVE"}
    BY <1>29 DEF BeginClose
  <2> QED BY <2>1, <2>2
<1>30. ASSUME NEW c \in Closers, Settle(c) PROVE ClosersMove
  BY <1>30 DEF Settle, CloseGoes, flagVars, bindingVars, coreVars, statusVars, dispatchVars,
     openVars, runVars, closeVars, pipelineVars
<1>31. ASSUME NEW c \in Closers, SettleTimesOut(c) PROVE ClosersMove
  BY <1>31 DEF SettleTimesOut, CloseGoes, flagVars, bindingVars, coreVars, statusVars,
     dispatchVars, openVars, runVars, closeVars, pipelineVars
<1>32. ASSUME NEW c \in Closers, CloseExpires(c) PROVE ClosersMove
  BY <1>32 DEF CloseExpires, CloseEnds, CloseGoes, flagVars, bindingVars, coreVars, statusVars,
     dispatchVars, openVars, runVars, closeVars, pipelineVars
<1>33. ASSUME NEW c \in Closers, CloseBindings(c) PROVE ClosersMove
  <2>1. /\ close[c] = "settled" /\ close' = [close EXCEPT ![c] = "draining"] /\ subject' = subject
        /\ KeepsIds
        /\ copy' = [copy EXCEPT ![c] = [p \in Pipelines |->
             IF binding[subject[c]][p] \in {"ACTIVE", "QUARANTINED", "CLOSING"}
             THEN bindingId[subject[c]][p] ELSE Nobody]]
    BY <1>33 DEF CloseBindings, CloseGoes, KeepsIds
  <2> QED BY <1>33, <2>1
<1>34. ASSUME NEW c \in Closers, FinishClose(c) PROVE ClosersMove
  BY <1>34 DEF FinishClose, CloseEnds, CloseGoes, flagVars, bindingVars, coreVars, statusVars,
     dispatchVars, openVars, runVars, closeVars, pipelineVars
<1>35. ASSUME NEW c \in Closers, NEW p \in Pipelines, SendClose(c, p) PROVE ClosersMove
  BY <1>35 DEF SendClose, CloseGoes, flagVars, bindingVars, coreVars, statusVars, dispatchVars,
     openVars, runVars, closeVars, pipelineVars
<1>36. ASSUME NEW c \in Closers, NEW p \in Pipelines, CloseRefused(c, p) PROVE ClosersMove
  BY <1>36 DEF CloseRefused, CloseGoes, flagVars, bindingVars, coreVars, statusVars,
     dispatchVars, openVars, runVars, closeVars, pipelineVars
<1>37. ASSUME NEW c \in Closers, NEW p \in Pipelines, CloseFails(c, p) PROVE ClosersMove
  BY <1>37 DEF CloseFails, CloseGoes, flagVars, bindingVars, coreVars, statusVars, dispatchVars,
     openVars, runVars, closeVars, pipelineVars
<1>38. ASSUME NEW c \in Closers, NEW p \in Pipelines, CloseDrained(c, p) PROVE ClosersMove
  BY <1>38 DEF CloseDrained, CloseGoes, flagVars, bindingVars, coreVars, statusVars,
     dispatchVars, openVars, runVars, closeVars, pipelineVars
<1>39. ASSUME NEW c \in Closers, NEW p \in Pipelines, CloseUnknown(c, p) PROVE ClosersMove
  BY <1>39 DEF CloseUnknown, CloseGoes, flagVars, bindingVars, coreVars, statusVars,
     dispatchVars, openVars, runVars, closeVars, pipelineVars
<1>40. ASSUME NEW c \in Closers, NEW p \in Pipelines, ExecuteClose(c, p) PROVE ClosersMove
  BY <1>40 DEF ExecuteClose, flagVars, bindingVars, coreVars, statusVars, dispatchVars,
     openVars, runVars, closeVars, pipelineVars
<1>41. ASSUME NEW p \in Pipelines, StatusArrives(p) PROVE ClosersMove
  BY <1>41, <1>k DEF StatusArrives, openVars, closeVars, runVars
<1>42. ASSUME NEW p \in Pipelines, Reconcile(p) PROVE ClosersMove
  BY <1>42, <1>k DEF Reconcile, openVars, closeVars, runVars
<1>43. ASSUME NEW p \in Pipelines, Reboot(p) PROVE ClosersMove
  BY <1>43, <1>k DEF Reboot, openVars, closeVars, runVars
<1>44. CASE UNCHANGED vars
  BY <1>44 DEF vars, closeVars, runVars
<1> QED BY <1>1, <1>2, <1>3, <1>4, <1>5, <1>6, <1>7, <1>8, <1>9, <1>10, <1>11, <1>12, <1>13,
     <1>14, <1>15, <1>16, <1>17, <1>18, <1>19, <1>20, <1>21, <1>22, <1>23, <1>24, <1>25,
     <1>26, <1>27, <1>28, <1>29, <1>30, <1>31, <1>32, <1>33, <1>34, <1>35, <1>36, <1>37,
     <1>38, <1>39, <1>40, <1>41, <1>42, <1>43, <1>44 DEF Next, DispatchStep, DispatchWork,
     CleanupStep, CloserStep, CloseWork, PipelineStep

\* A dispatch goes on with a binding that is there.
BoundMove ==
  \A x \in Dispatches : pc'[x] = "bound" =>
    /\ at'[x] = at[x]
    /\ \/ pc[x] = "bound"
       \/ session'[SessionOf[x]] \notin {"NONE", "ACTIVE"}
       \/ binding'[SessionOf[x]][at[x]] \notin {"NONE", "OPENING"}

\* What a step does to the dispatches that use a binding.
LEMMA BoundStep == IInv /\ [Next]_vars => BoundMove
<1> SUFFICES ASSUME IInv, [Next]_vars PROVE BoundMove
  OBVIOUS
<1>1a. CoreType /\ ThreadType /\ Places /\ OpenersInv
  BY TwoTypes DEF IInv, TypeInv, LeaseInv
<1>t. pc \in [Dispatches -> DispatchStages] /\ at \in [Dispatches -> Pipelines \cup {Nobody}]
  BY <1>1a DEF ThreadType
<1>k. ASSUME UNCHANGED dispatchVars PROVE BoundMove
  BY <1>k DEF BoundMove, dispatchVars
<1> USE <1>t DEF BoundMove
<1>1. ASSUME NEW s \in Sessions, OpenSession(s) PROVE BoundMove
  BY <1>1, <1>k DEF OpenSession
<1>2. ASSUME NEW d \in Dispatches, Begin(d) PROVE BoundMove
  BY <1>2, <1>k DEF Begin
<1>3. ASSUME NEW d \in Dispatches, ReadBoot(d) PROVE BoundMove
  BY <1>3, <1>k DEF ReadBoot
<1>4. ASSUME NEW d \in Dispatches, Exhausted(d) PROVE BoundMove
  BY <1>4, <1>k DEF Exhausted, Answers, Answered
<1>5. ASSUME NEW d \in Dispatches, PrepareFails(d) PROVE BoundMove
  BY <1>5, <1>k DEF PrepareFails, Answers, Answered
<1>6. ASSUME NEW d \in Dispatches, PrepareSkips(d) PROVE BoundMove
  BY <1>6, <1>k DEF PrepareSkips, Goes, Preparing
<1>7. ASSUME NEW d \in Dispatches, PrepareUses(d) PROVE BoundMove
  <2>1. /\ binding[SessionOf[d]][at[d]] = "ACTIVE" /\ binding' = binding
        /\ pc' = [pc EXCEPT ![d] = "bound"] /\ at' = at
    BY <1>7 DEF PrepareUses, Goes, coreVars, bindingVars
  <2> QED BY <2>1
<1>8. ASSUME NEW d \in Dispatches, PrepareWaits(d) PROVE BoundMove
  BY <1>8, <1>k DEF PrepareWaits, Goes, Preparing
<1>9. ASSUME NEW d \in Dispatches, PrepareOpens(d) PROVE BoundMove
  BY <1>9, <1>k DEF PrepareOpens, Goes, Preparing
<1>10. ASSUME NEW d \in Dispatches, AwaitOpen(d) PROVE BoundMove
  BY <1>10, <1>k DEF AwaitOpen
<1>11. ASSUME NEW d \in Dispatches, Refuse(d) PROVE BoundMove
  BY <1>11, <1>k DEF Refuse
<1>12. ASSUME NEW d \in Dispatches, SendOpen(d) PROVE BoundMove
  BY <1>12, <1>k DEF SendOpen, Goes
<1>13. ASSUME NEW d \in Dispatches, OpenNotStarted(d) PROVE BoundMove
  BY <1>13, <1>k DEF OpenNotStarted, Goes
<1>14. ASSUME NEW d \in Dispatches, OpenFails(d) PROVE BoundMove
  BY <1>14, <1>k DEF OpenFails, Answers, Answered
<1>15. ASSUME NEW d \in Dispatches, OpenSucceeds(d) PROVE BoundMove
  <2> DEFINE s == SessionOf[d]
             p == at[d]
  <2>1. s \in Sessions /\ p \in Pipelines /\ MineOrGone(d, p)
    BY <1>15, <1>1a DEF OpenSucceeds, Places, Trying, OpenersInv
  <2>2. CASE binding[s][p] = "OPENING" /\ bindingId[s][p] = d
    <3>1. /\ binding' = [binding EXCEPT ![s][p] = "ACTIVE"] /\ at' = at
          /\ \A x \in Dispatches \ {d} : pc'[x] = pc[x]
      BY <1>15, <2>2 DEF OpenSucceeds, Goes, Answers, Answered
    <3>2. binding'[s][p] = "ACTIVE"
      BY <3>1, <2>1, <1>1a DEF CoreType
    <3> QED BY <3>1, <3>2
  <2>3. CASE ~(binding[s][p] = "OPENING" /\ bindingId[s][p] = d)
    <3>1. /\ binding' = binding /\ session' = session /\ at' = at
          /\ \A x \in Dispatches \ {d} : pc'[x] = pc[x]
      BY <1>15, <2>3 DEF OpenSucceeds, Goes, Answers, Answered
    <3>2. Ended(s) \/ binding[s][p] \notin {"NONE", "OPENING"}
      BY <2>1, <2>3, <1>1a DEF MineOrGone, CoreType
    <3> QED BY <3>1, <3>2 DEF Ended
  <2> QED BY <2>2, <2>3
<1>16. ASSUME NEW d \in Dispatches, ReadBinding(d) PROVE BoundMove
  BY <1>16, <1>k DEF ReadBinding, Goes, AnswersUnknown, Answered
<1>17. ASSUME NEW d \in Dispatches, DispatchNotStarted(d) PROVE BoundMove
  BY <1>17, <1>k DEF DispatchNotStarted, Goes
<1>18. ASSUME NEW d \in Dispatches, DispatchCompletes(d) PROVE BoundMove
  BY <1>18, <1>k DEF DispatchCompletes, Answers, Answered
<1>19. ASSUME NEW d \in Dispatches, DispatchUnknown(d) PROVE BoundMove
  BY <1>19, <1>k DEF DispatchUnknown, AnswersUnknown, Answered
<1>20. ASSUME NEW d \in Dispatches, Leave(d) PROVE BoundMove
  BY <1>20, <1>k DEF Leave, Goes
<1>21. ASSUME NEW d \in Dispatches, AwaitTimesOut(d) PROVE BoundMove
  BY <1>21, <1>k DEF AwaitTimesOut, Goes
<1>22. ASSUME NEW d \in Dispatches, OpenUnknown(d) PROVE BoundMove
  BY <1>22, <1>k DEF OpenUnknown, AnswersUnknown, Answered
<1>23. ASSUME NEW d \in Dispatches, RefuseOpen(d) PROVE BoundMove
  BY <1>23, <1>k DEF RefuseOpen
<1>24. ASSUME NEW d \in Dispatches, ExecuteOpen(d) PROVE BoundMove
  BY <1>24, <1>k DEF ExecuteOpen
<1>25. ASSUME NEW d \in Dispatches, SendCleanup(d) PROVE BoundMove
  BY <1>25, <1>k DEF SendCleanup
<1>26. ASSUME NEW d \in Dispatches, CleanupDrained(d) PROVE BoundMove
  BY <1>26, <1>k DEF CleanupDrained
<1>27. ASSUME NEW d \in Dispatches, CleanupCompletes(d) PROVE BoundMove
  BY <1>27, <1>k DEF CleanupCompletes
<1>28. ASSUME NEW d \in Dispatches, ExecuteCleanup(d) PROVE BoundMove
  BY <1>28, <1>k DEF ExecuteCleanup
<1>29. ASSUME NEW c \in Closers, NEW s \in Sessions, BeginClose(c, s) PROVE BoundMove
  BY <1>29, <1>k DEF BeginClose
<1>30. ASSUME NEW c \in Closers, Settle(c) PROVE BoundMove
  BY <1>30, <1>k DEF Settle
<1>31. ASSUME NEW c \in Closers, SettleTimesOut(c) PROVE BoundMove
  BY <1>31, <1>k DEF SettleTimesOut
<1>32. ASSUME NEW c \in Closers, CloseExpires(c) PROVE BoundMove
  BY <1>32, <1>k DEF CloseExpires
<1>33. ASSUME NEW c \in Closers, CloseBindings(c) PROVE BoundMove
  BY <1>33, <1>k DEF CloseBindings
<1>34. ASSUME NEW c \in Closers, FinishClose(c) PROVE BoundMove
  BY <1>34, <1>k DEF FinishClose
<1>35. ASSUME NEW c \in Closers, NEW p \in Pipelines, SendClose(c, p) PROVE BoundMove
  BY <1>35, <1>k DEF SendClose
<1>36. ASSUME NEW c \in Closers, NEW p \in Pipelines, CloseRefused(c, p) PROVE BoundMove
  BY <1>36, <1>k DEF CloseRefused
<1>37. ASSUME NEW c \in Closers, NEW p \in Pipelines, CloseFails(c, p) PROVE BoundMove
  BY <1>37, <1>k DEF CloseFails
<1>38. ASSUME NEW c \in Closers, NEW p \in Pipelines, CloseDrained(c, p) PROVE BoundMove
  BY <1>38, <1>k DEF CloseDrained
<1>39. ASSUME NEW c \in Closers, NEW p \in Pipelines, CloseUnknown(c, p) PROVE BoundMove
  BY <1>39, <1>k DEF CloseUnknown
<1>40. ASSUME NEW c \in Closers, NEW p \in Pipelines, ExecuteClose(c, p) PROVE BoundMove
  BY <1>40, <1>k DEF ExecuteClose
<1>41. ASSUME NEW p \in Pipelines, StatusArrives(p) PROVE BoundMove
  BY <1>41, <1>k DEF StatusArrives
<1>42. ASSUME NEW p \in Pipelines, Reconcile(p) PROVE BoundMove
  BY <1>42, <1>k DEF Reconcile
<1>43. ASSUME NEW p \in Pipelines, Reboot(p) PROVE BoundMove
  BY <1>43, <1>k DEF Reboot
<1>44. CASE UNCHANGED vars
  BY <1>44 DEF vars, flagVars, bindingVars, coreVars, statusVars, dispatchVars, openVars,
     runVars, closeVars, pipelineVars
<1> QED BY <1>1, <1>2, <1>3, <1>4, <1>5, <1>6, <1>7, <1>8, <1>9, <1>10, <1>11, <1>12, <1>13,
     <1>14, <1>15, <1>16, <1>17, <1>18, <1>19, <1>20, <1>21, <1>22, <1>23, <1>24, <1>25,
     <1>26, <1>27, <1>28, <1>29, <1>30, <1>31, <1>32, <1>33, <1>34, <1>35, <1>36, <1>37,
     <1>38, <1>39, <1>40, <1>41, <1>42, <1>43, <1>44 DEF Next, DispatchStep, DispatchWork,
     CleanupStep, CloserStep, CloseWork, PipelineStep

\* A goal that succeeds leaves its binding neither served nor on its way.
GoalsMove ==
  /\ \A c \in Closers, p \in Pipelines :
       /\ goal'[c][p] # "none" => copy'[c][p] # Nobody
       /\ close'[c] \in {"draining", "calling"} /\ goal'[c][p] = "succeeded" =>
            /\ close[c] \in {"draining", "calling"} /\ copy'[c][p] = copy[c][p]
            /\ goal[c][p] = "succeeded" \/ ~Tenant(copy[c][p], p)'
  /\ \A d \in Dispatches : cleanup'[d] = "succeeded" =>
       /\ at'[d] = at[d] /\ d \in late
       /\ cleanup[d] = "succeeded" \/ ~Tenant(d, at[d])'

\* A drain that succeeds leaves no goal of the binding.
LEMMA DrainEmpties ==
  ASSUME ThreadType, NEW p \in Pipelines, NEW b \in Dispatches, NEW i,
         Drain(p, b, i, "succeeded"), UNCHANGED <<at, open, seen>>,
         served[p] = b \/ drained[p] = b => (at[b] = p => open[b] \in {"succeeded", "failed"})
  PROVE  ~Tenant(b, p)'
<1>1. served'[p] # b
  BY DEF Drain, pipelineVars, ThreadType
<1>2. served[p] = b \/ drained[p] = b
  BY DEF Drain
<1> QED BY <1>1, <1>2 DEF Tenant

\* What a step does to the goals of a pipeline.
LEMMA GoalsStep == IInv /\ [Next]_vars => GoalsMove
<1> SUFFICES ASSUME IInv, [Next]_vars PROVE GoalsMove
  OBVIOUS
<1>1a. ThreadType /\ Places /\ GoalInv /\ DrainedInv /\ RemainderInv
  BY TwoTypes DEF IInv, TypeInv, LeaseInv
<1>t. /\ close \in [Closers -> CloseStages]
      /\ copy \in [Closers -> [Pipelines -> Dispatches \cup {Nobody}]]
      /\ goal \in [Closers -> [Pipelines -> GoalStates]]
      /\ cleanup \in [Dispatches -> GoalStates \cup {"recorded", "done"}]
      /\ pc \in [Dispatches -> DispatchStages]
      /\ at \in [Dispatches -> Pipelines \cup {Nobody}]
  BY <1>1a DEF ThreadType
<1>c. \A c \in Closers, p \in Pipelines : goal[c][p] # "none" => copy[c][p] # Nobody
  BY <1>1a DEF DrainedInv
<1>l. \A d \in Dispatches : cleanup[d] # "none" => d \in late /\ pc[d] \in {"leaving", "done"}
  BY <1>1a DEF GoalInv
<1> DEFINE Closes == \A c \in Closers, p \in Pipelines :
             /\ goal'[c][p] # "none" => copy'[c][p] # Nobody
             /\ close'[c] \in {"draining", "calling"} /\ goal'[c][p] = "succeeded" =>
                  /\ close[c] \in {"draining", "calling"} /\ copy'[c][p] = copy[c][p]
                  /\ goal[c][p] = "succeeded" \/ ~Tenant(copy[c][p], p)'
           Cleanups == \A d \in Dispatches : cleanup'[d] = "succeeded" =>
             /\ at'[d] = at[d] /\ d \in late
             /\ cleanup[d] = "succeeded" \/ ~Tenant(d, at[d])'
<1>k. ASSUME UNCHANGED <<close, copy, goal>> PROVE Closes
  BY <1>c, <1>k
<1>m. ASSUME UNCHANGED <<cleanup, at>> PROVE Cleanups
  BY <1>m, <1>l
<1>1. ASSUME NEW s \in Sessions, OpenSession(s) PROVE GoalsMove
  BY <1>1, <1>k, <1>m DEF OpenSession, GoalsMove, openVars, closeVars, runVars, dispatchVars
<1>2. ASSUME NEW d \in Dispatches, Begin(d) PROVE GoalsMove
  <2>1. Closes
    BY <1>2, <1>k DEF Begin, closeVars, runVars
  <2>2. Cleanups
    BY <1>2, <1>m, <1>l, <1>t DEF Begin, openVars, dispatchVars
  <2> QED BY <2>1, <2>2 DEF GoalsMove
<1>3. ASSUME NEW d \in Dispatches, ReadBoot(d) PROVE GoalsMove
  <2>1. Closes
    BY <1>3, <1>k DEF ReadBoot, closeVars, runVars
  <2>2. Cleanups
    BY <1>3, <1>m, <1>l, <1>t DEF ReadBoot, openVars, dispatchVars
  <2> QED BY <2>1, <2>2 DEF GoalsMove
<1>4. ASSUME NEW d \in Dispatches, Exhausted(d) PROVE GoalsMove
  <2>1. Closes
    BY <1>4, <1>k DEF Exhausted, closeVars, runVars
  <2>2. Cleanups
    BY <1>4, <1>m, <1>l, <1>t DEF Exhausted, Answers, Answered, openVars, dispatchVars
  <2> QED BY <2>1, <2>2 DEF GoalsMove
<1>5. ASSUME NEW d \in Dispatches, PrepareFails(d) PROVE GoalsMove
  <2>1. Closes
    BY <1>5, <1>k DEF PrepareFails, closeVars, runVars
  <2>2. Cleanups
    BY <1>5, <1>m, <1>l, <1>t DEF PrepareFails, Answers, Answered, openVars, dispatchVars
  <2> QED BY <2>1, <2>2 DEF GoalsMove
<1>6. ASSUME NEW d \in Dispatches, PrepareSkips(d) PROVE GoalsMove
  <2>1. Closes
    BY <1>6, <1>k DEF PrepareSkips, closeVars, runVars
  <2>2. Cleanups
    BY <1>6, <1>m, <1>l, <1>t DEF PrepareSkips, Goes, Preparing, openVars, dispatchVars
  <2> QED BY <2>1, <2>2 DEF GoalsMove
<1>7. ASSUME NEW d \in Dispatches, PrepareUses(d) PROVE GoalsMove
  <2>1. Closes
    BY <1>7, <1>k DEF PrepareUses, closeVars, runVars
  <2>2. Cleanups
    BY <1>7, <1>m, <1>l, <1>t DEF PrepareUses, Goes, Preparing, openVars, dispatchVars
  <2> QED BY <2>1, <2>2 DEF GoalsMove
<1>8. ASSUME NEW d \in Dispatches, PrepareWaits(d) PROVE GoalsMove
  <2>1. Closes
    BY <1>8, <1>k DEF PrepareWaits, closeVars, runVars
  <2>2. Cleanups
    BY <1>8, <1>m, <1>l, <1>t DEF PrepareWaits, Goes, Preparing, openVars, dispatchVars
  <2> QED BY <2>1, <2>2 DEF GoalsMove
<1>9. ASSUME NEW d \in Dispatches, PrepareOpens(d) PROVE GoalsMove
  <2>1. Closes
    BY <1>9, <1>k DEF PrepareOpens, closeVars, runVars
  <2>2. Cleanups
    BY <1>9, <1>m, <1>l, <1>t DEF PrepareOpens, Goes, Preparing, openVars, dispatchVars
  <2> QED BY <2>1, <2>2 DEF GoalsMove
<1>10. ASSUME NEW d \in Dispatches, AwaitOpen(d) PROVE GoalsMove
  <2>1. Closes
    BY <1>10, <1>k DEF AwaitOpen, closeVars, runVars
  <2>2. Cleanups
    BY <1>10, <1>m, <1>l, <1>t DEF AwaitOpen, openVars, dispatchVars
  <2> QED BY <2>1, <2>2 DEF GoalsMove
<1>11. ASSUME NEW d \in Dispatches, Refuse(d) PROVE GoalsMove
  <2>1. Closes
    BY <1>11, <1>k DEF Refuse, closeVars, runVars
  <2>2. Cleanups
    BY <1>11, <1>m, <1>l, <1>t DEF Refuse, openVars, dispatchVars
  <2> QED BY <2>1, <2>2 DEF GoalsMove
<1>12. ASSUME NEW d \in Dispatches, SendOpen(d) PROVE GoalsMove
  <2>1. Closes
    BY <1>12, <1>k DEF SendOpen, closeVars, runVars
  <2>2. Cleanups
    BY <1>12, <1>m, <1>l, <1>t DEF SendOpen, Goes, openVars, dispatchVars
  <2> QED BY <2>1, <2>2 DEF GoalsMove
<1>13. ASSUME NEW d \in Dispatches, OpenNotStarted(d) PROVE GoalsMove
  <2>1. Closes
    BY <1>13, <1>k DEF OpenNotStarted, closeVars, runVars
  <2>2. Cleanups
    BY <1>13, <1>m, <1>l, <1>t DEF OpenNotStarted, Goes, openVars, dispatchVars
  <2> QED BY <2>1, <2>2 DEF GoalsMove
<1>14. ASSUME NEW d \in Dispatches, OpenFails(d) PROVE GoalsMove
  <2>1. Closes
    BY <1>14, <1>k DEF OpenFails, closeVars, runVars
  <2>2. Cleanups
    BY <1>14, <1>m, <1>l, <1>t DEF OpenFails, Answers, Answered, openVars, dispatchVars
  <2> QED BY <2>1, <2>2 DEF GoalsMove
<1>15. ASSUME NEW d \in Dispatches, OpenSucceeds(d) PROVE GoalsMove
  <2>1. Closes
    BY <1>15, <1>k DEF OpenSucceeds, closeVars, runVars
  <2>2. Cleanups
    BY <1>15, <1>m, <1>l, <1>t DEF OpenSucceeds, Goes, Answers, Answered, openVars, dispatchVars
  <2> QED BY <2>1, <2>2 DEF GoalsMove
<1>16. ASSUME NEW d \in Dispatches, ReadBinding(d) PROVE GoalsMove
  <2>1. Closes
    BY <1>16, <1>k DEF ReadBinding, closeVars, runVars
  <2>2. Cleanups
    BY <1>16, <1>m, <1>l, <1>t DEF ReadBinding, Goes, AnswersUnknown, Answered, openVars,
       dispatchVars
  <2> QED BY <2>1, <2>2 DEF GoalsMove
<1>17. ASSUME NEW d \in Dispatches, DispatchNotStarted(d) PROVE GoalsMove
  <2>1. Closes
    BY <1>17, <1>k DEF DispatchNotStarted, closeVars, runVars
  <2>2. Cleanups
    BY <1>17, <1>m, <1>l, <1>t DEF DispatchNotStarted, Goes, openVars, dispatchVars
  <2> QED BY <2>1, <2>2 DEF GoalsMove
<1>18. ASSUME NEW d \in Dispatches, DispatchCompletes(d) PROVE GoalsMove
  <2>1. Closes
    BY <1>18, <1>k DEF DispatchCompletes, closeVars, runVars
  <2>2. Cleanups
    BY <1>18, <1>m, <1>l, <1>t DEF DispatchCompletes, Answers, Answered, openVars, dispatchVars
  <2> QED BY <2>1, <2>2 DEF GoalsMove
<1>19. ASSUME NEW d \in Dispatches, DispatchUnknown(d) PROVE GoalsMove
  <2>1. Closes
    BY <1>19, <1>k DEF DispatchUnknown, closeVars, runVars
  <2>2. Cleanups
    BY <1>19, <1>m, <1>l, <1>t DEF DispatchUnknown, AnswersUnknown, Answered, openVars,
       dispatchVars
  <2> QED BY <2>1, <2>2 DEF GoalsMove
<1>20. ASSUME NEW d \in Dispatches, Leave(d) PROVE GoalsMove
  <2>1. Closes
    BY <1>20, <1>k DEF Leave, closeVars, runVars
  <2>2. Cleanups
    BY <1>20, <1>m, <1>l, <1>t DEF Leave, Goes, openVars, dispatchVars
  <2> QED BY <2>1, <2>2 DEF GoalsMove
<1>21. ASSUME NEW d \in Dispatches, AwaitTimesOut(d) PROVE GoalsMove
  <2>1. Closes
    BY <1>21, <1>k DEF AwaitTimesOut, closeVars, runVars
  <2>2. Cleanups
    BY <1>21, <1>m, <1>l, <1>t DEF AwaitTimesOut, Goes, openVars, dispatchVars
  <2> QED BY <2>1, <2>2 DEF GoalsMove
<1>22. ASSUME NEW d \in Dispatches, OpenUnknown(d) PROVE GoalsMove
  <2>1. Closes
    BY <1>22, <1>k DEF OpenUnknown, closeVars, runVars
  <2>2. Cleanups
    BY <1>22, <1>m, <1>l, <1>t DEF OpenUnknown, AnswersUnknown, Answered, openVars, dispatchVars
  <2> QED BY <2>1, <2>2 DEF GoalsMove
<1>23. ASSUME NEW d \in Dispatches, RefuseOpen(d) PROVE GoalsMove
  <2>1. Closes
    BY <1>23, <1>k DEF RefuseOpen, closeVars, runVars
  <2>2. Cleanups
    BY <1>23, <1>m, <1>l, <1>t DEF RefuseOpen, openVars, dispatchVars
  <2> QED BY <2>1, <2>2 DEF GoalsMove
<1>24. ASSUME NEW d \in Dispatches, ExecuteOpen(d) PROVE GoalsMove
  <2>1. Closes
    BY <1>24, <1>k DEF ExecuteOpen, closeVars, runVars
  <2>2. Cleanups
    BY <1>24, <1>m, <1>l, <1>t DEF ExecuteOpen, openVars, dispatchVars
  <2> QED BY <2>1, <2>2 DEF GoalsMove
<1>25. ASSUME NEW d \in Dispatches, SendCleanup(d) PROVE GoalsMove
  <2>1. Closes
    BY <1>25, <1>k DEF SendCleanup, closeVars, runVars
  <2>2. Cleanups
    BY <1>25, <1>m, <1>l, <1>t DEF SendCleanup, openVars, dispatchVars
  <2> QED BY <2>1, <2>2 DEF GoalsMove
<1>26. ASSUME NEW d \in Dispatches, CleanupDrained(d) PROVE GoalsMove
  <2>1. Closes
    BY <1>26, <1>k DEF CleanupDrained, closeVars, runVars
  <2>2. Cleanups
    BY <1>26, <1>m, <1>l, <1>t DEF CleanupDrained, openVars, dispatchVars
  <2> QED BY <2>1, <2>2 DEF GoalsMove
<1>27. ASSUME NEW d \in Dispatches, CleanupCompletes(d) PROVE GoalsMove
  <2>1. Closes
    BY <1>27, <1>k DEF CleanupCompletes, closeVars, runVars
  <2>2. Cleanups
    BY <1>27, <1>m, <1>l, <1>t DEF CleanupCompletes, openVars, dispatchVars
  <2> QED BY <2>1, <2>2 DEF GoalsMove
<1>28. ASSUME NEW d \in Dispatches, ExecuteCleanup(d) PROVE GoalsMove
  <2>1. /\ cleanup[d] = "sent" /\ UNCHANGED <<close, copy, goal, at, open, seen>>
    BY <1>28 DEF ExecuteCleanup, closeVars, runVars, dispatchVars
  <2>2. PICK result \in GoalStates :
          /\ Drain(at[d], d, seen[d], result)
          /\ cleanup' = [cleanup EXCEPT ![d] = result]
    BY <1>28 DEF ExecuteCleanup
  <2>3. at[d] \in Pipelines /\ open[d] \in {"succeeded", "failed"} /\ d \in late
    BY <2>1, <1>1a DEF GoalInv, Places
  <2>4. ASSUME result = "succeeded" PROVE ~Tenant(d, at[d])'
    BY <2>1, <2>2, <2>3, <2>4, <1>1a, DrainEmpties
  <2>5. Cleanups
    BY <2>1, <2>2, <2>3, <2>4, <1>l, <1>t
  <2> QED BY <2>1, <2>5, <1>k DEF GoalsMove
<1>29. ASSUME NEW c \in Closers, NEW s \in Sessions, BeginClose(c, s) PROVE GoalsMove
  <2>1. Closes
    BY <1>29, <1>c, <1>t DEF BeginClose, CloseGoes, runVars, closeVars
  <2>2. Cleanups
    BY <1>29, <1>m DEF BeginClose, openVars, dispatchVars
  <2> QED BY <2>1, <2>2 DEF GoalsMove
<1>30. ASSUME NEW c \in Closers, Settle(c) PROVE GoalsMove
  <2>1. Closes
    BY <1>30, <1>c, <1>t DEF Settle, CloseGoes, runVars, closeVars
  <2>2. Cleanups
    BY <1>30, <1>m DEF Settle, openVars, dispatchVars
  <2> QED BY <2>1, <2>2 DEF GoalsMove
<1>31. ASSUME NEW c \in Closers, SettleTimesOut(c) PROVE GoalsMove
  <2>1. Closes
    BY <1>31, <1>c, <1>t DEF SettleTimesOut, CloseGoes, runVars, closeVars
  <2>2. Cleanups
    BY <1>31, <1>m DEF SettleTimesOut, openVars, dispatchVars
  <2> QED BY <2>1, <2>2 DEF GoalsMove
<1>32. ASSUME NEW c \in Closers, CloseExpires(c) PROVE GoalsMove
  <2>1. Closes
    BY <1>32, <1>c, <1>t DEF CloseExpires, CloseEnds, CloseGoes, runVars, closeVars
  <2>2. Cleanups
    BY <1>32, <1>m DEF CloseExpires, openVars, dispatchVars
  <2> QED BY <2>1, <2>2 DEF GoalsMove
<1>33. ASSUME NEW c \in Closers, CloseBindings(c) PROVE GoalsMove
  <2>1. \A p \in Pipelines : goal[c][p] = "none"
    BY <1>33, <1>1a DEF CloseBindings, RemainderInv
  <2>2. /\ close' = [close EXCEPT ![c] = "draining"] /\ goal' = goal
        /\ \A e \in Closers \ {c} : copy'[e] = copy[e]
    BY <1>33, <1>t DEF CloseBindings, CloseGoes
  <2>3. Closes
    BY <2>1, <2>2, <1>c, <1>t
  <2>4. Cleanups
    BY <1>33, <1>m DEF CloseBindings, openVars, dispatchVars
  <2> QED BY <2>3, <2>4 DEF GoalsMove
<1>34. ASSUME NEW c \in Closers, FinishClose(c) PROVE GoalsMove
  <2>1. Closes
    BY <1>34, <1>c, <1>t DEF FinishClose, CloseEnds, CloseGoes, Remaining, runVars, closeVars
  <2>2. Cleanups
    BY <1>34, <1>m DEF FinishClose, openVars, dispatchVars
  <2> QED BY <2>1, <2>2 DEF GoalsMove
<1>35. ASSUME NEW c \in Closers, NEW p \in Pipelines, SendClose(c, p) PROVE GoalsMove
  <2>1. Closes
    BY <1>35, <1>c, <1>t DEF SendClose, CloseGoes, Remaining, runVars, closeVars
  <2>2. Cleanups
    BY <1>35, <1>m DEF SendClose, openVars, dispatchVars
  <2> QED BY <2>1, <2>2 DEF GoalsMove
<1>36. ASSUME NEW c \in Closers, NEW p \in Pipelines, CloseRefused(c, p) PROVE GoalsMove
  <2>1. Closes
    BY <1>36, <1>c, <1>t DEF CloseRefused, CloseGoes, runVars, closeVars
  <2>2. Cleanups
    BY <1>36, <1>m DEF CloseRefused, openVars, dispatchVars
  <2> QED BY <2>1, <2>2 DEF GoalsMove
<1>37. ASSUME NEW c \in Closers, NEW p \in Pipelines, CloseFails(c, p) PROVE GoalsMove
  <2>1. Closes
    BY <1>37, <1>c, <1>t DEF CloseFails, CloseGoes, runVars, closeVars
  <2>2. Cleanups
    BY <1>37, <1>m DEF CloseFails, openVars, dispatchVars
  <2> QED BY <2>1, <2>2 DEF GoalsMove
<1>38. ASSUME NEW c \in Closers, NEW p \in Pipelines, CloseDrained(c, p) PROVE GoalsMove
  <2>1. Closes
    BY <1>38, <1>c, <1>t DEF CloseDrained, CloseGoes, runVars, closeVars
  <2>2. Cleanups
    BY <1>38, <1>m DEF CloseDrained, openVars, dispatchVars
  <2> QED BY <2>1, <2>2 DEF GoalsMove
<1>39. ASSUME NEW c \in Closers, NEW p \in Pipelines, CloseUnknown(c, p) PROVE GoalsMove
  <2>1. Closes
    BY <1>39, <1>c, <1>t DEF CloseUnknown, CloseGoes, runVars, closeVars
  <2>2. Cleanups
    BY <1>39, <1>m DEF CloseUnknown, openVars, dispatchVars
  <2> QED BY <2>1, <2>2 DEF GoalsMove
<1>40. ASSUME NEW c \in Closers, NEW p \in Pipelines, ExecuteClose(c, p) PROVE GoalsMove
  <2>1. /\ goal[c][p] = "sent" /\ UNCHANGED <<close, copy, cleanup, at, open, seen>>
    BY <1>40 DEF ExecuteClose, openVars, dispatchVars
  <2>2. PICK result \in GoalStates :
          /\ Drain(p, copy[c][p], copyBoot[c][p], result)
          /\ goal' = [goal EXCEPT ![c][p] = result]
    BY <1>40 DEF ExecuteClose
  <2>3. copy[c][p] \in Dispatches
    BY <2>1, <1>c, <1>t
  <2>4. ASSUME result = "succeeded" PROVE ~Tenant(copy[c][p], p)'
    BY <2>1, <2>2, <2>3, <2>4, <1>1a, DrainEmpties DEF GoalInv
  <2>5. Closes
    BY <2>1, <2>2, <2>3, <2>4, <1>c, <1>t
  <2> QED BY <2>1, <2>5, <1>m DEF GoalsMove
<1>41. ASSUME NEW p \in Pipelines, StatusArrives(p) PROVE GoalsMove
  BY <1>41, <1>k, <1>m DEF StatusArrives, GoalsMove, openVars, closeVars, runVars, dispatchVars
<1>42. ASSUME NEW p \in Pipelines, Reconcile(p) PROVE GoalsMove
  BY <1>42, <1>k, <1>m DEF Reconcile, GoalsMove, openVars, closeVars, runVars, dispatchVars
<1>43. ASSUME NEW p \in Pipelines, Reboot(p) PROVE GoalsMove
  BY <1>43, <1>k, <1>m DEF Reboot, GoalsMove, openVars, closeVars, runVars, dispatchVars
<1>44. CASE UNCHANGED vars
  BY <1>44, <1>k, <1>m DEF vars, closeVars, runVars, openVars, dispatchVars, GoalsMove
<1> QED BY <1>1, <1>2, <1>3, <1>4, <1>5, <1>6, <1>7, <1>8, <1>9, <1>10, <1>11, <1>12, <1>13,
     <1>14, <1>15, <1>16, <1>17, <1>18, <1>19, <1>20, <1>21, <1>22, <1>23, <1>24, <1>25,
     <1>26, <1>27, <1>28, <1>29, <1>30, <1>31, <1>32, <1>33, <1>34, <1>35, <1>36, <1>37,
     <1>38, <1>39, <1>40, <1>41, <1>42, <1>43, <1>44 DEF Next, DispatchStep, DispatchWork,
     CleanupStep, CloserStep, CloseWork, PipelineStep

\* A Close without a failure has sent a goal for every binding it has
\* copied, and a binding whose goal is over is dropped.
RunsMove ==
  \A c \in Closers :
    /\ close'[c] \in {"idle", "settling", "settled"} =>
         failure'[c] = {} /\ \A p \in Pipelines : goal'[c][p] = "none"
    /\ close'[c] \in {"draining", "calling"} /\ failure'[c] = {} =>
         /\ failure[c] = {}
         /\ \A p \in Pipelines :
              \/ /\ goal'[c][p] = "none"
                 /\ goal[c][p] = "none" \/ (close[c] = "calling" /\ calling[c] = p)
              \/ close'[c] = "calling" /\ calling'[c] = p
              \/ goal[c][p] # "none" /\ ~(close[c] = "calling" /\ calling[c] = p)
              \/ bindingId'[subject[c]][p] = Nobody
         /\ close[c] = "settled" => \A p \in Pipelines : goal'[c][p] = "none"

\* What a step does to the runs of a Close.
LEMMA RunsStep == IInv /\ [Next]_vars => RunsMove
<1> SUFFICES ASSUME IInv, [Next]_vars PROVE RunsMove
  OBVIOUS
<1>1a. CoreType /\ ThreadType /\ Places /\ SessionInv /\ RemainderInv
  BY TwoTypes DEF IInv, TypeInv, LeaseInv
<1>t. /\ close \in [Closers -> CloseStages]
      /\ calling \in [Closers -> Pipelines \cup {Nobody}]
      /\ goal \in [Closers -> [Pipelines -> GoalStates]]
      /\ failure \in [Closers -> SUBSET {"unknown", "failed", "not_started"}]
  BY <1>1a DEF ThreadType
<1>r. \A c \in Closers : close[c] \in {"idle", "settling", "settled"} =>
        failure[c] = {} /\ \A p \in Pipelines : goal[c][p] = "none"
  BY <1>1a DEF RemainderInv
<1>k. ASSUME UNCHANGED <<close, calling, goal, failure>> PROVE RunsMove
  BY <1>k, <1>r DEF RunsMove
<1> USE <1>t DEF RunsMove
<1>1. ASSUME NEW s \in Sessions, OpenSession(s) PROVE RunsMove
  BY <1>1, <1>k DEF OpenSession, closeVars, runVars
<1>2. ASSUME NEW d \in Dispatches, Begin(d) PROVE RunsMove
  BY <1>2, <1>k DEF Begin, closeVars, runVars
<1>3. ASSUME NEW d \in Dispatches, ReadBoot(d) PROVE RunsMove
  BY <1>3, <1>k DEF ReadBoot, closeVars, runVars
<1>4. ASSUME NEW d \in Dispatches, Exhausted(d) PROVE RunsMove
  BY <1>4, <1>k DEF Exhausted, closeVars, runVars
<1>5. ASSUME NEW d \in Dispatches, PrepareFails(d) PROVE RunsMove
  BY <1>5, <1>k DEF PrepareFails, closeVars, runVars
<1>6. ASSUME NEW d \in Dispatches, PrepareSkips(d) PROVE RunsMove
  BY <1>6, <1>k DEF PrepareSkips, closeVars, runVars
<1>7. ASSUME NEW d \in Dispatches, PrepareUses(d) PROVE RunsMove
  BY <1>7, <1>k DEF PrepareUses, closeVars, runVars
<1>8. ASSUME NEW d \in Dispatches, PrepareWaits(d) PROVE RunsMove
  BY <1>8, <1>k DEF PrepareWaits, closeVars, runVars
<1>9. ASSUME NEW d \in Dispatches, PrepareOpens(d) PROVE RunsMove
  BY <1>9, <1>k DEF PrepareOpens, closeVars, runVars
<1>10. ASSUME NEW d \in Dispatches, AwaitOpen(d) PROVE RunsMove
  BY <1>10, <1>k DEF AwaitOpen, closeVars, runVars
<1>11. ASSUME NEW d \in Dispatches, Refuse(d) PROVE RunsMove
  BY <1>11, <1>k DEF Refuse, closeVars, runVars
<1>12. ASSUME NEW d \in Dispatches, SendOpen(d) PROVE RunsMove
  BY <1>12, <1>k DEF SendOpen, closeVars, runVars
<1>13. ASSUME NEW d \in Dispatches, OpenNotStarted(d) PROVE RunsMove
  BY <1>13, <1>k DEF OpenNotStarted, closeVars, runVars
<1>14. ASSUME NEW d \in Dispatches, OpenFails(d) PROVE RunsMove
  BY <1>14, <1>k DEF OpenFails, closeVars, runVars
<1>15. ASSUME NEW d \in Dispatches, OpenSucceeds(d) PROVE RunsMove
  BY <1>15, <1>k DEF OpenSucceeds, closeVars, runVars
<1>16. ASSUME NEW d \in Dispatches, ReadBinding(d) PROVE RunsMove
  BY <1>16, <1>k DEF ReadBinding, closeVars, runVars
<1>17. ASSUME NEW d \in Dispatches, DispatchNotStarted(d) PROVE RunsMove
  BY <1>17, <1>k DEF DispatchNotStarted, closeVars, runVars
<1>18. ASSUME NEW d \in Dispatches, DispatchCompletes(d) PROVE RunsMove
  BY <1>18, <1>k DEF DispatchCompletes, closeVars, runVars
<1>19. ASSUME NEW d \in Dispatches, DispatchUnknown(d) PROVE RunsMove
  BY <1>19, <1>k DEF DispatchUnknown, closeVars, runVars
<1>20. ASSUME NEW d \in Dispatches, Leave(d) PROVE RunsMove
  BY <1>20, <1>k DEF Leave, closeVars, runVars
<1>21. ASSUME NEW d \in Dispatches, AwaitTimesOut(d) PROVE RunsMove
  BY <1>21, <1>k DEF AwaitTimesOut, closeVars, runVars
<1>22. ASSUME NEW d \in Dispatches, OpenUnknown(d) PROVE RunsMove
  BY <1>22, <1>k DEF OpenUnknown, closeVars, runVars
<1>23. ASSUME NEW d \in Dispatches, RefuseOpen(d) PROVE RunsMove
  BY <1>23, <1>k DEF RefuseOpen, closeVars, runVars
<1>24. ASSUME NEW d \in Dispatches, ExecuteOpen(d) PROVE RunsMove
  BY <1>24, <1>k DEF ExecuteOpen, closeVars, runVars
<1>25. ASSUME NEW d \in Dispatches, SendCleanup(d) PROVE RunsMove
  BY <1>25, <1>k DEF SendCleanup, closeVars, runVars
<1>26. ASSUME NEW d \in Dispatches, CleanupDrained(d) PROVE RunsMove
  BY <1>26, <1>k DEF CleanupDrained, closeVars, runVars
<1>27. ASSUME NEW d \in Dispatches, CleanupCompletes(d) PROVE RunsMove
  BY <1>27, <1>k DEF CleanupCompletes, closeVars, runVars
<1>28. ASSUME NEW d \in Dispatches, ExecuteCleanup(d) PROVE RunsMove
  BY <1>28, <1>k DEF ExecuteCleanup, closeVars, runVars
<1>29. ASSUME NEW c \in Closers, NEW s \in Sessions, BeginClose(c, s) PROVE RunsMove
  BY <1>29, <1>r DEF BeginClose, CloseGoes, runVars, closeVars
<1>30. ASSUME NEW c \in Closers, Settle(c) PROVE RunsMove
  BY <1>30, <1>r DEF Settle, CloseGoes, runVars, closeVars
<1>31. ASSUME NEW c \in Closers, SettleTimesOut(c) PROVE RunsMove
  BY <1>31, <1>r DEF SettleTimesOut, CloseGoes, runVars, closeVars
<1>32. ASSUME NEW c \in Closers, CloseExpires(c) PROVE RunsMove
  BY <1>32, <1>r DEF CloseExpires, CloseEnds, CloseGoes, runVars, closeVars
<1>33. ASSUME NEW c \in Closers, CloseBindings(c) PROVE RunsMove
  <2>1. close[c] = "settled" /\ close' = [close EXCEPT ![c] = "draining"]
        /\ UNCHANGED <<calling, goal, failure>>
    BY <1>33 DEF CloseBindings, CloseGoes
  <2> QED BY <2>1, <1>r
<1>34. ASSUME NEW c \in Closers, FinishClose(c) PROVE RunsMove
  BY <1>34, <1>r DEF FinishClose, CloseEnds, CloseGoes, Remaining, runVars, closeVars
<1>35. ASSUME NEW c \in Closers, NEW p \in Pipelines, SendClose(c, p) PROVE RunsMove
  BY <1>35, <1>r DEF SendClose, CloseGoes, Remaining, runVars, closeVars
<1>36. ASSUME NEW c \in Closers, NEW p \in Pipelines, CloseRefused(c, p) PROVE RunsMove
  <2>1. close'[c] = "draining" /\ failure'[c] # {} /\ UNCHANGED <<calling, goal>>
    BY <1>36 DEF CloseRefused, CloseGoes
  <2>2. \A x \in Closers \ {c} : close'[x] = close[x] /\ failure'[x] = failure[x]
    BY <1>36 DEF CloseRefused, CloseGoes
  <2> QED BY <2>1, <2>2, <1>r
<1>37. ASSUME NEW c \in Closers, NEW p \in Pipelines, CloseFails(c, p) PROVE RunsMove
  <2>1. close'[c] = "draining" /\ failure'[c] # {} /\ UNCHANGED <<calling, goal>>
    BY <1>37 DEF CloseFails, CloseGoes
  <2>2. \A x \in Closers \ {c} : close'[x] = close[x] /\ failure'[x] = failure[x]
    BY <1>37 DEF CloseFails, CloseGoes
  <2> QED BY <2>1, <2>2, <1>r
<1>38. ASSUME NEW c \in Closers, NEW p \in Pipelines, CloseDrained(c, p) PROVE RunsMove
  <2>1. /\ RecordBindingClosed(subject[c], p) /\ subject[c] \in Sessions
        /\ close[c] = "calling" /\ calling[c] = p
        /\ close' = [close EXCEPT ![c] = "draining"] /\ UNCHANGED <<calling, goal, failure>>
    BY <1>38, <1>1a DEF CloseDrained, Places, CloseGoes, runVars
  <2>2. bindingId'[subject[c]][p] = Nobody
    <3>1. CASE Drops(subject[c], p)
      BY <2>1, <3>1 DEF Drops
    <3>2. CASE UNCHANGED bindingVars /\ ~Known(subject[c])
      BY <2>1, <3>2, <1>1a DEF SessionInv, Known, HasBindings, Bound, CoreType, bindingVars
    <3> QED BY <2>1, <3>1, <3>2, <1>1a, ClosedEffect
  <2> QED BY <2>1, <2>2, <1>r
<1>39. ASSUME NEW c \in Closers, NEW p \in Pipelines, CloseUnknown(c, p) PROVE RunsMove
  BY <1>39, <1>r DEF CloseUnknown, CloseGoes, runVars, closeVars
<1>40. ASSUME NEW c \in Closers, NEW p \in Pipelines, ExecuteClose(c, p) PROVE RunsMove
  BY <1>40, <1>r DEF ExecuteClose, runVars, closeVars
<1>41. ASSUME NEW p \in Pipelines, StatusArrives(p) PROVE RunsMove
  BY <1>41, <1>k DEF StatusArrives, closeVars, runVars
<1>42. ASSUME NEW p \in Pipelines, Reconcile(p) PROVE RunsMove
  BY <1>42, <1>k DEF Reconcile, closeVars, runVars
<1>43. ASSUME NEW p \in Pipelines, Reboot(p) PROVE RunsMove
  BY <1>43, <1>k DEF Reboot, closeVars, runVars
<1>44. CASE UNCHANGED vars
  BY <1>44, <1>k DEF vars, closeVars, runVars
<1> QED BY <1>1, <1>2, <1>3, <1>4, <1>5, <1>6, <1>7, <1>8, <1>9, <1>10, <1>11, <1>12, <1>13,
     <1>14, <1>15, <1>16, <1>17, <1>18, <1>19, <1>20, <1>21, <1>22, <1>23, <1>24, <1>25,
     <1>26, <1>27, <1>28, <1>29, <1>30, <1>31, <1>32, <1>33, <1>34, <1>35, <1>36, <1>37,
     <1>38, <1>39, <1>40, <1>41, <1>42, <1>43, <1>44 DEF Next, DispatchStep, DispatchWork,
     CleanupStep, CloserStep, CloseWork, PipelineStep

-----------------------------------------------------------------------------
(* The invariant is inductive.                                             *)

\* Without sessions there is nothing to keep.
LEMMA InitInv == Init => IInv
<1> SUFFICES ASSUME Init PROVE IInv
  OBVIOUS
<1>1. TypeOK
  BY DEF Init, TypeOK, SessionStates, BindingStates, DispatchStages, CloseStages, GoalStates
<1>2. Places /\ GoalInv
  BY DEF Init, Places, Trying, GoalInv
<1>3. BootInv
  BY DEF Init, BootInv
<1>4. SessionInv
  BY DEF Init, SessionInv, DrainBarrier, HasBindings, Bound
<1>5. OneHolder /\ OwnIds /\ OpenersInv /\ BoundInv
  BY DEF Init, OneHolder, OwnIds, OpenersInv, BoundInv
<1>6. ViableInv
  BY DEF Init, ViableInv, Viable, Tenant
<1>7. CopiesInv /\ DrainedInv
  BY DEF Init, CopiesInv, DrainedInv
<1>8. RemainderInv
  BY DEF Init, RemainderInv
<1> QED BY <1>1, <1>2, <1>3, <1>4, <1>5, <1>6, <1>7, <1>8 DEF IInv, TypeInv, LeaseInv

\* Every step keeps sessions, entries and threads in agreement.
LEMMA SessionStep ==
  ASSUME CoreType, CoreType', Places, SessionInv, SessionsMove, EntriesMove, ClosersMove,
         BindingsMove, ThreadType'
  PROVE  SessionInv'
<1>1. ASSUME NEW s \in Sessions, session'[s] \in {"NONE", "GONE"} PROVE ~HasBindings(s)'
  <2>1. session[s] \in {"NONE", "GONE"} \/ ~HasBindings(s)
    BY <1>1 DEF SessionsMove
  <2>2. \A p \in Pipelines : bindingId[s][p] = Nobody
    BY <2>1 DEF SessionInv, HasBindings, Bound, CoreType
  <2>3. ASSUME NEW p \in Pipelines PROVE bindingId'[s][p] = Nobody
    <3>1. ~Creates(s, p)
      BY <1>1 DEF Creates, PrepareOpens
    <3> QED BY <2>2, <3>1 DEF BindingsMove, Stays, Loses
  <2> QED BY <2>3 DEF HasBindings, Bound, CoreType
<1>2. \A d \in Dispatches : pc'[d] # "idle" => session'[SessionOf[d]] # "NONE"
  BY DEF EntriesMove, SessionInv, SessionsMove
<1>3. \A d \in unknown' \cup late' : session'[SessionOf[d]] \notin {"NONE", "ACTIVE"}
  BY DEF EntriesMove, SessionInv, SessionsMove, Ended, ThreadType
<1>4. \A c \in Closers : close'[c] \notin {"idle", "done"} => session'[subject'[c]] \notin {"NONE", "ACTIVE"}
  BY DEF ClosersMove, SessionInv, SessionsMove, Ended, Places
<1>5. DrainBarrier'
  <2> SUFFICES ASSUME NEW c \in Closers, close'[c] \in {"settled", "draining", "calling"},
                      NEW d \in inFlight'
               PROVE  SessionOf[d] # subject'[c]
    BY DEF DrainBarrier
  <2>1. subject'[c] = subject[c] /\ close[c] \notin {"idle", "done"} /\ d \in Dispatches
    BY DEF ClosersMove, CoreType
  <2>2. Ended(subject[c])
    BY <2>1 DEF SessionInv
  <2>3. CASE close[c] \in {"settled", "draining", "calling"}
    <3>1. d \in inFlight => SessionOf[d] # subject[c]
      BY <2>3 DEF SessionInv, DrainBarrier
    <3>2. d \notin inFlight => session[SessionOf[d]] = "ACTIVE"
      BY <2>1 DEF EntriesMove
    <3> QED BY <2>1, <2>2, <3>1, <3>2 DEF Ended
  <2>4. CASE Settled(subject[c]) /\ inFlight' = inFlight
    BY <2>1, <2>4 DEF Settled, Busy
  <2> QED BY <2>3, <2>4 DEF ClosersMove
<1> QED BY <1>1, <1>2, <1>3, <1>4, <1>5 DEF SessionInv, Ended

\* A pipeline stays with one session, and a binding with its own.
LEMMA IdsStep ==
  ASSUME CoreType, ThreadType, OneHolder, OwnIds, BindingsMove
  PROVE  OneHolder' /\ OwnIds'
<1>1. \A s \in Sessions, p \in Pipelines : bindingId'[s][p] # Nobody =>
        bindingId'[s][p] = bindingId[s][p] \/ Creates(s, p)
  BY DEF BindingsMove, Stays, Loses
<1>2. ASSUME NEW p \in Pipelines, NEW r \in Sessions, NEW s \in Sessions,
             bindingId'[r][p] # Nobody, bindingId'[s][p] # Nobody
      PROVE  r = s
  <2>1. CASE Creates(r, p) /\ Creates(s, p)
    <3>1. PICK d \in Dispatches : PrepareOpens(d) /\ pc'[d] = "prepared" /\ SessionOf[d] = r
      BY <2>1 DEF Creates
    <3>2. PICK e \in Dispatches : PrepareOpens(e) /\ pc'[e] = "prepared" /\ SessionOf[e] = s
      BY <2>1 DEF Creates
    <3>3. d = e
      BY <3>1, <3>2 DEF PrepareOpens, Preparing, Goes, ThreadType
    <3> QED BY <3>1, <3>2, <3>3
  <2>2. CASE ~Creates(r, p) /\ ~Creates(s, p)
    BY <1>1, <1>2, <2>2 DEF OneHolder
  <2>3. CASE Creates(r, p) /\ ~Creates(s, p)
    BY <1>1, <1>2, <2>3 DEF Creates
  <2>4. CASE ~Creates(r, p) /\ Creates(s, p)
    BY <1>1, <1>2, <2>4 DEF Creates
  <2> QED BY <2>1, <2>2, <2>3, <2>4
<1>3. ASSUME NEW s \in Sessions, NEW p \in Pipelines, bindingId'[s][p] # Nobody
      PROVE  SessionOf[bindingId'[s][p]] = s
  BY <1>1, <1>3 DEF OwnIds, Creates
<1> QED BY <1>2, <1>3 DEF OneHolder, OwnIds

\* The binding a dispatch works on stays, or goes with its session.
LEMMA MineStays ==
  ASSUME CoreType, BindingsMove, SessionsMove, NEW d \in Dispatches, NEW p \in Pipelines,
         MineOrGone(d, p), Ended(SessionOf[d])' \/ (Busy(SessionOf[d]) /\ pc'[d] # "next")
  PROVE  /\ MineOrGone(d, p)'
         /\ bindingId'[SessionOf[d]][p] = d =>
              /\ bindingId[SessionOf[d]][p] = d
              /\ bindingBoot'[SessionOf[d]][p] = bindingBoot[SessionOf[d]][p]
<1> DEFINE s == SessionOf[d]
<1>1. s \in Sessions
  OBVIOUS
<1>2. Stays(s, p) \/ Loses(s, p) \/ Creates(s, p)
  BY <1>1 DEF BindingsMove
<1>3. CASE Stays(s, p)
  BY <1>1, <1>3 DEF Stays, MineOrGone, SessionsMove
<1>4. CASE Loses(s, p)
  BY <1>1, <1>4 DEF Loses, MineOrGone, SessionsMove
<1>5. CASE Creates(s, p)
  BY <1>1, <1>5 DEF Creates, MineOrGone, Ended
<1> QED BY <1>2, <1>3, <1>4, <1>5

\* A thread that opens keeps its binding on record.
LEMMA OpenersKeep ==
  ASSUME CoreType, ThreadType, Places, GoalInv, OpenersInv, SessionInv', BindingsMove, SessionsMove, OpenersMove
  PROVE  OpenersInv'
<1>1. CoreType /\ ThreadType /\ Places /\ GoalInv
  OBVIOUS
<1>2. ASSUME NEW d \in Dispatches, pc'[d] \in {"prepared", "opening"}
      PROVE  /\ MineOrGone(d, at[d])' /\ at'[d] = at[d]
             /\ bindingId'[SessionOf[d]][at'[d]] = d => bindingBoot'[SessionOf[d]][at'[d]] = seen'[d]
  <2>a. at'[d] = at[d] /\ seen'[d] = seen[d] /\ (pc[d] \in {"prepared", "opening"} \/ PrepareOpens(d))
    BY <1>2 DEF OpenersMove
  <2>b. PrepareOpens(d) => pc[d] \in {"observed", "reobserved"}
    BY DEF PrepareOpens, Preparing
  <2>1. at'[d] = at[d] /\ seen'[d] = seen[d] /\ at[d] \in Pipelines
    BY <1>1, <2>a, <2>b DEF Places, Trying
  <2>2. CASE pc[d] \in {"prepared", "opening"}
    <3>1. /\ MineOrGone(d, at[d]) /\ Busy(SessionOf[d])
          /\ bindingId[SessionOf[d]][at[d]] = d => bindingBoot[SessionOf[d]][at[d]] = seen[d]
      BY <2>2, <1>1 DEF OpenersInv, Busy, Places
    <3>p. PICK p \in Pipelines : p = at[d] /\ p = at'[d]
      BY <2>1
    <3>2. /\ MineOrGone(d, p)'
          /\ bindingId'[SessionOf[d]][p] = d =>
              /\ bindingId[SessionOf[d]][p] = d
              /\ bindingBoot'[SessionOf[d]][p] = bindingBoot[SessionOf[d]][p]
      BY <3>1, <3>p, <1>1, <1>2, MineStays
    <3> QED BY <2>1, <3>1, <3>2, <3>p DEF MineOrGone
  <2>3. CASE PrepareOpens(d)
    <3>1. /\ bindingId' = [bindingId EXCEPT ![SessionOf[d]][at[d]] = d]
          /\ bindingBoot' = [bindingBoot EXCEPT ![SessionOf[d]][at[d]] = seen[d]]
      BY <2>3 DEF PrepareOpens
    <3>2. bindingId'[SessionOf[d]][at[d]] = d /\ bindingBoot'[SessionOf[d]][at[d]] = seen[d]
      BY <3>1, <2>1, <1>1 DEF CoreType
    <3> QED BY <2>1, <3>2 DEF MineOrGone
  <2> QED BY <1>2, <2>2, <2>3 DEF OpenersMove
<1>3. ASSUME NEW d \in Dispatches, d \in late' PROVE MineOrGone(d, at[d])'
  <2>1. d \in late \/ pc[d] = "opening"
    BY <1>3 DEF OpenersMove
  <2>2. at[d] \in Pipelines
    BY <2>1, <1>1 DEF Places, GoalInv, Trying
  <2>p. PICK p \in Pipelines : p = at[d] /\ p = at'[d]
    BY <2>2, <1>3 DEF OpenersMove
  <2>3. MineOrGone(d, p)
    BY <2>1, <2>p DEF OpenersInv
  <2>4. Ended(SessionOf[d])'
    BY <1>3 DEF SessionInv
  <2>5. MineOrGone(d, p)'
    BY <2>3, <2>4, <1>1, MineStays
  <2> QED BY <2>5, <2>p DEF MineOrGone
<1> QED BY <1>1, <1>2, <1>3 DEF OpenersInv

\* A dispatch that uses a binding keeps finding it while its session lives.
LEMMA BoundKeep ==
  ASSUME CoreType, CoreType', Places, BoundInv, BindingsMove, SessionsMove, BoundMove
  PROVE  BoundInv'
<1> SUFFICES ASSUME NEW d \in Dispatches, pc'[d] = "bound"
             PROVE  \/ session'[SessionOf[d]] \notin {"NONE", "ACTIVE"}
                    \/ binding'[SessionOf[d]][at'[d]] \notin {"NONE", "OPENING"}
  BY DEF BoundInv, Ended
<1>1. CASE pc[d] = "bound"
  <2>1. PICK s \in Sessions, p \in Pipelines : s = SessionOf[d] /\ p = at[d] /\ p = at'[d]
    BY <1>1 DEF BoundMove, Places, Trying
  <2>2. CASE Ended(s)
    BY <2>1, <2>2 DEF SessionsMove, Ended
  <2>3. CASE binding[s][p] \notin {"NONE", "OPENING"}
    <3>1. bindingId[s][p] # Nobody /\ Busy(s)
      BY <1>1, <2>1, <2>3 DEF CoreType, Busy, Places
    <3>2. CASE Stays(s, p)
      BY <2>1, <2>3, <3>1, <3>2 DEF Stays, CoreType
    <3>3. CASE Loses(s, p)
      BY <2>1, <2>3, <3>1, <3>3 DEF Loses, Ended
    <3> QED BY <3>1, <3>2, <3>3 DEF BindingsMove, Creates
  <2> QED BY <1>1, <2>1, <2>2, <2>3 DEF BoundInv
<1>2. CASE pc[d] # "bound"
  BY <1>2 DEF BoundMove
<1> QED BY <1>1, <1>2

\* What may still be served stays on record.
LEMMA ViableKeep ==
  ASSUME CoreType, ThreadType, Places, ViableInv, BindingsMove, ViableMove
  PROVE  ViableInv'
<1> SUFFICES ASSUME NEW p \in Pipelines, NEW d \in Dispatches, Viable(d, p)'
             PROVE  bindingId'[SessionOf[d]][p] = d /\ bindingBoot'[SessionOf[d]][p] = boot'[p]
  BY DEF ViableInv
<1>1. PICK s \in Sessions : s = SessionOf[d]
  OBVIOUS
<1>2. CASE Viable(d, p)
  <2>1. bindingId[s][p] = d /\ bindingBoot[s][p] = boot[p] /\ boot'[p] = boot[p]
    BY <1>1, <1>2 DEF ViableInv, ViableMove
  <2>2. Stays(s, p)
    BY <1>1, <2>1 DEF BindingsMove, Loses, Creates
  <2> QED BY <1>1, <2>1, <2>2 DEF Stays
<1>3. CASE PrepareOpens(d) /\ at[d] = p /\ ~Viable(d, p)
  <2>1. /\ bindingId' = [bindingId EXCEPT ![s][p] = d] /\ UNCHANGED <<at, seen, open, served, boot>>
        /\ bindingBoot' = [bindingBoot EXCEPT ![s][p] = seen[d]]
    BY <1>1, <1>3 DEF PrepareOpens, Goes, openVars, pipelineVars
  <2>2. bindingId'[s][p] = d /\ bindingBoot'[s][p] = seen[d]
    BY <2>1 DEF CoreType
  <2>3. seen[d] = boot'[p]
    BY <1>3, <2>1 DEF Viable, Tenant
  <2> QED BY <1>1, <2>2, <2>3
<1> QED BY <1>2, <1>3 DEF ViableMove

\* A Close keeps working on the bindings it was returned.
LEMMA CopiesKeep ==
  ASSUME CoreType, ThreadType, Places, SessionInv, OwnIds, CopiesInv, BindingsMove, ClosersMove
  PROVE  CopiesInv'
<1> SUFFICES ASSUME NEW c \in Closers, NEW p \in Pipelines,
                    close'[c] \in {"draining", "calling"}, copy'[c][p] # Nobody
             PROVE  /\ SessionOf[copy'[c][p]] = subject'[c]
                    /\ bindingId'[subject'[c]][p] \in {Nobody, copy'[c][p]}
  BY DEF CopiesInv
<1>1. /\ close[c] \notin {"idle", "done"} /\ subject'[c] = subject[c]
  BY DEF ClosersMove
<1>2. PICK s \in Sessions : s = subject[c] /\ Ended(s)
  BY <1>1 DEF Places, SessionInv
<1>3. CASE close[c] \in {"draining", "calling"} /\ copy'[c] = copy[c]
  <2>1. SessionOf[copy[c][p]] = s /\ bindingId[s][p] \in {Nobody, copy[c][p]}
    BY <1>2, <1>3 DEF CopiesInv
  <2>2. bindingId'[s][p] \in {Nobody, bindingId[s][p]}
    BY <1>2 DEF BindingsMove, Stays, Loses, Creates, Ended
  <2> QED BY <1>1, <1>2, <1>3, <2>1, <2>2
<1>4. CASE KeepsIds /\ copy'[c][p] = bindingId[s][p]
  BY <1>1, <1>2, <1>4 DEF KeepsIds, OwnIds
<1> QED BY <1>2, <1>3, <1>4 DEF ClosersMove

\* What a Close has drained stays drained.
LEMMA DrainedKeep ==
  ASSUME CoreType, ThreadType, Places, GoalInv, SessionInv, CopiesInv, DrainedInv,
         ViableMove, GoalsMove
  PROVE  DrainedInv'
<1>1. ASSUME NEW d \in Dispatches, NEW p \in Pipelines, Tenant(d, p)', ~Tenant(d, p)
      PROVE  d \in inFlight /\ pc[d] \in {"observed", "reobserved", "prepared"}
  <2>1. Viable(d, p)'
    BY <1>1 DEF Viable
  <2>2. Viable(d, p) \/ PrepareOpens(d)
    BY <2>1 DEF ViableMove
  <2> QED BY <1>1, <2>2 DEF Viable, PrepareOpens, Preparing, Places
<1>2. ASSUME NEW c \in Closers, NEW p \in Pipelines,
             close'[c] \in {"draining", "calling"}, goal'[c][p] = "succeeded"
      PROVE  ~Tenant(copy[c][p], p)' /\ copy'[c][p] = copy[c][p]
  <2>1. /\ close[c] \in {"draining", "calling"} /\ copy'[c][p] = copy[c][p]
        /\ copy'[c][p] # Nobody
        /\ goal[c][p] = "succeeded" \/ ~Tenant(copy[c][p], p)'
    BY <1>2 DEF GoalsMove
  <2>2. CASE goal[c][p] = "succeeded"
    <3>1. PICK d \in Dispatches : d = copy[c][p] /\ SessionOf[d] = subject[c]
      BY <2>1 DEF ThreadType, CopiesInv
    <3>2. ~Tenant(d, p) /\ d \notin inFlight
      BY <2>1, <2>2, <3>1 DEF DrainedInv, SessionInv, DrainBarrier
    <3>3. ~Tenant(d, p)'
      BY <3>2, <1>1
    <3> QED BY <2>1, <3>1, <3>3 DEF Tenant
  <2> QED BY <2>1, <2>2
<1>3. ASSUME NEW d \in Dispatches, cleanup'[d] = "succeeded" PROVE ~Tenant(d, at[d])' /\ at'[d] = at[d]
  <2>1. at'[d] = at[d] /\ d \in late /\ (cleanup[d] = "succeeded" \/ ~Tenant(d, at[d])')
    BY <1>3 DEF GoalsMove
  <2>2. pc[d] \in {"leaving", "done"}
    BY <2>1 DEF GoalInv
  <2>3. PICK p \in Pipelines : p = at[d] /\ p = at'[d]
    BY <2>1 DEF GoalInv, Places
  <2>4. cleanup[d] = "succeeded" => ~Tenant(d, p)
    BY <2>3 DEF DrainedInv
  <2>5. ~Tenant(d, p)'
    BY <2>1, <2>2, <2>3, <2>4, <1>1 DEF Tenant
  <2> QED BY <2>1, <2>3, <2>5 DEF Tenant
<1>4. \A c \in Closers, p \in Pipelines : goal'[c][p] # "none" => copy'[c][p] # Nobody
  BY DEF GoalsMove
<1> QED BY <1>2, <1>3, <1>4 DEF DrainedInv, Tenant

\* What a Close has not drained is still ahead of it.
LEMMA RemainderKeep ==
  ASSUME CoreType, ThreadType, Places, SessionInv, RemainderInv, BindingsMove, ClosersMove, RunsMove,
         CoreType'
  PROVE  RemainderInv'
<1>1. ASSUME NEW c \in Closers, close'[c] = "settled", NEW p \in Pipelines
      PROVE  binding'[subject'[c]][p] # "OPENING"
  <2>1. close[c] \in {"settling", "settled"} /\ subject'[c] = subject[c]
    BY <1>1 DEF ClosersMove
  <2>2. PICK s \in Sessions : s = subject[c] /\ Ended(s)
    BY <2>1 DEF Places, SessionInv
  <2>3. binding[s][p] # "OPENING"
    BY <1>1, <2>1, <2>2 DEF ClosersMove, RemainderInv, Settled
  <2> QED BY <2>1, <2>2, <2>3 DEF BindingsMove, Stays, Loses, Creates, Ended
<1>2. ASSUME NEW c \in Closers, close'[c] \in {"draining", "calling"}, failure'[c] = {},
             NEW p \in Pipelines, bindingId'[subject'[c]][p] # Nobody
      PROVE  /\ copy'[c][p] # Nobody
             /\ goal'[c][p] = "none" \/ (close'[c] = "calling" /\ calling'[c] = p)
  <2>1. close[c] \notin {"idle", "done"} /\ subject'[c] = subject[c]
    BY <1>2 DEF ClosersMove
  <2>2. PICK s \in Sessions : s = subject[c] /\ Ended(s)
    BY <2>1 DEF Places, SessionInv
  <2>3. bindingId[s][p] # Nobody
    BY <1>2, <2>1, <2>2 DEF BindingsMove, Stays, Loses, Creates, Ended
  <2>4. CASE close[c] \in {"draining", "calling"} /\ copy'[c] = copy[c]
    <3>1. failure[c] = {}
      BY <1>2 DEF RunsMove
    <3>2. /\ copy[c][p] # Nobody
          /\ goal[c][p] = "none" \/ (close[c] = "calling" /\ calling[c] = p)
      BY <2>2, <2>3, <2>4, <3>1 DEF RemainderInv
    <3>3. goal'[c][p] = "none" \/ (close'[c] = "calling" /\ calling'[c] = p)
      BY <1>2, <2>1, <2>2, <3>2 DEF RunsMove
    <3> QED BY <2>4, <3>2, <3>3
  <2>5. CASE /\ close[c] = "settled"
             /\ copy'[c][p] = IF binding[s][p] \in {"ACTIVE", "QUARANTINED", "CLOSING"}
                              THEN bindingId[s][p] ELSE Nobody
    <3>1. binding[s][p] \in {"ACTIVE", "QUARANTINED", "CLOSING"}
      BY <2>2, <2>3, <2>5 DEF RemainderInv, CoreType, BindingStates
    <3>2. goal'[c][p] = "none"
      BY <1>2, <2>5 DEF RunsMove
    <3> QED BY <2>3, <2>5, <3>1, <3>2
  <2> QED BY <1>2, <2>2, <2>4, <2>5 DEF ClosersMove
<1>3. \A c \in Closers : close'[c] \in {"idle", "settling", "settled"} =>
        failure'[c] = {} /\ \A p \in Pipelines : goal'[c][p] = "none"
  BY DEF RunsMove
<1> QED BY <1>1, <1>2, <1>3 DEF RemainderInv

\* Every step keeps the invariant.
LEMMA InvStep == IInv /\ [Next]_vars => IInv'
<1> SUFFICES ASSUME IInv, [Next]_vars PROVE IInv'
  OBVIOUS
<1>1. /\ CoreType /\ ThreadType /\ Places /\ GoalInv /\ BootInv /\ SessionInv /\ RemainderInv
      /\ OneHolder /\ OwnIds /\ OpenersInv /\ BoundInv /\ ViableInv /\ CopiesInv /\ DrainedInv
  BY TwoTypes DEF IInv, TypeInv, LeaseInv
<1>2. CoreType' /\ ThreadType' /\ Places' /\ GoalInv' /\ BootInv' /\ SessionsMove
  BY CoreStep, ThreadStep, PlacesStep, GoalStep, BootStep DEF IInv
<1>3. /\ OpenersMove /\ ViableMove /\ BindingsMove /\ EntriesMove /\ ClosersMove /\ BoundMove
      /\ GoalsMove /\ RunsMove
  BY OpenersStep, ViableStep, BindingsStep, EntriesStep, ClosersStep, BoundStep, GoalsStep, RunsStep
     DEF IInv
<1>4. TypeInv'
  BY <1>2 DEF TypeInv, TypeOK, CoreType, ThreadType
<1>5. SessionInv'
  BY <1>1, <1>2, <1>3, SessionStep
<1>6. OneHolder' /\ OwnIds'
  BY <1>1, <1>3, IdsStep
<1>7. OpenersInv'
  BY <1>1, <1>2, <1>3, <1>5, OpenersKeep
<1>8. BoundInv'
  BY <1>1, <1>2, <1>3, BoundKeep
<1>9. ViableInv'
  BY <1>1, <1>3, ViableKeep
<1>10. CopiesInv'
  BY <1>1, <1>3, CopiesKeep
<1>11. DrainedInv'
  BY <1>1, <1>3, DrainedKeep
<1>12. RemainderInv'
  BY <1>1, <1>2, <1>3, RemainderKeep
<1> QED BY <1>2, <1>4, <1>5, <1>6, <1>7, <1>8, <1>9, <1>10, <1>11, <1>12 DEF IInv, LeaseInv

\* The inductive invariant holds in every reachable state.
LEMMA SessionsInvariant == Spec => []IInv
BY InitInv, InvStep, PTL DEF Spec

-----------------------------------------------------------------------------
(* The theorems.                                                           *)

(* Every variable keeps its type, and a binding is on record with all of   *)
(* its identity or not at all.                                             *)
THEOREM TypeCorrect == Spec => []TypeOK
<1>1. IInv => TypeOK
  BY DEF IInv, TypeInv
<1> QED BY SessionsInvariant, <1>1, PTL

(* A binding that a process serves is on record at the session it was      *)
(* opened for, although the answer to its Open, or to a Close of it, may   *)
(* be lost, late, or of another process.                                   *)
THEOREM ServedOnRecord == Spec => []ServedIsRecorded
<1>1. IInv => ServedIsRecorded
  BY DEF IInv, LeaseInv, ViableInv, Viable, Tenant, ServedIsRecorded
<1> QED BY SessionsInvariant, <1>1, PTL

(* From the moment a Close has settled no dispatch of its session is in    *)
(* flight, however many Closes of the session run.                         *)
THEOREM CloseIsBarrier == Spec => []DrainBarrier
<1>1. IInv => DrainBarrier
  BY DEF IInv, SessionInv
<1> QED BY SessionsInvariant, <1>1, PTL

(* A session one of whose requests has ended unknown admits nothing more.  *)
THEOREM UnknownStaysOut == Spec => []UnknownIsQuarantined
<1>1. IInv => UnknownIsQuarantined
  BY DEF IInv, SessionInv, UnknownIsQuarantined, Ended
<1> QED BY SessionsInvariant, <1>1, PTL

\* Only FinishClose answers COMPLETED, and without a failure.
LEMMA CompletedStep ==
  IInv /\ [Next]_vars => [\A c \in completed' \ completed : session'[subject[c]] \in {"CLOSED", "GONE"}]_vars
<1> SUFFICES ASSUME IInv, [Next]_vars
             PROVE  \A c \in completed' \ completed : session'[subject[c]] \in {"CLOSED", "GONE"}
  OBVIOUS
<1>1a. CoreType /\ ThreadType /\ Places /\ SessionInv /\ RemainderInv
  BY TwoTypes DEF IInv, TypeInv
<1> DEFINE Goal == \A c \in completed' \ completed : session'[subject[c]] \in {"CLOSED", "GONE"}
<1>k. ASSUME completed' = completed PROVE Goal
  BY <1>k
<1>1. ASSUME NEW s \in Sessions, OpenSession(s) PROVE Goal
  BY <1>1, <1>k DEF OpenSession, runVars, closeVars
<1>2. ASSUME NEW d \in Dispatches, Begin(d) PROVE Goal
  BY <1>2, <1>k DEF Begin, runVars, closeVars
<1>3. ASSUME NEW d \in Dispatches, ReadBoot(d) PROVE Goal
  BY <1>3, <1>k DEF ReadBoot, runVars, closeVars
<1>4. ASSUME NEW d \in Dispatches, Exhausted(d) PROVE Goal
  BY <1>4, <1>k DEF Exhausted, runVars, closeVars
<1>5. ASSUME NEW d \in Dispatches, PrepareFails(d) PROVE Goal
  BY <1>5, <1>k DEF PrepareFails, runVars, closeVars
<1>6. ASSUME NEW d \in Dispatches, PrepareSkips(d) PROVE Goal
  BY <1>6, <1>k DEF PrepareSkips, runVars, closeVars
<1>7. ASSUME NEW d \in Dispatches, PrepareUses(d) PROVE Goal
  BY <1>7, <1>k DEF PrepareUses, runVars, closeVars
<1>8. ASSUME NEW d \in Dispatches, PrepareWaits(d) PROVE Goal
  BY <1>8, <1>k DEF PrepareWaits, runVars, closeVars
<1>9. ASSUME NEW d \in Dispatches, PrepareOpens(d) PROVE Goal
  BY <1>9, <1>k DEF PrepareOpens, runVars, closeVars
<1>10. ASSUME NEW d \in Dispatches, AwaitOpen(d) PROVE Goal
  BY <1>10, <1>k DEF AwaitOpen, runVars, closeVars
<1>11. ASSUME NEW d \in Dispatches, Refuse(d) PROVE Goal
  BY <1>11, <1>k DEF Refuse, runVars, closeVars
<1>12. ASSUME NEW d \in Dispatches, SendOpen(d) PROVE Goal
  BY <1>12, <1>k DEF SendOpen, runVars, closeVars
<1>13. ASSUME NEW d \in Dispatches, OpenNotStarted(d) PROVE Goal
  BY <1>13, <1>k DEF OpenNotStarted, runVars, closeVars
<1>14. ASSUME NEW d \in Dispatches, OpenFails(d) PROVE Goal
  BY <1>14, <1>k DEF OpenFails, runVars, closeVars
<1>15. ASSUME NEW d \in Dispatches, OpenSucceeds(d) PROVE Goal
  BY <1>15, <1>k DEF OpenSucceeds, runVars, closeVars
<1>16. ASSUME NEW d \in Dispatches, ReadBinding(d) PROVE Goal
  BY <1>16, <1>k DEF ReadBinding, runVars, closeVars
<1>17. ASSUME NEW d \in Dispatches, DispatchNotStarted(d) PROVE Goal
  BY <1>17, <1>k DEF DispatchNotStarted, runVars, closeVars
<1>18. ASSUME NEW d \in Dispatches, DispatchCompletes(d) PROVE Goal
  BY <1>18, <1>k DEF DispatchCompletes, runVars, closeVars
<1>19. ASSUME NEW d \in Dispatches, DispatchUnknown(d) PROVE Goal
  BY <1>19, <1>k DEF DispatchUnknown, runVars, closeVars
<1>20. ASSUME NEW d \in Dispatches, Leave(d) PROVE Goal
  BY <1>20, <1>k DEF Leave, runVars, closeVars
<1>21. ASSUME NEW d \in Dispatches, AwaitTimesOut(d) PROVE Goal
  BY <1>21, <1>k DEF AwaitTimesOut, runVars, closeVars
<1>22. ASSUME NEW d \in Dispatches, OpenUnknown(d) PROVE Goal
  BY <1>22, <1>k DEF OpenUnknown, runVars, closeVars
<1>23. ASSUME NEW d \in Dispatches, RefuseOpen(d) PROVE Goal
  BY <1>23, <1>k DEF RefuseOpen, runVars, closeVars
<1>24. ASSUME NEW d \in Dispatches, ExecuteOpen(d) PROVE Goal
  BY <1>24, <1>k DEF ExecuteOpen, runVars, closeVars
<1>25. ASSUME NEW d \in Dispatches, SendCleanup(d) PROVE Goal
  BY <1>25, <1>k DEF SendCleanup, runVars, closeVars
<1>26. ASSUME NEW d \in Dispatches, CleanupDrained(d) PROVE Goal
  BY <1>26, <1>k DEF CleanupDrained, runVars, closeVars
<1>27. ASSUME NEW d \in Dispatches, CleanupCompletes(d) PROVE Goal
  BY <1>27, <1>k DEF CleanupCompletes, runVars, closeVars
<1>28. ASSUME NEW d \in Dispatches, ExecuteCleanup(d) PROVE Goal
  BY <1>28, <1>k DEF ExecuteCleanup, runVars, closeVars
<1>29. ASSUME NEW c \in Closers, NEW s \in Sessions, BeginClose(c, s) PROVE Goal
  BY <1>29, <1>k DEF BeginClose, runVars, closeVars
<1>30. ASSUME NEW c \in Closers, Settle(c) PROVE Goal
  BY <1>30, <1>k DEF Settle, runVars, closeVars
<1>31. ASSUME NEW c \in Closers, SettleTimesOut(c) PROVE Goal
  BY <1>31, <1>k DEF SettleTimesOut, runVars, closeVars
<1>32. ASSUME NEW c \in Closers, CloseExpires(c) PROVE Goal
  BY <1>32, <1>k DEF CloseExpires, runVars, closeVars
<1>33. ASSUME NEW c \in Closers, CloseBindings(c) PROVE Goal
  BY <1>33, <1>k DEF CloseBindings, runVars, closeVars
<1>34. ASSUME NEW c \in Closers, FinishClose(c) PROVE Goal
  <2>1. PICK s \in Sessions : s = subject[c] /\ Ended(s) /\ ~Busy(s)
    BY <1>34, <1>1a DEF FinishClose, Places, SessionInv, DrainBarrier, Busy
  <2>2. CASE completed' = completed
    BY <2>2, <1>k
  <2>3. CASE failure[c] = {} /\ RecordCloseComplete(s, TRUE) /\ completed' = completed \cup {c}
    <3>1. close[c] = "draining" /\ \A p \in Pipelines : copy[c][p] = Nobody \/ goal[c][p] # "none"
      BY <1>34 DEF FinishClose, Remaining
    <3>2. \A p \in Pipelines : bindingId[s][p] = Nobody
      BY <2>1, <2>3, <3>1, <1>1a DEF RemainderInv
    <3>3. ~HasBindings(s)
      BY <2>1, <3>2, <1>1a DEF HasBindings, Bound, CoreType
    <3>4. session'[s] \in {"CLOSED", "GONE"}
      <4>1. CASE Known(s)
        <5>1. session' = [session EXCEPT ![s] = "CLOSED"]
          BY <2>1, <2>3, <3>3, <4>1 DEF RecordCloseComplete
        <5> QED BY <2>1, <5>1, <1>1a DEF CoreType
      <4>2. CASE ~Known(s)
        BY <2>1, <2>3, <4>2 DEF RecordCloseComplete, Known, Ended, coreVars
      <4> QED BY <4>1, <4>2
    <3> QED BY <2>1, <2>3, <3>4
  <2> QED BY <1>34, <2>1, <2>2, <2>3 DEF FinishClose
<1>35. ASSUME NEW c \in Closers, NEW p \in Pipelines, SendClose(c, p) PROVE Goal
  BY <1>35, <1>k DEF SendClose, runVars, closeVars
<1>36. ASSUME NEW c \in Closers, NEW p \in Pipelines, CloseRefused(c, p) PROVE Goal
  BY <1>36, <1>k DEF CloseRefused, runVars, closeVars
<1>37. ASSUME NEW c \in Closers, NEW p \in Pipelines, CloseFails(c, p) PROVE Goal
  BY <1>37, <1>k DEF CloseFails, runVars, closeVars
<1>38. ASSUME NEW c \in Closers, NEW p \in Pipelines, CloseDrained(c, p) PROVE Goal
  BY <1>38, <1>k DEF CloseDrained, runVars, closeVars
<1>39. ASSUME NEW c \in Closers, NEW p \in Pipelines, CloseUnknown(c, p) PROVE Goal
  BY <1>39, <1>k DEF CloseUnknown, runVars, closeVars
<1>40. ASSUME NEW c \in Closers, NEW p \in Pipelines, ExecuteClose(c, p) PROVE Goal
  BY <1>40, <1>k DEF ExecuteClose, runVars, closeVars
<1>41. ASSUME NEW p \in Pipelines, StatusArrives(p) PROVE Goal
  BY <1>41, <1>k DEF StatusArrives, runVars, closeVars
<1>42. ASSUME NEW p \in Pipelines, Reconcile(p) PROVE Goal
  BY <1>42, <1>k DEF Reconcile, runVars, closeVars
<1>43. ASSUME NEW p \in Pipelines, Reboot(p) PROVE Goal
  BY <1>43, <1>k DEF Reboot, runVars, closeVars
<1>44. CASE UNCHANGED vars
  BY <1>44, <1>k DEF vars, closeVars, runVars
<1> QED BY <1>1, <1>2, <1>3, <1>4, <1>5, <1>6, <1>7, <1>8, <1>9, <1>10, <1>11, <1>12, <1>13,
     <1>14, <1>15, <1>16, <1>17, <1>18, <1>19, <1>20, <1>21, <1>22, <1>23, <1>24, <1>25,
     <1>26, <1>27, <1>28, <1>29, <1>30, <1>31, <1>32, <1>33, <1>34, <1>35, <1>36, <1>37,
     <1>38, <1>39, <1>40, <1>41, <1>42, <1>43, <1>44 DEF Next, DispatchStep, DispatchWork,
     CleanupStep, CloserStep, CloseWork, PipelineStep

(* A Close that answers COMPLETED leaves its session CLOSED, or purged:    *)
(* nothing is left that it, or another Close beside it, has not drained.   *)
THEOREM CompletedClosed == Spec => CompletedIsClosed
BY SessionsInvariant, CompletedStep, PTL DEF Spec, CompletedIsClosed

-----------------------------------------------------------------------------
(* The leases of pipelines.                                                *)

\* Whether a pipeline is held, and by which session.
HolderIs ==
  \A p \in Pipelines :
    /\ \A s \in Sessions : bindingId[s][p] # Nobody => Holder(p) = s
    /\ (\A s \in Sessions : bindingId[s][p] = Nobody) => Holder(p) = Nobody

HoldersStayAt(p) == \A s \in Sessions : bindingId'[s][p] = Nobody <=> bindingId[s][p] = Nobody
TenantsStayAt(p) == \A x \in Dispatches : Tenant(x, p)' <=> Tenant(x, p)
HoldersStay == \A q \in Pipelines : HoldersStayAt(q)
TenantsStay == \A q \in Pipelines : TenantsStayAt(q)

\* A step changes holders, or tenants, and of one pipeline only.
LeaseMove ==
  \/ HoldersStay /\ TenantsStay
  \/ TenantsStay /\ \E p \in Pipelines : \A q \in Pipelines \ {p} : HoldersStayAt(q)
  \/ /\ HoldersStay
     /\ \E p \in Pipelines :
          /\ \A q \in Pipelines \ {p} : TenantsStayAt(q)
          /\ \A x \in Dispatches : Tenant(x, p)' => Tenant(x, p)
  \/ /\ HoldersStay
     /\ \E d \in Dispatches :
          /\ SendOpen(d)
          /\ \A q \in Pipelines, x \in Dispatches :
               Tenant(x, q)' <=> Tenant(x, q) \/ (x = d /\ at[d] = q /\ seen[d] = boot[q])

\* A pipeline with a binding on record has one session.
LEMMA HolderUnique == IInv => HolderIs
<1> SUFFICES ASSUME CoreType, OneHolder, NEW p \in Pipelines
             PROVE  /\ \A s \in Sessions : bindingId[s][p] # Nobody => Holder(p) = s
                    /\ (\A s \in Sessions : bindingId[s][p] = Nobody) => Holder(p) = Nobody
  BY TwoTypes DEF HolderIs, IInv, TypeInv, LeaseInv
<1>1. \A s \in Sessions : bindingId[s][p] # Nobody <=> Bound(s, p)
  BY DEF CoreType, Bound
<1>2. ASSUME NEW s \in Sessions, bindingId[s][p] # Nobody PROVE Holder(p) = s
  <2>1. \A r \in Sessions : Bound(r, p) => r = s
    BY <1>1, <1>2 DEF OneHolder
  <2>2. Bound(s, p)
    BY <1>1, <1>2
  <2> QED BY <2>1, <2>2 DEF Holder
<1>3. ASSUME \A s \in Sessions : bindingId[s][p] = Nobody PROVE Holder(p) = Nobody
  BY <1>1, <1>3 DEF Holder
<1> QED BY <1>2, <1>3

\* What a step is to the abstract lease.
LEMMA LeaseStep == IInv /\ [Next]_vars => LeaseMove
<1> SUFFICES ASSUME IInv, [Next]_vars PROVE LeaseMove
  OBVIOUS
<1>1a. CoreType /\ ThreadType /\ Places /\ GoalInv /\ BootInv
  BY TwoTypes DEF IInv, TypeInv
<1>h. ASSUME bindingId' = bindingId PROVE HoldersStay
  BY <1>h DEF HoldersStay, HoldersStayAt
<1>t. ASSUME UNCHANGED <<at, seen, open, served, boot>> PROVE TenantsStay
  BY <1>t DEF TenantsStay, TenantsStayAt, Tenant
<1>k. ASSUME UNCHANGED <<at, seen, open, served, boot>>, UNCHANGED bindingId PROVE LeaseMove
  BY <1>k, <1>h, <1>t DEF LeaseMove
<1>d. ASSUME UNCHANGED <<at, seen, open, served, boot>>, NEW s \in Sessions, NEW p \in Pipelines, Drops(s, p)
      PROVE  LeaseMove
  <2>1. \A q \in Pipelines \ {p} : HoldersStayAt(q)
    BY <1>d DEF Drops, HoldersStayAt
  <2> QED BY <1>d, <1>t, <2>1 DEF LeaseMove
<1>s. ASSUME UNCHANGED <<at, seen, open, boot, bindingId>>, NEW p \in Pipelines,
             served' = served \/ served' = [served EXCEPT ![p] = Nobody]
      PROVE  LeaseMove
  <2>1. \A q \in Pipelines \ {p} : TenantsStayAt(q)
    BY <1>s, <1>1a DEF TenantsStayAt, Tenant, ThreadType
  <2>2. \A x \in Dispatches : Tenant(x, p)' => Tenant(x, p)
    BY <1>s, <1>1a DEF Tenant, ThreadType
  <2> QED BY <1>s, <1>h, <2>1, <2>2 DEF LeaseMove
<1>1. ASSUME NEW s \in Sessions, OpenSession(s) PROVE LeaseMove
  BY <1>1, <1>k DEF OpenSession, coreVars, bindingVars, dispatchVars, openVars, pipelineVars
<1>2. ASSUME NEW d \in Dispatches, Begin(d) PROVE LeaseMove
  BY <1>2, <1>k DEF Begin, coreVars, bindingVars, dispatchVars, openVars, pipelineVars
<1>3. ASSUME NEW d \in Dispatches, ReadBoot(d) PROVE LeaseMove
  <2>a. \A x \in Dispatches \ {d} : at'[x] = at[x] /\ seen'[x] = seen[x]
    BY <1>3, <1>1a DEF ReadBoot, ThreadType
  <2>b. open[d] # "sent"
    BY <1>3, <1>1a DEF ReadBoot, GoalInv
  <2>1. /\ open' = [open EXCEPT ![d] = "none"]
        /\ UNCHANGED <<served, boot, bindingId>>
    BY <1>3 DEF ReadBoot, coreVars, bindingVars, pipelineVars
  <2>2. TenantsStay
    BY <2>a, <2>b, <2>1, <1>1a DEF TenantsStay, TenantsStayAt, Tenant, ThreadType
  <2> QED BY <2>1, <2>2, <1>h DEF LeaseMove
<1>4. ASSUME NEW d \in Dispatches, Exhausted(d) PROVE LeaseMove
  BY <1>4, <1>k DEF Exhausted, Answers, Answered, coreVars, bindingVars, dispatchVars,
     openVars, pipelineVars
<1>5. ASSUME NEW d \in Dispatches, PrepareFails(d) PROVE LeaseMove
  BY <1>5, <1>k DEF PrepareFails, Answers, Answered, coreVars, bindingVars, dispatchVars,
     openVars, pipelineVars
<1>6. ASSUME NEW d \in Dispatches, PrepareSkips(d) PROVE LeaseMove
  BY <1>6, <1>k DEF PrepareSkips, Goes, Preparing, coreVars, bindingVars, dispatchVars,
     openVars, pipelineVars
<1>7. ASSUME NEW d \in Dispatches, PrepareUses(d) PROVE LeaseMove
  BY <1>7, <1>k DEF PrepareUses, Goes, Preparing, coreVars, bindingVars, dispatchVars,
     openVars, pipelineVars
<1>8. ASSUME NEW d \in Dispatches, PrepareWaits(d) PROVE LeaseMove
  BY <1>8, <1>k DEF PrepareWaits, Goes, Preparing, coreVars, bindingVars, dispatchVars,
     openVars, pipelineVars
<1>9. ASSUME NEW d \in Dispatches, PrepareOpens(d) PROVE LeaseMove
  <2>1. /\ at[d] \in Pipelines /\ UNCHANGED <<at, seen, open, served, boot>>
        /\ bindingId' = [bindingId EXCEPT ![SessionOf[d]][at[d]] = d]
    BY <1>9, <1>1a DEF PrepareOpens, Preparing, Goes, Places, Trying, openVars, pipelineVars
  <2>2. \A q \in Pipelines \ {at[d]} : HoldersStayAt(q)
    BY <2>1, <1>1a DEF HoldersStayAt, CoreType
  <2> QED BY <2>1, <2>2, <1>t DEF LeaseMove
<1>10. ASSUME NEW d \in Dispatches, AwaitOpen(d) PROVE LeaseMove
  <2>1. /\ open[d] # "sent" /\ UNCHANGED <<at, open, served, boot, bindingId>>
        /\ \A x \in Dispatches \ {d} : seen'[x] = seen[x]
    BY <1>10, <1>1a DEF AwaitOpen, GoalInv, ThreadType, coreVars, bindingVars, openVars, pipelineVars
  <2>2. TenantsStay
    BY <2>1, <1>1a DEF TenantsStay, TenantsStayAt, Tenant
  <2> QED BY <2>1, <2>2, <1>h DEF LeaseMove
<1>11. ASSUME NEW d \in Dispatches, Refuse(d) PROVE LeaseMove
  <2>1. ReleaseBinding(d) /\ at[d] \in Pipelines /\ SessionOf[d] \in Sessions
    BY <1>11, <1>1a DEF Refuse, Places, Trying
  <2>2. bindingId' = bindingId \/ Drops(SessionOf[d], at[d])
    BY <2>1, <1>1a, ReleaseEffect DEF KeepsIds, bindingVars
  <2>3. UNCHANGED <<at, seen, open, served, boot>>
    BY <1>11 DEF Refuse, dispatchVars, openVars, pipelineVars
  <2> QED BY <2>1, <2>2, <2>3, <1>k, <1>d
<1>12. ASSUME NEW d \in Dispatches, SendOpen(d) PROVE LeaseMove
  <2>1. /\ open' = [open EXCEPT ![d] = "sent"] /\ UNCHANGED <<at, seen, served, boot, bindingId>>
    BY <1>12 DEF SendOpen, Goes, coreVars, bindingVars, pipelineVars
  <2>2. \A q \in Pipelines, x \in Dispatches :
          Tenant(x, q)' <=> Tenant(x, q) \/ (x = d /\ at[d] = q /\ seen[d] = boot[q])
    BY <2>1, <1>1a DEF Tenant, ThreadType
  <2> QED BY <1>12, <2>1, <2>2, <1>h DEF LeaseMove
<1>13. ASSUME NEW d \in Dispatches, OpenNotStarted(d) PROVE LeaseMove
  <2>1. ReleaseBinding(d) /\ at[d] \in Pipelines /\ SessionOf[d] \in Sessions
    BY <1>13, <1>1a DEF OpenNotStarted, Places, Trying
  <2>2. bindingId' = bindingId \/ Drops(SessionOf[d], at[d])
    BY <2>1, <1>1a, ReleaseEffect DEF KeepsIds, bindingVars
  <2>3. UNCHANGED <<at, seen, open, served, boot>>
    BY <1>13 DEF OpenNotStarted, Goes, dispatchVars, openVars, pipelineVars
  <2> QED BY <2>1, <2>2, <2>3, <1>k, <1>d
<1>14. ASSUME NEW d \in Dispatches, OpenFails(d) PROVE LeaseMove
  <2>1. MarkSessionFailed(SessionOf[d], {at[d]}) /\ at[d] \in Pipelines /\ SessionOf[d] \in Sessions
    BY <1>14, <1>1a DEF OpenFails, Places, Trying
  <2>2. bindingId' = bindingId
    BY <2>1, <1>1a, MarkEffect DEF KeepsIds, bindingVars
  <2>3. UNCHANGED <<at, seen, open, served, boot>>
    BY <1>14 DEF OpenFails, Answers, Answered, dispatchVars, openVars, pipelineVars
  <2> QED BY <2>1, <2>2, <2>3, <1>k
<1>15. ASSUME NEW d \in Dispatches, OpenSucceeds(d) PROVE LeaseMove
  BY <1>15, <1>k DEF OpenSucceeds, Goes, Answers, Answered, coreVars, bindingVars, dispatchVars,
     openVars, pipelineVars
<1>16. ASSUME NEW d \in Dispatches, ReadBinding(d) PROVE LeaseMove
  BY <1>16, <1>k DEF ReadBinding, Goes, AnswersUnknown, Answered, coreVars, bindingVars,
     dispatchVars, openVars, pipelineVars
<1>17. ASSUME NEW d \in Dispatches, DispatchNotStarted(d) PROVE LeaseMove
  BY <1>17, <1>k DEF DispatchNotStarted, Goes, coreVars, bindingVars, dispatchVars, openVars,
     pipelineVars
<1>18. ASSUME NEW d \in Dispatches, DispatchCompletes(d) PROVE LeaseMove
  BY <1>18, <1>k DEF DispatchCompletes, Answers, Answered, coreVars, bindingVars, dispatchVars,
     openVars, pipelineVars
<1>19. ASSUME NEW d \in Dispatches, DispatchUnknown(d) PROVE LeaseMove
  <2>1. MarkSessionFailed(SessionOf[d], {at[d]}) /\ at[d] \in Pipelines /\ SessionOf[d] \in Sessions
    BY <1>19, <1>1a DEF DispatchUnknown, Places, Trying
  <2>2. bindingId' = bindingId
    BY <2>1, <1>1a, MarkEffect DEF KeepsIds, bindingVars
  <2>3. UNCHANGED <<at, seen, open, served, boot>>
    BY <1>19 DEF DispatchUnknown, AnswersUnknown, Answered, dispatchVars, openVars, pipelineVars
  <2> QED BY <2>1, <2>2, <2>3, <1>k
<1>20. ASSUME NEW d \in Dispatches, Leave(d) PROVE LeaseMove
  BY <1>20, <1>k DEF Leave, Goes, coreVars, bindingVars, dispatchVars, openVars, pipelineVars
<1>21. ASSUME NEW d \in Dispatches, AwaitTimesOut(d) PROVE LeaseMove
  BY <1>21, <1>k DEF AwaitTimesOut, Goes, coreVars, bindingVars, dispatchVars, openVars,
     pipelineVars
<1>22. ASSUME NEW d \in Dispatches, OpenUnknown(d) PROVE LeaseMove
  <2>1. MarkSessionFailed(SessionOf[d], {at[d]}) /\ at[d] \in Pipelines /\ SessionOf[d] \in Sessions
    BY <1>22, <1>1a DEF OpenUnknown, Places, Trying
  <2>2. bindingId' = bindingId
    BY <2>1, <1>1a, MarkEffect DEF KeepsIds, bindingVars
  <2>3. UNCHANGED <<at, seen, open, served, boot>>
    BY <1>22 DEF OpenUnknown, AnswersUnknown, Answered, dispatchVars, openVars, pipelineVars
  <2> QED BY <2>1, <2>2, <2>3, <1>k
<1>23. ASSUME NEW d \in Dispatches, RefuseOpen(d) PROVE LeaseMove
  <2>1. /\ open[d] = "sent" /\ open' = [open EXCEPT ![d] = "refused"]
        /\ UNCHANGED <<at, seen, served, boot, bindingId>>
    BY <1>23 DEF RefuseOpen, coreVars, bindingVars, dispatchVars, pipelineVars
  <2>2. PICK p \in Pipelines : p = at[d]
    BY <2>1, <1>1a DEF Places
  <2>3. \A q \in Pipelines \ {p} : TenantsStayAt(q)
    BY <2>1, <2>2, <1>1a DEF TenantsStayAt, Tenant, ThreadType
  <2>4. \A x \in Dispatches : Tenant(x, p)' => Tenant(x, p)
    BY <2>1, <1>1a DEF Tenant, ThreadType
  <2> QED BY <2>1, <2>3, <2>4, <1>h DEF LeaseMove
<1>24. ASSUME NEW d \in Dispatches, ExecuteOpen(d) PROVE LeaseMove
  <2>1. /\ open[d] = "sent" /\ seen[d] = boot[at[d]] /\ served[at[d]] = Nobody
        /\ \E result \in {"succeeded", "failed"} : open' = [open EXCEPT ![d] = result]
        /\ served' = [served EXCEPT ![at[d]] = d]
        /\ UNCHANGED <<at, seen, boot, bindingId>>
    BY <1>24 DEF ExecuteOpen, coreVars, bindingVars, dispatchVars
  <2>2. at[d] \in Pipelines
    BY <2>1, <1>1a DEF Places
  <2>3. TenantsStay
    BY <2>1, <2>2, <1>1a DEF TenantsStay, TenantsStayAt, Tenant, ThreadType
  <2> QED BY <2>1, <2>3, <1>h DEF LeaseMove
<1>25. ASSUME NEW d \in Dispatches, SendCleanup(d) PROVE LeaseMove
  BY <1>25, <1>k DEF SendCleanup, coreVars, bindingVars, dispatchVars, openVars, pipelineVars
<1>26. ASSUME NEW d \in Dispatches, CleanupDrained(d) PROVE LeaseMove
  <2>1. RecordBindingClosed(SessionOf[d], at[d]) /\ at[d] \in Pipelines /\ SessionOf[d] \in Sessions
    BY <1>26, <1>1a DEF CleanupDrained, Places, GoalInv
  <2>2. bindingId' = bindingId \/ Drops(SessionOf[d], at[d])
    BY <2>1, <1>1a, ClosedEffect DEF KeepsIds, bindingVars
  <2>3. UNCHANGED <<at, seen, open, served, boot>>
    BY <1>26 DEF CleanupDrained, dispatchVars, openVars, pipelineVars
  <2> QED BY <2>1, <2>2, <2>3, <1>k, <1>d
<1>27. ASSUME NEW d \in Dispatches, CleanupCompletes(d) PROVE LeaseMove
  <2>1. RecordCloseComplete(SessionOf[d], TRUE) /\ SessionOf[d] \in Sessions
    BY <1>27, <1>1a DEF CleanupCompletes, Places
  <2>2. bindingId' = bindingId
    BY <2>1, <1>1a, CompleteEffect DEF KeepsIds, bindingVars
  <2>3. UNCHANGED <<at, seen, open, served, boot>>
    BY <1>27 DEF CleanupCompletes, dispatchVars, openVars, pipelineVars
  <2> QED BY <2>1, <2>2, <2>3, <1>k
<1>28. ASSUME NEW d \in Dispatches, ExecuteCleanup(d) PROVE LeaseMove
  <2>1. PICK result \in GoalStates : Drain(at[d], d, seen[d], result)
    BY <1>28 DEF ExecuteCleanup
  <2>2. boot' = boot /\ (served' = served \/ served' = [served EXCEPT ![at[d]] = Nobody])
    BY <2>1 DEF Drain, pipelineVars
  <2>3. at[d] \in Pipelines
    BY <1>28, <1>1a DEF ExecuteCleanup, GoalInv, Places
  <2> QED BY <1>28, <2>2, <2>3, <1>s DEF ExecuteCleanup, coreVars, bindingVars, dispatchVars
<1>29. ASSUME NEW c \in Closers, NEW s \in Sessions, BeginClose(c, s) PROVE LeaseMove
  BY <1>29, <1>k DEF BeginClose, CloseGoes, coreVars, bindingVars, dispatchVars, openVars,
     pipelineVars
<1>30. ASSUME NEW c \in Closers, Settle(c) PROVE LeaseMove
  BY <1>30, <1>k DEF Settle, CloseGoes, coreVars, bindingVars, dispatchVars, openVars,
     pipelineVars
<1>31. ASSUME NEW c \in Closers, SettleTimesOut(c) PROVE LeaseMove
  BY <1>31, <1>k DEF SettleTimesOut, CloseGoes, coreVars, bindingVars, dispatchVars, openVars,
     pipelineVars
<1>32. ASSUME NEW c \in Closers, CloseExpires(c) PROVE LeaseMove
  <2>1. MarkSessionFailed(subject[c], Pipelines) /\ subject[c] \in Sessions
    BY <1>32, <1>1a DEF CloseExpires, Places
  <2>2. bindingId' = bindingId
    BY <2>1, <1>1a, MarkEffect DEF KeepsIds, bindingVars
  <2>3. UNCHANGED <<at, seen, open, served, boot>>
    BY <1>32 DEF CloseExpires, dispatchVars, openVars, pipelineVars
  <2> QED BY <2>1, <2>2, <2>3, <1>k
<1>33. ASSUME NEW c \in Closers, CloseBindings(c) PROVE LeaseMove
  BY <1>33, <1>k DEF CloseBindings, CloseGoes, coreVars, bindingVars, dispatchVars, openVars,
     pipelineVars
<1>34. ASSUME NEW c \in Closers, FinishClose(c) PROVE LeaseMove
  <2>1. subject[c] \in Sessions
    BY <1>34, <1>1a DEF FinishClose, Places
  <2>2. UNCHANGED bindingVars
    BY <1>34, <2>1, <1>1a, CompleteEffect DEF FinishClose, RecordCloseNotStarted, coreVars
  <2> QED BY <1>34, <2>2, <1>k DEF FinishClose, bindingVars, dispatchVars, openVars, pipelineVars
<1>35. ASSUME NEW c \in Closers, NEW p \in Pipelines, SendClose(c, p) PROVE LeaseMove
  BY <1>35, <1>k DEF SendClose, CloseGoes, coreVars, bindingVars, dispatchVars, openVars,
     pipelineVars
<1>36. ASSUME NEW c \in Closers, NEW p \in Pipelines, CloseRefused(c, p) PROVE LeaseMove
  BY <1>36, <1>k DEF CloseRefused, CloseGoes, coreVars, bindingVars, dispatchVars, openVars,
     pipelineVars
<1>37. ASSUME NEW c \in Closers, NEW p \in Pipelines, CloseFails(c, p) PROVE LeaseMove
  <2>1. MarkSessionFailed(subject[c], {p}) /\ subject[c] \in Sessions
    BY <1>37, <1>1a DEF CloseFails, Places
  <2>2. bindingId' = bindingId
    BY <2>1, <1>1a, MarkEffect DEF KeepsIds, bindingVars
  <2>3. UNCHANGED <<at, seen, open, served, boot>>
    BY <1>37 DEF CloseFails, dispatchVars, openVars, pipelineVars
  <2> QED BY <2>1, <2>2, <2>3, <1>k
<1>38. ASSUME NEW c \in Closers, NEW p \in Pipelines, CloseDrained(c, p) PROVE LeaseMove
  <2>1. RecordBindingClosed(subject[c], p) /\ subject[c] \in Sessions
    BY <1>38, <1>1a DEF CloseDrained, Places
  <2>2. bindingId' = bindingId \/ Drops(subject[c], p)
    BY <2>1, <1>1a, ClosedEffect DEF KeepsIds, bindingVars
  <2>3. UNCHANGED <<at, seen, open, served, boot>>
    BY <1>38 DEF CloseDrained, dispatchVars, openVars, pipelineVars
  <2> QED BY <2>1, <2>2, <2>3, <1>k, <1>d
<1>39. ASSUME NEW c \in Closers, NEW p \in Pipelines, CloseUnknown(c, p) PROVE LeaseMove
  <2>1. MarkSessionFailed(subject[c], {p}) /\ subject[c] \in Sessions
    BY <1>39, <1>1a DEF CloseUnknown, Places
  <2>2. bindingId' = bindingId
    BY <2>1, <1>1a, MarkEffect DEF KeepsIds, bindingVars
  <2>3. UNCHANGED <<at, seen, open, served, boot>>
    BY <1>39 DEF CloseUnknown, dispatchVars, openVars, pipelineVars
  <2> QED BY <2>1, <2>2, <2>3, <1>k
<1>40. ASSUME NEW c \in Closers, NEW p \in Pipelines, ExecuteClose(c, p) PROVE LeaseMove
  <2>1. PICK result \in GoalStates : Drain(p, copy[c][p], copyBoot[c][p], result)
    BY <1>40 DEF ExecuteClose
  <2>2. boot' = boot /\ (served' = served \/ served' = [served EXCEPT ![p] = Nobody])
    BY <2>1 DEF Drain, pipelineVars
  <2> QED BY <1>40, <2>2, <1>s DEF ExecuteClose, coreVars, bindingVars, dispatchVars, openVars
<1>41. ASSUME NEW p \in Pipelines, StatusArrives(p) PROVE LeaseMove
  BY <1>41, <1>k DEF StatusArrives, coreVars, bindingVars, dispatchVars, openVars, pipelineVars
<1>42. ASSUME NEW p \in Pipelines, Reconcile(p) PROVE LeaseMove
  <2>1. UNCHANGED <<at, seen, open, served, boot>>
    BY <1>42 DEF Reconcile, dispatchVars, openVars, pipelineVars
  <2>2. \A s \in Sessions, q \in Pipelines \ {p} : bindingId'[s][q] = bindingId[s][q]
    BY <1>42, <1>1a DEF Reconcile, CoreType
  <2> QED BY <2>1, <2>2, <1>t DEF LeaseMove, HoldersStayAt
<1>43. ASSUME NEW p \in Pipelines, Reboot(p) PROVE LeaseMove
  <2>1. /\ boot' = [boot EXCEPT ![p] = boot[p] + 1] /\ served' = [served EXCEPT ![p] = Nobody]
        /\ UNCHANGED <<at, seen, open, bindingId>>
    BY <1>43 DEF Reboot, coreVars, bindingVars, dispatchVars, openVars
  <2>2. \A x \in Dispatches : at[x] = p => seen[x] <= status[p] /\ seen[x] \in Nat
    BY <1>1a DEF BootInv, ThreadType
  <2>3. status[p] \in Nat /\ boot[p] \in Nat /\ status[p] <= boot[p] /\ boot'[p] = boot[p] + 1
    BY <2>1, <1>1a DEF BootInv, ThreadType
  <2>4. \A x \in Dispatches : at[x] = p => seen[x] # boot'[p]
    BY <2>2, <2>3
  <2>5. \A x \in Dispatches : ~Tenant(x, p)'
    BY <2>1, <2>4, <1>1a DEF Tenant, ThreadType
  <2>6. \A q \in Pipelines \ {p} : TenantsStayAt(q)
    BY <2>1 DEF TenantsStayAt, Tenant
  <2> QED BY <2>1, <2>5, <2>6, <1>h DEF LeaseMove
<1>44. CASE UNCHANGED vars
  BY <1>44, <1>k DEF vars, coreVars, bindingVars, dispatchVars, openVars, pipelineVars
<1> QED BY <1>1, <1>2, <1>3, <1>4, <1>5, <1>6, <1>7, <1>8, <1>9, <1>10, <1>11, <1>12, <1>13,
     <1>14, <1>15, <1>16, <1>17, <1>18, <1>19, <1>20, <1>21, <1>22, <1>23, <1>24, <1>25,
     <1>26, <1>27, <1>28, <1>29, <1>30, <1>31, <1>32, <1>33, <1>34, <1>35, <1>36, <1>37,
     <1>38, <1>39, <1>40, <1>41, <1>42, <1>43, <1>44 DEF Next, DispatchStep, DispatchWork,
     CleanupStep, CloserStep, CloseWork, PipelineStep

\* A pipeline has one tenant at most, a binding of its holder.
LEMMA OneTenant ==
  ASSUME IInv, NEW p \in Pipelines, NEW d \in Dispatches, Tenant(d, p)
  PROVE  /\ bindingId[SessionOf[d]][p] = d
         /\ Tenants(p) = {d}
<1>1. OneHolder /\ ViableInv
  BY DEF IInv, LeaseInv
<1>2. \A x \in Dispatches : Tenant(x, p) => bindingId[SessionOf[x]][p] = x
  BY <1>1 DEF ViableInv, Viable
<1>3. \A x \in Dispatches : Tenant(x, p) => x = d
  BY <1>1, <1>2 DEF OneHolder
<1> QED BY <1>2, <1>3 DEF Tenants, Tenant

(* The core implements the lease: a pipeline is leased to one session at a *)
(* time, one binding of it moves in at a time, and the lease is given up   *)
(* only when nothing lives there nor can move in any more.                 *)
THEOREM ImplementsLease == Spec => LeasesPipelines
<1>1. Init => Lease!LeaseInit
  <2> SUFFICES ASSUME Init, NEW p \in Pipelines PROVE Holder(p) = Nobody /\ Tenants(p) = {}
    BY DEF Lease!LeaseInit
  <2>1. Holder(p) = Nobody
    BY DEF Init, Holder, Bound
  <2>2. Tenants(p) = {}
    BY DEF Init, Tenants
  <2> QED BY <2>1, <2>2
<1>2. IInv /\ HolderIs /\ HolderIs' /\ [Next]_vars => [Lease!LeaseNext]_(Lease!leaseVars)
  <2> SUFFICES ASSUME IInv, HolderIs, HolderIs', [Next]_vars
               PROVE  [Lease!LeaseNext]_(Lease!leaseVars)
    OBVIOUS
  <2> DEFINE H == [q \in Pipelines |-> Holder(q)]
             T == [q \in Pipelines |-> Tenants(q)]
  <2>1. LeaseMove /\ BindingsMove
    BY LeaseStep, BindingsStep
  <2>2. ASSUME NEW q \in Pipelines, HoldersStayAt(q) PROVE Holder(q)' = Holder(q)
    <3>1. CASE \E s \in Sessions : bindingId[s][q] # Nobody
      BY <2>2, <3>1 DEF HoldersStayAt, HolderIs
    <3>2. CASE \A s \in Sessions : bindingId[s][q] = Nobody
      BY <2>2, <3>2 DEF HoldersStayAt, HolderIs
    <3> QED BY <3>1, <3>2
  <2>3. ASSUME NEW q \in Pipelines, TenantsStayAt(q) PROVE Tenants(q)' = Tenants(q)
    BY <2>3 DEF TenantsStayAt, Tenants, Tenant
  <2>4. CASE HoldersStay /\ TenantsStay
    <3>1. H' = H /\ T' = T
      BY <2>2, <2>3, <2>4 DEF HoldersStay, TenantsStay
    <3> QED BY <3>1 DEF Lease!leaseVars
  <2>5. ASSUME TenantsStay, NEW p \in Pipelines, \A q \in Pipelines \ {p} : HoldersStayAt(q)
        PROVE  [Lease!LeaseNext]_(Lease!leaseVars)
    <3>1. T' = T /\ \A q \in Pipelines \ {p} : Holder(q)' = Holder(q)
      BY <2>2, <2>3, <2>5 DEF TenantsStay
    <3>2. CASE HoldersStayAt(p)
      <4>1. H' = H
        BY <2>2, <3>1, <3>2
      <4> QED BY <3>1, <4>1 DEF Lease!leaseVars
    <3>3. ASSUME NEW s \in Sessions, bindingId[s][p] = Nobody, bindingId'[s][p] # Nobody
          PROVE  Lease!Grant(p, s)
      <4>1. Creates(s, p)
        BY <2>1, <3>3 DEF BindingsMove, Stays, Loses
      <4>2. Holder(p) = Nobody /\ Holder(p)' = s
        BY <3>3, <4>1 DEF Creates, HolderIs
      <4>3. H' = [H EXCEPT ![p] = s]
        BY <3>1, <4>2
      <4> QED BY <3>1, <4>2, <4>3 DEF Lease!Grant
    <3>4. ASSUME NEW s \in Sessions, bindingId[s][p] # Nobody, bindingId'[s][p] = Nobody
          PROVE  Lease!Return(p)
      <4>1. Holder(p) = s /\ s # Nobody
        BY <3>4 DEF HolderIs
      <4>2. \A r \in Sessions : bindingId'[r][p] = Nobody
        <5>1. \A r \in Sessions : ~Creates(r, p)
          BY <3>4 DEF Creates
        <5>2. \A r \in Sessions \ {s} : bindingId[r][p] = Nobody
          BY <3>4 DEF IInv, LeaseInv, OneHolder
        <5> QED BY <2>1, <3>4, <5>1, <5>2 DEF BindingsMove, Stays, Loses
      <4>3. Holder(p)' = Nobody
        BY <4>2 DEF HolderIs
      <4>4. Tenants(p) = {}
        <5>1. SUFFICES ASSUME NEW x \in Dispatches, Tenant(x, p) PROVE FALSE
          BY DEF Tenants, Tenant
        <5>2. bindingId[SessionOf[x]][p] = x /\ Viable(x, p)'
          BY <2>5, <5>1, OneTenant DEF TenantsStay, TenantsStayAt, Viable
        <5>3. bindingId'[SessionOf[x]][p] = Nobody
          BY <4>2
        <5> QED BY <2>1, <5>2, <5>3 DEF BindingsMove, Stays, Loses, Creates
      <4>5. H' = [H EXCEPT ![p] = Nobody]
        BY <3>1, <4>3
      <4> QED BY <3>1, <4>1, <4>4, <4>5 DEF Lease!Return
    <3> QED BY <3>2, <3>3, <3>4 DEF HoldersStayAt, Lease!LeaseNext
  <2>6. ASSUME HoldersStay, NEW p \in Pipelines, \A q \in Pipelines \ {p} : TenantsStayAt(q),
               \A x \in Dispatches : Tenant(x, p)' => Tenant(x, p)
        PROVE  [Lease!LeaseNext]_(Lease!leaseVars)
    <3>1. H' = H /\ \A q \in Pipelines \ {p} : Tenants(q)' = Tenants(q)
      BY <2>2, <2>3, <2>6 DEF HoldersStay
    <3>2. CASE TenantsStayAt(p)
      <4>1. T' = T
        BY <2>3, <3>1, <3>2
      <4> QED BY <3>1, <4>1 DEF Lease!leaseVars
    <3>3. CASE ~TenantsStayAt(p)
      <4>1. PICK d \in Dispatches : Tenant(d, p) /\ ~Tenant(d, p)'
        BY <2>6, <3>3 DEF TenantsStayAt
      <4>2. Tenants(p) = {d}
        BY <4>1, OneTenant
      <4>3. Tenants(p)' = {}
        BY <2>6, <4>1, <4>2 DEF Tenants, Tenant
      <4>4. T' = [T EXCEPT ![p] = {}]
        BY <3>1, <4>3
      <4> QED BY <3>1, <4>4 DEF Lease!MoveOut, Lease!LeaseNext
    <3> QED BY <3>2, <3>3
  <2>7. ASSUME HoldersStay, NEW d \in Dispatches, SendOpen(d),
               \A q \in Pipelines, x \in Dispatches :
                 Tenant(x, q)' <=> Tenant(x, q) \/ (x = d /\ at[d] = q /\ seen[d] = boot[q])
        PROVE  [Lease!LeaseNext]_(Lease!leaseVars)
    <3>1. H' = H /\ pc[d] = "prepared"
      BY <2>2, <2>7 DEF HoldersStay, SendOpen
    <3>2. PICK p \in Pipelines : p = at[d]
      BY <3>1 DEF IInv, TypeInv, Places, Trying
    <3>3. \A q \in Pipelines \ {p} : TenantsStayAt(q)
      BY <2>7, <3>2 DEF TenantsStayAt
    <3>4. \A q \in Pipelines \ {p} : Tenants(q)' = Tenants(q)
      BY <2>3, <3>3
    <3>5. CASE seen[d] # boot[p]
      <4>1. TenantsStayAt(p)
        BY <2>7, <3>2, <3>5 DEF TenantsStayAt
      <4>2. Tenants(p)' = Tenants(p)
        BY <2>3, <4>1
      <4>3. T' = T
        BY <3>4, <4>2
      <4> QED BY <3>1, <4>3 DEF Lease!leaseVars
    <3>6. CASE seen[d] = boot[p]
      <4>1. bindingId[SessionOf[d]][p] = d
        BY <3>1, <3>2, <3>6 DEF IInv, LeaseInv, ViableInv, Viable
      <4>2. Holder(p) = SessionOf[d]
        BY <4>1 DEF HolderIs
      <4>3. ~Tenant(d, p)
        BY <3>1, <3>2 DEF Tenant, IInv, GoalInv
      <4>4. ASSUME NEW x \in Dispatches, Tenant(x, p) PROVE FALSE
        <5>1. bindingId[SessionOf[x]][p] = x
          BY <4>4, OneTenant
        <5>2. SessionOf[x] = SessionOf[d]
          BY <4>1, <5>1 DEF IInv, LeaseInv, OneHolder
        <5> QED BY <4>1, <4>3, <4>4, <5>1, <5>2
      <4>5. Tenants(p) = {}
        BY <4>4 DEF Tenants, Tenant
      <4>6. Tenants(p)' = {d}
        BY <2>7, <3>2, <3>6, <4>4 DEF Tenants, Tenant
      <4>7. T' = [T EXCEPT ![p] = {d}]
        BY <3>4, <4>6
      <4> QED BY <3>1, <4>2, <4>5, <4>7 DEF Lease!MoveIn, Lease!LeaseNext
    <3> QED BY <3>5, <3>6
  <2> HIDE DEF H, T
  <2> QED BY <2>1, <2>4, <2>5, <2>6, <2>7 DEF LeaseMove
<1> QED BY SessionsInvariant, HolderUnique, <1>1, <1>2, PTL DEF Spec, LeasesPipelines, Lease!LeaseSpec

=============================================================================

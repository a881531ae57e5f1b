---------------------------- MODULE RequestLedger ----------------------------
(***************************************************************************)
(* IdempotencyLedger and execute_resolved_action: goals that carry the key *)
(* of a request run it, join a run that is under way, or are answered from *)
(* a bounded record of the runs that have ended.  The Global scheduler and *)
(* every pipeline policy node have such a ledger in front of their Open,   *)
(* Dispatch and Close.                                                     *)
(*                                                                         *)
(* A ledger entry is named by the goal that created it.  Every goal is one *)
(* callback on its own thread; the steps are the critical sections of the  *)
(* ledger's lock, and the run of the request lies between two of them.     *)
(***************************************************************************)
EXTENDS Naturals, FiniteSets

CONSTANTS
  Goals,              \* attempts, each with its own callback
  Keys,               \* request keys
  KeyOf,              \* the key of each goal
  PayloadOf,          \* the fingerprint of each goal's payload
  OpenKeys,           \* the keys of Open requests
  SessionOf,          \* the session each key belongs to
  NoGoal,
  MaxSessionRecords,  \* max_session_records
  MaxWaiters,         \* max_duplicate_waiters_per_request
  MaxEntries,         \* max_entries
  MaxTerminals        \* max_terminal_entries_per_session

ASSUME LedgerAssumption ==
  /\ KeyOf \in [Goals -> Keys] /\ OpenKeys \subseteq Keys
  /\ NoGoal \notin Goals /\ IsFiniteSet(Goals)
ASSUME BoundAssumption ==
  /\ MaxSessionRecords \in Nat \ {0} /\ MaxWaiters \in Nat \ {0}
  /\ MaxEntries \in Nat \ {0} /\ MaxTerminals \in Nat \ {0}

VARIABLES
  entries,   \* _entries: the goal whose entry is under each key, or NoGoal
  outcome,   \* how the run of each goal's entry ended, "none" before
  older,     \* the terminal entries that ended before each terminal entry
  waiters,   \* waiter_count of the entry
  goal,      \* where each goal is
  joined,    \* the entry a goal waits for
  answer,    \* what the goal was told
  evicted    \* keys of which a terminal entry has ever been evicted

vars == <<entries, outcome, older, waiters, goal, joined, answer, evicted>>

Outcomes == {"completed", "not_started", "unknown"}

\* Outcomes after which the request may have had an effect.
Effective == {"completed", "unknown"}

Init ==
  /\ entries = [k \in Keys |-> NoGoal]
  /\ outcome = [g \in Goals |-> "none"]
  /\ older = [k \in Keys |-> {}]
  /\ waiters = [g \in Goals |-> 0]
  /\ goal = [g \in Goals |-> "new"]
  /\ joined = [g \in Goals |-> NoGoal]
  /\ answer = [g \in Goals |-> "none"]
  /\ evicted = {}

-----------------------------------------------------------------------------
(* The table.                                                              *)

Used(t) == {k \in Keys : t[k] # NoGoal}

Terminal(t) == {k \in Used(t) : outcome[t[k]] # "none"}

Without(t, gone) == [k \in Keys |-> IF k \in gone THEN NoGoal ELSE t[k]]

\* (Mutant) Retention counts from the start of the request.
ExpiredActive(t) == SUBSET Used(t)

\* What may be past its retention: the terminal entries that ended up to
\* some point in time.
Expired(t) == {gone \in SUBSET Terminal(t) : \A k \in gone : older[k] \subseteq gone}

\* The oldest terminal entries of the session, so that one more fits.
Overflow(t, k) ==
  IF k \in OpenKeys THEN {} ELSE
    LET ended == {j \in Terminal(t) \ OpenKeys : SessionOf[j] = SessionOf[k]}
    IN  {j \in ended : Cardinality({i \in ended : j \in older[i]}) >= MaxTerminals - 1}

\* The order among the terminal entries of a table.
Ordered(t) ==
  [k \in Keys |-> IF k \in Terminal(t) THEN older[k] \cap Terminal(t) ELSE {}]

Full(t, k) ==
  \/ k \in OpenKeys /\ Cardinality(Used(t) \cap OpenKeys) >= MaxSessionRecords
  \/ Cardinality(Used(t)) >= MaxEntries

-----------------------------------------------------------------------------
(* resolve(), with the answers execute_resolved_action gives at once.      *)

Tell(g, o) ==
  /\ goal' = [goal EXCEPT ![g] = "answered"]
  /\ answer' = [answer EXCEPT ![g] = o]
  /\ UNCHANGED <<outcome, waiters, joined>>

\* (Mutant) The fingerprint is not compared.
SamePayloadAssumed(g, e) == TRUE

SamePayload(g, e) == PayloadOf[e] = PayloadOf[g]

Attach(g, e) ==
  /\ waiters[e] < MaxWaiters
  /\ waiters' = [waiters EXCEPT ![e] = @ + 1]
  /\ joined' = [joined EXCEPT ![g] = e]
  /\ goal' = [goal EXCEPT ![g] = "waiting"]
  /\ UNCHANGED <<outcome, answer>>

\* A conflict, the replay of a terminal, or a place among the waiters.
Hit(g, e) ==
  \/ ~SamePayload(g, e) /\ Tell(g, "not_started")
  \/ SamePayload(g, e) /\ outcome[e] # "none" /\ Tell(g, outcome[e])
  \/ SamePayload(g, e) /\ outcome[e] = "none" /\ Attach(g, e)
  \/ SamePayload(g, e) /\ outcome[e] = "none" /\ waiters[e] >= MaxWaiters /\ Tell(g, "not_started")

Create(g) ==
  /\ waiters' = [waiters EXCEPT ![g] = 1]
  /\ goal' = [goal EXCEPT ![g] = "running"]
  /\ UNCHANGED <<outcome, joined, answer>>

Found(g, t) ==
  /\ t[KeyOf[g]] # NoGoal
  /\ Hit(g, t[KeyOf[g]])
  /\ entries' = t

Missed(g, t) ==
  /\ t[KeyOf[g]] = NoGoal
  /\ LET kept == Without(t, Overflow(t, KeyOf[g])) IN
       \/ Full(kept, KeyOf[g]) /\ Tell(g, "not_started") /\ entries' = kept
       \/ ~Full(kept, KeyOf[g]) /\ Create(g) /\ entries' = [kept EXCEPT ![KeyOf[g]] = g]

Resolve(g) ==
  /\ goal[g] = "new"
  /\ \E gone \in Expired(entries) :
       LET t == Without(entries, gone) IN Found(g, t) \/ Missed(g, t)
  /\ older' = Ordered(entries')
  /\ evicted' = evicted \cup {k \in Used(entries) : entries'[k] # entries[k]}

-----------------------------------------------------------------------------
(* The end of a run: set_terminal, and for a run that never started        *)
(* discard_terminal in a critical section of its own.                      *)

Settle(g) ==
  /\ goal[g] = "running"
  /\ \E o \in Outcomes :
       /\ LET e == entries[KeyOf[g]] IN
            IF e # NoGoal /\ outcome[e] = "none"
            THEN /\ outcome' = [outcome EXCEPT ![e] = o]
                 /\ older' = [older EXCEPT ![KeyOf[g]] = Terminal(entries)]
            ELSE UNCHANGED <<outcome, older>>
       /\ goal' = [goal EXCEPT ![g] = IF o = "not_started" THEN "discarding" ELSE "answered"]
       /\ answer' = [answer EXCEPT ![g] = o]
  /\ UNCHANGED <<entries, waiters, joined, evicted>>

\* Whatever is under the key by then is forgotten if it is terminal.
Discard(g) ==
  /\ goal[g] = "discarding"
  /\ entries' = Without(entries, {KeyOf[g]} \cap Terminal(entries))
  /\ older' = Ordered(entries')
  /\ goal' = [goal EXCEPT ![g] = "answered"]
  /\ UNCHANGED <<outcome, waiters, joined, answer, evicted>>

-----------------------------------------------------------------------------
(* A duplicate that waits for the run it joined, by the entry it holds.    *)

\* release_waiter: the entry that is under the key by then.
Release(g) ==
  LET e == entries[KeyOf[g]] IN
    waiters' = IF e # NoGoal /\ waiters[e] > 0 THEN [waiters EXCEPT ![e] = @ - 1] ELSE waiters

\* (Mutant) The waiter looks its entry up again under the key.
WokenByKey(g) ==
  LET e == entries[KeyOf[g]] IN
    /\ goal[g] = "waiting" /\ e # NoGoal /\ outcome[e] # "none"
    /\ answer' = [answer EXCEPT ![g] = outcome[e]]
    /\ goal' = [goal EXCEPT ![g] = "answered"]
    /\ joined' = [joined EXCEPT ![g] = NoGoal]
    /\ Release(g)
    /\ UNCHANGED <<entries, outcome, older, evicted>>

Woken(g) ==
  /\ goal[g] = "waiting" /\ outcome[joined[g]] # "none"
  /\ answer' = [answer EXCEPT ![g] = outcome[joined[g]]]
  /\ goal' = [goal EXCEPT ![g] = "answered"]
  /\ joined' = [joined EXCEPT ![g] = NoGoal]
  /\ Release(g)
  /\ UNCHANGED <<entries, outcome, older, evicted>>

\* (Mutant) A waiter that gives up leaves without giving back its place.
WaitExpiresKeepingPlace(g) ==
  /\ goal[g] = "waiting"
  /\ answer' = [answer EXCEPT ![g] = "unknown"]
  /\ goal' = [goal EXCEPT ![g] = "answered"]
  /\ joined' = [joined EXCEPT ![g] = NoGoal]
  /\ UNCHANGED <<entries, outcome, older, waiters, evicted>>

\* duplicate_wait_timeout; the run may have ended by the time of the release.
WaitExpires(g) ==
  /\ goal[g] = "waiting"
  /\ answer' = [answer EXCEPT ![g] = "unknown"]
  /\ goal' = [goal EXCEPT ![g] = "answered"]
  /\ joined' = [joined EXCEPT ![g] = NoGoal]
  /\ Release(g)
  /\ UNCHANGED <<entries, outcome, older, evicted>>

-----------------------------------------------------------------------------
Work(g) == Settle(g) \/ Discard(g) \/ Woken(g)

Next == \E g \in Goals : Resolve(g) \/ Work(g) \/ WaitExpires(g)

Spec == Init /\ [][Next]_vars

(* A run ends (everything in it is bounded by a deadline) and a thread     *)
(* that can go on does.  No waiter has to run into its deadline.           *)
Fairness == \A g \in Goals : WF_vars(Work(g))

FairSpec == Spec /\ Fairness

-----------------------------------------------------------------------------
TypeOK ==
  /\ entries \in [Keys -> Goals \cup {NoGoal}]
  /\ outcome \in [Goals -> Outcomes \cup {"none"}]
  /\ older \in [Keys -> SUBSET Keys]
  /\ waiters \in [Goals -> 0..MaxWaiters]
  /\ goal \in [Goals -> {"new", "running", "discarding", "waiting", "answered"}]
  /\ joined \in [Goals -> Goals \cup {NoGoal}]
  /\ answer \in [Goals -> Outcomes \cup {"none"}]
  /\ evicted \subseteq Keys

(* "duplicate key, same payload -> attach to existing future or return     *)
(* cached terminal", "active/orphan entries never evicted" (ledger.py):    *)
(* the request behind a key runs once at a time, and after a run that may  *)
(* have had an effect not again until the ledger has evicted the key.      *)
(* Two runs at once are a phase that OnceExecutor does not have.           *)
Overlapping(k) ==
  \E g, h \in Goals :
    g # h /\ KeyOf[g] = k /\ KeyOf[h] = k /\ goal[g] = "running" /\ goal[h] = "running"

PhaseOf(k) ==
  LET runs == {g \in Goals : KeyOf[g] = k} IN
    IF Overlapping(k) THEN "overlapping"
    ELSE IF \E g \in runs : goal[g] = "running" THEN "running"
    ELSE IF \E g \in runs : outcome[g] \in Effective THEN "done" ELSE "fresh"

Once == INSTANCE OnceExecutor WITH
  Requests  <- Keys,
  phase     <- [k \in Keys |-> PhaseOf(k)],
  forgotten <- evicted
RunsAtMostOnce == Once!OnceSpec

(* Nobody is told that a request completed unless a run of that request,   *)
(* with that payload, completed: whatever was joined, replayed or replaced *)
(* under the key in the meantime (resolve, replay_terminal).               *)
CompletedIsTrue ==
  \A g \in Goals : answer[g] = "completed" =>
    \E h \in Goals :
      KeyOf[h] = KeyOf[g] /\ PayloadOf[h] = PayloadOf[g] /\ outcome[h] = "completed"

(* An active entry counts no waiter that is not there, so places among the *)
(* duplicates are never used up (release_waiter in execute_resolved_action *)
(* runs on every way out).                                                 *)
NoPlaceIsLost ==
  \A k \in Used(entries) :
    waiters[entries[k]] <=
      1 + Cardinality({g \in Goals : goal[g] = "waiting" /\ joined[g] = entries[k]})

(* Goals under way do not stay so although no wait runs into its deadline: *)
(* the end of a run reaches those who joined it even when its entry has    *)
(* been discarded, evicted or replaced.                                    *)
GoalsAnswered ==
  (\E g \in Goals : goal[g] \notin {"new", "answered"})
    ~> (\A g \in Goals : goal[g] \in {"new", "answered"})
=============================================================================

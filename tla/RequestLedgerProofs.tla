------------------------- MODULE RequestLedgerProofs -------------------------
(***************************************************************************)
(* What is proved of RequestLedger for every set of goals and keys and all *)
(* bounds.  The inductive invariant says who stands behind an entry: its   *)
(* run is under way, and then it is the one its key has, or it has ended;  *)
(* and a run that may have had an effect is still under its key, unless    *)
(* the key has been evicted.                                               *)
(***************************************************************************)
EXTENDS RequestLedger, FiniteSetTheorems, TLAPS

\* A run under way has the entry of its key, and nobody else settles it.
RunsOwnTheirKey ==
  \A g \in Goals : goal[g] = "running" => entries[KeyOf[g]] = g /\ outcome[g] = "none"

\* An entry is under its own key, and one that has not ended is being run.
EntriesHaveRuns ==
  \A k \in Keys : entries[k] # NoGoal =>
    /\ KeyOf[entries[k]] = k
    /\ outcome[entries[k]] = "none" => goal[entries[k]] = "running"

\* Outcomes belong to goals that have run.
OutcomesAreOfRuns ==
  \A g \in Goals :
    /\ outcome[g] # "none" => goal[g] \in {"discarding", "answered"}
    /\ goal[g] = "discarding" => outcome[g] = "not_started"

\* A run that may have had an effect is remembered until its key is evicted;
\* so is the entry that its run is about to discard.
EffectsAreRemembered ==
  \A g \in Goals :
    (outcome[g] \in Effective \/ goal[g] = "discarding") /\ KeyOf[g] \notin evicted
      => entries[KeyOf[g]] = g

\* A duplicate waits for an entry of its request that is being run or ended.
WaitersHaveJoined ==
  \A g \in Goals :
    IF goal[g] = "waiting"
    THEN /\ joined[g] \in Goals
         /\ KeyOf[joined[g]] = KeyOf[g] /\ PayloadOf[joined[g]] = PayloadOf[g]
         /\ outcome[joined[g]] = "none" => goal[joined[g]] = "running"
    ELSE joined[g] = NoGoal

IInv ==
  /\ TypeOK
  /\ RunsOwnTheirKey
  /\ EntriesHaveRuns
  /\ OutcomesAreOfRuns
  /\ EffectsAreRemembered
  /\ WaitersHaveJoined

USE LedgerAssumption, BoundAssumption

\* The ledger starts empty.
LEMMA InitIInv == Init => IInv
  BY DEF Init, IInv, TypeOK, RunsOwnTheirKey, EntriesHaveRuns, OutcomesAreOfRuns,
         EffectsAreRemembered, WaitersHaveJoined, Effective, Outcomes

-----------------------------------------------------------------------------
(* resolve(): terminal entries are evicted, and then the goal is answered, *)
(* joins the entry of its key, or creates one.                             *)

Answered(g, gone) ==
  /\ entries' = Without(entries, gone)
  /\ goal' = [goal EXCEPT ![g] = "answered"]
  /\ UNCHANGED <<outcome, waiters, joined>>
  /\ \E o \in Outcomes :
       /\ answer' = [answer EXCEPT ![g] = o]
       /\ o = "completed" =>
            \E h \in Goals :
              KeyOf[h] = KeyOf[g] /\ PayloadOf[h] = PayloadOf[g] /\ outcome[h] = "completed"

Joined(g, gone) ==
  /\ entries' = Without(entries, gone)
  /\ \E e \in Goals :
       /\ entries[KeyOf[g]] = e /\ outcome[e] = "none" /\ PayloadOf[e] = PayloadOf[g]
       /\ Attach(g, e)

Created(g, gone) ==
  /\ entries[KeyOf[g]] = NoGoal \/ KeyOf[g] \in gone
  /\ entries' = [Without(entries, gone) EXCEPT ![KeyOf[g]] = g]
  /\ Create(g)

\* Evicting entries leaves a table.
LEMMA WithoutIsTable ==
  ASSUME NEW t \in [Keys -> Goals \cup {NoGoal}], NEW gone
  PROVE  /\ Without(t, gone) \in [Keys -> Goals \cup {NoGoal}]
         /\ \A k \in Keys : Without(t, gone)[k] = IF k \in gone THEN NoGoal ELSE t[k]
         /\ Terminal(Without(t, gone)) = Terminal(t) \ gone
  BY DEF Without, Terminal, Used

\* What Resolve does: it evicts terminal entries, then acts on the rest.
LEMMA ResolveEvictsAndActs ==
  ASSUME IInv, NEW g \in Goals, Resolve(g)
  PROVE  \E gone \in SUBSET Terminal(entries) :
           /\ evicted \subseteq evicted' /\ gone \subseteq evicted' /\ evicted' \subseteq Keys
           /\ goal[g] = "new"
           /\ older' = Ordered(entries')
           /\ Answered(g, gone) \/ Joined(g, gone) \/ Created(g, gone)
<1> USE DEF IInv, TypeOK
<1> DEFINE k == KeyOf[g]
<1>0. k \in Keys /\ goal[g] = "new" /\ older' = Ordered(entries')
  BY DEF Resolve
<1>1. PICK gone \in Expired(entries) :
        Found(g, Without(entries, gone)) \/ Missed(g, Without(entries, gone))
  BY DEF Resolve
<1> DEFINE t == Without(entries, gone)
<1>2. gone \subseteq Terminal(entries)
  BY <1>1 DEF Expired
<1>3. /\ t \in [Keys -> Goals \cup {NoGoal}]
      /\ \A x \in Keys : t[x] = IF x \in gone THEN NoGoal ELSE entries[x]
      /\ Terminal(t) = Terminal(entries) \ gone
  BY WithoutIsTable
<1>4. /\ evicted \subseteq evicted' /\ evicted' \subseteq Keys
      /\ \A x \in Used(entries) : entries'[x] # entries[x] => x \in evicted'
  BY DEF Resolve, Used
<1>5. ASSUME NEW x \in Terminal(entries)
      PROVE  x \in Keys /\ x \in Used(entries) /\ entries[x] \in Goals /\ entries[x] # g
  BY <1>5, <1>0 DEF Terminal, Used, OutcomesAreOfRuns
<1>6. CASE Found(g, t)
  <2>1. entries' = t
    BY <1>6 DEF Found
  <2>2. gone \subseteq evicted'
    BY <2>1, <1>2, <1>3, <1>4, <1>5
  <2>3. /\ entries[k] \in Goals /\ t[k] = entries[k] /\ Hit(g, entries[k])
    BY <1>6, <1>3, <1>0 DEF Found
  <2>4. Answered(g, gone) \/ Joined(g, gone)
    <3>1. CASE ~SamePayload(g, entries[k]) /\ Tell(g, "not_started")
      BY <3>1, <2>1 DEF Answered, Tell, Outcomes
    <3>2. CASE SamePayload(g, entries[k]) /\ outcome[entries[k]] # "none" /\ Tell(g, outcome[entries[k]])
      <4>1. outcome[entries[k]] \in Outcomes /\ KeyOf[entries[k]] = KeyOf[g]
        BY <3>2, <2>3, <1>0 DEF EntriesHaveRuns
      <4> QED BY <3>2, <2>1, <2>3, <4>1 DEF Answered, Tell, SamePayload
    <3>3. CASE SamePayload(g, entries[k]) /\ outcome[entries[k]] = "none" /\ Attach(g, entries[k])
      BY <3>3, <2>1, <2>3 DEF Joined, SamePayload
    <3>4. CASE SamePayload(g, entries[k]) /\ Tell(g, "not_started")
      BY <3>4, <2>1 DEF Answered, Tell, Outcomes
    <3> QED BY <2>3, <3>1, <3>2, <3>3, <3>4 DEF Hit
  <2> QED BY <1>0, <1>2, <1>4, <2>2, <2>4
<1>7. CASE Missed(g, t)
  <2> DEFINE more == Overflow(t, k)
             all == gone \cup more
  <2>1. more \subseteq Terminal(t)
    BY DEF Overflow
  <2>2. all \subseteq Terminal(entries)
    BY <2>1, <1>2, <1>3
  <2>3. Without(t, more) = Without(entries, all)
    BY DEF Without
  <2>4. t[k] = NoGoal
    BY <1>7 DEF Missed
  <2>5. CASE Tell(g, "not_started") /\ entries' = Without(t, more)
    <3>1. Answered(g, all)
      BY <2>3, <2>5 DEF Answered, Tell, Outcomes
    <3>2. \A x \in all : entries'[x] = NoGoal
      BY <2>5, <2>2, <2>3, <1>5, WithoutIsTable
    <3>3. all \subseteq evicted'
      BY <3>2, <2>2, <1>4, <1>5
    <3> QED BY <3>1, <3>3, <2>2, <1>0, <1>4
  <2>6. CASE Create(g) /\ entries' = [Without(t, more) EXCEPT ![k] = g]
    <3>1. entries[k] = NoGoal \/ k \in all
      BY <2>4, <1>3, <1>0
    <3>2. Created(g, all)
      BY <3>1, <2>3, <2>6 DEF Created
    <3>3. \A x \in all : entries'[x] \in {NoGoal, g}
      BY <2>6, <2>2, <2>3, <1>5, WithoutIsTable
    <3>4. all \subseteq evicted'
      BY <3>3, <2>2, <1>4, <1>5
    <3> QED BY <3>2, <3>4, <2>2, <1>0, <1>4
  <2> QED BY <1>7, <2>5, <2>6 DEF Missed
<1> QED BY <1>1, <1>6, <1>7
-----------------------------------------------------------------------------
(* Every step preserves the invariant.                                     *)

\* A request is looked up, and joins, starts or is refused.
LEMMA ResolvePreserves ==
  ASSUME IInv, NEW g \in Goals, Resolve(g)
  PROVE  IInv'
<1> USE DEF IInv, TypeOK
<1>1. PICK gone \in SUBSET Terminal(entries) :
           /\ evicted \subseteq evicted' /\ gone \subseteq evicted' /\ evicted' \subseteq Keys
           /\ goal[g] = "new"
           /\ older' = Ordered(entries')
           /\ Answered(g, gone) \/ Joined(g, gone) \/ Created(g, gone)
  BY ResolveEvictsAndActs
<1> DEFINE k == KeyOf[g]
           t == Without(entries, gone)
<1>2. /\ t \in [Keys -> Goals \cup {NoGoal}]
      /\ \A x \in Keys : t[x] = IF x \in gone THEN NoGoal ELSE entries[x]
  BY WithoutIsTable
<1>3. \A x \in gone : x \in Keys /\ entries[x] \in Goals /\ outcome[entries[x]] # "none"
  BY <1>1 DEF Terminal, Used
<1>4. /\ k \in Keys /\ joined[g] = NoGoal /\ outcome[g] = "none"
      /\ \A h \in Goals : goal[h] \in {"running", "waiting", "discarding"} => h # g
      /\ \A h \in Goals : outcome[h] # "none" => h # g
  BY <1>1 DEF WaitersHaveJoined, OutcomesAreOfRuns
<1>5. older' \in [Keys -> SUBSET Keys]
  <2> SUFFICES ASSUME NEW x \in Keys PROVE (IF x \in Terminal(entries') THEN older[x] \cap Terminal(entries') ELSE {}) \subseteq Keys
    BY <1>1 DEF Ordered
  <2> QED BY DEF Terminal, Used
<1>6. CASE Answered(g, gone)
  <2> USE <1>6 DEF Answered
  <2>1. TypeOK'
    BY <1>1, <1>2, <1>5
  <2>2. RunsOwnTheirKey'
    BY <1>2, <1>3, <1>4 DEF RunsOwnTheirKey
  <2>3. EntriesHaveRuns'
    BY <1>2, <1>4 DEF EntriesHaveRuns
  <2>4. OutcomesAreOfRuns'
    BY <1>4 DEF OutcomesAreOfRuns
  <2>5. EffectsAreRemembered'
    BY <1>1, <1>2, <1>4 DEF EffectsAreRemembered
  <2>6. WaitersHaveJoined'
    BY <1>4 DEF WaitersHaveJoined
  <2> QED BY <2>1, <2>2, <2>3, <2>4, <2>5, <2>6
<1>7. CASE Joined(g, gone)
  <2> USE <1>7 DEF Joined
  <2>0. PICK e \in Goals :
          /\ entries[k] = e /\ outcome[e] = "none" /\ PayloadOf[e] = PayloadOf[g]
          /\ Attach(g, e)
    OBVIOUS
  <2>1. /\ waiters[e] < MaxWaiters /\ waiters' = [waiters EXCEPT ![e] = @ + 1]
        /\ joined' = [joined EXCEPT ![g] = e]
        /\ goal' = [goal EXCEPT ![g] = "waiting"]
        /\ outcome' = outcome /\ answer' = answer /\ entries' = t
    BY <2>0 DEF Attach
  <2>2. TypeOK'
    <3>1. waiters' \in [Goals -> 0..MaxWaiters]
      BY <2>1
    <3> QED BY <1>1, <1>2, <1>5, <2>1, <3>1
  <2>3. RunsOwnTheirKey'
    BY <1>2, <1>3, <1>4, <2>1 DEF RunsOwnTheirKey
  <2>4. EntriesHaveRuns'
    BY <1>2, <1>4, <2>1 DEF EntriesHaveRuns
  <2>5. OutcomesAreOfRuns'
    BY <1>4, <2>1 DEF OutcomesAreOfRuns
  <2>6. EffectsAreRemembered'
    BY <1>1, <1>2, <1>4, <2>1 DEF EffectsAreRemembered
  <2>7. KeyOf[e] = k /\ goal[e] = "running"
    BY <2>0, <1>4 DEF EntriesHaveRuns
  <2>8. WaitersHaveJoined'
    BY <1>4, <2>0, <2>1, <2>7 DEF WaitersHaveJoined
  <2> QED BY <2>2, <2>3, <2>4, <2>5, <2>6, <2>8
<1>8. CASE Created(g, gone)
  <2>1. /\ entries[k] = NoGoal \/ k \in gone
        /\ entries' = [t EXCEPT ![k] = g]
        /\ waiters' = [waiters EXCEPT ![g] = 1]
        /\ goal' = [goal EXCEPT ![g] = "running"]
        /\ outcome' = outcome /\ joined' = joined /\ answer' = answer
    BY <1>8 DEF Created, Create
  <2>2. TypeOK'
    <3>1. waiters' \in [Goals -> 0..MaxWaiters]
      BY <2>1
    <3> QED BY <1>1, <1>2, <1>5, <2>1, <3>1
  <2>3. RunsOwnTheirKey'
    <3> SUFFICES ASSUME NEW h \in Goals, goal'[h] = "running"
                 PROVE  entries'[KeyOf[h]] = h /\ outcome'[h] = "none"
      BY DEF RunsOwnTheirKey
    <3>1. CASE h = g
      BY <3>1, <1>2, <1>4, <2>1
    <3>2. CASE h # g
      <4>1. entries[KeyOf[h]] = h /\ outcome[h] = "none"
        BY <3>2, <2>1 DEF RunsOwnTheirKey
      <4>2. KeyOf[h] \notin gone /\ KeyOf[h] # k
        BY <4>1, <1>3, <2>1
      <4> QED BY <4>1, <4>2, <1>2, <2>1
    <3> QED BY <3>1, <3>2
  <2>4. EntriesHaveRuns'
    BY <1>2, <1>4, <2>1 DEF EntriesHaveRuns
  <2>5. OutcomesAreOfRuns'
    BY <1>4, <2>1 DEF OutcomesAreOfRuns
  <2>6. EffectsAreRemembered'
    <3> SUFFICES ASSUME NEW h \in Goals, outcome'[h] \in Effective \/ goal'[h] = "discarding",
                        KeyOf[h] \notin evicted'
                 PROVE  entries'[KeyOf[h]] = h
      BY DEF EffectsAreRemembered
    <3>1. h # g /\ (outcome[h] \in Effective \/ goal[h] = "discarding")
      BY <1>4, <2>1 DEF Effective
    <3>2. entries[KeyOf[h]] = h /\ KeyOf[h] \notin gone
      BY <3>1, <1>1 DEF EffectsAreRemembered
    <3>3. KeyOf[h] # k
      BY <3>2, <2>1
    <3> QED BY <3>2, <3>3, <1>2, <2>1
  <2>7. WaitersHaveJoined'
    BY <1>4, <2>1 DEF WaitersHaveJoined
  <2> QED BY <2>2, <2>3, <2>4, <2>5, <2>6, <2>7
<1> QED BY <1>1, <1>6, <1>7, <1>8

\* A run settles the entry it has created.
LEMMA SettleIsOwn ==
  ASSUME IInv, NEW g \in Goals, Settle(g)
  PROVE  \E o \in Outcomes :
           /\ goal[g] = "running" /\ outcome[g] = "none" /\ entries[KeyOf[g]] = g
           /\ outcome' = [outcome EXCEPT ![g] = o]
           /\ older' = [older EXCEPT ![KeyOf[g]] = Terminal(entries)]
           /\ goal' = [goal EXCEPT ![g] = IF o = "not_started" THEN "discarding" ELSE "answered"]
           /\ answer' = [answer EXCEPT ![g] = o]
           /\ UNCHANGED <<entries, waiters, joined, evicted>>
<1>1. goal[g] = "running" /\ outcome[g] = "none" /\ entries[KeyOf[g]] = g /\ g # NoGoal
  BY DEF Settle, IInv, RunsOwnTheirKey
<1> QED BY <1>1 DEF Settle

\* A run ends and its entry becomes terminal.
LEMMA SettlePreserves ==
  ASSUME IInv, NEW g \in Goals, Settle(g)
  PROVE  IInv'
<1> USE DEF IInv, TypeOK
<1>1. PICK o \in Outcomes :
           /\ goal[g] = "running" /\ outcome[g] = "none" /\ entries[KeyOf[g]] = g
           /\ outcome' = [outcome EXCEPT ![g] = o]
           /\ older' = [older EXCEPT ![KeyOf[g]] = Terminal(entries)]
           /\ goal' = [goal EXCEPT ![g] = IF o = "not_started" THEN "discarding" ELSE "answered"]
           /\ answer' = [answer EXCEPT ![g] = o]
           /\ UNCHANGED <<entries, waiters, joined, evicted>>
  BY SettleIsOwn
<1>2. o # "none" /\ KeyOf[g] \in Keys
  BY DEF Outcomes
<1>3. TypeOK'
  BY <1>1, <1>2 DEF Terminal, Used, Outcomes
<1>4. RunsOwnTheirKey'
  BY <1>1 DEF RunsOwnTheirKey
<1>5. EntriesHaveRuns'
  BY <1>1, <1>2 DEF EntriesHaveRuns
<1>6. OutcomesAreOfRuns'
  BY <1>1, <1>2 DEF OutcomesAreOfRuns
<1>7. EffectsAreRemembered'
  BY <1>1, <1>2 DEF EffectsAreRemembered
<1>8. WaitersHaveJoined'
  BY <1>1, <1>2 DEF WaitersHaveJoined
<1> QED BY <1>3, <1>4, <1>5, <1>6, <1>7, <1>8

\* A run that was not started takes the terminal entry under its key away.
LEMMA DiscardPreserves ==
  ASSUME IInv, NEW g \in Goals, Discard(g)
  PROVE  IInv'
<1> USE DEF IInv, TypeOK
<1> DEFINE gone == {KeyOf[g]} \cap Terminal(entries)
<1>1. /\ goal[g] = "discarding" /\ entries' = Without(entries, gone)
      /\ older' = Ordered(entries') /\ goal' = [goal EXCEPT ![g] = "answered"]
      /\ UNCHANGED <<outcome, waiters, joined, answer, evicted>>
  BY DEF Discard
<1>2. /\ entries' \in [Keys -> Goals \cup {NoGoal}]
      /\ \A x \in Keys : entries'[x] = IF x \in gone THEN NoGoal ELSE entries[x]
  BY <1>1, WithoutIsTable
<1>3. \A x \in gone : x = KeyOf[g] /\ entries[x] \in Goals /\ outcome[entries[x]] # "none"
  BY DEF Terminal, Used
<1>4. outcome[g] = "not_started" /\ outcome[g] \notin Effective
  BY <1>1 DEF OutcomesAreOfRuns, Effective
<1>5. TypeOK'
  <2>1. older' \in [Keys -> SUBSET Keys]
    <3> SUFFICES ASSUME NEW x \in Keys PROVE (IF x \in Terminal(entries') THEN older[x] \cap Terminal(entries') ELSE {}) \subseteq Keys
      BY <1>1 DEF Ordered
    <3> QED BY DEF Terminal, Used
  <2> QED BY <1>1, <1>2, <2>1
<1>6. RunsOwnTheirKey'
  <2> SUFFICES ASSUME NEW h \in Goals, goal'[h] = "running"
               PROVE  entries'[KeyOf[h]] = h /\ outcome'[h] = "none"
    BY DEF RunsOwnTheirKey
  <2>1. goal[h] = "running" /\ KeyOf[h] \in Keys
    BY <1>1
  <2>2. entries[KeyOf[h]] = h /\ outcome[h] = "none"
    BY <2>1 DEF RunsOwnTheirKey
  <2>3. KeyOf[h] \notin gone
    BY <2>2, <1>3
  <2> QED BY <2>1, <2>2, <2>3, <1>1, <1>2
<1>7. EntriesHaveRuns'
  <2> SUFFICES ASSUME NEW x \in Keys, entries'[x] # NoGoal
               PROVE  /\ KeyOf[entries'[x]] = x
                      /\ outcome'[entries'[x]] = "none" => goal'[entries'[x]] = "running"
    BY DEF EntriesHaveRuns
  <2>1. entries'[x] = entries[x] /\ entries[x] \in Goals
    BY <1>2
  <2> QED BY <2>1, <1>1, <1>4 DEF EntriesHaveRuns
<1>8. OutcomesAreOfRuns'
  BY <1>1 DEF OutcomesAreOfRuns
<1>9. EffectsAreRemembered'
  <2> SUFFICES ASSUME NEW h \in Goals, outcome'[h] \in Effective \/ goal'[h] = "discarding",
                      KeyOf[h] \notin evicted'
               PROVE  entries'[KeyOf[h]] = h
    BY DEF EffectsAreRemembered
  <2>1. h # g /\ (outcome[h] \in Effective \/ goal[h] = "discarding") /\ KeyOf[h] \notin evicted
    BY <1>1, <1>4
  <2>2. entries[KeyOf[h]] = h
    BY <2>1 DEF EffectsAreRemembered
  <2>3. KeyOf[h] # KeyOf[g]
    BY <2>1, <2>2, <1>1 DEF EffectsAreRemembered
  <2> QED BY <2>2, <2>3, <1>2, <1>3
<1>10. WaitersHaveJoined'
  BY <1>1, <1>4 DEF WaitersHaveJoined
<1> QED BY <1>5, <1>6, <1>7, <1>8, <1>9, <1>10

\* A waiter leaves with its place, or with that of another entry.
LEMMA ReleaseTyped ==
  ASSUME TypeOK, NEW g \in Goals, Release(g)
  PROVE  /\ waiters' \in [Goals -> 0..MaxWaiters]
         /\ \A e \in Goals : waiters'[e] <= waiters[e]
         /\ \A e \in Goals : e # NoGoal /\ entries[KeyOf[g]] = e /\ waiters[e] > 0
              => waiters'[e] = waiters[e] - 1
<1> USE DEF TypeOK
<1>1. KeyOf[g] \in Keys /\ entries[KeyOf[g]] \in Goals \cup {NoGoal}
  OBVIOUS
<1>2. CASE entries[KeyOf[g]] # NoGoal /\ waiters[entries[KeyOf[g]]] > 0
  <2>1. waiters' = [waiters EXCEPT ![entries[KeyOf[g]]] = @ - 1]
    BY <1>2 DEF Release
  <2> QED BY <1>1, <1>2, <2>1
<1>3. CASE ~(entries[KeyOf[g]] # NoGoal /\ waiters[entries[KeyOf[g]]] > 0)
  BY <1>1, <1>3 DEF Release
<1> QED BY <1>2, <1>3

\* A waiter leaves.
LEMMA WaiterPreserves ==
  ASSUME IInv, NEW g \in Goals, Woken(g) \/ WaitExpires(g)
  PROVE  IInv'
<1> USE DEF IInv
<1>1. /\ goal[g] = "waiting" /\ goal' = [goal EXCEPT ![g] = "answered"]
      /\ joined' = [joined EXCEPT ![g] = NoGoal]
      /\ Release(g) /\ UNCHANGED <<entries, outcome, older, evicted>>
  BY DEF Woken, WaitExpires
<1>2. answer' \in [Goals -> Outcomes \cup {"none"}]
  <2>1. CASE Woken(g)
    BY <2>1, <1>1 DEF Woken, WaitersHaveJoined, TypeOK
  <2>2. CASE WaitExpires(g)
    BY <2>2 DEF WaitExpires, TypeOK, Outcomes
  <2> QED BY <2>1, <2>2
<1>3. waiters' \in [Goals -> 0..MaxWaiters]
  BY <1>1, ReleaseTyped
<1>4. TypeOK'
  BY <1>1, <1>2, <1>3 DEF TypeOK
<1> USE DEF TypeOK
<1>5. RunsOwnTheirKey'
  BY <1>1 DEF RunsOwnTheirKey
<1>6. EntriesHaveRuns'
  BY <1>1 DEF EntriesHaveRuns
<1>7. OutcomesAreOfRuns'
  BY <1>1 DEF OutcomesAreOfRuns
<1>8. EffectsAreRemembered'
  BY <1>1 DEF EffectsAreRemembered
<1>9. WaitersHaveJoined'
  BY <1>1 DEF WaitersHaveJoined
<1> QED BY <1>4, <1>5, <1>6, <1>7, <1>8, <1>9

(* The inductive invariant: who stands behind every entry, and that runs   *)
(* which may have had an effect are remembered (IdempotencyLedger).        *)
THEOREM LedgerInvariant == Spec => []IInv
<1>1. IInv /\ [Next]_vars => IInv'
  <2> SUFFICES ASSUME IInv, [Next]_vars PROVE IInv'
    OBVIOUS
  <2>1. ASSUME NEW g \in Goals, Resolve(g) \/ Work(g) \/ WaitExpires(g) PROVE IInv'
    BY <2>1, ResolvePreserves, SettlePreserves, DiscardPreserves, WaiterPreserves DEF Work
  <2>2. CASE UNCHANGED vars
    BY <2>2 DEF vars, IInv, TypeOK, RunsOwnTheirKey, EntriesHaveRuns, OutcomesAreOfRuns,
                EffectsAreRemembered, WaitersHaveJoined
  <2> QED BY <2>1, <2>2 DEF Next
<1> QED BY InitIInv, <1>1, PTL DEF Spec

(* The types of the ledger; in particular the counter of waiters of an     *)
(* entry stays between zero and its cap, whoever joins and leaves          *)
(* (resolve, release_waiter).  The goals joined to the entry may be more:  *)
(* a waiter of a discarded entry gives its place back to the successor.    *)
THEOREM TypeCorrect == Spec => []TypeOK
<1>1. IInv => TypeOK
  BY DEF IInv
<1> QED BY <1>1, LedgerInvariant, PTL
-----------------------------------------------------------------------------
(* Nobody is told COMPLETED unless a run of the request with the payload   *)
(* completed (resolve, replay_terminal, finish_terminal).                  *)
THEOREM CompletionsAreTrue == Spec => []CompletedIsTrue
<1>1. Init => CompletedIsTrue
  BY DEF Init, CompletedIsTrue
<1>2. ASSUME IInv, CompletedIsTrue, [Next]_vars PROVE CompletedIsTrue'
  <2> USE DEF TypeOK
  <2> DEFINE Shown(h, g) ==
               KeyOf[h] = KeyOf[g] /\ PayloadOf[h] = PayloadOf[g] /\ outcome[h] = "completed"
  <2>0. TypeOK /\ \A g \in Goals : answer[g] = "completed" => \E h \in Goals : Shown(h, g)
    BY <1>2 DEF IInv, CompletedIsTrue
  <2>1. ASSUME NEW g \in Goals, Resolve(g) PROVE CompletedIsTrue'
    <3>1. PICK gone \in SUBSET Terminal(entries) :
             Answered(g, gone) \/ Joined(g, gone) \/ Created(g, gone)
      BY <1>2, <2>1, ResolveEvictsAndActs
    <3>2. CASE Answered(g, gone)
      <4>1. PICK o \in Outcomes :
              /\ answer' = [answer EXCEPT ![g] = o]
              /\ o = "completed" => \E h \in Goals : Shown(h, g)
        BY <3>2 DEF Answered
      <4>2. outcome' = outcome
        BY <3>2 DEF Answered
      <4> QED BY <2>0, <4>1, <4>2 DEF CompletedIsTrue
    <3>3. CASE Joined(g, gone) \/ Created(g, gone)
      <4>1. outcome' = outcome /\ answer' = answer
        BY <3>3 DEF Joined, Attach, Created, Create
      <4> QED BY <2>0, <4>1 DEF CompletedIsTrue
    <3> QED BY <3>1, <3>2, <3>3
  <2>2. ASSUME NEW g \in Goals, Settle(g) PROVE CompletedIsTrue'
    <3>1. PICK o \in Outcomes :
            /\ outcome[g] = "none"
            /\ outcome' = [outcome EXCEPT ![g] = o]
            /\ answer' = [answer EXCEPT ![g] = o]
      BY <1>2, <2>2, SettleIsOwn
    <3> SUFFICES ASSUME NEW x \in Goals, answer'[x] = "completed"
                 PROVE  \E h \in Goals : Shown(h, x)'
      BY DEF CompletedIsTrue
    <3>2. CASE x = g
      <4>1. outcome'[g] = "completed"
        BY <3>1, <3>2, <2>0
      <4> QED BY <4>1, <3>2
    <3>3. CASE x # g
      <4>1. PICK h \in Goals : Shown(h, x)
        BY <3>3, <3>1, <2>0
      <4>2. outcome'[h] = "completed"
        BY <4>1, <3>1, <2>0
      <4> QED BY <4>1, <4>2
    <3> QED BY <3>2, <3>3
  <2>3. ASSUME NEW g \in Goals, Discard(g) \/ WaitExpires(g) PROVE CompletedIsTrue'
    <3>1. outcome' = outcome /\ (answer' = answer \/ answer' = [answer EXCEPT ![g] = "unknown"])
      BY <2>3 DEF Discard, WaitExpires
    <3> QED BY <2>0, <3>1 DEF CompletedIsTrue
  <2>4. ASSUME NEW g \in Goals, Woken(g) PROVE CompletedIsTrue'
    <3>1. outcome' = outcome /\ answer' = [answer EXCEPT ![g] = outcome[joined[g]]]
      BY <2>4 DEF Woken
    <3>2. Shown(joined[g], g) \/ outcome[joined[g]] # "completed"
      BY <1>2, <2>4 DEF IInv, WaitersHaveJoined, Woken
    <3>3. joined[g] \in Goals
      BY <1>2, <2>4 DEF IInv, WaitersHaveJoined, Woken
    <3> QED BY <2>0, <3>1, <3>2, <3>3 DEF CompletedIsTrue
  <2>5. CASE UNCHANGED vars
    BY <2>5, <1>2 DEF vars, CompletedIsTrue
  <2> QED BY <1>2, <2>1, <2>2, <2>3, <2>4, <2>5 DEF Next, Work
<1> QED BY <1>1, <1>2, LedgerInvariant, PTL DEF Spec

-----------------------------------------------------------------------------
(* No place among the duplicates of an active entry is lost                *)
(* (release_waiter).                                                       *)

Attached(e) == {g \in Goals : goal[g] = "waiting" /\ joined[g] = e}

\* Finitely many goals wait for a run.
LEMMA AttachedFinite ==
  ASSUME NEW e \in Goals
  PROVE  IsFiniteSet(Attached(e)) /\ Cardinality(Attached(e)) \in Nat
  BY FS_Subset, FS_CardinalityType DEF Attached

Places ==
  \A e \in Goals :
    entries[KeyOf[e]] = e => waiters[e] <= 1 + Cardinality(Attached(e))

\* Steps that move no waiter keep the places.
LEMMA PlacesKept ==
  ASSUME Places, waiters' = waiters,
         \A e \in Goals : Attached(e)' = Attached(e),
         \A e \in Goals : entries'[KeyOf[e]] = e => entries[KeyOf[e]] = e
  PROVE  Places'
  BY DEF Places

\* A duplicate that joins takes one place.
LEMMA ResolveKeepsPlaces ==
  ASSUME IInv, Places, NEW g \in Goals, Resolve(g)
  PROVE  Places'
<1> USE DEF IInv, TypeOK
<1>1. PICK gone \in SUBSET Terminal(entries) :
         goal[g] = "new" /\ (Answered(g, gone) \/ Joined(g, gone) \/ Created(g, gone))
  BY ResolveEvictsAndActs
<1> DEFINE t == Without(entries, gone)
<1>0. /\ t \in [Keys -> Goals \cup {NoGoal}]
      /\ \A x \in Keys : t[x] \in {NoGoal, entries[x]}
  BY WithoutIsTable
<1>2. CASE Answered(g, gone)
  <2>1. /\ waiters' = waiters /\ joined' = joined /\ entries' = t
        /\ goal' = [goal EXCEPT ![g] = "answered"]
    BY <1>2 DEF Answered
  <2>2. \A e \in Goals : Attached(e)' = Attached(e)
    BY <1>1, <2>1 DEF Attached
  <2>3. \A e \in Goals : entries'[KeyOf[e]] = e => entries[KeyOf[e]] = e
    BY <1>0, <2>1
  <2> QED BY <2>1, <2>2, <2>3, PlacesKept
<1>3. CASE Joined(g, gone)
  <2>1. PICK e \in Goals :
          /\ waiters' = [waiters EXCEPT ![e] = @ + 1]
          /\ joined' = [joined EXCEPT ![g] = e]
          /\ goal' = [goal EXCEPT ![g] = "waiting"]
          /\ entries' = t
    BY <1>3 DEF Joined, Attach
  <2>2. Attached(e)' = Attached(e) \cup {g} /\ g \notin Attached(e)
    BY <1>1, <2>1 DEF Attached
  <2>3. Cardinality(Attached(e)') = Cardinality(Attached(e)) + 1
    <3>1. Cardinality(Attached(e) \cup {g}) = Cardinality(Attached(e)) + 1
      BY <2>2, AttachedFinite, FS_AddElement
    <3> QED BY <2>2, <3>1
  <2>4. \A x \in Goals \ {e} : Attached(x)' = Attached(x)
    BY <1>1, <2>1 DEF Attached
  <2> SUFFICES ASSUME NEW x \in Goals, entries'[KeyOf[x]] = x
               PROVE  waiters'[x] <= 1 + Cardinality(Attached(x)')
    BY DEF Places
  <2>5. entries[KeyOf[x]] = x /\ waiters[x] <= 1 + Cardinality(Attached(x))
    BY <1>0, <2>1 DEF Places
  <2>6. CASE x = e
    BY <2>1, <2>3, <2>5, <2>6, AttachedFinite
  <2>7. CASE x # e
    BY <2>1, <2>4, <2>5, <2>7
  <2> QED BY <2>6, <2>7
<1>4. CASE Created(g, gone)
  <2>1. /\ waiters' = [waiters EXCEPT ![g] = 1] /\ joined' = joined
        /\ goal' = [goal EXCEPT ![g] = "running"]
        /\ entries' = [t EXCEPT ![KeyOf[g]] = g]
    BY <1>4 DEF Created, Create
  <2>2. \A e \in Goals : Attached(e)' = Attached(e)
    BY <1>1, <2>1 DEF Attached
  <2> SUFFICES ASSUME NEW x \in Goals, entries'[KeyOf[x]] = x
               PROVE  waiters'[x] <= 1 + Cardinality(Attached(x)')
    BY DEF Places
  <2>3. Attached(x)' = Attached(x) /\ Cardinality(Attached(x)) \in Nat
    BY <2>2, AttachedFinite
  <2>4. CASE x = g
    BY <2>1, <2>3, <2>4
  <2>5. CASE x # g
    <3>1. entries[KeyOf[x]] = x /\ waiters'[x] = waiters[x]
      BY <1>0, <2>1, <2>5
    <3> QED BY <3>1, <2>3 DEF Places
  <2> QED BY <2>4, <2>5
<1> QED BY <1>1, <1>2, <1>3, <1>4

\* A duplicate that leaves gives its place back.
LEMMA LeavingKeepsPlaces ==
  ASSUME IInv, Places, NEW g \in Goals, Woken(g) \/ WaitExpires(g)
  PROVE  Places'
<1> USE DEF IInv, TypeOK
<1>1. /\ goal[g] = "waiting" /\ goal' = [goal EXCEPT ![g] = "answered"]
      /\ joined' = [joined EXCEPT ![g] = NoGoal] /\ Release(g) /\ entries' = entries
  BY DEF Woken, WaitExpires
<1> SUFFICES ASSUME NEW e \in Goals, entries[KeyOf[e]] = e
             PROVE  waiters'[e] <= 1 + Cardinality(Attached(e)')
  BY <1>1 DEF Places
<1>2. /\ waiters'[e] \in Nat /\ waiters'[e] <= waiters[e]
      /\ entries[KeyOf[g]] = e /\ waiters[e] > 0 => waiters'[e] = waiters[e] - 1
  BY <1>1, ReleaseTyped
<1>3. waiters[e] <= 1 + Cardinality(Attached(e)) /\ waiters[e] \in Nat
  BY DEF Places
<1>4. IsFiniteSet(Attached(e)) /\ Cardinality(Attached(e)) \in Nat
  BY AttachedFinite
<1>5. CASE joined[g] = e
  <2>1. Attached(e)' = Attached(e) \ {g} /\ g \in Attached(e)
    BY <1>1, <1>5 DEF Attached
  <2>2. Cardinality(Attached(e)') = Cardinality(Attached(e)) - 1
    <3> HIDE DEF Attached
    <3> QED BY <2>1, <1>4, FS_RemoveElement
  <2>3. Cardinality(Attached(e)) >= 1
    <3>1. Cardinality(Attached(e)) # 0
      BY <2>1, <1>4, FS_EmptySet
    <3> QED BY <3>1, <1>4
  <2>4. entries[KeyOf[g]] = e
    BY <1>1, <1>5 DEF WaitersHaveJoined
  <2> QED BY <1>2, <1>3, <1>4, <2>2, <2>3, <2>4
<1>6. CASE joined[g] # e
  <2>1. Attached(e)' = Attached(e)
    BY <1>1, <1>6 DEF Attached
  <2> QED BY <1>2, <1>3, <1>4, <2>1
<1> QED BY <1>5, <1>6

(* The places of duplicates are those of the waiters that are there: one   *)
(* that times out or is woken gives its place back.                        *)
THEOREM PlacesAreKept == Spec => []NoPlaceIsLost
<1>1. Init => Places
  BY DEF Init, Places
<1>2. ASSUME IInv, Places, [Next]_vars PROVE Places'
  <2> USE <1>2
  <2>1. ASSUME NEW g \in Goals, Settle(g) PROVE Places'
    <3>1. /\ goal[g] = "running" /\ UNCHANGED <<entries, waiters, joined>>
          /\ \E s \in {"discarding", "answered"} : goal' = [goal EXCEPT ![g] = s]
      BY <2>1, SettleIsOwn
    <3>2. \A e \in Goals : Attached(e)' = Attached(e)
      BY <3>1 DEF Attached, IInv, TypeOK
    <3> QED BY <3>1, <3>2, PlacesKept
  <2>2. ASSUME NEW g \in Goals, Discard(g) PROVE Places'
    <3>1. /\ goal[g] = "discarding" /\ goal' = [goal EXCEPT ![g] = "answered"]
          /\ UNCHANGED <<waiters, joined>>
          /\ entries' = Without(entries, {KeyOf[g]} \cap Terminal(entries))
      BY <2>2 DEF Discard
    <3>2. \A e \in Goals : Attached(e)' = Attached(e)
      BY <3>1 DEF Attached, IInv, TypeOK
    <3>3. \A x \in Keys : entries'[x] \in {NoGoal, entries[x]}
      BY <3>1, WithoutIsTable DEF IInv, TypeOK
    <3>4. \A e \in Goals : entries'[KeyOf[e]] = e => entries[KeyOf[e]] = e
      BY <3>3
    <3> QED BY <3>1, <3>2, <3>4, PlacesKept
  <2>3. CASE UNCHANGED vars
    <3>1. \A e \in Goals : Attached(e)' = Attached(e)
      BY <2>3 DEF Attached, vars
    <3> QED BY <2>3, <3>1, PlacesKept DEF vars
  <2> QED BY <2>1, <2>2, <2>3, ResolveKeepsPlaces, LeavingKeepsPlaces DEF Next, Work
<1>3. IInv /\ Places => NoPlaceIsLost
  <2> SUFFICES ASSUME IInv, Places, NEW k \in Used(entries)
               PROVE  waiters[entries[k]] <= 1 + Cardinality(Attached(entries[k]))
    BY DEF NoPlaceIsLost, Attached
  <2>1. entries[k] \in Goals /\ KeyOf[entries[k]] = k
    BY DEF IInv, TypeOK, EntriesHaveRuns, Used
  <2> QED BY <2>1 DEF Places
<1> QED BY <1>1, <1>2, <1>3, LedgerInvariant, PTL DEF Spec

-----------------------------------------------------------------------------
(* The ledger implements OnceExecutor: the request behind a key runs once  *)
(* at a time, and after a run that may have had an effect only when the    *)
(* key has been evicted.                                                   *)

\* The phase of a key in terms of its runs.
LEMMA PhaseCases ==
  ASSUME IInv, NEW k \in Keys
  PROVE  /\ PhaseOf(k) = "running" <=> \E g \in Goals : KeyOf[g] = k /\ goal[g] = "running"
         /\ PhaseOf(k) = "done" =>
              \E g \in Goals : KeyOf[g] = k /\ outcome[g] \in Effective
         /\ PhaseOf(k) \in {"fresh", "running", "done"}
<1>1. ~Overlapping(k)
  BY DEF IInv, RunsOwnTheirKey, Overlapping
<1> QED BY <1>1 DEF PhaseOf

\* Steps that start or end no run of a key leave its phase alone.
LEMMA PhaseKept ==
  ASSUME TypeOK, TypeOK', NEW k \in Keys,
         \A g \in Goals : KeyOf[g] = k =>
           /\ goal'[g] = "running" <=> goal[g] = "running"
           /\ outcome'[g] = outcome[g]
  PROVE  PhaseOf(k)' = PhaseOf(k)
<1>1. (\E g \in {h \in Goals : KeyOf[h] = k} : goal'[g] = "running")
        <=> (\E g \in {h \in Goals : KeyOf[h] = k} : goal[g] = "running")
  OBVIOUS
<1>2. (\E g \in {h \in Goals : KeyOf[h] = k} : outcome'[g] \in Effective)
        <=> (\E g \in {h \in Goals : KeyOf[h] = k} : outcome[g] \in Effective)
  OBVIOUS
<1>3. Overlapping(k)' <=> Overlapping(k)
  BY DEF Overlapping
<1> QED BY <1>1, <1>2, <1>3 DEF PhaseOf, Effective

\* Two phase functions that agree but for one key.
LEMMA PhaseUpdate ==
  ASSUME NEW k \in Keys, \A x \in Keys \ {k} : PhaseOf(x)' = PhaseOf(x)
  PROVE  [x \in Keys |-> PhaseOf(x)]' = [[x \in Keys |-> PhaseOf(x)] EXCEPT ![k] = PhaseOf(k)']
  OBVIOUS

\* What has been evicted stays evicted.
LEMMA EvictionsGrow ==
  ASSUME [Next]_vars PROVE evicted \subseteq evicted'
  BY DEF Next, Work, Resolve, Settle, Discard, Woken, WaitExpires, vars

(* Under one key there is one run at a time, and none after a possible     *)
(* effect unless the record was evicted: the ledger implements the         *)
(* abstract OnceExecutor, each of whose steps a step of the ledger is.     *)
THEOREM ImplementsOnce == Spec => RunsAtMostOnce
<1>1. Init => Once!OnceInit
  <2> SUFFICES ASSUME Init PROVE Once!OnceInit
    OBVIOUS
  <2>1. \A k \in Keys : PhaseOf(k) = "fresh"
    BY DEF Init, PhaseOf, Overlapping, Effective
  <2> QED BY <2>1 DEF Init, Once!OnceInit
<1>2. ASSUME IInv, IInv', [Next]_vars
      PROVE  [Once!OnceNext]_<<[k \in Keys |-> PhaseOf(k)], evicted>>
  <2> USE <1>2
  <2>0. TypeOK /\ TypeOK' /\ evicted \subseteq evicted'
    BY EvictionsGrow DEF IInv
  <2> DEFINE phase == [k \in Keys |-> PhaseOf(k)]
  <2>1. ASSUME \A k \in Keys : PhaseOf(k)' = PhaseOf(k) PROVE Once!OnceNext
    BY <2>0, <2>1 DEF Once!OnceNext
  <2>2. ASSUME NEW g \in Goals, Resolve(g) PROVE Once!OnceNext
    <3>1. PICK gone \in SUBSET Terminal(entries) :
             /\ gone \subseteq evicted' /\ goal[g] = "new"
             /\ Answered(g, gone) \/ Joined(g, gone) \/ Created(g, gone)
      BY <2>2, ResolveEvictsAndActs
    <3>2. CASE Answered(g, gone) \/ Joined(g, gone)
      <4>1. /\ outcome' = outcome
            /\ \E s \in {"answered", "waiting"} : goal' = [goal EXCEPT ![g] = s]
        BY <3>2 DEF Answered, Joined, Attach
      <4>2. \A h \in Goals : goal'[h] = "running" <=> goal[h] = "running"
        BY <3>1, <4>1, <2>0 DEF TypeOK
      <4>3. \A k \in Keys : PhaseOf(k)' = PhaseOf(k)
        BY <2>0, <4>1, <4>2, PhaseKept
      <4> QED BY <4>3, <2>1
    <3>3. CASE Created(g, gone)
      <4> DEFINE k == KeyOf[g]
      <4>1. /\ k \in Keys /\ (entries[k] = NoGoal \/ k \in gone)
            /\ outcome' = outcome /\ goal' = [goal EXCEPT ![g] = "running"]
        BY <3>3 DEF Created, Create
      <4>2. \A x \in Keys \ {k} : PhaseOf(x)' = PhaseOf(x)
        <5> SUFFICES ASSUME NEW x \in Keys \ {k} PROVE PhaseOf(x)' = PhaseOf(x)
          OBVIOUS
        <5>1. \A h \in Goals : KeyOf[h] = x => goal'[h] = goal[h]
          BY <4>1, <2>0 DEF TypeOK
        <5> QED BY <2>0, <4>1, <5>1, PhaseKept
      <4>3. PhaseOf(k)' = "running"
        <5>1. goal'[g] = "running"
          BY <4>1, <2>0 DEF TypeOK
        <5>2. ~Overlapping(k)'
          BY DEF IInv, RunsOwnTheirKey, Overlapping
        <5> QED BY <5>1, <5>2 DEF PhaseOf
      <4>4. PhaseOf(k) # "running"
        <5> SUFFICES ASSUME NEW h \in Goals, KeyOf[h] = k, goal[h] = "running" PROVE FALSE
          BY PhaseCases
        <5>1. entries[k] = h /\ outcome[h] = "none"
          BY DEF IInv, RunsOwnTheirKey
        <5>2. k \notin gone
          BY <5>1 DEF Terminal
        <5> QED BY <5>1, <5>2, <4>1
      <4>5. PhaseOf(k) = "done" => k \in evicted'
        <5> SUFFICES ASSUME NEW h \in Goals, KeyOf[h] = k, outcome[h] \in Effective,
                            k \notin evicted'
                     PROVE  FALSE
          BY PhaseCases
        <5>1. entries[k] = h
          BY <2>0 DEF IInv, EffectsAreRemembered
        <5> QED BY <5>1, <4>1, <3>1
      <4>6. phase' = [phase EXCEPT ![k] = "running"]
        BY <4>2, <4>3, PhaseUpdate
      <4>7. Once!Begin(k)
        BY <4>1, <4>4, <4>5, <4>6, PhaseCases DEF Once!Begin
      <4> QED BY <4>1, <4>7, <2>0 DEF Once!OnceNext
    <3> QED BY <3>1, <3>2, <3>3
  <2>3. ASSUME NEW g \in Goals, Settle(g) PROVE Once!OnceNext
    <3> DEFINE k == KeyOf[g]
    <3>1. PICK o \in Outcomes :
             /\ goal[g] = "running" /\ entries[k] = g
             /\ outcome' = [outcome EXCEPT ![g] = o]
             /\ goal' = [goal EXCEPT ![g] = IF o = "not_started" THEN "discarding" ELSE "answered"]
      BY <2>3, SettleIsOwn
    <3>2. k \in Keys
      OBVIOUS
    <3>3. \A x \in Keys \ {k} : PhaseOf(x)' = PhaseOf(x)
      <4> SUFFICES ASSUME NEW x \in Keys \ {k} PROVE PhaseOf(x)' = PhaseOf(x)
        OBVIOUS
      <4>1. \A h \in Goals : KeyOf[h] = x => goal'[h] = goal[h] /\ outcome'[h] = outcome[h]
        BY <3>1, <2>0 DEF TypeOK
      <4> QED BY <2>0, <4>1, PhaseKept
    <3>4. PhaseOf(k) = "running"
      BY <3>1, <3>2, PhaseCases
    <3>5. PhaseOf(k)' \in {"fresh", "done"}
      <4>1. \A h \in Goals : KeyOf[h] = k => goal'[h] # "running"
        <5> SUFFICES ASSUME NEW h \in Goals, KeyOf[h] = k, goal'[h] = "running" PROVE FALSE
          OBVIOUS
        <5>1. h # g /\ goal[h] = "running"
          BY <3>1, <2>0 DEF TypeOK
        <5> QED BY <5>1, <3>1 DEF IInv, RunsOwnTheirKey
      <4> QED BY <4>1 DEF PhaseOf, Overlapping
    <3>6. phase' = [phase EXCEPT ![k] = PhaseOf(k)']
      BY <3>2, <3>3, PhaseUpdate
    <3>7. Once!End(k)
      BY <3>2, <3>4, <3>5, <3>6 DEF Once!End
    <3> QED BY <3>2, <3>7, <2>0 DEF Once!OnceNext
  <2>4. ASSUME NEW g \in Goals, Discard(g) \/ Woken(g) \/ WaitExpires(g) PROVE Once!OnceNext
    <3>1. /\ outcome' = outcome /\ goal' = [goal EXCEPT ![g] = "answered"]
          /\ goal[g] \in {"discarding", "waiting"}
      BY <2>4 DEF Discard, Woken, WaitExpires
    <3>2. \A h \in Goals : goal'[h] = "running" <=> goal[h] = "running"
      BY <3>1, <2>0 DEF TypeOK
    <3>3. \A k \in Keys : PhaseOf(k)' = PhaseOf(k)
      BY <2>0, <3>1, <3>2, PhaseKept
    <3> QED BY <3>3, <2>1
  <2>5. CASE UNCHANGED vars
    <3>1. \A k \in Keys : PhaseOf(k)' = PhaseOf(k)
      BY <2>5, <2>0, PhaseKept DEF vars
    <3> QED BY <2>5, <3>1, <2>1
  <2> QED BY <2>2, <2>3, <2>4, <2>5 DEF Next, Work
<1> QED BY <1>1, <1>2, LedgerInvariant, PTL DEF Spec, RunsAtMostOnce, Once!OnceSpec
=============================================================================

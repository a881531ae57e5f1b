--------------------- MODULE DeadlineReservationsProofs ---------------------
(***************************************************************************)
(* Proofs about DeadlineReservations, for any number of dispatch threads,  *)
(* pipelines, resources, bindings, reservations and reboots.               *)
(***************************************************************************)
EXTENDS DeadlineReservations, QueueOpsProofs, TLAPS

-----------------------------------------------------------------------------
(* The inductive invariant, one named part per idea.                       *)

\* What TypeOK says, up to the latest finish of an estimate.
Typed ==
  /\ issued \in Seq([binding: Bindings, boot: Nat, deadline: Nat, start: Nat, finish: Nat])
  /\ table \subseteq Tokens
  /\ queue \in [Resources -> Seq(Tokens)]
  /\ active \in [Resources -> {NoToken} \cup Tokens]
  /\ unknown \subseteq table
  /\ stage \in [Dispatches -> {"idle", "picked", "waiting", "turn", "sent"}]
  /\ aim \in [Dispatches -> [binding: Bindings, boot: Nat]]
  /\ held \in [Dispatches -> {NoToken} \cup Tokens]
  /\ boot \in [Pipelines -> Nat]
  /\ observed \in [Pipelines -> Nat]
  /\ trusted \in [Pipelines -> Nat]
  /\ mistaken \subseteq Tokens
  /\ inflight \subseteq Tokens
  /\ admitted \subseteq Tokens
  /\ working \subseteq Tokens
  /\ now \in Nat

\* The trusted boot may lag behind the observed one, which is the newest that a
\* reservation or a thread can name, and neither runs ahead of the process.
BootsOrdered ==
  /\ \A p \in Pipelines : trusted[p] <= observed[p] /\ observed[p] <= boot[p]
  /\ \A t \in Tokens : issued[t].boot <= observed[Pipeline(t)]
  /\ \A d \in Dispatches : aim[d].boot <= observed[PipelineOf[aim[d].binding]]

\* A thread holds a reservation exactly while it uses it, made for what it
\* aims at, and shares it with no other thread.
HeldOnce ==
  /\ \A d \in Dispatches : held[d] # NoToken <=> stage[d] \in {"waiting", "turn", "sent"}
  /\ \A d \in Dispatches : held[d] # NoToken => issued[held[d]].boot = aim[d].boot
  /\ \A d, e \in Dispatches : held[d] # NoToken /\ held[d] = held[e] => d = e

\* A queue and a turn belong to tokens of their own resource.
QueueOfResource ==
  \A r \in Resources :
    /\ \A t \in Elements(queue[r]) : Resource(t) = r
    /\ active[r] # NoToken => Resource(active[r]) = r

HoldsTurn(t) == t \in table /\ active[Resource(t)] = t

\* The goals on their way to a pipeline or inside it.
UnderWay == inflight \cup admitted \cup working

\* Nothing has given the scheduler a reason to let go of t: its binding is open
\* at the running process, and its boot was never mistaken for a former one.
Kept(t) == Admits(t) /\ t \notin mistaken

\* Whoever may still execute at its pipeline holds the turn of its resource,
\* unless the scheduler let go of it.
TurnHeld ==
  /\ \A d \in Dispatches : stage[d] = "turn" /\ Kept(held[d]) => HoldsTurn(held[d])
  /\ \A t \in UnderWay : Kept(t) => HoldsTurn(t)

\* Nothing is sent before the turn, and a process works on its own goals.
SentInTurn ==
  /\ \A d \in Dispatches : stage[d] \in {"waiting", "turn"} => held[d] \notin UnderWay
  /\ \A t \in admitted \cup working : issued[t].boot = boot[Pipeline(t)]

IInv ==
  /\ Typed /\ BootsOrdered /\ HeldOnce /\ QueueOfResource
  /\ TurnHeld /\ SentInTurn /\ NoFencedUnknown

-----------------------------------------------------------------------------
\* Before the first reservation nothing is queued, held or executing.
LEMMA InitIInv == Init => IInv
<1> SUFFICES ASSUME Init PROVE IInv
  OBVIOUS
<1>1. Tokens = {} /\ Len(issued) = 0 /\ issued = <<>>
  BY DEF Init, Tokens
<1>2. NoAim \in [binding: Bindings, boot: Nat] /\ NoAim.boot = 0
  BY ShapeAssumption DEF NoAim
<1>3. Typed
  BY <1>1, <1>2 DEF Init, Typed, NoToken
<1>4. BootsOrdered
  BY <1>1, <1>2, ShapeAssumption DEF Init, BootsOrdered
<1>5. HeldOnce
  BY DEF Init, HeldOnce
<1>6. QueueOfResource
  <2>1. ASSUME NEW r \in Resources
        PROVE  queue[r] = <<>> /\ Elements(queue[r]) = {} /\ active[r] = NoToken
    BY DEF Init, Elements
  <2> QED BY <2>1 DEF QueueOfResource
<1>7. TurnHeld /\ SentInTurn /\ NoFencedUnknown
  BY DEF Init, TurnHeld, SentInTurn, NoFencedUnknown, UnderWay
<1> QED BY <1>3, <1>4, <1>5, <1>6, <1>7 DEF IInv

-----------------------------------------------------------------------------
\* What a token stands for: a reservation on a resource of a pipeline.
LEMMA TokenTypes ==
  ASSUME Typed, NEW t \in Tokens
  PROVE  /\ t \in Nat /\ t # NoToken
         /\ issued[t].boot \in Nat /\ issued[t].deadline \in Nat
         /\ issued[t].start \in Nat /\ issued[t].finish \in Nat
         /\ Pipeline(t) \in Pipelines
         /\ Resource(t) \in Resources
<1>1. t \in 1..Len(issued) /\ Len(issued) \in Nat
  BY DEF Tokens, Typed
<1>2. issued[t] \in [binding: Bindings, boot: Nat, deadline: Nat, start: Nat, finish: Nat]
  BY <1>1, ElementOfSeq DEF Typed
<1>3. Pipeline(t) \in Pipelines
  BY <1>2, ShapeAssumption DEF Pipeline
<1>4. Resource(t) \in Resources
  BY <1>3, ShapeAssumption DEF Resource
<1> QED BY <1>1, <1>2, <1>3, <1>4 DEF NoToken

(* Steps that remove entries.                                              *)

\* Removing S keeps the table well-formed and everything outside S as it was.
LEMMA RemoveKeeps ==
  ASSUME Typed, QueueOfResource, UNCHANGED issued, NEW S, Remove(S)
  PROVE  /\ table' \subseteq Tokens
         /\ queue' \in [Resources -> Seq(Tokens)]
         /\ active' \in [Resources -> {NoToken} \cup Tokens]
         /\ unknown' \subseteq table' /\ unknown' \subseteq unknown
         /\ QueueOfResource'
         /\ \A t \in Tokens \ S : HoldsTurn(t) => HoldsTurn(t)'
<1>1. ASSUME NEW r \in Resources
      PROVE  /\ queue'[r] \in Seq(Tokens)
             /\ Elements(queue'[r]) \subseteq Elements(queue[r])
  <2>1. queue[r] \in Seq(Tokens) /\ queue'[r] = Without(queue[r], S)
    BY DEF Typed, Remove
  <2> QED BY <2>1, WithoutType
<1>2. queue' \in [Resources -> Seq(Tokens)]
  BY <1>1 DEF Remove
<1>3. /\ active' \in [Resources -> {NoToken} \cup Tokens]
      /\ \A r \in Resources : active'[r] = active[r] \/ active'[r] = NoToken
  BY DEF Typed, Remove
<1>4. table' \subseteq Tokens /\ unknown' \subseteq table' /\ unknown' \subseteq unknown
  BY DEF Typed, Remove
<1>5. \A t : Resource(t)' = Resource(t)
  BY DEF Resource, Pipeline
<1>6. QueueOfResource'
  BY <1>1, <1>3, <1>5 DEF QueueOfResource
<1>7. \A t \in Tokens \ S : HoldsTurn(t) => HoldsTurn(t)'
  <2> SUFFICES ASSUME NEW t \in Tokens \ S, HoldsTurn(t) PROVE HoldsTurn(t)'
    OBVIOUS
  <2>1. Resource(t) \in Resources
    BY TokenTypes
  <2> QED BY <2>1, <1>5 DEF HoldsTurn, Remove
<1> QED BY <1>2, <1>3, <1>4, <1>6, <1>7

\* A thread that gives up its candidate no longer holds anything.
LEMMA GiveUpKeeps ==
  ASSUME Typed, BootsOrdered, HeldOnce, NEW d \in Dispatches, GiveUp(d),
         UNCHANGED <<issued, observed>>
  PROVE  /\ stage' \in [Dispatches -> {"idle", "picked", "waiting", "turn", "sent"}]
         /\ aim' \in [Dispatches -> [binding: Bindings, boot: Nat]]
         /\ held' \in [Dispatches -> {NoToken} \cup Tokens]
         /\ HeldOnce'
         /\ \A e \in Dispatches : aim'[e].boot <= observed[PipelineOf[aim'[e].binding]]
         /\ \A e \in Dispatches : stage'[e] \in {"waiting", "turn"} =>
              e # d /\ stage'[e] = stage[e] /\ held'[e] = held[e] /\ held[e] # NoToken
<1>1. NoAim \in [binding: Bindings, boot: Nat] /\ NoAim.boot = 0
  BY ShapeAssumption DEF NoAim
<1>2. observed[PipelineOf[NoAim.binding]] \in Nat
  BY <1>1, ShapeAssumption DEF Typed
<1>3. /\ stage' \in [Dispatches -> {"idle", "picked", "waiting", "turn", "sent"}]
      /\ aim' \in [Dispatches -> [binding: Bindings, boot: Nat]]
      /\ held' \in [Dispatches -> {NoToken} \cup Tokens]
  BY <1>1 DEF Typed, GiveUp
<1>4. HeldOnce'
  BY DEF Typed, HeldOnce, GiveUp
<1>5. ASSUME NEW e \in Dispatches
      PROVE  aim'[e].boot <= observed[PipelineOf[aim'[e].binding]]
  BY <1>1, <1>2 DEF Typed, GiveUp, BootsOrdered
<1>6. ASSUME NEW e \in Dispatches, stage'[e] \in {"waiting", "turn"}
      PROVE  e # d /\ stage'[e] = stage[e] /\ held'[e] = held[e] /\ held[e] # NoToken
  BY <1>6 DEF Typed, GiveUp, HeldOnce
<1> QED BY <1>3, <1>4, <1>5, <1>6

\* Removing S keeps the invariant if nothing in S may execute or is about to
\* be sent, other than by mistake, whatever becomes of the threads otherwise.
LEMMA RemovalStep ==
  ASSUME IInv, NEW S, Remove(S),
         UNCHANGED <<now, issued, boot, inflight, admitted, working, closed>>,
         mistaken \subseteq mistaken', mistaken' \subseteq Tokens,
         stage' \in [Dispatches -> {"idle", "picked", "waiting", "turn", "sent"}],
         aim' \in [Dispatches -> [binding: Bindings, boot: Nat]],
         held' \in [Dispatches -> {NoToken} \cup Tokens],
         observed' \in [Pipelines -> Nat], trusted' \in [Pipelines -> Nat],
         HeldOnce', BootsOrdered', NoFencedUnknown',
         \A e \in Dispatches : stage'[e] \in {"waiting", "turn"} =>
           stage'[e] = stage[e] /\ held'[e] = held[e] /\ held[e] # NoToken,
         \A t \in UnderWay : t \in S => ~ Admits(t) \/ t \in mistaken',
         \A e \in Dispatches : stage'[e] = "turn" /\ held[e] \in S =>
           ~ Admits(held[e]) \/ held[e] \in mistaken'
  PROVE  IInv'
<1> USE DEF IInv
<1>1. /\ table' \subseteq Tokens
      /\ queue' \in [Resources -> Seq(Tokens)]
      /\ active' \in [Resources -> {NoToken} \cup Tokens]
      /\ unknown' \subseteq table'
      /\ QueueOfResource'
      /\ \A t \in Tokens \ S : HoldsTurn(t) => HoldsTurn(t)'
  BY RemoveKeeps
<1>2. Tokens' = Tokens /\ UnderWay' = UnderWay /\ \A t : Admits(t)' = Admits(t)
  BY DEF Tokens, Admits, Pipeline, UnderWay
<1>3. Typed'
  BY <1>1, <1>2 DEF Typed
<1>4. ASSUME NEW t \in UnderWay, Admits(t), t \notin mistaken'
      PROVE  HoldsTurn(t)'
  <2>1. t \in Tokens \ S /\ HoldsTurn(t)
    BY <1>4 DEF TurnHeld, Typed, Kept, UnderWay
  <2> QED BY <2>1, <1>1
<1>5. ASSUME NEW e \in Dispatches, stage'[e] = "turn", NEW t, t = held'[e],
             Admits(t), t \notin mistaken'
      PROVE  HoldsTurn(t)'
  <2>1. stage[e] = "turn" /\ t = held[e] /\ held[e] # NoToken
    BY <1>5
  <2>2. t \in Tokens \ S /\ HoldsTurn(t)
    BY <1>5, <2>1 DEF TurnHeld, Typed, Kept
  <2> QED BY <2>2, <1>1
<1>6. TurnHeld'
  <2>1. ASSUME NEW e \in Dispatches, stage'[e] = "turn", Kept(held[e])'
        PROVE  HoldsTurn(held[e])'
    <3>1. PICK t : t = held'[e]
      OBVIOUS
    <3>2. Admits(t) /\ t \notin mistaken'
      BY <2>1, <3>1 DEF Kept, Admits, Pipeline
    <3>3. HoldsTurn(t)'
      BY <2>1, <3>1, <3>2, <1>5
    <3> QED BY <3>1, <3>3 DEF HoldsTurn, Resource, Pipeline
  <2>2. \A t \in UnderWay' : Kept(t)' => HoldsTurn(t)'
    BY <1>2, <1>4 DEF Kept
  <2> QED BY <2>1, <2>2 DEF TurnHeld
<1>7. SentInTurn'
  BY <1>2 DEF SentInTurn, Pipeline
<1> QED BY <1>1, <1>3, <1>6, <1>7

-----------------------------------------------------------------------------
(* One lemma per group of actions.                                         *)

\* A thread that polls, settles or loses its outcome removes at most its own
\* reservation, which may execute only if it was released by mistake.
LEMMA GiveUpStep ==
  ASSUME IInv, NEW d \in Dispatches, GiveUp(d),
         UNCHANGED <<now, issued, observed, trusted, boot, inflight, admitted, working, closed>>,
         NEW S, S \subseteq {held[d]}, Remove(S),
         mistaken \subseteq mistaken', mistaken' \subseteq mistaken \cup {held[d]},
         held[d] # NoToken,
         held[d] \in UnderWay => ~ Admits(held[d]) \/ held[d] \in mistaken'
  PROVE  IInv'
<1> USE DEF IInv
<1>1. GiveUp(d) /\ UNCHANGED <<issued, observed>>
  OBVIOUS
<1>2. /\ stage' \in [Dispatches -> {"idle", "picked", "waiting", "turn", "sent"}]
      /\ aim' \in [Dispatches -> [binding: Bindings, boot: Nat]]
      /\ held' \in [Dispatches -> {NoToken} \cup Tokens]
      /\ HeldOnce'
      /\ \A e \in Dispatches : aim'[e].boot <= observed[PipelineOf[aim'[e].binding]]
      /\ \A e \in Dispatches : stage'[e] \in {"waiting", "turn"} =>
           e # d /\ stage'[e] = stage[e] /\ held'[e] = held[e] /\ held[e] # NoToken
  BY <1>1, GiveUpKeeps
<1>3. /\ observed' \in [Pipelines -> Nat] /\ trusted' \in [Pipelines -> Nat]
      /\ mistaken' \subseteq Tokens
  BY DEF Typed
<1>4. BootsOrdered'
  BY <1>2 DEF BootsOrdered, Tokens, Pipeline
<1>5. NoFencedUnknown'
  BY DEF NoFencedUnknown, Remove, Pipeline
<1>6. \A e \in Dispatches : stage'[e] = "turn" => held[e] \notin S
  BY <1>2 DEF HeldOnce
<1> QED BY <1>2, <1>3, <1>4, <1>5, <1>6, RemovalStep

\* The passes of wait_for_turn that end without the turn.
LEMMA PollGivesUp ==
  ASSUME IInv, NEW d \in Dispatches,
         WaitReleased(d) \/ WaitCanceled(d) \/ WaitExpired(d)
  PROVE  IInv'
<1>1. held[d] # NoToken /\ held[d] \notin UnderWay
  BY DEF IInv, HeldOnce, SentInTurn, WaitReleased, WaitCanceled, WaitExpired
<1>2. CASE WaitReleased(d)
  <2>1. Remove({})
    <3>1. \A r \in Resources : queue[r] \in Seq(Tokens)
      BY DEF IInv, Typed
    <3>2. \A r \in Resources : Without(queue[r], {}) = queue[r]
      BY <3>1, WithoutNothing
    <3> QED BY <1>2, <3>2 DEF Remove, WaitReleased, tableVars, IInv, Typed
  <2> QED BY <1>1, <1>2, <2>1, GiveUpStep
      DEF WaitReleased, tableVars, statusVars, pipelineVars, goalVars
<1>3. CASE WaitCanceled(d)
  BY <1>1, <1>3, GiveUpStep DEF WaitCanceled, statusVars, pipelineVars, goalVars
<1>4. CASE WaitExpired(d)
  BY <1>1, <1>4, GiveUpStep DEF WaitExpired, statusVars, pipelineVars, goalVars
<1> QED BY <1>2, <1>3, <1>4

\* release() after an outcome that is known.
LEMMA SettleStep ==
  ASSUME IInv, NEW d \in Dispatches, Settle(d)
  PROVE  IInv'
<1>1. held[d] # NoToken
  BY DEF IInv, HeldOnce, Settle
<1> QED BY <1>1, GiveUpStep DEF Settle, statusVars, pipelineVars, goalVars, UnderWay

\* A step that leaves table, turns and pipelines alone, and brings no thread
\* into the turn, disturbs neither TurnHeld nor SentInTurn.
LEMMA SameTurns ==
  ASSUME TurnHeld, SentInTurn,
         UNCHANGED <<issued, table, active, boot, inflight, admitted, working, closed>>,
         mistaken \subseteq mistaken',
         \A e \in Dispatches : stage'[e] \in {"waiting", "turn"} =>
           stage'[e] = stage[e] /\ held'[e] = held[e]
  PROVE  TurnHeld' /\ SentInTurn'
<1>1. ASSUME NEW e \in Dispatches, stage'[e] = "turn", Kept(held[e])'
      PROVE  HoldsTurn(held[e])'
  <2>1. stage[e] = "turn" /\ held'[e] = held[e]
    BY <1>1
  <2>2. PICK t : t = held[e]
    OBVIOUS
  <2>3. Kept(t)
    BY <1>1, <2>1, <2>2 DEF Kept, Admits, Pipeline
  <2>4. HoldsTurn(t)
    BY <1>1, <2>1, <2>2, <2>3 DEF TurnHeld
  <2> QED BY <2>1, <2>2, <2>4 DEF HoldsTurn, Resource, Pipeline
<1>2. UnderWay' = UnderWay
  BY DEF UnderWay
<1>3. \A t \in UnderWay' : Kept(t)' => HoldsTurn(t)'
  BY <1>2 DEF TurnHeld, Kept, Admits, HoldsTurn, Resource, Pipeline
<1>4. SentInTurn'
  BY <1>2 DEF SentInTurn, Pipeline
<1> QED BY <1>1, <1>3, <1>4 DEF TurnHeld

\* An outcome that is marked under a boot that is not the trusted one is of a
\* process that is gone, or is released by mistake.
LEMMA FencedIsOldOrMistaken ==
  ASSUME Typed, BootsOrdered, HeldOnce, NEW d \in Dispatches, MarkUnknown(d),
         trusted[Pipeline(held[d])] # aim[d].boot
  PROVE  ~ Admits(held[d]) \/ held[d] \in mistaken'
<1>1. PICK t : t = held[d]
  OBVIOUS
<1>2. t \in Tokens /\ issued[t].boot = aim[d].boot
  BY <1>1 DEF MarkUnknown, HeldOnce, Typed
<1>3. Pipeline(t) \in Pipelines /\ issued[t].boot \in Nat
  BY <1>2, TokenTypes
<1>4. /\ trusted[Pipeline(t)] \in Nat /\ observed[Pipeline(t)] \in Nat /\ boot[Pipeline(t)] \in Nat
      /\ trusted[Pipeline(t)] <= observed[Pipeline(t)]
      /\ observed[Pipeline(t)] <= boot[Pipeline(t)]
  BY <1>3 DEF Typed, BootsOrdered
<1>5. CASE aim[d].boot > trusted[Pipeline(t)]
  BY <1>1, <1>5 DEF MarkUnknown
<1>6. CASE aim[d].boot < trusted[Pipeline(t)]
  BY <1>1, <1>2, <1>3, <1>4, <1>6 DEF Admits
<1> QED BY <1>1, <1>2, <1>3, <1>4, <1>5, <1>6

\* _mark_reservation_unknown, both of its branches.
LEMMA MarkUnknownStep ==
  ASSUME IInv, NEW d \in Dispatches, MarkUnknown(d)
  PROVE  IInv'
<1> USE DEF IInv
<1> DEFINE t == held[d]
           fenced == trusted[Pipeline(t)] # aim[d].boot
<1>1. t # NoToken /\ t \in Tokens /\ issued[t].boot = aim[d].boot
  BY DEF HeldOnce, Typed, MarkUnknown
<1>2. /\ UNCHANGED <<now, issued, observed, trusted, boot, inflight, admitted, working, closed>>
      /\ GiveUp(d)
      /\ mistaken \subseteq mistaken' /\ mistaken' \subseteq mistaken \cup {t}
  BY DEF MarkUnknown, statusVars, pipelineVars, goalVars
<1>3. CASE fenced /\ Remove({t})
  <2>1. ~ Admits(t) \/ t \in mistaken'
    BY <1>3, FencedIsOldOrMistaken
  <2> QED BY <1>1, <1>2, <1>3, <2>1, GiveUpStep
<1>4. CASE ~ fenced /\ unknown' = unknown \cup ({t} \cap table) /\ UNCHANGED <<table, queue, active>>
  <2>1. /\ stage' \in [Dispatches -> {"idle", "picked", "waiting", "turn", "sent"}]
        /\ aim' \in [Dispatches -> [binding: Bindings, boot: Nat]]
        /\ held' \in [Dispatches -> {NoToken} \cup Tokens]
        /\ HeldOnce'
        /\ \A e \in Dispatches : aim'[e].boot <= observed[PipelineOf[aim'[e].binding]]
        /\ \A e \in Dispatches : stage'[e] \in {"waiting", "turn"} =>
             e # d /\ stage'[e] = stage[e] /\ held'[e] = held[e] /\ held[e] # NoToken
    BY <1>2, GiveUpKeeps
  <2>2. Typed'
    BY <1>1, <1>2, <1>4, <2>1 DEF Typed, Tokens
  <2>3. BootsOrdered'
    BY <1>2, <2>1 DEF BootsOrdered, Tokens, Pipeline
  <2>4. QueueOfResource'
    BY <1>2, <1>4 DEF QueueOfResource, Resource, Pipeline
  <2>5. TurnHeld' /\ SentInTurn'
    BY <1>2, <1>4, <2>1, SameTurns
  <2>6. NoFencedUnknown'
    BY <1>1, <1>2, <1>4 DEF NoFencedUnknown, Pipeline
  <2> QED BY <2>1, <2>2, <2>3, <2>4, <2>5, <2>6
<1> QED BY <1>3, <1>4 DEF MarkUnknown

\* reconcile_binding after a drained Close.
LEMMA ReconcileBindingStep ==
  ASSUME IInv, NEW b \in Bindings, NEW n \in 1..MaxBoot, ReconcileBinding(b, n)
  PROVE  IInv'
<1> USE DEF IInv
<1> DEFINE S == {t \in table : issued[t].binding = b /\ issued[t].boot = n}
<1>1. Remove(S) /\ UNCHANGED <<now, issued, stage, aim, held, observed, trusted, mistaken, boot,
                             inflight, admitted, working, closed>>
  BY DEF ReconcileBinding, threadVars, statusVars, pipelineVars, goalVars
<1>2. \A t \in S : ~ Admits(t)
  BY DEF ReconcileBinding, Admits
<1>3. HeldOnce' /\ BootsOrdered'
  BY <1>1 DEF HeldOnce, BootsOrdered, Tokens, Pipeline
<1>4. NoFencedUnknown'
  BY <1>1 DEF NoFencedUnknown, Remove, Pipeline
<1>5. /\ stage' \in [Dispatches -> {"idle", "picked", "waiting", "turn", "sent"}]
      /\ aim' \in [Dispatches -> [binding: Bindings, boot: Nat]]
      /\ held' \in [Dispatches -> {NoToken} \cup Tokens]
      /\ observed' \in [Pipelines -> Nat] /\ trusted' \in [Pipelines -> Nat]
      /\ mistaken' \subseteq Tokens
  BY <1>1 DEF Typed
<1>6. \A e \in Dispatches : stage'[e] \in {"waiting", "turn"} =>
        stage'[e] = stage[e] /\ held'[e] = held[e] /\ held[e] # NoToken
  BY <1>1 DEF HeldOnce
<1> HIDE DEF S
<1> QED BY <1>1, <1>2, <1>3, <1>4, <1>5, <1>6, RemovalStep

\* A serving status is stored: newer boots can be named from now on.
LEMMA ObserveStatusStep ==
  ASSUME IInv, NEW p \in Pipelines, ObserveStatus(p)
  PROVE  IInv'
<1> USE DEF IInv
<1>1. UNCHANGED <<now, issued, table, queue, active, unknown, stage, aim, held, trusted, mistaken,
                  boot, inflight, admitted, working, closed>>
  BY DEF ObserveStatus, tableVars, threadVars, pipelineVars, goalVars
<1>2. PICK n \in observed[p] + 1 .. boot[p] : observed' = [observed EXCEPT ![p] = n]
  BY DEF ObserveStatus
<1>3. /\ n \in Nat /\ observed[p] < n /\ n <= boot[p]
      /\ observed' \in [Pipelines -> Nat]
      /\ \A q \in Pipelines : observed[q] <= observed'[q] /\ observed'[q] <= boot[q]
  BY <1>2 DEF Typed, BootsOrdered
<1>4. Typed'
  BY <1>1, <1>3 DEF Typed, Tokens
<1>5. BootsOrdered'
  <2>1. ASSUME NEW q \in Pipelines PROVE trusted[q] <= observed'[q]
    BY <1>3 DEF BootsOrdered, Typed
  <2>2. ASSUME NEW t \in Tokens PROVE issued[t].boot <= observed'[Pipeline(t)]
    <3>1. Pipeline(t) \in Pipelines /\ issued[t].boot \in Nat
      BY TokenTypes
    <3>2. /\ observed[Pipeline(t)] \in Nat /\ observed'[Pipeline(t)] \in Nat
          /\ observed[Pipeline(t)] <= observed'[Pipeline(t)]
      BY <3>1, <1>3 DEF Typed
    <3>3. issued[t].boot <= observed[Pipeline(t)]
      BY DEF BootsOrdered
    <3> QED BY <3>1, <3>2, <3>3
  <2>3. ASSUME NEW d \in Dispatches PROVE aim[d].boot <= observed'[PipelineOf[aim[d].binding]]
    <3>1. PipelineOf[aim[d].binding] \in Pipelines /\ aim[d].boot \in Nat
      BY ShapeAssumption DEF Typed
    <3> QED BY <3>1, <1>3 DEF BootsOrdered, Typed
  <2> QED BY <1>1, <1>3, <2>1, <2>2, <2>3 DEF BootsOrdered, Tokens, Pipeline
<1>6. HeldOnce' /\ QueueOfResource' /\ NoFencedUnknown'
  BY <1>1 DEF HeldOnce, QueueOfResource, NoFencedUnknown, Resource, Pipeline
<1>7. TurnHeld' /\ SentInTurn'
  BY <1>1, SameTurns
<1> QED BY <1>4, <1>5, <1>6, <1>7

\* reconcile_pipeline with the first trusted status of a process.
LEMMA TrustBootStep ==
  ASSUME IInv, NEW p \in Pipelines, TrustBoot(p)
  PROVE  IInv'
<1> USE DEF IInv
<1> DEFINE S == {t \in unknown : Pipeline(t) = p}
<1>1. /\ Remove(S)
      /\ UNCHANGED <<now, issued, stage, aim, held, observed, mistaken, boot, inflight, admitted,
                     working, closed>>
      /\ trusted' = [trusted EXCEPT ![p] = observed[p]] /\ trusted[p] # observed[p]
  BY DEF TrustBoot, threadVars, pipelineVars, goalVars
<1>2. \A t \in S : ~ Admits(t)
  <2>1. /\ trusted[p] \in Nat /\ observed[p] \in Nat /\ boot[p] \in Nat
        /\ trusted[p] <= observed[p] /\ observed[p] <= boot[p]
    BY DEF Typed, BootsOrdered
  <2>2. trusted[p] # boot[p]
    BY <1>1, <2>1
  <2> QED BY <2>2 DEF NoFencedUnknown, Admits
<1>3. HeldOnce'
  BY <1>1 DEF HeldOnce
<1>4. trusted' \in [Pipelines -> Nat] /\ \A q \in Pipelines : trusted'[q] <= observed[q]
  BY <1>1 DEF Typed, BootsOrdered
<1>5. BootsOrdered'
  BY <1>1, <1>4 DEF BootsOrdered, Tokens, Pipeline
<1>6. NoFencedUnknown'
  <2>1. ASSUME NEW t \in unknown' PROVE issued[t].boot = trusted'[Pipeline(t)]
    <3>1. t \in unknown /\ Pipeline(t) # p /\ t \in Tokens
      BY <1>1 DEF Remove, Typed
    <3>2. Pipeline(t) \in Pipelines
      BY <3>1, TokenTypes
    <3> QED BY <3>1, <3>2, <1>1 DEF NoFencedUnknown, Typed
  <2> QED BY <2>1, <1>1 DEF NoFencedUnknown, Pipeline
<1>7. /\ stage' \in [Dispatches -> {"idle", "picked", "waiting", "turn", "sent"}]
      /\ aim' \in [Dispatches -> [binding: Bindings, boot: Nat]]
      /\ held' \in [Dispatches -> {NoToken} \cup Tokens]
      /\ observed' \in [Pipelines -> Nat] /\ mistaken' \subseteq Tokens
  BY <1>1 DEF Typed
<1>8. \A e \in Dispatches : stage'[e] \in {"waiting", "turn"} =>
        stage'[e] = stage[e] /\ held'[e] = held[e] /\ held[e] # NoToken
  BY <1>1 DEF HeldOnce
<1> HIDE DEF S
<1> QED BY <1>1, <1>2, <1>3, <1>4, <1>5, <1>6, <1>7, <1>8, RemovalStep

\* A pass that expires others and may take the turn.
LEMMA WaitPassStep ==
  ASSUME IInv, NEW d \in Dispatches, WaitPass(d)
  PROVE  IInv'
<1> USE DEF IInv
<1> DEFINE t == held[d]
           r == Resource(t)
           left == Without(queue[r], Expired(r))
           claims == active[r] = NoToken /\ left # <<>> /\ Head(left) = t
<1>1. /\ stage[d] = "waiting" /\ t \in table /\ ~ TooLate(t)
      /\ table' = table \ Expired(r)
      /\ unknown' = unknown \ Expired(r)
      /\ queue' = [queue EXCEPT ![r] = left]
      /\ active' = IF claims THEN [active EXCEPT ![r] = t] ELSE active
      /\ stage' = IF claims \/ active[r] = t THEN [stage EXCEPT ![d] = "turn"] ELSE stage
      /\ UNCHANGED <<now, issued, aim, held, observed, trusted, mistaken, boot, inflight, admitted,
                     working, closed>>
  BY DEF WaitPass, statusVars, pipelineVars, goalVars
<1>2. t \in Tokens /\ t # NoToken /\ r \in Resources
  BY <1>1, TokenTypes DEF Typed
<1>3. left \in Seq(Tokens) /\ Elements(left) \subseteq Elements(queue[r])
  BY <1>2, WithoutType DEF Typed
<1>4. \A u \in Expired(r) : u # active[r] /\ Resource(u) = r /\ u # t
  BY <1>1, <1>2 DEF Expired, QueueOfResource, TooLate
<1>5. Typed'
  <2>1. Tokens' = Tokens
    BY <1>1 DEF Tokens
  <2>2. queue' \in [Resources -> Seq(Tokens)]
    BY <1>1, <1>3 DEF Typed
  <2>3. active' \in [Resources -> {NoToken} \cup Tokens]
    BY <1>1, <1>2 DEF Typed
  <2>4. stage' \in [Dispatches -> {"idle", "picked", "waiting", "turn", "sent"}]
    BY <1>1 DEF Typed
  <2> HIDE DEF t, r, left, claims
  <2> QED BY <1>1, <2>1, <2>2, <2>3, <2>4 DEF Typed
<1>6. BootsOrdered'
  BY <1>1 DEF BootsOrdered, Tokens, Pipeline
<1>7. HeldOnce'
  BY <1>1 DEF HeldOnce, Typed
<1>8. QueueOfResource'
  <2>1. ASSUME NEW q \in Resources, NEW u \in Elements(queue'[q]) PROVE Resource(u) = q
    <3>1. CASE q = r
      BY <3>1, <1>1, <1>2, <1>3, <2>1 DEF QueueOfResource, Typed
    <3>2. CASE q # r
      BY <3>2, <1>1, <2>1 DEF QueueOfResource, Typed
    <3> QED BY <3>1, <3>2
  <2>2. ASSUME NEW q \in Resources, active'[q] # NoToken PROVE Resource(active'[q]) = q
    BY <1>1, <1>2, <2>2 DEF QueueOfResource, Typed
  <2>3. \A u : Resource(u)' = Resource(u)
    BY <1>1 DEF Resource, Pipeline
  <2>4. ASSUME NEW q \in Resources, active'[q] # NoToken PROVE Resource(active[q])' = q
    <3>1. PICK u : u = active'[q]
      OBVIOUS
    <3>2. Resource(u)' = q
      BY <3>1, <2>2, <2>3, <2>4
    <3> QED BY <3>1, <3>2 DEF Resource, Pipeline
  <2>5. ASSUME NEW q \in Resources, NEW u \in Elements(queue[q])' PROVE Resource(u)' = q
    <3>1. Elements(queue[q])' = Elements(queue'[q])
      BY DEF Elements
    <3> QED BY <2>1, <2>3, <3>1
  <2> QED BY <2>4, <2>5 DEF QueueOfResource
<1>9. ASSUME NEW u \in Tokens, HoldsTurn(u) PROVE HoldsTurn(u)'
  <2>1. Resource(u) \in Resources /\ u # NoToken /\ active[Resource(u)] = u /\ u \in table
    BY <1>9, TokenTypes DEF HoldsTurn
  <2>2. u \notin Expired(r)
    BY <2>1, <1>4
  <2>3. active'[Resource(u)] = u
    BY <2>1, <1>1, <1>2 DEF Typed
  <2> QED BY <2>1, <2>2, <2>3, <1>1 DEF HoldsTurn, Resource, Pipeline
<1>10. stage'[d] = "turn" => t \in table' /\ active'[r] = t
  <2>1. t \in table'
    BY <1>1, <1>4
  <2> QED BY <2>1, <1>1, <1>2 DEF Typed
<1>11. ASSUME NEW e \in Dispatches, stage'[e] = "turn", Kept(held[e])'
       PROVE  HoldsTurn(held[e])'
  <2>1. CASE e = d
    BY <2>1, <1>10, <1>11, <1>1 DEF HoldsTurn, Resource, Pipeline
  <2>2. CASE e # d
    <3>1. stage[e] = "turn" /\ held'[e] = held[e] /\ held[e] \in Tokens
      BY <2>2, <1>11, <1>1 DEF Typed, HeldOnce
    <3>2. PICK u \in Tokens : u = held[e]
      BY <3>1
    <3>3. Kept(u)
      BY <1>11, <1>1, <3>1, <3>2 DEF Kept, Admits, Pipeline
    <3>4. HoldsTurn(u)'
      BY <3>1, <3>2, <3>3, <1>9 DEF TurnHeld
    <3> QED BY <3>1, <3>2, <3>4 DEF HoldsTurn, Resource, Pipeline
  <2> QED BY <2>1, <2>2
<1>12. TurnHeld'
  <2>1. ASSUME NEW u \in UnderWay', Kept(u)' PROVE HoldsTurn(u)'
    <3>1. u \in Tokens /\ Kept(u) /\ HoldsTurn(u)
      BY <2>1, <1>1 DEF Kept, Admits, Pipeline, TurnHeld, Typed, UnderWay
    <3> QED BY <3>1, <1>9
  <2> QED BY <1>11, <2>1 DEF TurnHeld
<1>13. SentInTurn'
  BY <1>1 DEF SentInTurn, UnderWay, Pipeline, Typed
<1>14. NoFencedUnknown'
  BY <1>1 DEF NoFencedUnknown, Pipeline
<1> QED BY <1>5, <1>6, <1>7, <1>8, <1>12, <1>13, <1>14

\* The estimated schedule of a resource ends no earlier than any estimate in
\* its queue.
LEMMA TailCovers ==
  ASSUME Typed, NEW r \in Resources
  PROVE  /\ EstimatedTail(r) \in Nat
         /\ \A t \in Elements(queue[r]) : Estimate(t) > 0 => issued[t].finish <= EstimatedTail(r)
<1> DEFINE finishes == {issued[t].finish : t \in {u \in Elements(queue[r]) : Estimate(u) > 0}}
           later == {f \in finishes : f >= now}
<1>1. Elements(queue[r]) \subseteq Tokens
  BY DEF Typed, Elements
<1>2. Len(issued) \in Nat /\ \A t \in 1..Len(issued) : issued[t].finish \in Nat
  <2>1. Len(issued) \in Nat
    BY DEF Typed
  <2>2. ASSUME NEW t \in Tokens PROVE issued[t].finish \in Nat
    BY TokenTypes
  <2> QED BY <2>1, <2>2 DEF Tokens
<1>3. PICK b \in Nat : \A t \in 1..Len(issued) : issued[t].finish <= b
  <2> DEFINE f == [t \in 1..Len(issued) |-> issued[t].finish]
  <2>1. \A t \in 1..Len(issued) : f[t] \in Nat /\ f[t] = issued[t].finish
    BY <1>2
  <2>2. \E b \in Nat : \A t \in 1..Len(issued) : f[t] <= b
    <3> HIDE DEF f
    <3> QED BY <1>2, <2>1, ValuesBounded
  <2> QED BY <2>1, <2>2
<1>4. later \in SUBSET Nat /\ \A f \in later : f <= b
  BY <1>1, <1>2, <1>3 DEF Tokens
<1>5. /\ EstimatedTail(r) \in Nat /\ EstimatedTail(r) >= now
      /\ \A g \in later : g <= EstimatedTail(r)
  <2>1. CASE later = {}
    BY <2>1 DEF EstimatedTail, Typed
  <2>2. CASE later # {}
    <3>1. \E f \in later : \A g \in later : g <= f
      <4> HIDE DEF later
      <4> QED BY <1>4, <2>2, GreatestElement
    <3>2. EstimatedTail(r) = CHOOSE f \in later : \A g \in later : g <= f
      BY <2>2 DEF EstimatedTail
    <3>3. EstimatedTail(r) \in later /\ \A g \in later : g <= EstimatedTail(r)
      <4> HIDE DEF later
      <4> QED BY <3>1, <3>2
    <3>4. EstimatedTail(r) \in Nat
      <4> HIDE DEF later
      <4> QED BY <3>3, <1>4
    <3> QED BY <3>3, <3>4
  <2> QED BY <2>1, <2>2
<1>6. ASSUME NEW t \in Elements(queue[r]), Estimate(t) > 0
      PROVE  issued[t].finish <= EstimatedTail(r)
  <2>1. issued[t].finish \in Nat /\ now \in Nat
    BY <1>1, <1>2 DEF Tokens, Typed
  <2>2. CASE issued[t].finish >= now
    <3>1. issued[t].finish \in later
      BY <1>6, <2>2
    <3> QED BY <3>1, <1>5
  <2>3. CASE issued[t].finish < now
    BY <2>1, <2>3, <1>5
  <2> QED BY <2>1, <2>2, <2>3
<1> QED BY <1>5, <1>6

\* The queue of r after try_reserve lists tokens it listed before, the holder
\* of the turn, and the new token.
LEMMA EnqueueType ==
  ASSUME Typed, QueueOfResource, NEW r \in Resources, NEW t \in Nat,
         NEW rs, Enqueue(rs, r, t)
  PROVE  /\ queue' \in [Resources -> Seq(Tokens \cup {t})]
         /\ Elements(queue'[r]) \subseteq Elements(queue[r]) \cup {t} \cup ({active[r]} \ {NoToken})
         /\ \A q \in Resources \ {r} : queue'[q] = queue[q]
<1> DEFINE X == Tokens \cup {t}
           q == Append(queue[r], t)
           waiting == Elements(q) \ {active[r]}
           front == IF active[r] = NoToken THEN <<>> ELSE <<active[r]>>
<1>1. /\ queue[r] \in Seq(Tokens) /\ queue[r] \in Seq(X) /\ q \in Seq(X)
      /\ queue \in [Resources -> Seq(X)]
      /\ Len(queue[r]) \in Nat
  BY SeqMonotonic, Tokens \subseteq X DEF Typed
<1>2. Elements(q) = Elements(queue[r]) \cup {t}
  <2>1. Len(q) = Len(queue[r]) + 1 /\ \A i \in 1..Len(queue[r]) : q[i] = queue[r][i]
    BY <1>1
  <2>2. q[Len(q)] = t
    BY <1>1
  <2> QED BY <1>1, <2>1, <2>2 DEF Elements
<1>3. Elements(q) \subseteq X
  BY <1>1, <1>2 DEF Elements
<1>4. ASSUME NEW w \in Listings(rs, waiting)
      PROVE  /\ front \o w \in Seq(X)
             /\ Elements(front \o w) \subseteq waiting \cup ({active[r]} \ {NoToken})
  <2>1. IsFiniteSet(waiting) /\ Cardinality(waiting) \in Nat
    <3>1. IsFiniteSet(Elements(q))
      BY <1>1, ElementsFinite
    <3> QED BY <3>1, FS_Subset, FS_CardinalityType
  <2>2. w \in [1..Cardinality(waiting) -> waiting]
    BY DEF Listings
  <2>3. w \in Seq(waiting) /\ Len(w) = Cardinality(waiting)
    <3> HIDE DEF waiting
    <3>1. w \in Seq(waiting)
      BY <2>1, <2>2, SeqDef
    <3>2. DOMAIN w = 1..Cardinality(waiting) /\ DOMAIN w = 1..Len(w) /\ Len(w) \in Nat
      BY <2>2, <3>1, LenProperties
    <3> QED BY <3>1, <3>2, <2>1
  <2>4. active[r] \in {NoToken} \cup Tokens
    BY DEF Typed
  <2>5. w \in Seq(X)
    BY <2>3, <1>3, SeqMonotonic, waiting \subseteq X
  <2>6. CASE active[r] = NoToken
    <3>1. front \o w = w
      BY <2>6, <2>3, ConcatEmptySeq
    <3> QED BY <3>1, <2>2, <2>3, <2>5 DEF Elements
  <2>7. CASE active[r] # NoToken
    <3>1. front = <<active[r]>> /\ front \in Seq(X) /\ Len(front) = 1
      BY <2>4, <2>7
    <3>2. front \o w \in Seq(X) /\ Len(front \o w) = 1 + Len(w)
      BY <3>1, <2>5
    <3>3. \A i \in 1..Len(front \o w) :
            (front \o w)[i] = IF i <= 1 THEN active[r] ELSE w[i - 1]
      BY <3>1, <2>5, <3>2
    <3>4. \A i \in 1..Len(front \o w) : (front \o w)[i] \in waiting \cup {active[r]}
      BY <3>2, <3>3, <2>2, <2>3, <2>1
    <3> QED BY <3>2, <3>4, <2>7 DEF Elements
  <2> QED BY <2>6, <2>7
<1>5. CASE Policy = "edf"
  <2>1. PICK w \in Listings(rs, waiting) : queue' = [queue EXCEPT ![r] = front \o w]
    BY <1>5 DEF Enqueue
  <2>2. queue'[r] = front \o w /\ queue' \in [Resources -> Seq(X)]
    <3> HIDE DEF front, waiting, X
    <3> QED BY <2>1, <1>1, <1>4
  <2>3. \A p \in Resources \ {r} : queue'[p] = queue[p]
    BY <2>1 DEF Typed
  <2>4. Elements(queue'[r]) \subseteq waiting \cup ({active[r]} \ {NoToken})
    <3> HIDE DEF front, waiting, X
    <3> QED BY <2>2, <1>4
  <2> QED BY <2>2, <2>3, <2>4, <1>2
<1>6. CASE Policy # "edf"
  <2>1. queue' = [queue EXCEPT ![r] = q]
    BY <1>6 DEF Enqueue
  <2>2. queue'[r] = q /\ queue' \in [Resources -> Seq(X)]
    <3> HIDE DEF q, X
    <3> QED BY <2>1, <1>1
  <2> QED BY <2>1, <2>2, <1>2 DEF Typed
<1> QED BY <1>5, <1>6

\* try_reserve: a new entry disturbs no turn.
LEMMA ReserveStep ==
  ASSUME IInv, NEW d \in Dispatches, NEW deadline \in Nat, NEW est \in Nat,
         Reserve(d, deadline, est)
  PROVE  IInv'
<1> USE DEF IInv
<1> DEFINE Rec == [binding: Bindings, boot: Nat, deadline: Nat, start: Nat, finish: Nat]
<1>a. PICK b : b = aim[d].binding
  OBVIOUS
<1>b. PICK r : r = ResourceOf[PipelineOf[b]]
  OBVIOUS
<1>c. PICK start : start = IF est = 0 THEN now ELSE EstimatedTail(r)
  OBVIOUS
<1>d. PICK new : new = [binding |-> b, boot |-> aim[d].boot, deadline |-> deadline,
                        start |-> start, finish |-> start + est]
  OBVIOUS
<1>e. PICK t : t = Len(issued) + 1
  OBVIOUS
<1>1. /\ stage[d] = "picked" /\ issued' = Append(issued, new)
      /\ table' = table \cup {t} /\ Enqueue(issued', r, t)
      /\ held' = [held EXCEPT ![d] = t] /\ stage' = [stage EXCEPT ![d] = "waiting"]
      /\ UNCHANGED <<now, active, unknown, aim, observed, trusted, mistaken, boot, inflight,
                     admitted, working, closed>>
  BY <1>a, <1>b, <1>c, <1>d, <1>e DEF Reserve, statusVars, pipelineVars, goalVars
<1>2. /\ b \in Bindings /\ aim[d].boot \in Nat /\ PipelineOf[b] \in Pipelines
      /\ r \in Resources /\ now \in Nat
  BY <1>a, <1>b, ShapeAssumption DEF Typed
<1>3. start \in Nat /\ start + est \in Nat
  <2>1. EstimatedTail(r) \in Nat
    BY <1>2, TailCovers
  <2> QED BY <1>c, <1>2, <2>1
<1>4. new \in Rec
  BY <1>d, <1>2, <1>3
<1>5. /\ issued' \in Seq(Rec) /\ Len(issued) \in Nat /\ Len(issued') = t
      /\ issued'[t] = new /\ \A u \in Tokens : issued'[u] = issued[u]
  <2>1. issued \in Seq(Rec)
    BY DEF Typed
  <2> HIDE DEF Rec
  <2> QED BY <1>e, <1>1, <1>4, <2>1 DEF Tokens
<1>6. Tokens' = Tokens \cup {t} /\ t \notin Tokens /\ t \in Nat /\ t # NoToken
  BY <1>e, <1>5 DEF Tokens, NoToken
<1>7. /\ \A u \in Tokens : Pipeline(u)' = Pipeline(u) /\ Resource(u)' = Resource(u)
      /\ \A u \in Tokens : Kept(u)' <=> Kept(u)
      /\ \A u \in Tokens : HoldsTurn(u) => HoldsTurn(u)'
      /\ Pipeline(t)' = PipelineOf[b] /\ Resource(t)' = r
  <2>1. ASSUME NEW u \in Tokens PROVE Pipeline(u)' = Pipeline(u) /\ Resource(u)' = Resource(u)
    BY <1>5 DEF Pipeline, Resource
  <2>2. ASSUME NEW u \in Tokens PROVE Kept(u)' <=> Kept(u)
    BY <1>1, <1>5, <2>1 DEF Kept, Admits
  <2>3. ASSUME NEW u \in Tokens, HoldsTurn(u) PROVE HoldsTurn(u)'
    BY <1>1, <2>1, <2>3 DEF HoldsTurn
  <2>4. Pipeline(t)' = PipelineOf[b]
    BY <1>d, <1>5 DEF Pipeline
  <2>5. Resource(t)' = r
    BY <1>b, <2>4 DEF Resource
  <2> QED BY <2>1, <2>2, <2>3, <2>4, <2>5
<1>8. /\ queue' \in [Resources -> Seq(Tokens \cup {t})]
      /\ Elements(queue'[r]) \subseteq Elements(queue[r]) \cup {t} \cup ({active[r]} \ {NoToken})
      /\ \A q \in Resources \ {r} : queue'[q] = queue[q]
  BY <1>1, <1>2, <1>6, EnqueueType
<1>9. Typed'
  <2>1. held' \in [Dispatches -> {NoToken} \cup Tokens']
    BY <1>1, <1>6 DEF Typed
  <2>2. stage' \in [Dispatches -> {"idle", "picked", "waiting", "turn", "sent"}]
    BY <1>1 DEF Typed
  <2>3. active' \in [Resources -> {NoToken} \cup Tokens'] /\ queue' \in [Resources -> Seq(Tokens')]
    BY <1>1, <1>6, <1>8 DEF Typed
  <2>4. /\ table' \subseteq Tokens' /\ unknown' \subseteq table' /\ mistaken' \subseteq Tokens'
        /\ inflight' \subseteq Tokens' /\ admitted' \subseteq Tokens' /\ working' \subseteq Tokens'
    BY <1>1, <1>6 DEF Typed
  <2>5. issued' \in Seq([binding: Bindings, boot: Nat, deadline: Nat, start: Nat, finish: Nat])
    BY <1>5
  <2> HIDE DEF Rec
  <2> QED BY <1>1, <2>1, <2>2, <2>3, <2>4, <2>5 DEF Typed
<1>10. BootsOrdered'
  <2>1. ASSUME NEW u \in Tokens' PROVE issued'[u].boot <= observed'[Pipeline(u)']
    <3>1. CASE u = t
      BY <3>1, <1>a, <1>d, <1>1, <1>5, <1>7 DEF BootsOrdered
    <3>2. CASE u \in Tokens
      BY <3>2, <1>1, <1>5, <1>7 DEF BootsOrdered
    <3> QED BY <3>1, <3>2, <1>6
  <2> QED BY <1>1, <2>1 DEF BootsOrdered
<1>11. HeldOnce'
  <2>1. held'[d] = t /\ stage'[d] = "waiting"
    BY <1>1 DEF Typed
  <2>2. \A e \in Dispatches \ {d} :
          held'[e] = held[e] /\ stage'[e] = stage[e] /\ held[e] # t /\ held[e] \in {NoToken} \cup Tokens
    BY <1>1, <1>6 DEF Typed
  <2>3. \A e \in Dispatches : held'[e] # NoToken => issued'[held'[e]].boot = aim'[e].boot
    <3>1. issued'[t].boot = aim[d].boot
      BY <1>d, <1>5
    <3>2. ASSUME NEW e \in Dispatches \ {d}, held[e] # NoToken
          PROVE  issued'[held[e]].boot = aim[e].boot
      BY <1>5, <2>2, <3>2 DEF HeldOnce
    <3> QED BY <1>1, <2>1, <2>2, <3>1, <3>2
  <2> QED BY <1>6, <2>1, <2>2, <2>3 DEF HeldOnce
<1>12. QueueOfResource'
  <2>1. ASSUME NEW q \in Resources, NEW u \in Elements(queue'[q]) PROVE Resource(u)' = q
    <3>1. Elements(queue[q]) \subseteq Tokens /\ active[r] \in {NoToken} \cup Tokens
      BY <1>2 DEF Typed, Elements
    <3>2. u = t \/ (u \in Tokens /\ Resource(u) = q)
      <4>1. CASE q = r
        BY <4>1, <3>1, <2>1, <1>2, <1>8 DEF QueueOfResource
      <4>2. CASE q # r
        BY <4>2, <3>1, <2>1, <1>2, <1>8 DEF QueueOfResource
      <4> QED BY <4>1, <4>2
    <3>3. u = t => q = r
      BY <3>1, <2>1, <1>6, <1>8
    <3> QED BY <3>2, <3>3, <1>7
  <2>2. ASSUME NEW q \in Resources, active[q] # NoToken PROVE Resource(active[q])' = q
    <3>1. PICK u \in Tokens : u = active[q]
      BY <2>2 DEF Typed
    <3>2. Resource(u)' = q
      BY <2>2, <3>1, <1>7 DEF QueueOfResource
    <3> QED BY <3>1, <3>2, <1>1 DEF Resource, Pipeline
  <2>3. \A q \in Resources : Elements(queue[q])' = Elements(queue'[q])
    BY DEF Elements
  <2> QED BY <1>1, <2>1, <2>2, <2>3 DEF QueueOfResource
<1>13. ASSUME NEW e \in Dispatches, stage'[e] = "turn", Kept(held[e])'
       PROVE  HoldsTurn(held[e])'
  <2>1. stage[e] = "turn" /\ held'[e] = held[e] /\ held[e] \in Tokens
    BY <1>1, <1>13 DEF Typed, HeldOnce
  <2>2. PICK u \in Tokens : u = held[e]
    BY <2>1
  <2>3. Kept(u)'
    BY <1>13, <2>1, <2>2 DEF Kept, Admits, Pipeline
  <2>4. HoldsTurn(u)'
    BY <2>1, <2>2, <2>3, <1>7 DEF TurnHeld
  <2> QED BY <2>1, <2>2, <2>4 DEF HoldsTurn, Resource, Pipeline
<1>14. TurnHeld'
  <2>1. \A u \in UnderWay' : Kept(u)' => HoldsTurn(u)'
    BY <1>1, <1>7 DEF TurnHeld, Typed, UnderWay
  <2> QED BY <1>13, <2>1 DEF TurnHeld
<1>15. SentInTurn'
  <2>1. \A u \in admitted' \cup working' : issued'[u].boot = boot'[Pipeline(u)']
    BY <1>1, <1>5, <1>7 DEF SentInTurn, Typed
  <2>2. \A e \in Dispatches : stage'[e] \in {"waiting", "turn"} => held'[e] \notin UnderWay'
    BY <1>1, <1>6 DEF SentInTurn, Typed, UnderWay
  <2> QED BY <2>1, <2>2 DEF SentInTurn
<1>16. NoFencedUnknown'
  <2>1. unknown' \subseteq Tokens
    BY <1>1 DEF Typed
  <2> QED BY <2>1, <1>1, <1>5, <1>7 DEF NoFencedUnknown
<1> QED BY <1>9, <1>10, <1>11, <1>12, <1>14, <1>15, <1>16

\* Steps that touch neither the table nor the pipelines.
LEMMA ThreadStep ==
  ASSUME IInv, NEW d \in Dispatches, PickCandidate(d) \/ Refuse(d)
  PROVE  IInv'
<1> USE DEF IInv
<1>1. UNCHANGED <<now, issued, table, queue, active, unknown, observed, trusted, mistaken, boot,
                  inflight, admitted, working, closed>>
  BY DEF PickCandidate, Refuse, tableVars, statusVars, pipelineVars, goalVars
<1>2. /\ stage' \in [Dispatches -> {"idle", "picked", "waiting", "turn", "sent"}]
      /\ aim' \in [Dispatches -> [binding: Bindings, boot: Nat]]
      /\ held' \in [Dispatches -> {NoToken} \cup Tokens]
      /\ HeldOnce'
      /\ \A e \in Dispatches : aim'[e].boot <= observed[PipelineOf[aim'[e].binding]]
      /\ \A e \in Dispatches : stage'[e] \in {"waiting", "turn"} =>
           stage'[e] = stage[e] /\ held'[e] = held[e]
  <2>1. CASE Refuse(d)
    BY <2>1, <1>1, GiveUpKeeps DEF Refuse
  <2>2. CASE PickCandidate(d)
    <3>1. PICK b \in Bindings :
            aim' = [aim EXCEPT ![d] = [binding |-> b, boot |-> observed[PipelineOf[b]]]]
      BY <2>2 DEF PickCandidate
    <3>2. observed[PipelineOf[b]] \in Nat
      BY ShapeAssumption DEF Typed
    <3>3. stage[d] = "idle" /\ stage' = [stage EXCEPT ![d] = "picked"] /\ held' = held
      BY <2>2 DEF PickCandidate
    <3>4. aim' \in [Dispatches -> [binding: Bindings, boot: Nat]]
      BY <3>1, <3>2 DEF Typed
    <3>5. HeldOnce'
      BY <1>1, <3>1, <3>3 DEF HeldOnce, Typed
    <3>6. \A e \in Dispatches : aim'[e].boot <= observed[PipelineOf[aim'[e].binding]]
      BY <3>1, <3>2 DEF BootsOrdered, Typed
    <3> QED BY <3>3, <3>4, <3>5, <3>6 DEF Typed
  <2> QED BY <2>1, <2>2
<1>3. Typed'
  BY <1>1, <1>2 DEF Typed, Tokens
<1>4. BootsOrdered'
  BY <1>1, <1>2 DEF BootsOrdered, Tokens, Pipeline
<1>5. QueueOfResource' /\ NoFencedUnknown'
  BY <1>1 DEF QueueOfResource, NoFencedUnknown, Resource, Pipeline
<1>6. TurnHeld' /\ SentInTurn'
  BY <1>1, <1>2, SameTurns
<1> QED BY <1>2, <1>3, <1>4, <1>5, <1>6

\* Steps of the clock, of a goal on its way and of the pipelines: they leave
\* the table and its callers alone.
LEMMA OutsideStep ==
  ASSUME IInv,
         UNCHANGED <<issued, table, queue, active, unknown, aim, held, observed, trusted, mistaken>>,
         stage' \in [Dispatches -> {"idle", "picked", "waiting", "turn", "sent"}],
         \A e \in Dispatches : stage'[e] # stage[e] => stage[e] = "turn" /\ stage'[e] = "sent",
         now' \in Nat, boot' \in [Pipelines -> Nat],
         \A p \in Pipelines : boot[p] <= boot'[p],
         UnderWay' \subseteq
           UnderWay \cup {held[e] : e \in {x \in Dispatches : stage'[x] # stage[x]}},
         \A t \in Tokens : Admits(t)' => Admits(t),
         \A t \in admitted' \cup working' : issued[t].boot = boot'[Pipeline(t)]
  PROVE  IInv'
<1> USE DEF IInv
<1>1. \A e \in Dispatches : stage'[e] # stage[e] => held[e] \in Tokens /\ held[e] # NoToken
  BY DEF HeldOnce, Typed
<1>2. Typed'
  <2>1. UnderWay \subseteq Tokens
    BY DEF Typed, UnderWay
  <2>2. inflight' \subseteq Tokens /\ admitted' \subseteq Tokens /\ working' \subseteq Tokens
    BY <1>1, <2>1 DEF UnderWay
  <2> QED BY <2>2 DEF Typed, Tokens
<1>3. BootsOrdered'
  <2>1. ASSUME NEW p \in Pipelines PROVE observed[p] <= boot'[p]
    <3>1. observed[p] \in Nat /\ boot[p] \in Nat /\ boot'[p] \in Nat
      BY DEF Typed
    <3> QED BY <3>1 DEF BootsOrdered
  <2> QED BY <2>1 DEF BootsOrdered, Tokens, Pipeline
<1>4. HeldOnce'
  BY DEF HeldOnce, Typed
<1>5. QueueOfResource' /\ NoFencedUnknown'
  BY DEF QueueOfResource, NoFencedUnknown, Resource, Pipeline
<1>6. ASSUME NEW t \in UnderWay', Kept(t)' PROVE HoldsTurn(t)'
  <2>1. t \in Tokens
    BY <1>2 DEF Typed, Tokens, UnderWay
  <2>2. Kept(t)
    BY <1>6, <2>1 DEF Kept
  <2>3. HoldsTurn(t)
    BY <2>2 DEF TurnHeld
  <2> QED BY <2>3 DEF HoldsTurn, Resource, Pipeline
<1>7. ASSUME NEW e \in Dispatches, stage'[e] = "turn", Kept(held[e])'
      PROVE  HoldsTurn(held[e])'
  <2>1. stage[e] = "turn" /\ held[e] \in Tokens
    BY <1>7 DEF HeldOnce, Typed
  <2>2. PICK t \in Tokens : t = held[e]
    BY <2>1
  <2>3. Admits(t)' /\ t \notin mistaken
    BY <1>7, <2>2 DEF Kept, Admits, Pipeline
  <2>4. HoldsTurn(t)
    BY <2>1, <2>2, <2>3 DEF TurnHeld, Kept
  <2> QED BY <2>2, <2>4 DEF HoldsTurn, Resource, Pipeline
<1>8. TurnHeld'
  BY <1>6, <1>7 DEF TurnHeld
<1>9. SentInTurn'
  <2>1. ASSUME NEW e \in Dispatches, stage'[e] \in {"waiting", "turn"}
        PROVE  held[e] \notin UnderWay'
    <3>1. stage'[e] = stage[e] /\ held[e] # NoToken /\ held[e] \notin UnderWay
      BY <2>1 DEF SentInTurn, HeldOnce
    <3>2. \A x \in Dispatches : stage'[x] # stage[x] => held[x] # held[e]
      BY <3>1 DEF HeldOnce
    <3> QED BY <3>1, <3>2
  <2> QED BY <2>1 DEF SentInTurn, Pipeline
<1> QED BY <1>2, <1>3, <1>4, <1>5, <1>8, <1>9

\* The clock and the processes.
LEMMA PipelineSteps ==
  ASSUME IInv
  PROVE  /\ Tick => IInv'
         /\ UNCHANGED vars => IInv'
         /\ \A d \in Dispatches : Send(d) => IInv'
         /\ \A t \in Tokens : Accept(t) \/ TakeSlot(t) \/ NoSlot(t) \/ Finish(t) => IInv'
         /\ \A b \in Bindings : Drain(b) => IInv'
         /\ \A p \in Pipelines : Reboot(p) => IInv'
<1> USE DEF IInv
<1>1. ASSUME Tick \/ UNCHANGED vars PROVE IInv'
  <2>1. UNCHANGED <<issued, table, queue, active, unknown, stage, aim, held, observed, trusted,
                    mistaken, boot, inflight, admitted, working, closed>> /\ now' \in Nat
    BY <1>1 DEF Tick, vars, tableVars, threadVars, statusVars, pipelineVars, goalVars, Typed
  <2>2. \A t : Admits(t)' <=> Admits(t)
    BY <2>1 DEF Admits, Pipeline
  <2>3. UnderWay' = UnderWay
    BY <2>1 DEF UnderWay
  <2> QED BY <2>1, <2>2, <2>3, OutsideStep DEF Typed, SentInTurn
<1>2. ASSUME NEW d \in Dispatches, Send(d) PROVE IInv'
  <2>1. /\ UNCHANGED <<now, issued, table, queue, active, unknown, aim, held, observed, trusted,
                       mistaken, boot, admitted, working, closed>>
        /\ stage[d] = "turn" /\ stage' = [stage EXCEPT ![d] = "sent"]
        /\ inflight' = inflight \cup {held[d]}
    BY <1>2 DEF Send, tableVars, statusVars
  <2>2. \A t : Admits(t)' <=> Admits(t)
    BY <2>1 DEF Admits, Pipeline
  <2>3. stage' \in [Dispatches -> {"idle", "picked", "waiting", "turn", "sent"}] /\ stage'[d] # stage[d]
        /\ \A e \in Dispatches : stage'[e] # stage[e] => stage[e] = "turn" /\ stage'[e] = "sent"
    BY <2>1 DEF Typed
  <2>4. UnderWay' \subseteq
          UnderWay \cup {held[e] : e \in {x \in Dispatches : stage'[x] # stage[x]}}
    BY <2>1, <2>3 DEF UnderWay
  <2> QED BY <2>1, <2>2, <2>3, <2>4, OutsideStep DEF Typed, SentInTurn
<1>3. ASSUME NEW t \in Tokens, Accept(t) \/ TakeSlot(t) \/ NoSlot(t) \/ Finish(t) PROVE IInv'
  <2>1. /\ UNCHANGED <<now, issued, table, queue, active, unknown, stage, aim, held, observed,
                       trusted, mistaken, boot, closed>>
        /\ UnderWay' \subseteq UnderWay
        /\ \A u \in admitted' \cup working' : u \in admitted \cup working \/ (u = t /\ Admits(t))
    BY <1>3 DEF Accept, TakeSlot, NoSlot, Finish, tableVars, threadVars, statusVars, UnderWay
  <2>2. \A u : Admits(u)' <=> Admits(u)
    BY <2>1 DEF Admits, Pipeline
  <2>3. \A u \in admitted' \cup working' : issued[u].boot = boot'[Pipeline(u)]
    BY <2>1 DEF SentInTurn, Admits
  <2> QED BY <2>1, <2>2, <2>3, OutsideStep DEF Typed
<1>4. ASSUME NEW b \in Bindings, Drain(b) PROVE IInv'
  <2>1. /\ UNCHANGED <<now, issued, table, queue, active, unknown, stage, aim, held, observed,
                       trusted, mistaken, boot, inflight, admitted, working>>
        /\ closed \subseteq closed'
    BY <1>4 DEF Drain, tableVars, threadVars, statusVars, goalVars
  <2>2. \A t \in Tokens : Admits(t)' => Admits(t)
    BY <2>1 DEF Admits, Pipeline
  <2>3. UnderWay' = UnderWay
    BY <2>1 DEF UnderWay
  <2> QED BY <2>1, <2>2, <2>3, OutsideStep DEF Typed, SentInTurn
<1>5. ASSUME NEW p \in Pipelines, Reboot(p) PROVE IInv'
  <2>1. /\ UNCHANGED <<now, issued, table, queue, active, unknown, stage, aim, held, observed,
                       trusted, mistaken, inflight, closed>>
        /\ boot' = [boot EXCEPT ![p] = @ + 1]
        /\ admitted' = {t \in admitted : Pipeline(t) # p}
        /\ working' = {t \in working : Pipeline(t) # p}
    BY <1>5 DEF Reboot, tableVars, threadVars, statusVars
  <2>2. /\ boot' \in [Pipelines -> Nat] /\ \A q \in Pipelines : boot[q] <= boot'[q]
        /\ boot[p] \in Nat /\ boot'[p] = boot[p] + 1 /\ \A q \in Pipelines \ {p} : boot'[q] = boot[q]
    BY <2>1 DEF Typed
  <2>3. ASSUME NEW t \in Tokens, Admits(t)' PROVE Admits(t)
    <3>1. Pipeline(t) \in Pipelines /\ issued[t].boot \in Nat
      BY TokenTypes
    <3>2. issued[t].boot <= observed[Pipeline(t)] /\ observed[Pipeline(t)] <= boot[Pipeline(t)]
          /\ observed[Pipeline(t)] \in Nat /\ boot[Pipeline(t)] \in Nat
      BY <3>1 DEF BootsOrdered, Typed
    <3>3. issued[t].boot = boot'[Pipeline(t)] /\ <<issued[t].binding, issued[t].boot>> \notin closed
      BY <2>1, <2>3 DEF Admits, Pipeline
    <3> QED BY <3>1, <3>2, <3>3, <2>2 DEF Admits
  <2>4. ASSUME NEW t \in admitted' \cup working' PROVE issued[t].boot = boot'[Pipeline(t)]
    <3>1. t \in Tokens /\ t \in admitted \cup working /\ Pipeline(t) # p
      BY <2>1 DEF Typed
    <3>2. Pipeline(t) \in Pipelines
      BY <3>1, TokenTypes
    <3> QED BY <3>1, <3>2, <2>2 DEF SentInTurn
  <2>5. UnderWay' \subseteq UnderWay
    BY <2>1 DEF UnderWay
  <2> QED BY <2>1, <2>2, <2>3, <2>4, <2>5, OutsideStep DEF Typed
<1> QED BY <1>1, <1>2, <1>3, <1>4, <1>5

-----------------------------------------------------------------------------
\* Every step of the specification keeps the invariant.
LEMMA NextIInv == IInv /\ [Next]_vars => IInv'
<1> SUFFICES ASSUME IInv, [Next]_vars PROVE IInv'
  OBVIOUS
<1>1. ASSUME NEW d \in Dispatches, ReserveAny(d) PROVE IInv'
  <2>1. PICK deadline \in Deadlines : \E est \in IF Policy = "fifo" THEN Estimates ELSE {0} :
          Reserve(d, deadline, est)
    BY <1>1 DEF ReserveAny
  <2>2. PICK est \in IF Policy = "fifo" THEN Estimates ELSE {0} : Reserve(d, deadline, est)
    BY <2>1
  <2>3. deadline \in Nat /\ est \in Nat
    BY NumberAssumption
  <2> QED BY <2>2, <2>3, ReserveStep
<1>2. ASSUME NEW d \in Dispatches, Poll(d) PROVE IInv'
  BY <1>2, PollGivesUp, WaitPassStep DEF Poll
<1> QED
  BY <1>1, <1>2, PipelineSteps, ThreadStep, PollGivesUp, SettleStep, MarkUnknownStep,
     ReconcileBindingStep, ObserveStatusStep, TrustBootStep DEF Next

\* Work that executes and is no stray holds the turn of its resource, and a
\* turn has one holder.
LEMMA IInvExclusive == IInv => OnlyStraysOverlap
<1> SUFFICES ASSUME IInv, NEW t \in working, ~ Stray(t) PROVE active[Resource(t)] = t
  BY DEF OnlyStraysOverlap
<1>1. t \in UnderWay /\ issued[t].boot = boot[Pipeline(t)]
  BY DEF IInv, SentInTurn, UnderWay
<1>2. Kept(t)
  BY <1>1 DEF Stray, Kept, Admits
<1> QED BY <1>1, <1>2 DEF IInv, TurnHeld, HoldsTurn

(* The inductive invariant holds in every reachable state: a goal that may *)
(* execute has its entry and the turn of its resource, unless it was       *)
(* drained past or released under a boot that was not trusted yet, and the *)
(* boot a thread names may be ahead of the trusted one.                    *)
THEOREM InductiveInvariant == Spec => []IInv
BY InitIInv, NextIInv, PTL DEF Spec

\* The clock stops at its bound, and what has been closed was a binding of
\* some process.
Bounds == now <= MaxTime /\ closed \subseteq Bindings \X Nat

\* Only the clock and the Close of a pipeline move what Bounds is about.
LEMMA NextBounds == IInv /\ Bounds /\ [Next]_vars => Bounds'
<1> SUFFICES ASSUME IInv, Bounds, [Next]_vars PROVE Bounds'
  OBVIOUS
<1> USE DEF Bounds
<1>1. CASE Tick
  BY <1>1, NumberAssumption DEF Tick, pipelineVars, goalVars, IInv, Typed
<1>2. ASSUME NEW b \in Bindings, Drain(b) PROVE now' = now /\ closed' \subseteq Bindings \X Nat
  <2>1. PICK e : e = boot[PipelineOf[b]]
    OBVIOUS
  <2>2. e \in Nat
    BY <2>1, ShapeAssumption DEF IInv, Typed
  <2>3. closed' = closed \cup {<<b, e>>} /\ now' = now
    BY <1>2, <2>1 DEF Drain
  <2> QED BY <2>2, <2>3
<1>3. ASSUME NEW d \in Dispatches,
             \/ PickCandidate(d) \/ ReserveAny(d) \/ Refuse(d) \/ Poll(d) \/ WaitCanceled(d)
             \/ Send(d) \/ Settle(d) \/ MarkUnknown(d)
      PROVE  now' = now /\ closed' = closed
  BY <1>3 DEF PickCandidate, ReserveAny, Reserve, Refuse, Poll, WaitReleased, WaitExpired,
     WaitPass, WaitCanceled, Send, Settle, MarkUnknown, pipelineVars
<1>4. ASSUME NEW b, NEW e, ReconcileBinding(b, e) PROVE now' = now /\ closed' = closed
  BY <1>4 DEF ReconcileBinding, pipelineVars
<1>5. ASSUME NEW p, ObserveStatus(p) \/ TrustBoot(p) \/ Reboot(p)
      PROVE  now' = now /\ closed' = closed
  BY <1>5 DEF ObserveStatus, TrustBoot, Reboot, pipelineVars
<1>6. ASSUME NEW t, Accept(t) \/ TakeSlot(t) \/ NoSlot(t) \/ Finish(t)
      PROVE  now' = now /\ closed' = closed
  BY <1>6 DEF Accept, TakeSlot, NoSlot, Finish
<1>7. CASE UNCHANGED vars
  BY <1>7 DEF vars, pipelineVars
<1> QED BY <1>1, <1>2, <1>3, <1>4, <1>5, <1>6, <1>7 DEF Next

(* The types of the table, of the threads and of the processes hold for    *)
(* every number of them, and the clock and the drained bindings stay in    *)
(* their ranges.                                                           *)
THEOREM TypeCorrect == Spec => []TypeOK
<1>1. Init => Bounds
  BY NumberAssumption DEF Init, Bounds
<1>2. IInv /\ Bounds => TypeOK
  BY NumberAssumption DEF IInv, Typed, TypeOK, Reservation, Bounds
<1> QED BY <1>1, <1>2, NextBounds, InductiveInvariant, PTL DEF Spec

(* Whatever is lost, late, cancelled, expired or rebooted, two reserved    *)
(* dispatches execute on one hardware resource only if one of them is a    *)
(* stray: its Close drained past it while it had no slot, or it was marked *)
(* under a boot that the scheduler did not trust yet.                      *)
THEOREM Exclusive == Spec => []OnlyStraysOverlap
BY InductiveInvariant, IInvExclusive, PTL

(* No reservation stays UNKNOWN for a process that has been replaced: the  *)
(* resource becomes available again with the first trusted status.         *)
THEOREM FencedUnknownReleased == Spec => []NoFencedUnknown
<1>1. IInv => NoFencedUnknown
  BY DEF IInv
<1> QED BY <1>1, InductiveInvariant, PTL

-----------------------------------------------------------------------------
(* The queues: a second inductive invariant, on top of the first.          *)

\* The holder a of the turn stands first, the others in policy order.
InLine(rs, a, q) ==
  \A i, j \in 1..Len(q) : i < j =>
    q[j] # a /\ (q[i] = a \/ Precedes(rs, q[i], q[j]))

EntriesOf(r) == {t \in table : Resource(t) = r}

QueueLists == \A r \in Resources : Elements(queue[r]) = EntriesOf(r)

\* A turn is held by an entry that is still queued.
TurnListed ==
  \A r \in Resources : active[r] # NoToken => active[r] \in Elements(queue[r])

QueueOrdered == \A r \in Resources : InLine(issued, active[r], queue[r])

QueueInv == QueueLists /\ TurnListed /\ QueueOrdered

-----------------------------------------------------------------------------
(* How a line changes.                                                     *)

\* Who leaves does not change the order of the others.
LEMMA InLineFiltered ==
  ASSUME NEW X, NEW q \in Seq(X), NEW rs, NEW a, NEW S, InLine(rs, a, q)
  PROVE  InLine(rs, a, Without(q, S))
<1> DEFINE w == Without(q, S)
<1>1. \A i, j \in 1..Len(w) : i < j =>
        \E k, l \in 1..Len(q) : k < l /\ w[i] = q[k] /\ w[j] = q[l]
  BY WithoutKeeps
<1>2. ASSUME NEW i \in 1..Len(w), NEW j \in 1..Len(w), i < j
      PROVE  w[j] # a /\ (w[i] = a \/ Precedes(rs, w[i], w[j]))
  <2> HIDE DEF w
  <2>1. PICK k \in 1..Len(q), l \in 1..Len(q) : k < l /\ w[i] = q[k] /\ w[j] = q[l]
    BY <1>1, <1>2
  <2> QED BY <2>1 DEF InLine
<1> QED BY <1>2 DEF InLine

\* A line without its holder is a line that nobody heads by turn.
LEMMA InLineVacant ==
  ASSUME NEW q, NEW rs, NEW a, InLine(rs, a, q),
         a \notin Elements(q), NoToken \notin Elements(q)
  PROVE  InLine(rs, NoToken, q)
<1>1. \A i \in 1..Len(q) : q[i] # a /\ q[i] # NoToken
  BY DEF Elements
<1> QED BY <1>1 DEF InLine

\* The first of a line may take the turn.
LEMMA InLineClaimed ==
  ASSUME NEW q, NEW rs, InLine(rs, NoToken, q), NoToken \notin Elements(q),
         \A t \in Elements(q) : ~ Precedes(rs, t, t)
  PROVE  InLine(rs, q[1], q)
<1> SUFFICES ASSUME NEW i \in 1..Len(q), NEW j \in 1..Len(q), i < j
             PROVE  q[j] # q[1] /\ (q[i] = q[1] \/ Precedes(rs, q[i], q[j]))
  BY DEF InLine
<1>1. \A k \in 1..Len(q) : q[k] # NoToken /\ ~ Precedes(rs, q[k], q[k])
  BY DEF Elements
<1>2. 1 \in 1..Len(q) /\ 1 < j
  OBVIOUS
<1>3. Precedes(rs, q[1], q[j]) /\ Precedes(rs, q[i], q[j])
  BY <1>1, <1>2 DEF InLine
<1>4. q[j] # q[1]
  BY <1>1, <1>3
<1> QED BY <1>3, <1>4

\* A line depends on the records of its members only.
LEMMA InLineSame ==
  ASSUME NEW q, NEW rs, NEW rs2, NEW a, InLine(rs, a, q),
         \A t \in Elements(q) : rs2[t] = rs[t]
  PROVE  InLine(rs2, a, q)
<1>1. \A i \in 1..Len(q) : rs2[q[i]] = rs[q[i]]
  BY DEF Elements
<1> QED BY <1>1 DEF InLine, Precedes, SortsBefore

\* First in, first out: a later token goes to the end of the line.
LEMMA InLineAppended ==
  ASSUME NEW q \in Seq(Nat), NEW rs, NEW a, InLine(rs, a, q),
         NEW t \in Nat, t # a, \A u \in Elements(q) : u < t, Policy # "edf"
  PROVE  InLine(rs, a, Append(q, t))
<1> DEFINE w == Append(q, t)
<1>1. /\ Len(q) \in Nat /\ Len(w) = Len(q) + 1
      /\ \A i \in 1..Len(q) : w[i] = q[i] /\ q[i] < t
      /\ w[Len(q) + 1] = t
  BY DEF Elements
<1>2. ASSUME NEW i \in 1..Len(w), NEW j \in 1..Len(w), i < j
      PROVE  w[j] # a /\ (w[i] = a \/ Precedes(rs, w[i], w[j]))
  <2>1. i \in 1..Len(q)
    BY <1>1, <1>2
  <2>2. CASE j \in 1..Len(q)
    BY <1>1, <1>2, <2>1, <2>2 DEF InLine
  <2>3. CASE j = Len(q) + 1
    BY <1>1, <2>1, <2>3 DEF Precedes
  <2> QED BY <1>1, <2>2, <2>3
<1> QED BY <1>2 DEF InLine

\* Earliest deadline first: the holder of the turn, then a listing of the
\* others.
LEMMA InLineListed ==
  ASSUME NEW S, IsFiniteSet(S), NEW rs, NEW a, a \notin S, NoToken \notin S,
         Policy = "edf", \A t \in S : ~ SortsBefore(rs, t, t),
         NEW w \in Listings(rs, S)
  PROVE  LET front == IF a = NoToken THEN <<>> ELSE <<a>> IN
         /\ Elements(front \o w) = S \cup ({a} \ {NoToken})
         /\ InLine(rs, a, front \o w)
<1>1. Cardinality(S) \in Nat
  BY FS_CardinalityType
<1>2. /\ w \in [1..Cardinality(S) -> S]
      /\ \A i, j \in 1..Cardinality(S) : i < j => SortsBefore(rs, w[i], w[j])
  BY DEF Listings
<1>3. \A i, j \in 1..Cardinality(S) : i < j => w[i] # w[j]
  BY <1>2
<1>4. w \in Seq(S) /\ Len(w) = Cardinality(S) /\ Elements(w) = S
  BY <1>2, <1>3, ListsAll
<1>5. \A i \in 1..Len(w) : w[i] \in S
  BY <1>2, <1>4
<1>6. CASE a = NoToken
  <2>1. <<>> \o w = w
    BY <1>4, ConcatEmptySeq
  <2>2. InLine(rs, a, w)
    BY <1>2, <1>4, <1>5 DEF InLine, Precedes
  <2> QED BY <1>4, <1>6, <2>1, <2>2
<1>7. CASE a # NoToken
  <2> DEFINE v == <<a>> \o w
  <2>1. <<a>> \in Seq(S \cup {a}) /\ Len(<<a>>) = 1 /\ <<a>>[1] = a
    OBVIOUS
  <2>2. w \in Seq(S \cup {a})
    BY <1>4, SeqMonotonic
  <2>3. /\ Len(v) = 1 + Len(w) /\ Len(w) \in Nat
        /\ \A i \in 1..(1 + Len(w)) : v[i] = IF i <= 1 THEN a ELSE w[i - 1]
    BY <2>1, <2>2, ConcatProperties, <1>4
  <2>4. v[1] = a /\ \A i \in 1..Len(w) : v[i + 1] = w[i]
    BY <2>3
  <2>5. Elements(v) = S \cup {a}
    <3>1. ASSUME NEW x \in Elements(v) PROVE x \in S \cup {a}
      <4>1. PICK i \in 1..Len(v) : x = v[i]
        BY <3>1 DEF Elements
      <4>2. i = 1 \/ (i - 1 \in 1..Len(w) /\ v[i] = w[i - 1])
        BY <2>3
      <4> QED BY <4>1, <4>2, <2>4, <1>5
    <3>2. a \in Elements(v)
      <4>1. 1 \in 1..Len(v)
        BY <2>3
      <4> QED BY <4>1, <2>4 DEF Elements
    <3>3. ASSUME NEW x \in S PROVE x \in Elements(v)
      <4>1. PICK i \in 1..Len(w) : x = w[i]
        BY <1>4 DEF Elements
      <4>2. i + 1 \in 1..Len(v) /\ v[i + 1] = x
        BY <4>1, <2>3, <2>4
      <4> HIDE DEF v
      <4> QED BY <4>2 DEF Elements
    <3> QED BY <3>1, <3>2, <3>3
  <2>6. ASSUME NEW i \in 1..Len(v), NEW j \in 1..Len(v), i < j
        PROVE  v[j] # a /\ (v[i] = a \/ Precedes(rs, v[i], v[j]))
    <3>1. j - 1 \in 1..Len(w) /\ v[j] = w[j - 1] /\ v[j] # a
      BY <2>3, <2>6, <1>5
    <3>2. CASE i = 1
      BY <3>1, <3>2, <2>4
    <3>3. CASE i # 1
      <4>1. i - 1 \in 1..Len(w) /\ v[i] = w[i - 1] /\ i - 1 < j - 1
        BY <2>3, <2>6, <3>3
      <4>2. SortsBefore(rs, w[i - 1], w[j - 1])
        BY <4>1, <3>1, <1>2, <1>4
      <4> QED BY <3>1, <4>1, <4>2 DEF Precedes
    <3> QED BY <3>2, <3>3
  <2>7. InLine(rs, a, v)
    BY <2>6 DEF InLine
  <2> QED BY <1>7, <2>5, <2>7
<1> QED BY <1>6, <1>7

\* No reservation precedes itself.
LEMMA NotBeforeItself ==
  ASSUME Typed, NEW t \in Tokens
  PROVE  ~ SortsBefore(issued, t, t) /\ ~ Precedes(issued, t, t)
<1>1. t \in Nat /\ issued[t].deadline \in Nat
  BY TokenTypes
<1> QED BY <1>1 DEF SortsBefore, Precedes

-----------------------------------------------------------------------------
(* How a step changes the queues.                                          *)

\* A line holds tokens only, and none comes before itself.
LEMMA QueueTokens ==
  ASSUME Typed, NEW r \in Resources
  PROVE  /\ queue[r] \in Seq(Tokens)
         /\ Elements(queue[r]) \subseteq Tokens
         /\ NoToken \notin Elements(queue[r])
         /\ active[r] \in {NoToken} \cup Tokens
         /\ \A t \in Elements(queue[r]) : ~ Precedes(issued, t, t)
<1>1. queue[r] \in Seq(Tokens) /\ active[r] \in {NoToken} \cup Tokens
  BY DEF Typed
<1>2. Elements(queue[r]) \subseteq Tokens
  BY <1>1 DEF Elements
<1>3. \A t \in Tokens : t # NoToken /\ ~ Precedes(issued, t, t)
  BY TokenTypes, NotBeforeItself
<1> QED BY <1>1, <1>2, <1>3

\* A step that leaves reservations, entries and turns alone.
LEMMA QueueUnchanged ==
  ASSUME QueueInv, UNCHANGED <<issued, table, queue, active>>
  PROVE  QueueInv'
BY DEF QueueInv, QueueLists, TurnListed, QueueOrdered, EntriesOf, Resource, Pipeline,
       InLine, Precedes, SortsBefore, Elements

\* Entries that leave the table leave the queues and give up their turns.
LEMMA QueueRemoval ==
  ASSUME Typed, QueueInv, UNCHANGED issued, NEW S, Remove(S)
  PROVE  QueueInv'
<1> USE DEF QueueInv
<1>1. ASSUME NEW r \in Resources
      PROVE  /\ Elements(queue'[r]) = EntriesOf(r)'
             /\ active'[r] # NoToken => active'[r] \in Elements(queue'[r])
             /\ InLine(issued, active'[r], queue'[r])
  <2>1. PICK q : q = queue[r]
    OBVIOUS
  <2>2. PICK a : a = active[r]
    OBVIOUS
  <2>3. /\ q \in Seq(Tokens) /\ Elements(q) \subseteq Tokens /\ NoToken \notin Elements(q)
        /\ Elements(q) = EntriesOf(r) /\ InLine(issued, a, q)
        /\ a # NoToken => a \in Elements(q)
    BY <2>1, <2>2, QueueTokens DEF QueueLists, TurnListed, QueueOrdered
  <2>4. PICK w : w = Without(q, S)
    OBVIOUS
  <2>5. queue'[r] = w /\ active'[r] = IF a \in S THEN NoToken ELSE a
    BY <2>1, <2>2, <2>4 DEF Remove
  <2>6. Elements(w) = Elements(q) \ S
    BY <2>3, <2>4, WithoutKeeps
  <2>7. EntriesOf(r)' = EntriesOf(r) \ S
    BY DEF EntriesOf, Remove, Resource, Pipeline
  <2>8. InLine(issued, a, w)
    BY <2>3, <2>4, InLineFiltered
  <2>9. CASE a \in S
    <3>1. a \notin Elements(w) /\ NoToken \notin Elements(w)
      BY <2>3, <2>6, <2>9
    <3>2. InLine(issued, NoToken, w)
      BY <2>8, <3>1, InLineVacant
    <3> QED BY <2>3, <2>5, <2>6, <2>7, <2>9, <3>2
  <2>10. CASE a \notin S
    BY <2>3, <2>5, <2>6, <2>7, <2>8, <2>10
  <2> QED BY <2>9, <2>10
<1>2. QueueLists'
  BY <1>1 DEF QueueLists, Elements
<1>3. TurnListed'
  BY <1>1 DEF TurnListed, Elements
<1>4. QueueOrdered'
  BY <1>1 DEF QueueOrdered, InLine, Precedes, SortsBefore
<1> QED BY <1>2, <1>3, <1>4

\* The other waiters that are too late leave the line of r; then the first
\* of the line may take the turn.
LEMMA QueueWaitPass ==
  ASSUME IInv, QueueInv, NEW d \in Dispatches, WaitPass(d)
  PROVE  QueueInv'
<1> USE DEF IInv, QueueInv
<1>a. PICK t : t = held[d]
  OBVIOUS
<1>b. PICK r : r = Resource(t)
  OBVIOUS
<1>c. PICK E : E = Expired(r)
  OBVIOUS
<1>d. PICK left : left = Without(queue[r], E)
  OBVIOUS
<1>e. PICK a : a = active[r]
  OBVIOUS
<1>1. /\ t \in table /\ table' = table \ E /\ queue' = [queue EXCEPT ![r] = left]
      /\ active' = IF a = NoToken /\ left # <<>> /\ Head(left) = t
                   THEN [active EXCEPT ![r] = t] ELSE active
      /\ UNCHANGED issued
  BY <1>a, <1>b, <1>c, <1>d, <1>e DEF WaitPass
<1>2. t \in Tokens /\ t # NoToken /\ r \in Resources
  BY <1>1, <1>b, TokenTypes DEF Typed
<1>3. /\ queue[r] \in Seq(Tokens) /\ Elements(queue[r]) \subseteq Tokens
      /\ NoToken \notin Elements(queue[r])
      /\ \A u \in Elements(queue[r]) : ~ Precedes(issued, u, u)
  BY <1>2, QueueTokens
<1>4. left \in Seq(Tokens) /\ Elements(left) = Elements(queue[r]) \ E
  BY <1>d, <1>3, WithoutType, WithoutKeeps
<1>5. E \subseteq EntriesOf(r) \ {a}
  BY <1>c, <1>e, <1>2 DEF Expired, QueueLists
<1>6. ASSUME NEW p \in Resources PROVE EntriesOf(p)' = EntriesOf(p) \ E
  BY <1>1 DEF EntriesOf, Resource, Pipeline
<1>7. InLine(issued, a, left)
  BY <1>d, <1>e, <1>2, <1>3, InLineFiltered DEF QueueOrdered
<1>8. ASSUME NEW p \in Resources
      PROVE  /\ Elements(queue'[p]) = EntriesOf(p)'
             /\ active'[p] # NoToken => active'[p] \in Elements(queue'[p])
             /\ InLine(issued, active'[p], queue'[p])
  <2>1. CASE p # r
    <3>1. queue'[p] = queue[p] /\ active'[p] = active[p]
      BY <2>1, <1>1 DEF Typed
    <3>2. EntriesOf(p) \ E = EntriesOf(p)
      BY <2>1, <1>5 DEF EntriesOf
    <3> QED BY <3>1, <3>2, <1>6 DEF QueueLists, TurnListed, QueueOrdered
  <2>2. CASE p = r
    <3>1. queue'[p] = left
      BY <2>2, <1>1 DEF Typed
    <3>2. Elements(left) = EntriesOf(p)'
      BY <2>2, <1>4, <1>6 DEF QueueLists
    <3>3. a # NoToken => a \in Elements(left)
      BY <1>e, <1>2, <1>4, <1>5 DEF TurnListed
    <3>4. CASE a = NoToken /\ left # <<>> /\ Head(left) = t
      <4>1. active'[p] = t
        BY <3>4, <2>2, <1>1 DEF Typed
      <4>2. Len(left) \in Nat /\ Len(left) >= 1 /\ left[1] = t
        BY <3>4, <1>4
      <4>3. t \in Elements(left)
        BY <4>2 DEF Elements
      <4>4. InLine(issued, t, left)
        <5>1. NoToken \notin Elements(left) /\ \A u \in Elements(left) : ~ Precedes(issued, u, u)
          BY <1>3, <1>4
        <5>2. InLine(issued, left[1], left)
          BY <5>1, <3>4, <1>7, InLineClaimed
        <5> QED BY <5>2, <4>2
      <4> QED BY <3>1, <3>2, <4>1, <4>3, <4>4
    <3>5. CASE ~ (a = NoToken /\ left # <<>> /\ Head(left) = t)
      <4>1. active'[p] = a
        BY <3>5, <2>2, <1>1, <1>e
      <4> QED BY <3>1, <3>2, <3>3, <4>1, <1>7
    <3> QED BY <3>4, <3>5
  <2> QED BY <2>1, <2>2
<1>9. QueueLists'
  BY <1>8 DEF QueueLists, Elements
<1>10. TurnListed'
  BY <1>8 DEF TurnListed, Elements
<1>11. QueueOrdered'
  BY <1>1, <1>8 DEF QueueOrdered, InLine, Precedes, SortsBefore
<1> QED BY <1>9, <1>10, <1>11

\* try_reserve queues the new token, and the line is sorted again.
LEMMA QueueReserve ==
  ASSUME IInv, QueueInv, NEW d \in Dispatches, NEW deadline \in Nat, NEW est \in Nat,
         Reserve(d, deadline, est)
  PROVE  QueueInv'
<1> USE DEF IInv, QueueInv
<1> DEFINE Rec == [binding: Bindings, boot: Nat, deadline: Nat, start: Nat, finish: Nat]
<1>a. PICK b : b = aim[d].binding
  OBVIOUS
<1>b. PICK r : r = ResourceOf[PipelineOf[b]]
  OBVIOUS
<1>c. PICK t : t = Len(issued) + 1
  OBVIOUS
<1>d. PICK new : /\ new.binding = b /\ issued' = Append(issued, new)
                 /\ new.deadline = deadline
  BY <1>a DEF Reserve
<1>1. /\ table' = table \cup {t} /\ Enqueue(issued', r, t) /\ UNCHANGED active
  BY <1>a, <1>b, <1>c DEF Reserve
<1>2. b \in Bindings /\ PipelineOf[b] \in Pipelines /\ r \in Resources
  BY <1>a, <1>b, ShapeAssumption DEF Typed
<1>3. /\ Len(issued) \in Nat /\ issued'[t] = new
      /\ \A u \in Tokens : issued'[u] = issued[u] /\ u \in Nat /\ u < t
      /\ t \in Nat /\ t # NoToken /\ t \notin Tokens
  <2>1. issued \in Seq(Rec)
    BY DEF Typed
  <2> HIDE DEF Rec
  <2> QED BY <2>1, <1>c, <1>d DEF Tokens, NoToken
<1>4. /\ \A u \in Tokens : Resource(u)' = Resource(u)
      /\ Resource(t)' = r
  BY <1>b, <1>d, <1>3 DEF Resource, Pipeline
<1>5. ASSUME NEW p \in Resources
      PROVE  EntriesOf(p)' = EntriesOf(p) \cup (IF p = r THEN {t} ELSE {})
  <2>1. table \subseteq Tokens
    BY DEF Typed
  <2> QED BY <2>1, <1>1, <1>4 DEF EntriesOf
<1>6. ASSUME NEW p \in Resources
      PROVE  InLine(issued', active[p], queue[p])
  <2>1. \A u \in Elements(queue[p]) : issued'[u] = issued[u]
    BY <1>3, QueueTokens
  <2> QED BY <2>1, InLineSame DEF QueueOrdered
<1>7. Elements(queue'[r]) = Elements(queue[r]) \cup {t} /\ InLine(issued', active[r], queue'[r])
  <2>1. PICK a : a = active[r]
    OBVIOUS
  <2>2. PICK q : q = queue[r]
    OBVIOUS
  <2>3. /\ q \in Seq(Tokens) /\ Elements(q) \subseteq Tokens /\ NoToken \notin Elements(q)
        /\ a \in {NoToken} \cup Tokens /\ (a # NoToken => a \in Elements(q))
        /\ InLine(issued', a, q)
    BY <2>1, <2>2, <1>2, <1>6, QueueTokens DEF TurnListed
  <2>4. PICK v : v = Append(q, t)
    OBVIOUS
  <2>5. q \in Seq(Nat) /\ v \in Seq(Nat)
    <3>1. Tokens \subseteq Nat
      BY <1>3
    <3>2. q \in Seq(Nat)
      BY <3>1, <2>3, SeqMonotonic
    <3> QED BY <3>2, <2>4, <1>3
  <2>6. Elements(v) = Elements(q) \cup {t}
    <3>1. Len(q) \in Nat /\ Len(v) = Len(q) + 1 /\ v[Len(q) + 1] = t
          /\ \A i \in 1..Len(q) : v[i] = q[i]
      BY <2>4, <2>5, <1>3
    <3> QED BY <3>1 DEF Elements
  <2>7. CASE Policy = "edf"
    <3>1. PICK W : W = Elements(v) \ {a}
      OBVIOUS
    <3>2. IsFiniteSet(W)
      <4>1. IsFiniteSet(Elements(v))
        BY <2>5, ElementsFinite
      <4> QED BY <3>1, <4>1, FS_Subset
    <3>3. a \notin W /\ NoToken \notin W
      BY <3>1, <2>3, <2>6, <1>3
    <3>4. \A u \in W : ~ SortsBefore(issued', u, u)
      <4>1. ~ SortsBefore(issued', t, t)
        BY <1>3, <1>d DEF SortsBefore
      <4>2. ASSUME NEW u \in Tokens PROVE ~ SortsBefore(issued', u, u)
        <5>1. ~ SortsBefore(issued, u, u)
          BY NotBeforeItself
        <5> QED BY <5>1, <1>3 DEF SortsBefore
      <4> QED BY <3>1, <4>1, <4>2, <2>3, <2>6
    <3>5. PICK w \in Listings(issued', W) :
            queue' = [queue EXCEPT ![r] = (IF a = NoToken THEN <<>> ELSE <<a>>) \o w]
      BY <3>1, <2>1, <2>2, <2>4, <2>7, <1>1 DEF Enqueue
    <3>6. queue'[r] = (IF a = NoToken THEN <<>> ELSE <<a>>) \o w
      BY <3>5, <1>2 DEF Typed
    <3>7. Elements(queue'[r]) = W \cup ({a} \ {NoToken}) /\ InLine(issued', a, queue'[r])
      BY <3>2, <3>3, <3>4, <3>6, <2>7, InLineListed
    <3>8. W \cup ({a} \ {NoToken}) = Elements(q) \cup {t}
      BY <3>1, <2>3, <2>6, <1>3
    <3> QED BY <3>7, <3>8, <2>1, <2>2
  <2>8. CASE Policy # "edf"
    <3>1. queue'[r] = v
      BY <2>2, <2>4, <2>8, <1>1, <1>2 DEF Enqueue, Typed
    <3>2. t # a /\ \A u \in Elements(q) : u < t
      BY <2>3, <1>3
    <3>3. InLine(issued', a, v)
      BY <3>2, <2>3, <2>4, <2>5, <2>8, <1>3, InLineAppended
    <3> QED BY <3>1, <3>3, <2>1, <2>2, <2>6
  <2> QED BY <2>7, <2>8
<1>8. \A p \in Resources \ {r} : queue'[p] = queue[p]
  BY <1>1, <1>2, <1>3, EnqueueType
<1>9. ASSUME NEW p \in Resources
      PROVE  /\ Elements(queue'[p]) = EntriesOf(p)'
             /\ active[p] # NoToken => active[p] \in Elements(queue'[p])
             /\ InLine(issued', active[p], queue'[p])
  <2>1. CASE p = r
    BY <2>1, <1>5, <1>7 DEF QueueLists, TurnListed
  <2>2. CASE p # r
    BY <2>2, <1>5, <1>6, <1>8 DEF QueueLists, TurnListed
  <2> QED BY <2>1, <2>2
<1>10. QueueLists'
  BY <1>9 DEF QueueLists, Elements
<1>11. TurnListed'
  BY <1>1, <1>9 DEF TurnListed, Elements
<1>12. QueueOrdered'
  BY <1>1, <1>9 DEF QueueOrdered, InLine, Precedes, SortsBefore
<1> QED BY <1>10, <1>11, <1>12

-----------------------------------------------------------------------------
\* At first every line is empty.
LEMMA InitQueueInv == Init => QueueInv
<1> SUFFICES ASSUME Init PROVE QueueInv
  OBVIOUS
<1>1. ASSUME NEW r \in Resources
      PROVE  queue[r] = <<>> /\ Elements(queue[r]) = {} /\ active[r] = NoToken /\ EntriesOf(r) = {}
  BY DEF Init, Elements, EntriesOf
<1>2. \A r \in Resources : InLine(issued, active[r], queue[r])
  BY <1>1 DEF InLine
<1> QED BY <1>1, <1>2 DEF QueueInv, QueueLists, TurnListed, QueueOrdered

\* A goal that its process would no longer admit, or that was mistaken for one
\* of a former process, may execute only as a stray.
LEMMA LeftIsStray ==
  ASSUME SentInTurn, UNCHANGED <<issued, closed>>, NEW t,
         ~ Admits(t) \/ t \in mistaken', MayExecute(t)
  PROVE  Stray(t)'
<1>1. CASE t \in mistaken'
  BY <1>1 DEF Stray
<1>2. CASE ~ Admits(t)
  <2>1. t \in admitted \cup working
    BY <1>2 DEF MayExecute
  <2>2. <<issued[t].binding, issued[t].boot>> \in closed
    BY <1>2, <2>1 DEF Admits, SentInTurn
  <2> QED BY <2>2 DEF Stray
<1> QED BY <1>1, <1>2

\* What a step can do to the table: nothing, a removal of entries that may
\* execute only as strays, a pass of a waiter, or a reservation.
LEMMA StepKinds ==
  ASSUME IInv, [Next]_vars
  PROVE  \/ UNCHANGED <<issued, table, queue, active>>
         \/ UNCHANGED issued /\ \E S : Remove(S) /\ \A t \in S : MayExecute(t) => Stray(t)'
         \/ \E d \in Dispatches : WaitPass(d)
         \/ \E d \in Dispatches : \E deadline, est \in Nat : Reserve(d, deadline, est)
<1> USE DEF IInv
<1>1. ASSUME NEW d \in Dispatches, ReserveAny(d)
      PROVE  \E deadline, est \in Nat : Reserve(d, deadline, est)
  <2>1. PICK deadline \in Deadlines : \E est \in IF Policy = "fifo" THEN Estimates ELSE {0} :
          Reserve(d, deadline, est)
    BY <1>1 DEF ReserveAny
  <2>2. PICK est \in IF Policy = "fifo" THEN Estimates ELSE {0} : Reserve(d, deadline, est)
    BY <2>1
  <2>3. deadline \in Nat /\ est \in Nat
    BY NumberAssumption
  <2> QED BY <2>2, <2>3
<1>2. ASSUME NEW d \in Dispatches, WaitCanceled(d) \/ WaitExpired(d) \/ Settle(d)
      PROVE  UNCHANGED issued /\ \E u : Remove({u}) /\ ~ MayExecute(u)
  <2>1. held[d] \notin UnderWay
    BY <1>2 DEF WaitCanceled, WaitExpired, Settle, SentInTurn, UnderWay
  <2> QED BY <1>2, <2>1 DEF WaitCanceled, WaitExpired, Settle, MayExecute, UnderWay
<1>3. ASSUME NEW d \in Dispatches, MarkUnknown(d)
      PROVE  \/ UNCHANGED <<issued, table, queue, active>>
             \/ UNCHANGED issued /\ \E u : Remove({u}) /\ (MayExecute(u) => Stray(u)')
  <2>1. UNCHANGED <<issued, closed>>
    BY <1>3 DEF MarkUnknown, pipelineVars
  <2>2. CASE trusted[Pipeline(held[d])] # aim[d].boot
    <3>1. PICK t : t = held[d]
      OBVIOUS
    <3>2. ~ Admits(t) \/ t \in mistaken'
      BY <1>3, <2>2, <3>1, FencedIsOldOrMistaken
    <3>3. MayExecute(t) => Stray(t)'
      BY <2>1, <3>2, LeftIsStray
    <3>4. Remove({t})
      BY <1>3, <2>2, <3>1 DEF MarkUnknown
    <3> QED BY <2>1, <3>3, <3>4
  <2>3. CASE trusted[Pipeline(held[d])] = aim[d].boot
    BY <1>3, <2>1, <2>3 DEF MarkUnknown
  <2> QED BY <2>2, <2>3
<1>4. ASSUME NEW b \in Bindings, NEW n \in 1..MaxBoot, ReconcileBinding(b, n)
      PROVE  UNCHANGED issued /\ \E S : Remove(S) /\ \A t \in S : MayExecute(t) => Stray(t)'
  <2> DEFINE S == {t \in table : issued[t].binding = b /\ issued[t].boot = n}
  <2>1. UNCHANGED <<issued, closed>> /\ Remove(S) /\ \A t \in S : ~ Admits(t)
    BY <1>4 DEF ReconcileBinding, Admits, pipelineVars
  <2> HIDE DEF S
  <2>2. \A t \in S : MayExecute(t) => Stray(t)'
    BY <2>1, LeftIsStray
  <2> QED BY <2>1, <2>2
<1>5. ASSUME NEW p \in Pipelines, TrustBoot(p)
      PROVE  UNCHANGED issued /\ \E S : Remove(S) /\ \A t \in S : MayExecute(t) => Stray(t)'
  <2> DEFINE S == {t \in unknown : Pipeline(t) = p}
  <2>1. UNCHANGED <<issued, closed>> /\ Remove(S) /\ trusted[p] # observed[p]
    BY <1>5 DEF TrustBoot, pipelineVars
  <2>2. \A t \in S : ~ Admits(t)
    <3>1. /\ trusted[p] \in Nat /\ observed[p] \in Nat /\ boot[p] \in Nat
          /\ trusted[p] <= observed[p] /\ observed[p] <= boot[p]
      BY DEF Typed, BootsOrdered
    <3>2. trusted[p] # boot[p]
      BY <2>1, <3>1
    <3> QED BY <3>2 DEF NoFencedUnknown, Admits
  <2> HIDE DEF S
  <2>3. \A t \in S : MayExecute(t) => Stray(t)'
    BY <2>1, <2>2, LeftIsStray
  <2> QED BY <2>1, <2>3
<1>6. ASSUME NEW p \in Pipelines, ObserveStatus(p) \/ Reboot(p)
      PROVE  UNCHANGED <<issued, table, queue, active>>
  BY <1>6 DEF ObserveStatus, Reboot, tableVars
<1>7. ASSUME Tick \/ UNCHANGED vars PROVE UNCHANGED <<issued, table, queue, active>>
  BY <1>7 DEF Tick, vars, tableVars
<1>8. ASSUME NEW d \in Dispatches, PickCandidate(d) \/ Refuse(d) \/ WaitReleased(d) \/ Send(d)
      PROVE  UNCHANGED <<issued, table, queue, active>>
  BY <1>8 DEF PickCandidate, Refuse, WaitReleased, Send, tableVars
<1>9. ASSUME NEW t, Accept(t) \/ TakeSlot(t) \/ NoSlot(t) \/ Finish(t)
      PROVE  UNCHANGED <<issued, table, queue, active>>
  BY <1>9 DEF Accept, TakeSlot, NoSlot, Finish, tableVars
<1>10. ASSUME NEW b \in Bindings, Drain(b) PROVE UNCHANGED <<issued, table, queue, active>>
  BY <1>10 DEF Drain, tableVars
<1>11. \A d \in Dispatches : Poll(d) => WaitReleased(d) \/ WaitExpired(d) \/ WaitPass(d)
  BY DEF Poll
<1>12. ASSUME NEW u, Remove({u}), MayExecute(u) => Stray(u)'
       PROVE  \E S : Remove(S) /\ \A t \in S : MayExecute(t) => Stray(t)'
  <2>1. \A t \in {u} : MayExecute(t) => Stray(t)'
    <3> SUFFICES ASSUME NEW t, t = u, MayExecute(t) PROVE Stray(t)'
      OBVIOUS
    <3> QED BY <1>12 DEF Stray
  <2> QED BY <1>12, <2>1
<1> HIDE DEF IInv
<1> QED
  BY <1>1, <1>2, <1>3, <1>4, <1>5, <1>6, <1>7, <1>8, <1>9, <1>10, <1>11, <1>12 DEF Next

\* A step of any of these kinds keeps the lines.
LEMMA NextQueueInv == IInv /\ QueueInv /\ [Next]_vars => QueueInv'
<1> SUFFICES ASSUME IInv, QueueInv, [Next]_vars PROVE QueueInv'
  OBVIOUS
<1>1. ASSUME UNCHANGED issued, \E S : Remove(S) PROVE QueueInv'
  <2>1. PICK S : Remove(S)
    BY <1>1
  <2>2. Typed
    BY DEF IInv
  <2> QED BY <1>1, <2>1, <2>2, QueueRemoval
<1> QED BY <1>1, StepKinds, QueueUnchanged, QueueWaitPass, QueueReserve

(* In every reachable state the line of a resource lists exactly its       *)
(* entries, each once, the holder of the turn first and the others in the  *)
(* order of the policy (try_reserve, _sort_waiting_locked,                 *)
(* _remove_locked).                                                        *)
THEOREM QueueInvariant == Spec => []QueueInv
BY InitIInv, NextIInv, InitQueueInv, NextQueueInv, PTL DEF Spec

\* A line in which the holder of the turn is listed has it in front.
LEMMA QueueInvMirrors == IInv /\ QueueInv => QueueMirrorsTable
<1> SUFFICES ASSUME IInv, QueueInv, NEW r \in Resources
             PROVE  /\ Elements(queue[r]) = {t \in table : Resource(t) = r}
                    /\ Len(queue[r]) = Cardinality(Elements(queue[r]))
                    /\ active[r] # NoToken => queue[r] # <<>> /\ Head(queue[r]) = active[r]
  BY DEF QueueMirrorsTable
<1> DEFINE q == queue[r]
<1>1. /\ q \in Seq(Tokens) /\ InLine(issued, active[r], q)
      /\ \A t \in Elements(q) : ~ Precedes(issued, t, t)
  BY QueueTokens DEF IInv, QueueInv, QueueOrdered
<1>2. Len(q) = Cardinality(Elements(q))
  <2>1. ASSUME NEW i \in 1..Len(q), NEW j \in 1..Len(q), i < j PROVE q[i] # q[j]
    <3>1. q[j] # active[r] /\ (q[i] = active[r] \/ Precedes(issued, q[i], q[j]))
      BY <1>1, <2>1 DEF InLine
    <3>2. ~ Precedes(issued, q[j], q[j])
      BY <1>1 DEF Elements
    <3> QED BY <3>1, <3>2
  <2> HIDE DEF q
  <2> QED BY <1>1, <2>1, DistinctLength
<1>3. ASSUME active[r] # NoToken PROVE q # <<>> /\ Head(q) = active[r]
  <2>1. PICK k \in 1..Len(q) : q[k] = active[r]
    BY <1>3 DEF QueueInv, TurnListed, Elements
  <2>2. k = 1
    <3>1. Len(q) \in Nat /\ 1 \in 1..Len(q)
      BY <1>1
    <3>2. ~ (1 < k)
      BY <1>1, <2>1, <3>1 DEF InLine
    <3> QED BY <3>1, <3>2
  <2> QED BY <1>1, <2>1, <2>2
<1>4. Elements(q) = {t \in table : Resource(t) = r}
  BY DEF QueueInv, QueueLists, EntriesOf
<1> QED BY <1>2, <1>3, <1>4

(* The queue of a resource never loses an entry, keeps one that left the   *)
(* table or lists one twice, and the holder of the turn is always in       *)
(* front: what _remove_locked, _expire_waiting_locked and                  *)
(* _sort_waiting_locked keep up between them.                              *)
THEOREM QueueMirrors == Spec => []QueueMirrorsTable
BY InductiveInvariant, QueueInvariant, QueueInvMirrors, PTL

-----------------------------------------------------------------------------
(* The order of turns.                                                     *)

\* A turn is granted to the first of a line of entries that are not too late.
LEMMA GrantStep ==
  ASSUME IInv, QueueInv, [Next]_vars,
         NEW r \in Resources, active[r] = NoToken, active'[r] # NoToken
  PROVE  /\ issued[active'[r]].deadline > now
         /\ \A t \in table' \ {active'[r]} : Resource(t) = r =>
              Precedes(issued, active'[r], t)
<1> USE DEF IInv, QueueInv
<1>1. PICK d \in Dispatches : WaitPass(d)
  <2>1. ~ UNCHANGED <<issued, table, queue, active>>
    OBVIOUS
  <2>2. ASSUME NEW S, Remove(S) PROVE FALSE
    BY <2>2 DEF Remove
  <2>3. ASSUME NEW d \in Dispatches, NEW deadline \in Nat, NEW est \in Nat, Reserve(d, deadline, est)
        PROVE  FALSE
    BY <2>3 DEF Reserve
  <2> QED BY <2>1, <2>2, <2>3, StepKinds
<1>a. PICK t : t = held[d]
  OBVIOUS
<1>b. PICK p : p = Resource(t)
  OBVIOUS
<1>c. PICK E : E = Expired(p)
  OBVIOUS
<1>d. PICK left : left = Without(queue[p], E)
  OBVIOUS
<1>2. /\ t \in table /\ ~ TooLate(t) /\ table' = table \ E
      /\ active' = IF active[p] = NoToken /\ left # <<>> /\ Head(left) = t
                   THEN [active EXCEPT ![p] = t] ELSE active
  BY <1>1, <1>a, <1>b, <1>c, <1>d DEF WaitPass
<1>3. t \in Tokens /\ issued[t].deadline \in Nat /\ now \in Nat
  BY <1>2, TokenTypes DEF Typed
<1>4. p = r /\ left # <<>> /\ Head(left) = t /\ active'[r] = t
  BY <1>2 DEF Typed
<1>5. issued[t].deadline > now
  BY <1>2, <1>3 DEF TooLate
<1>6. /\ queue[r] \in Seq(Tokens) /\ Elements(queue[r]) \subseteq Tokens
      /\ NoToken \notin Elements(queue[r]) /\ InLine(issued, NoToken, queue[r])
  BY QueueTokens DEF QueueOrdered
<1>7. /\ left \in Seq(Tokens) /\ Elements(left) = Elements(queue[r]) \ E
      /\ InLine(issued, NoToken, left)
  BY <1>d, <1>4, <1>6, WithoutType, WithoutKeeps, InLineFiltered
<1>8. Len(left) \in Nat /\ Len(left) >= 1 /\ left[1] = t
  BY <1>4, <1>7
<1>9. ASSUME NEW u \in table' \ {t}, Resource(u) = r
      PROVE  Precedes(issued, t, u)
  <2>1. u \in Elements(left)
    BY <1>2, <1>7, <1>9 DEF QueueLists, EntriesOf
  <2>2. PICK j \in 1..Len(left) : left[j] = u
    BY <2>1 DEF Elements
  <2>3. 1 < j /\ 1 \in 1..Len(left)
    BY <1>8, <1>9, <2>2
  <2>4. left[1] # NoToken
    BY <1>6, <1>7, <2>3 DEF Elements
  <2> QED BY <1>7, <1>8, <2>2, <2>3, <2>4 DEF InLine
<1> QED BY <1>4, <1>5, <1>9

(* wait_for_turn grants the turn in policy order, whatever the order in    *)
(* which the waiters wake up, and never to a reservation that is too late. *)
THEOREM GrantsOrdered == Spec => GrantsInOrder
<1>1. IInv /\ QueueInv /\ [Next]_vars =>
        [ \A r \in Resources :
            active[r] = NoToken /\ active'[r] # NoToken =>
              /\ issued[active'[r]].deadline > now
              /\ \A t \in table' \ {active'[r]} : Resource(t) = r =>
                   Precedes(issued, active'[r], t) ]_vars
  BY GrantStep
<1> QED BY <1>1, InductiveInvariant, QueueInvariant, PTL DEF Spec, GrantsInOrder

\* A turn changes hands through nobody's, and only strays execute without it.
LEMMA TurnStep ==
  ASSUME IInv, QueueInv, [Next]_vars,
         NEW r \in Resources, NEW t \in Tokens, active[r] = t, active'[r] # t
  PROVE  active'[r] = NoToken /\ (MayExecute(t) => Stray(t)')
<1>1. ASSUME NEW S, Remove(S), \A u \in S : MayExecute(u) => Stray(u)'
      PROVE  active'[r] = NoToken /\ (MayExecute(t) => Stray(t)')
  <2>1. active'[r] = IF active[r] \in S THEN NoToken ELSE active[r]
    BY <1>1 DEF Remove
  <2> QED BY <1>1, <2>1
<1>2. ASSUME NEW d \in Dispatches, WaitPass(d) PROVE FALSE
  <2>1. PICK p : \/ active' = active
                 \/ active[p] = NoToken /\ active' = [active EXCEPT ![p] = held[d]]
    BY <1>2 DEF WaitPass
  <2>2. t # NoToken
    BY TokenTypes DEF IInv
  <2> QED BY <2>1, <2>2 DEF IInv, Typed
<1>3. ASSUME NEW d \in Dispatches, NEW deadline \in Nat, NEW est \in Nat, Reserve(d, deadline, est)
      PROVE  FALSE
  BY <1>3 DEF Reserve
<1> QED BY <1>1, <1>2, <1>3, StepKinds

(* The turn on a hardware resource passes only to nobody, and is not taken *)
(* from work that may execute or may still be admitted: not by a           *)
(* cancellation, an expiry, a reboot or a Close drain, other than from the *)
(* strays, for which the code has no such guarantee.                       *)
THEOREM TurnKept == Spec => TurnIsLeft
<1>1. IInv /\ QueueInv /\ [Next]_vars =>
        [ \A r \in Resources : \A t \in Tokens :
            active[r] = t /\ active'[r] # t =>
              /\ active'[r] = NoToken
              /\ MayExecute(t) => Stray(t)' ]_vars
  BY TurnStep
<1> QED BY <1>1, InductiveInvariant, QueueInvariant, PTL DEF Spec, TurnIsLeft

-----------------------------------------------------------------------------
(* The table hands out turns as Turnstile says.                            *)

\* The line of a resource is the set of its entries, and the lines together
\* are the table.
LEMMA Lines ==
  ASSUME Typed
  PROVE  /\ \A r \in Resources : Line[r] = EntriesOf(r)
         /\ Line = [r \in Resources |-> EntriesOf(r)]
         /\ Turns!InLines = table
<1>1. Line = [r \in Resources |-> EntriesOf(r)]
  BY DEF Line, EntriesOf
<1>2. \A t \in table : Resource(t) \in Resources /\ t \in EntriesOf(Resource(t))
  BY TokenTypes DEF Typed, EntriesOf
<1>3. \A r \in Resources : EntriesOf(r) \subseteq table
  BY DEF EntriesOf
<1> QED BY <1>1, <1>2, <1>3 DEF Turns!InLines

\* The order depends on the records only.
LEMMA SameOrder == ASSUME UNCHANGED issued PROVE UNCHANGED ServedBefore
  BY DEF ServedBefore, Precedes, SortsBefore, Tokens

\* Entries that are removed depart.
LEMMA RemovalDeparts ==
  ASSUME Typed, QueueInv, UNCHANGED issued, NEW S, Remove(S)
  PROVE  \E gone \in SUBSET Turns!InLines : Turns!Depart(gone)
<1>1. PICK gone : gone = S \cap table
  OBVIOUS
<1>2. gone \in SUBSET Turns!InLines
  BY <1>1, Lines
<1>3. table' = table \ S
  BY DEF Remove
<1>4. Line' = [r \in Resources |-> Line[r] \ gone]
  BY <1>1, <1>3 DEF Line, Resource, Pipeline
<1>5. ASSUME NEW r \in Resources
      PROVE  (IF active[r] \in S THEN NoToken ELSE active[r])
               = (IF active[r] \in gone THEN NoToken ELSE active[r])
  <2>1. active[r] # NoToken => active[r] \in table
    BY DEF QueueInv, TurnListed, QueueLists, EntriesOf
  <2> QED BY <1>1, <2>1
<1>6. active' = [r \in Resources |-> IF active[r] \in gone THEN NoToken ELSE active[r]]
  BY <1>5 DEF Remove
<1> QED BY <1>2, <1>4, <1>6, SameOrder DEF Turns!Depart

\* A pass of a waiter lets expired entries depart and may take the turn.
LEMMA PassTakesTurn ==
  ASSUME IInv, QueueInv, NEW d \in Dispatches, WaitPass(d), [Next]_vars
  PROVE  \/ \E gone \in SUBSET Turns!InLines : Turns!Depart(gone)
         \/ \E r \in Resources : \E t \in Line[r], gone \in SUBSET Line[r] : Turns!TakeTurn(r, t, gone)
<1> USE DEF IInv
<1>a. PICK t : t = held[d]
  OBVIOUS
<1>b. PICK r : r = Resource(t)
  OBVIOUS
<1>c. PICK E : E = Expired(r)
  OBVIOUS
<1>1. /\ t \in table /\ table' = table \ E /\ UNCHANGED issued
      /\ \/ active[r] = NoToken /\ active' = [active EXCEPT ![r] = t]
         \/ active' = active
  BY <1>a, <1>b, <1>c DEF WaitPass
<1>2. t \in Tokens /\ r \in Resources /\ t # NoToken
  BY <1>1, <1>b, TokenTypes DEF Typed
<1>3. E \subseteq EntriesOf(r) /\ active[r] \notin E
  BY <1>2, <1>c DEF Expired, QueueInv, QueueLists
<1>4. \A q \in Resources : EntriesOf(q)' = EntriesOf(q) \ E
  BY <1>1 DEF EntriesOf, Resource, Pipeline
<1>5. \A q \in Resources \ {r} : EntriesOf(q) \cap E = {}
  BY <1>3 DEF EntriesOf
<1>6. /\ Line = [q \in Resources |-> EntriesOf(q)]
      /\ Line' = [q \in Resources |-> EntriesOf(q) \ E]
  BY <1>1, <1>4, Lines DEF Line, EntriesOf
<1>7. CASE active' = active
  <2>1. E \in SUBSET Turns!InLines
    BY <1>3, Lines DEF EntriesOf
  <2>2. Line' = [q \in Resources |-> Line[q] \ E]
    BY <1>6
  <2>3. \A q \in Resources : active[q] \notin E
    <3>1. ASSUME NEW q \in Resources, active[q] \in E PROVE FALSE
      <4>1. active[q] # NoToken /\ Resource(active[q]) = r
        BY <1>3, <3>1, TokenTypes DEF EntriesOf, Typed
      <4>2. q = r
        BY <4>1 DEF QueueOfResource
      <4> QED BY <1>3, <3>1, <4>2
    <3> QED BY <3>1
  <2>4. active' = [q \in Resources |-> IF active[q] \in E THEN NoToken ELSE active[q]]
    BY <1>7, <2>3 DEF Typed
  <2>5. Turns!Depart(E)
    BY <1>1, <2>2, <2>4, SameOrder DEF Turns!Depart
  <2> QED BY <2>1, <2>5
<1>8. CASE active[r] = NoToken /\ active' = [active EXCEPT ![r] = t]
  <2>1. active'[r] = t
    BY <1>2, <1>8 DEF Typed
  <2>2. \A u \in table' \ {t} : Resource(u) = r => Precedes(issued, t, u)
    BY <1>2, <1>8, <2>1, GrantStep
  <2>3. t \in Line[r] \ E
    <3>1. t \in EntriesOf(r)
      BY <1>1, <1>b DEF EntriesOf
    <3>2. t \in EntriesOf(r)'
      <4>1. active'[r] \in EntriesOf(r)'
        <5>1. QueueInv'
          BY NextQueueInv
        <5> QED BY <5>1, <1>2, <2>1 DEF QueueInv, TurnListed, QueueLists
      <4> QED BY <4>1, <2>1
    <3> QED BY <1>2, <1>4, <1>6, <3>1, <3>2
  <2>4. \A u \in Line[r] \ E : u # t => <<t, u>> \in ServedBefore
    <3>1. ASSUME NEW u \in Line[r] \ E, u # t PROVE <<t, u>> \in ServedBefore
      <4>1. u \in table /\ u \notin E /\ Resource(u) = r
        BY <1>2, <1>6, <3>1 DEF EntriesOf
      <4>2. u \in Tokens /\ Precedes(issued, t, u)
        BY <1>1, <2>2, <3>1, <4>1 DEF Typed
      <4> QED BY <1>2, <4>2 DEF ServedBefore
    <3> QED BY <3>1
  <2>5. Line' = [Line EXCEPT ![r] = Line[r] \ E]
    BY <1>2, <1>5, <1>6
  <2>6. E \in SUBSET Line[r]
    BY <1>2, <1>3, <1>6
  <2>7. Turns!TakeTurn(r, t, E)
    BY <1>1, <1>8, <2>3, <2>4, <2>5, <2>6, SameOrder DEF Turns!TakeTurn
  <2> QED BY <1>2, <2>3, <2>6, <2>7
<1> QED BY <1>1, <1>7, <1>8

\* A reservation joins the line of its resource.
LEMMA ReserveJoins ==
  ASSUME IInv, NEW d \in Dispatches, NEW deadline \in Nat, NEW est \in Nat,
         Reserve(d, deadline, est)
  PROVE  \E r \in Resources : \E t \in Line'[r] : Turns!Join(r, t)
<1> USE DEF IInv
<1> DEFINE Rec == [binding: Bindings, boot: Nat, deadline: Nat, start: Nat, finish: Nat]
<1>a. PICK b : b = aim[d].binding
  OBVIOUS
<1>b. PICK r : r = ResourceOf[PipelineOf[b]]
  OBVIOUS
<1>c. PICK t : t = Len(issued) + 1
  OBVIOUS
<1>d. PICK new : new.binding = b /\ issued' = Append(issued, new)
  BY <1>a DEF Reserve
<1>1. table' = table \cup {t} /\ UNCHANGED active
  BY <1>c DEF Reserve
<1>2. b \in Bindings /\ PipelineOf[b] \in Pipelines /\ r \in Resources
  BY <1>a, <1>b, ShapeAssumption DEF Typed
<1>3. /\ Len(issued) \in Nat /\ table \subseteq Tokens /\ t \notin Tokens
      /\ Tokens' = Tokens \cup {t} /\ issued'[t] = new
      /\ \A u \in Tokens : issued'[u] = issued[u]
  <2>1. issued \in Seq(Rec)
    BY DEF Typed
  <2>2. table \subseteq Tokens
    BY DEF Typed
  <2> HIDE DEF Rec
  <2>3. /\ Len(issued) \in Nat /\ t \notin Tokens /\ issued'[t] = new
        /\ \A u \in Tokens : issued'[u] = issued[u]
    BY <2>1, <1>c, <1>d DEF Tokens
  <2>4. Len(issued') = t
    BY <2>1, <1>c, <1>d
  <2>5. Tokens' = Tokens \cup {t}
    BY <2>3, <2>4, <1>c DEF Tokens
  <2> QED BY <2>2, <2>3, <2>5
<1>4. Resource(t)' = r /\ \A u \in Tokens : Resource(u)' = Resource(u)
  BY <1>b, <1>d, <1>3 DEF Resource, Pipeline
<1>5. Line' = [Line EXCEPT ![r] = Line[r] \cup {t}]
  <2>1. \A q \in Resources : EntriesOf(q)' = IF q = r THEN EntriesOf(q) \cup {t} ELSE EntriesOf(q)
    BY <1>1, <1>2, <1>3, <1>4 DEF EntriesOf
  <2>2. Line' = [q \in Resources |-> EntriesOf(q)']
    BY DEF Line, EntriesOf
  <2>3. Line = [q \in Resources |-> EntriesOf(q)]
    BY Lines
  <2> QED BY <1>2, <2>1, <2>2, <2>3
<1>6. \A q \in Resources : t \notin Line[q]
  BY <1>3, Lines DEF EntriesOf
<1>7. \A u, v \in Tokens : Precedes(issued', u, v) <=> Precedes(issued, u, v)
  BY <1>3 DEF Precedes, SortsBefore
<1>8. ServedBefore' = {pair \in Tokens' \X Tokens' : Precedes(issued', pair[1], pair[2])}
  BY DEF ServedBefore
<1>9. ServedBefore \subseteq ServedBefore'
  BY <1>3, <1>7, <1>8 DEF ServedBefore
<1>10. \A pair \in ServedBefore' \ ServedBefore : t \in {pair[1], pair[2]}
  <2>1. ASSUME NEW pair \in ServedBefore', t \notin {pair[1], pair[2]} PROVE pair \in ServedBefore
    <3>1. pair \in Tokens' \X Tokens' /\ Precedes(issued', pair[1], pair[2])
      BY <1>8
    <3>2. pair[1] \in Tokens /\ pair[2] \in Tokens /\ pair \in Tokens \X Tokens
      BY <1>3, <2>1, <3>1
    <3> QED BY <1>7, <3>1, <3>2 DEF ServedBefore
  <2> QED BY <2>1
<1>11. Line[r] \cup {t} = Line'[r]
  BY <1>2, <1>5, Lines
<1>12. Turns!Join(r, t)
  BY <1>1, <1>5, <1>6, <1>9, <1>10 DEF Turns!Join
<1> QED BY <1>2, <1>11, <1>12

\* Every step hands out turns or leaves lines and turns alone.
LEMMA TurnstileStep ==
  IInv /\ QueueInv /\ [Next]_vars => [Turns!TurnstileNext]_(Turns!turnstileVars)
<1> SUFFICES ASSUME IInv, QueueInv, [Next]_vars
             PROVE  Turns!TurnstileNext \/ UNCHANGED Turns!turnstileVars
  OBVIOUS
<1>1. CASE UNCHANGED <<issued, table, queue, active>>
  BY <1>1, SameOrder DEF Turns!turnstileVars, Line, Resource, Pipeline
<1>2. CASE UNCHANGED issued /\ \E S : Remove(S)
  BY <1>2, RemovalDeparts DEF Turns!TurnstileNext, IInv
<1>3. CASE \E d \in Dispatches : WaitPass(d)
  BY <1>3, PassTakesTurn DEF Turns!TurnstileNext
<1>4. CASE \E d \in Dispatches : \E deadline, est \in Nat : Reserve(d, deadline, est)
  BY <1>4, ReserveJoins DEF Turns!TurnstileNext
<1> QED BY <1>1, <1>2, <1>3, <1>4, StepKinds

(* The reservation table and the protocol of the dispatch threads          *)
(* implement Turnstile: one holder per resource, the first of the line     *)
(* next, newcomers without effect on the places of others, and a turn that *)
(* is held given up only by its holder's leaving (DeadlineReservationTable,*)
(* _mark_reservation_unknown).  It says nothing of what executes: TurnKept *)
(* and Exclusive do.                                                       *)
THEOREM ImplementsTurnstile == Spec => HandsOutTurns
<1>1. Init => Turns!TurnstileInit
  BY DEF Init, Turns!TurnstileInit, Line, ServedBefore, Tokens
<1> QED
  BY <1>1, TurnstileStep, InductiveInvariant, QueueInvariant, PTL
     DEF Spec, HandsOutTurns, Turns!TurnstileSpec

-----------------------------------------------------------------------------
(* The ownership of entries.                                               *)

\* A thread that removes what it holds and gives up leaves the other entries
\* to their owners.
LEMMA OwnedGiveUp ==
  ASSUME IInv, EveryEntryOwned, NEW d \in Dispatches, GiveUp(d),
         table' \subseteq table, held[d] \in table' => held[d] \in unknown',
         \A t \in table' : t \in unknown => t \in unknown'
  PROVE  EveryEntryOwned'
<1> SUFFICES ASSUME NEW t \in table', t \notin unknown'
             PROVE  \E e \in Dispatches : held'[e] = t
  BY DEF EveryEntryOwned
<1>1. PICK e \in Dispatches : held[e] = t
  BY DEF EveryEntryOwned
<1>2. e # d
  BY <1>1
<1>3. held'[e] = held[e]
  BY <1>2 DEF GiveUp, IInv, Typed
<1> QED BY <1>1, <1>3

\* A removal that leaves the threads alone.
LEMMA OwnedKept ==
  ASSUME EveryEntryOwned, UNCHANGED held, table' \subseteq table,
         \A t \in table' : t \in unknown => t \in unknown'
  PROVE  EveryEntryOwned'
BY DEF EveryEntryOwned

\* A thread lets go of an entry only when it removes or records it.
LEMMA NextOwned == IInv /\ EveryEntryOwned /\ [Next]_vars => EveryEntryOwned'
<1> SUFFICES ASSUME IInv, EveryEntryOwned, [Next]_vars PROVE EveryEntryOwned'
  OBVIOUS
<1>1. ASSUME UNCHANGED <<held, table, unknown>> PROVE EveryEntryOwned'
  BY <1>1 DEF EveryEntryOwned
<1>2. ASSUME Tick \/ UNCHANGED vars PROVE EveryEntryOwned'
  BY <1>1, <1>2 DEF Tick, vars, tableVars, threadVars
<1>3. ASSUME NEW t, Accept(t) \/ TakeSlot(t) \/ NoSlot(t) \/ Finish(t) PROVE EveryEntryOwned'
  BY <1>1, <1>3 DEF Accept, TakeSlot, NoSlot, Finish, tableVars, threadVars
<1>4. ASSUME NEW b \in Bindings, Drain(b) PROVE EveryEntryOwned'
  BY <1>1, <1>4 DEF Drain, tableVars, threadVars
<1>5. ASSUME NEW p \in Pipelines, ObserveStatus(p) \/ Reboot(p) PROVE EveryEntryOwned'
  BY <1>1, <1>5 DEF ObserveStatus, Reboot, tableVars, threadVars
<1>6. ASSUME NEW d \in Dispatches, PickCandidate(d) \/ Send(d) PROVE EveryEntryOwned'
  BY <1>1, <1>6 DEF PickCandidate, Send, tableVars
<1>7. ASSUME NEW d \in Dispatches, Refuse(d) PROVE EveryEntryOwned'
  <2>1. GiveUp(d) /\ UNCHANGED <<table, unknown>>
    BY <1>7 DEF Refuse, tableVars
  <2>2. held[d] \notin table
    <3>1. held[d] = NoToken
      BY <1>7 DEF Refuse, IInv, HeldOnce
    <3>2. NoToken \notin table
      BY TokenTypes DEF IInv, Typed
    <3> QED BY <3>1, <3>2
  <2> QED BY <2>1, <2>2, OwnedGiveUp
<1>8. ASSUME NEW d \in Dispatches, WaitReleased(d) PROVE EveryEntryOwned'
  BY <1>8, OwnedGiveUp DEF WaitReleased, tableVars
<1>9. ASSUME NEW d \in Dispatches, Remove({held[d]}), GiveUp(d) PROVE EveryEntryOwned'
  BY <1>9, OwnedGiveUp DEF Remove
<1>10. ASSUME NEW d \in Dispatches, WaitCanceled(d) \/ WaitExpired(d) \/ Settle(d)
       PROVE  EveryEntryOwned'
  BY <1>9, <1>10 DEF WaitCanceled, WaitExpired, Settle
<1>11. ASSUME NEW d \in Dispatches, MarkUnknown(d) PROVE EveryEntryOwned'
  <2>1. CASE Remove({held[d]})
    BY <2>1, <1>9, <1>11 DEF MarkUnknown
  <2>2. CASE unknown' = unknown \cup ({held[d]} \cap table) /\ UNCHANGED table
    BY <2>2, <1>11, OwnedGiveUp DEF MarkUnknown
  <2> QED BY <2>1, <2>2, <1>11 DEF MarkUnknown
<1>12. ASSUME NEW d \in Dispatches, WaitPass(d) PROVE EveryEntryOwned'
  BY <1>12, OwnedKept DEF WaitPass
<1>13. ASSUME NEW S, Remove(S), UNCHANGED held PROVE EveryEntryOwned'
  BY <1>13, OwnedKept DEF Remove
<1>14. ASSUME NEW b \in Bindings, NEW n \in 1..MaxBoot, ReconcileBinding(b, n)
       PROVE  EveryEntryOwned'
  BY <1>13, <1>14 DEF ReconcileBinding, threadVars
<1>15. ASSUME NEW p \in Pipelines, TrustBoot(p) PROVE EveryEntryOwned'
  BY <1>13, <1>15 DEF TrustBoot, threadVars
<1>16. ASSUME NEW d \in Dispatches, ReserveAny(d) PROVE EveryEntryOwned'
  <2>1. PICK deadline, est : Reserve(d, deadline, est)
    BY <1>16 DEF ReserveAny
  <2>2. PICK t : t = Len(issued) + 1
    OBVIOUS
  <2>3. /\ stage[d] = "picked" /\ table' = table \cup {t}
        /\ held' = [held EXCEPT ![d] = t] /\ UNCHANGED unknown
    BY <2>1, <2>2 DEF Reserve
  <2>4. held[d] = NoToken /\ held'[d] = t
    BY <2>3 DEF IInv, HeldOnce, Typed
  <2>5. NoToken \notin table
    BY TokenTypes DEF IInv, Typed
  <2>6. ASSUME NEW u \in table, u \notin unknown PROVE \E e \in Dispatches : held'[e] = u
    <3>1. PICK e \in Dispatches : held[e] = u
      BY <2>6 DEF EveryEntryOwned
    <3>2. e # d
      BY <2>4, <2>5, <2>6, <3>1
    <3> QED BY <3>1, <3>2, <2>3 DEF IInv, Typed
  <2> QED BY <2>3, <2>4, <2>6 DEF EveryEntryOwned
<1>17. ASSUME NEW d \in Dispatches, Poll(d) PROVE EveryEntryOwned'
  BY <1>8, <1>10, <1>12, <1>17 DEF Poll
<1> QED
  BY <1>2, <1>3, <1>4, <1>5, <1>6, <1>7, <1>10, <1>11, <1>14, <1>15, <1>16, <1>17 DEF Next

(* No entry of the table is leaked: on every path out of a dispatch, the   *)
(* ones that meet a concurrent expiry, Close or reboot included, it is     *)
(* released, recorded as uncertain, or still in the hands of its thread.   *)
THEOREM EntriesOwned == Spec => []EveryEntryOwned
<1>1. Init => EveryEntryOwned
  BY DEF Init, EveryEntryOwned
<1> QED BY <1>1, NextOwned, InductiveInvariant, PTL DEF Spec

-----------------------------------------------------------------------------
(* The estimated schedule.                                                 *)

\* A new estimate begins where the queued ones of its resource end.
LEMMA ScheduleReserve ==
  ASSUME IInv, QueueInv, EstimatedScheduleFits,
         NEW d \in Dispatches, NEW deadline \in Nat, NEW est \in Nat,
         Reserve(d, deadline, est)
  PROVE  EstimatedScheduleFits'
<1> USE DEF IInv, QueueInv
<1> DEFINE Rec == [binding: Bindings, boot: Nat, deadline: Nat, start: Nat, finish: Nat]
<1>a. PICK r : r = ResourceOf[PipelineOf[aim[d].binding]]
  OBVIOUS
<1>b. PICK start : start = IF est = 0 THEN now ELSE EstimatedTail(r)
  OBVIOUS
<1>c. PICK n : n = Len(issued) + 1
  OBVIOUS
<1>d. PICK new : /\ new.binding = aim[d].binding /\ new.deadline = deadline
                 /\ new.start = start /\ new.finish = start + est
                 /\ issued' = Append(issued, new)
                 /\ est # 0 => start + est <= deadline
  BY <1>a, <1>b DEF Reserve
<1>1. table' = table \cup {n}
  BY <1>c DEF Reserve
<1>2. r \in Resources
  BY <1>a, ShapeAssumption DEF Typed
<1>3. /\ EstimatedTail(r) \in Nat
      /\ \A t \in Elements(queue[r]) : Estimate(t) > 0 => issued[t].finish <= EstimatedTail(r)
  BY <1>2, TailCovers
<1>4. start \in Nat
  BY <1>b, <1>3 DEF Typed
<1>5. /\ Len(issued) \in Nat /\ issued'[n] = new
      /\ \A u \in Tokens : issued'[u] = issued[u] /\ u \in Nat /\ u < n
      /\ table \subseteq Tokens /\ n \in Nat
  <2>1. issued \in Seq(Rec) /\ table \subseteq Tokens
    BY DEF Typed
  <2> HIDE DEF Rec
  <2> QED BY <2>1, <1>c, <1>d DEF Tokens
<1>6. /\ \A u \in Tokens : Resource(u)' = Resource(u) /\ Estimate(u)' = Estimate(u)
      /\ Resource(n)' = r /\ Estimate(n)' = est
  <2>1. \A u \in Tokens : Resource(u)' = Resource(u) /\ Estimate(u)' = Estimate(u)
    BY <1>5 DEF Resource, Pipeline, Estimate
  <2>2. Resource(n)' = r
    BY <1>a, <1>d, <1>5 DEF Resource, Pipeline
  <2>3. Estimate(n)' = start + est - start
    <3>1. issued'[n].finish = start + est /\ issued'[n].start = start
      BY <1>d, <1>5
    <3> QED BY <3>1, <1>4 DEF Estimate
  <2> QED BY <2>1, <2>2, <2>3, <1>4
<1>7. ASSUME NEW t \in table', Estimate(t)' > 0
      PROVE  issued'[t].finish <= issued'[t].deadline
  <2>1. CASE t = n
    BY <2>1, <1>d, <1>5, <1>6, <1>7
  <2>2. CASE t # n
    BY <2>2, <1>1, <1>5, <1>6, <1>7 DEF EstimatedScheduleFits
  <2> QED BY <2>1, <2>2
<1>8. ASSUME NEW t \in table', NEW u \in table', t < u, Resource(t)' = Resource(u)',
             Estimate(t)' > 0, Estimate(u)' > 0
      PROVE  issued'[t].finish <= issued'[u].start
  <2>1. t # n
    BY <1>1, <1>5, <1>8
  <2>2. t \in table /\ t \in Tokens /\ issued'[t] = issued[t] /\ Estimate(t) > 0
    BY <2>1, <1>1, <1>5, <1>6, <1>8
  <2>3. CASE u = n
    <3>1. Resource(t) = r /\ est # 0
      BY <2>2, <2>3, <1>6, <1>8
    <3>2. t \in Elements(queue[r])
      BY <3>1, <2>2, <1>2 DEF QueueLists, EntriesOf
    <3>3. issued[t].finish <= start
      BY <3>1, <3>2, <2>2, <1>b, <1>3
    <3> QED BY <3>3, <2>2, <2>3, <1>d, <1>5
  <2>4. CASE u # n
    <3>1. u \in table /\ u \in Tokens
      BY <2>4, <1>1, <1>5
    <3>2. issued'[u] = issued[u] /\ Estimate(u) > 0 /\ Resource(t) = Resource(u)
      BY <3>1, <2>2, <1>5, <1>6, <1>8
    <3> QED BY <3>1, <3>2, <2>2, <1>8 DEF EstimatedScheduleFits
  <2> QED BY <2>3, <2>4
<1> QED BY <1>7, <1>8 DEF EstimatedScheduleFits

\* Only a reservation adds an interval; every other step can only take away.
LEMMA NextSchedule ==
  IInv /\ QueueInv /\ EstimatedScheduleFits /\ [Next]_vars => EstimatedScheduleFits'
<1> SUFFICES ASSUME IInv, QueueInv, EstimatedScheduleFits, [Next]_vars
             PROVE  EstimatedScheduleFits'
  OBVIOUS
<1>1. ASSUME UNCHANGED issued, table' \subseteq table PROVE EstimatedScheduleFits'
  BY <1>1 DEF EstimatedScheduleFits, Estimate, Resource, Pipeline
<1>2. ASSUME NEW S, UNCHANGED issued, Remove(S) PROVE EstimatedScheduleFits'
  BY <1>1, <1>2 DEF Remove
<1>3. ASSUME NEW d \in Dispatches, WaitPass(d) PROVE EstimatedScheduleFits'
  BY <1>1, <1>3 DEF WaitPass
<1> QED BY <1>1, <1>2, <1>3, StepKinds, ScheduleReserve

(* The offline schedule holds whatever is expired, released or drained     *)
(* from the middle of it: the estimated intervals of one resource follow   *)
(* each other without overlap and each ends by its deadline.               *)
THEOREM ScheduleFits == Spec => []EstimatedScheduleFits
<1>1. Init => EstimatedScheduleFits
  BY DEF Init, EstimatedScheduleFits
<1> QED BY <1>1, NextSchedule, InductiveInvariant, QueueInvariant, PTL DEF Spec
=============================================================================

------------------------------ MODULE Turnstile ------------------------------
(***************************************************************************)
(* What turns on shared resources promise, whoever hands them out: a       *)
(* resource has one line and one turn, a vacant turn goes to the first of  *)
(* the line, a turn that is held is only given up by its holder's leaving, *)
(* and those who join do not change the places of others.                  *)
(***************************************************************************)
CONSTANTS Resources, Nobody

VARIABLES
  line,     \* those who hold or wait for the turn on each resource
  before,   \* the order in which they are to be served, a set of pairs
  turn      \* who holds the turn on each resource

turnstileVars == <<line, before, turn>>

TurnstileInit ==
  /\ line = [r \in Resources |-> {}]
  /\ before = {}
  /\ turn = [r \in Resources |-> Nobody]

\* A newcomer finds a place in the order; the places of others do not change.
Join(r, t) ==
  /\ \A q \in Resources : t \notin line[q]
  /\ line' = [line EXCEPT ![r] = @ \cup {t}]
  /\ before \subseteq before'
  /\ \A pair \in before' \ before : t \in {pair[1], pair[2]}
  /\ UNCHANGED turn

\* Those who leave give up their turns.
Depart(gone) ==
  /\ line' = [r \in Resources |-> line[r] \ gone]
  /\ turn' = [r \in Resources |-> IF turn[r] \in gone THEN Nobody ELSE turn[r]]
  /\ UNCHANGED before

\* The first of those who stay takes a vacant turn.
TakeTurn(r, t, gone) ==
  /\ turn[r] = Nobody
  /\ gone \subseteq line[r]
  /\ line' = [line EXCEPT ![r] = @ \ gone]
  /\ t \in line[r] \ gone
  /\ \A u \in line[r] \ gone : u # t => <<t, u>> \in before
  /\ turn' = [turn EXCEPT ![r] = t]
  /\ UNCHANGED before

InLines == UNION {line[r] : r \in Resources}

TurnstileNext ==
  \/ \E r \in Resources : \E t \in line'[r] : Join(r, t)
  \/ \E gone \in SUBSET InLines : Depart(gone)
  \/ \E r \in Resources : \E t \in line[r], gone \in SUBSET line[r] : TakeTurn(r, t, gone)

TurnstileSpec == TurnstileInit /\ [][TurnstileNext]_turnstileVars
=============================================================================

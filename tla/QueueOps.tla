------------------------------ MODULE QueueOps ------------------------------
(***************************************************************************)
(* The list operations that the queues of the scheduler are built from,    *)
(* spelled by positions so that the provers can reason about them.         *)
(***************************************************************************)
EXTENDS Naturals, Sequences, FiniteSets

Elements(q) == {q[i] : i \in 1..Len(q)}

KeptPositions(q, S) == {i \in 1..Len(q) : q[i] \notin S}

NthOf(K, n) == CHOOSE i \in K : Cardinality({j \in K : j <= i}) = n

\* list.remove for every member of S: the rest of q, in its order.  It is
\* SelectSeq(q, LAMBDA t : t \notin S), which the MC module confirms.
Without(q, S) ==
  LET K == KeptPositions(q, S) IN [n \in 1..Cardinality(K) |-> q[NthOf(K, n)]]
=============================================================================

--------------------------- MODULE QueueOpsProofs ---------------------------
(***************************************************************************)
(* Lemmas about the list operations of QueueOps.                           *)
(***************************************************************************)
EXTENDS QueueOps, FiniteSetTheorems, SequenceTheorems, WellFoundedInduction,
        TLAPS

-----------------------------------------------------------------------------
(* A non-empty set of naturals has a least element: the form in which      *)
(* induction is used below.                                                *)

Less == {ss \in Nat \X Nat : ss[1] < ss[2]}

\* The order of the naturals has no infinite descent.
LEMMA LessWellFounded == IsWellFoundedOn(Less, Nat)
BY NatLessThanWellFounded DEF OpToRel, Less

\* A non-empty set of naturals has a least element.
LEMMA LeastElement ==
  ASSUME NEW T \in SUBSET Nat, T # {}
  PROVE  \E x \in T : \A y \in T : x <= y
<1>1. PICK x \in T : \A y \in T : <<y, x>> \notin Less
  BY LessWellFounded, WFMin
<1>2. ASSUME NEW y \in T PROVE x <= y
  <2>1. x \in Nat /\ y \in Nat
    OBVIOUS
  <2>2. ~ (y < x)
    BY <1>1, <2>1 DEF Less
  <2> QED BY <2>1, <2>2
<1> QED BY <1>2

-----------------------------------------------------------------------------
(* Filtering a queue.                                                      *)

(* A set K of positions up to m has an n-th element for every n up to its  *)
(* size: the least i below which n elements of K lie.                      *)
LEMMA NthExists ==
  ASSUME NEW m \in Nat, NEW K \in SUBSET (1..m), NEW n \in 1..Cardinality(K)
  PROVE  \E i \in K : Cardinality({j \in K : j <= i}) = n
<1> DEFINE Upto(i) == {j \in K : j <= i}
           T == {i \in 0..m : Cardinality(Upto(i)) >= n}
<1>1. IsFiniteSet(K)
  BY FS_Interval, FS_Subset, 1 \in Int, m \in Int
<1>2. ASSUME NEW i PROVE IsFiniteSet(Upto(i)) /\ Cardinality(Upto(i)) \in Nat
  BY <1>1, FS_Subset, FS_CardinalityType, Upto(i) \in SUBSET K
<1>3. Upto(m) = K
  <2>1. \A j \in K : j <= m
    OBVIOUS
  <2> QED BY <2>1
<1>4. m \in T
  <2>1. Cardinality(Upto(m)) = Cardinality(K) /\ Cardinality(K) \in Nat
    BY <1>1, <1>3, FS_CardinalityType
  <2>2. Cardinality(Upto(m)) >= n
    BY <2>1
  <2> QED BY <2>2
<1>5. PICK i \in T : \A k \in T : i <= k
  BY <1>4, LeastElement, T \in SUBSET Nat
<1>6. /\ i \in Nat /\ i <= m /\ Cardinality(Upto(i)) >= n
      /\ \A j \in K : j \in Nat /\ 1 <= j /\ j <= m
  BY <1>5
<1>7. i # 0
  <2>1. ASSUME i = 0 PROVE Upto(i) = {}
    <3>1. \A j \in K : ~ (j <= i)
      BY <2>1, <1>6
    <3> QED BY <3>1
  <2>2. ASSUME i = 0 PROVE Cardinality(Upto(i)) = 0
    BY <2>1, <2>2, FS_EmptySet
  <2> QED BY <1>6, <2>2, n >= 1
<1>8. i - 1 \in 0..m /\ Cardinality(Upto(i - 1)) < n
  <2>1. i - 1 \in 0..m /\ ~ (i <= i - 1)
    BY <1>6, <1>7
  <2>2. i - 1 \notin T
    BY <2>1, <1>5
  <2>3. ~ (Cardinality(Upto(i - 1)) >= n)
    BY <2>1, <2>2
  <2>4. Cardinality(Upto(i - 1)) \in Nat
    BY <1>2
  <2> QED BY <2>1, <2>3, <2>4
<1>9. i \in K
  <2>1. ASSUME i \notin K PROVE FALSE
    <3>1. \A j \in K : j <= i <=> j <= i - 1
      BY <2>1, <1>6
    <3>2. Upto(i) = Upto(i - 1)
      BY <3>1
    <3> QED BY <3>2, <1>6, <1>8, <1>2
  <2> QED BY <2>1
<1>10. Upto(i) = Upto(i - 1) \cup {i} /\ i \notin Upto(i - 1)
  <2>1. \A j \in K : j <= i <=> (j <= i - 1 \/ j = i)
    BY <1>6
  <2>2. ~ (i <= i - 1) /\ i <= i
    BY <1>6
  <2> QED BY <2>1, <2>2, <1>9
<1>11. Cardinality(Upto(i - 1) \cup {i}) = Cardinality(Upto(i - 1)) + 1
  <2>1. IsFiniteSet(Upto(i - 1)) /\ i \notin Upto(i - 1)
    BY <1>2, <1>10
  <2> HIDE DEF Upto
  <2> QED BY <2>1, FS_AddElement
<1>12. Cardinality(Upto(i)) = n
  <2>1. Cardinality(Upto(i)) = Cardinality(Upto(i - 1)) + 1
    BY <1>10, <1>11
  <2>2. Cardinality(Upto(i - 1)) \in Nat
    BY <1>2
  <2> HIDE DEF Upto
  <2> QED BY <2>1, <2>2, <1>8, <1>6, n \in Nat
<1> QED BY <1>9, <1>12

(* Without returns a sequence of the remaining elements only.              *)
LEMMA WithoutType ==
  ASSUME NEW X, NEW q \in Seq(X), NEW S
  PROVE  /\ Without(q, S) \in Seq(X)
         /\ Elements(Without(q, S)) \subseteq Elements(q) \ S
<1> DEFINE K == KeptPositions(q, S)
           w == Without(q, S)
<1>1. Len(q) \in Nat /\ K \in SUBSET (1..Len(q)) /\ DOMAIN q = 1..Len(q)
  BY DEF KeptPositions
<1>2. Cardinality(K) \in Nat
  BY <1>1, FS_Interval, FS_Subset, FS_CardinalityType, 1 \in Int, Len(q) \in Int
<1>3. w = [n \in 1..Cardinality(K) |-> q[NthOf(K, n)]]
  BY DEF Without
<1>4. ASSUME NEW n \in 1..Cardinality(K)
      PROVE  NthOf(K, n) \in K
  <2>1. \E i \in K : Cardinality({j \in K : j <= i}) = n
    BY <1>1, NthExists
  <2> QED BY <2>1 DEF NthOf
<1>5. ASSUME NEW n \in 1..Cardinality(K)
      PROVE  w[n] \in X /\ w[n] \in Elements(q) \ S
  <2>1. NthOf(K, n) \in 1..Len(q) /\ q[NthOf(K, n)] \notin S
    BY <1>4 DEF KeptPositions
  <2> QED BY <2>1, <1>1, <1>3 DEF Elements
<1>6. w \in Seq(X)
  BY <1>2, <1>3, <1>5, IsASeq
<1>7. DOMAIN w = 1..Cardinality(K)
  BY <1>3
<1>8. Len(w) = Cardinality(K)
  BY <1>2, <1>6, <1>7
<1>9. Elements(w) \subseteq Elements(q) \ S
  BY <1>5, <1>8 DEF Elements
<1> QED BY <1>6, <1>9

(* Removing nothing leaves the queue as it is.                             *)
LEMMA WithoutNothing ==
  ASSUME NEW X, NEW q \in Seq(X)
  PROVE  Without(q, {}) = q
<1> DEFINE n == Len(q)
           K == KeptPositions(q, {})
<1>1. n \in Nat /\ K = 1..n /\ DOMAIN q = 1..n
  BY DEF KeptPositions
<1>2. Cardinality(K) = n
  BY <1>1, FS_Interval, 1 \in Int, n \in Int
<1>3. ASSUME NEW i \in 1..n
      PROVE  Cardinality({j \in K : j <= i}) = i
  <2>1. i \in Nat /\ 1 <= i /\ i <= n
    BY <1>1
  <2>2. {j \in K : j <= i} = 1..i
    BY <1>1, <2>1
  <2>3. Cardinality(1..i) = IF 1 > i THEN 0 ELSE i - 1 + 1
    BY <2>1, FS_Interval, 1 \in Int, i \in Int
  <2>4. Cardinality(1..i) = i
    BY <2>1, <2>3
  <2> QED BY <2>2, <2>4
<1>4. ASSUME NEW k \in 1..n
      PROVE  NthOf(K, k) = k
  <2>1. k \in K /\ \A i \in K : Cardinality({j \in K : j <= i}) = k <=> i = k
    BY <1>1, <1>3
  <2> QED BY <2>1 DEF NthOf
<1>5. Without(q, {}) = [k \in 1..n |-> q[k]]
  BY <1>2, <1>4 DEF Without
<1> QED BY <1>1, <1>5

(* The values of a function on 1..n that are naturals have an upper bound. *)
LEMMA ValuesBounded ==
  ASSUME NEW n \in Nat, NEW f, \A i \in 1..n : f[i] \in Nat
  PROVE  \E b \in Nat : \A i \in 1..n : f[i] <= b
<1> DEFINE Bounded(k) == \E b \in Nat : \A i \in 1..k : f[i] <= b
           T == {k \in 0..n : ~ Bounded(k)}
<1>1. SUFFICES ASSUME T # {} PROVE FALSE
  <2>1. n \in 0..n
    OBVIOUS
  <2> QED BY <2>1
<1>2. PICK k \in T : \A j \in T : k <= j
  BY <1>1, LeastElement, T \in SUBSET Nat
<1>3. k # 0
  <2>1. Bounded(0)
    <3>1. \A i \in 1..0 : f[i] <= 0
      OBVIOUS
    <3> QED BY <3>1
  <2> QED BY <2>1, <1>2
<1>4. k - 1 \in 0..n /\ ~ (k <= k - 1)
  BY <1>2, <1>3
<1>5. PICK b \in Nat : \A i \in 1..(k - 1) : f[i] <= b
  BY <1>2, <1>4
<1>6. f[k] \in Nat
  BY <1>2, <1>3
<1>7. ASSUME NEW i \in 1..k PROVE f[i] <= b + f[k]
  <2>1. CASE i = k
    BY <2>1, <1>6
  <2>2. CASE i # k
    <3>1. i \in 1..(k - 1) /\ f[i] \in Nat
      BY <2>2, <1>2
    <3> QED BY <3>1, <1>5, <1>6
  <2> QED BY <2>1, <2>2
<1>8. Bounded(k)
  BY <1>6, <1>7, b + f[k] \in Nat
<1> QED BY <1>2, <1>8

(* A non-empty bounded set of naturals has a greatest element.             *)
LEMMA GreatestElement ==
  ASSUME NEW S \in SUBSET Nat, S # {}, NEW b \in Nat, \A x \in S : x <= b
  PROVE  \E x \in S : \A y \in S : y <= x
<1> DEFINE T == {c \in Nat : \A x \in S : x <= c}
<1>1. PICK c \in T : \A k \in T : c <= k
  BY LeastElement, T \in SUBSET Nat, b \in T
<1>2. ASSUME c \notin S PROVE FALSE
  <2>1. \A x \in S : x \in Nat /\ x <= c /\ x # c
    BY <1>1, <1>2
  <2>2. c \in Nat /\ c # 0
    <3>1. PICK x \in S : x \in Nat /\ x <= c /\ x # c
      BY <2>1
    <3> QED BY <3>1, <1>1
  <2>3. c - 1 \in T
    BY <2>1, <2>2
  <2> QED BY <2>2, <2>3, <1>1
<1> QED BY <1>1, <1>2

(* A queue lists finitely many elements.                                   *)
LEMMA ElementsFinite ==
  ASSUME NEW X, NEW q \in Seq(X)
  PROVE  IsFiniteSet(Elements(q))
<1> DEFINE n == Len(q)
           f == [i \in 1..n |-> q[i]]
<1>1. n \in Nat /\ IsFiniteSet(1..n)
  BY FS_Interval, 1 \in Int, n \in Int
<1>2. f \in Surjection(1..n, Elements(q))
  BY DEF Surjection, Elements
<1> QED BY <1>1, <1>2, FS_Surjection

-----------------------------------------------------------------------------
(* What filtering keeps: the other elements, in their order.               *)

(* The elements of K up to i are finite in number, more than none if i is  *)
(* one of them.                                                            *)
LEMMA UptoCount ==
  ASSUME NEW m \in Nat, NEW K \in SUBSET (1..m), NEW i
  PROVE  /\ IsFiniteSet({j \in K : j <= i})
         /\ Cardinality({j \in K : j <= i}) \in Nat
         /\ Cardinality({j \in K : j <= i}) <= Cardinality(K)
         /\ i \in K => Cardinality({j \in K : j <= i}) >= 1
<1> DEFINE U == {j \in K : j <= i}
<1>1. IsFiniteSet(K)
  BY FS_Interval, FS_Subset, 1 \in Int, m \in Int
<1>2. IsFiniteSet(U) /\ Cardinality(U) \in Nat /\ Cardinality(U) <= Cardinality(K)
  BY <1>1, FS_Subset, FS_CardinalityType, U \in SUBSET K
<1>3. ASSUME i \in K PROVE Cardinality(U) >= 1
  <2>1. i \in U
    BY <1>3
  <2>2. Cardinality(U) # 0
    <3> HIDE DEF U
    <3> QED BY <2>1, <1>2, FS_EmptySet
  <2> QED BY <2>2, <1>2
<1> QED BY <1>2, <1>3

(* A later element of K has more elements of K below it.                   *)
LEMMA UptoGrows ==
  ASSUME NEW m \in Nat, NEW K \in SUBSET (1..m), NEW i \in K, NEW k \in K, i < k
  PROVE  Cardinality({j \in K : j <= i}) < Cardinality({j \in K : j <= k})
<1> DEFINE U(x) == {j \in K : j <= x}
<1>1. /\ IsFiniteSet(U(i)) /\ Cardinality(U(i)) \in Nat
      /\ IsFiniteSet(U(k)) /\ Cardinality(U(k)) \in Nat
  BY UptoCount
<1>2. U(i) \in SUBSET U(k) /\ U(i) # U(k)
  <2>1. \A j \in K : j \in Nat
    OBVIOUS
  <2>2. k \in U(k) /\ k \notin U(i)
    BY <2>1
  <2>3. \A j \in U(i) : j <= k
    BY <2>1
  <2> QED BY <2>2, <2>3
<1>3. Cardinality(U(i)) <= Cardinality(U(k)) /\ Cardinality(U(k)) # Cardinality(U(i))
  <2> HIDE DEF U
  <2> QED BY <1>1, <1>2, FS_Subset
<1>4. Cardinality(U(i)) < Cardinality(U(k))
  <2> HIDE DEF U
  <2> QED BY <1>1, <1>3
<1> QED BY <1>4

(* The n-th element of K is in K and has n elements of K up to it; the     *)
(* element of K with n elements up to it is the n-th.                      *)
LEMMA NthProperties ==
  ASSUME NEW m \in Nat, NEW K \in SUBSET (1..m)
  PROVE  /\ \A n \in 1..Cardinality(K) :
              NthOf(K, n) \in K /\ Cardinality({j \in K : j <= NthOf(K, n)}) = n
         /\ \A k \in K : NthOf(K, Cardinality({j \in K : j <= k})) = k
<1> DEFINE c(x) == Cardinality({j \in K : j <= x})
<1>1. ASSUME NEW n \in 1..Cardinality(K)
      PROVE  NthOf(K, n) \in K /\ c(NthOf(K, n)) = n
  <2>1. \E i \in K : c(i) = n
    BY NthExists
  <2> QED BY <2>1 DEF NthOf
<1>2. ASSUME NEW k \in K PROVE NthOf(K, c(k)) = k
  <2>1. ASSUME NEW i \in K, c(i) = c(k) PROVE i = k
    <3>1. i \in Nat /\ k \in Nat /\ c(i) \in Nat /\ c(k) \in Nat
      <4>1. c(i) \in Nat /\ c(k) \in Nat
        BY UptoCount
      <4> QED BY <4>1
    <3>2. ~ (i < k)
      <4>1. i < k => c(i) < c(k)
        BY UptoGrows
      <4> HIDE DEF c
      <4> QED BY <4>1, <3>1, <2>1
    <3>3. ~ (k < i)
      <4>1. k < i => c(k) < c(i)
        BY UptoGrows
      <4> HIDE DEF c
      <4> QED BY <4>1, <3>1, <2>1
    <3> QED BY <3>1, <3>2, <3>3
  <2>2. NthOf(K, c(k)) = CHOOSE i \in K : c(i) = c(k)
    BY DEF NthOf
  <2> HIDE DEF c
  <2> QED BY <2>1, <2>2
<1> QED BY <1>1, <1>2

(* Without keeps exactly the elements outside S, and two that it keeps     *)
(* stand in the order in which they stood.                                 *)
LEMMA WithoutKeeps ==
  ASSUME NEW X, NEW q \in Seq(X), NEW S
  PROVE  /\ Elements(Without(q, S)) = Elements(q) \ S
         /\ \A i, j \in 1..Len(Without(q, S)) : i < j =>
              \E k, l \in 1..Len(q) :
                k < l /\ Without(q, S)[i] = q[k] /\ Without(q, S)[j] = q[l]
<1> DEFINE K == KeptPositions(q, S)
           w == Without(q, S)
           c(x) == Cardinality({j \in K : j <= x})
<1>1. Len(q) \in Nat /\ K \in SUBSET (1..Len(q))
  BY DEF KeptPositions
<1>2. Cardinality(K) \in Nat
  BY <1>1, FS_Interval, FS_Subset, FS_CardinalityType, 1 \in Int, Len(q) \in Int
<1>3. w = [n \in 1..Cardinality(K) |-> q[NthOf(K, n)]]
  BY DEF Without
<1>4. w \in Seq(X) /\ Elements(w) \subseteq Elements(q) \ S
  BY WithoutType
<1>5. Len(w) = Cardinality(K)
  <2>1. DOMAIN w = 1..Cardinality(K) /\ DOMAIN w = 1..Len(w) /\ Len(w) \in Nat
    BY <1>3, <1>4, LenProperties
  <2> HIDE DEF w, K
  <2> QED BY <2>1, <1>2
<1>6. /\ \A n \in 1..Cardinality(K) : NthOf(K, n) \in K /\ c(NthOf(K, n)) = n
      /\ \A k \in K : NthOf(K, c(k)) = k
  <2> HIDE DEF K
  <2> QED BY <1>1, NthProperties
<1>7. ASSUME NEW x \in Elements(q) \ S PROVE x \in Elements(w)
  <2>1. PICK k \in 1..Len(q) : x = q[k]
    BY DEF Elements
  <2>2. k \in K
    BY <2>1 DEF KeptPositions
  <2>3. c(k) \in Nat /\ c(k) <= Cardinality(K) /\ c(k) >= 1
    <3> HIDE DEF K
    <3> QED BY <2>2, <1>1, UptoCount
  <2>4. c(k) \in 1..Cardinality(K)
    <3> HIDE DEF c, K
    <3> QED BY <2>3, <1>2
  <2>5. w[c(k)] = q[NthOf(K, c(k))]
    <3> HIDE DEF c, K
    <3> QED BY <2>4, <1>3
  <2>6. w[c(k)] = x
    BY <2>1, <2>2, <2>5, <1>6
  <2> HIDE DEF c, K, w
  <2> QED BY <2>4, <2>6, <1>5 DEF Elements
<1>8. ASSUME NEW i \in 1..Len(w), NEW j \in 1..Len(w), i < j
      PROVE  \E k, l \in 1..Len(q) : k < l /\ w[i] = q[k] /\ w[j] = q[l]
  <2>1. PICK k : k = NthOf(K, i)
    OBVIOUS
  <2>2. PICK l : l = NthOf(K, j)
    OBVIOUS
  <2>3. k \in K /\ l \in K /\ c(k) = i /\ c(l) = j
    BY <2>1, <2>2, <1>5, <1>6
  <2>4. w[i] = q[k] /\ w[j] = q[l]
    BY <2>1, <2>2, <1>3, <1>5
  <2>5. k \in Nat /\ l \in Nat /\ i \in Nat /\ j \in Nat
    BY <2>3, <1>1, <1>2, <1>5
  <2>6. k # l
    <3> HIDE DEF c, K
    <3> QED BY <2>3, <2>5, <1>8
  <2>7. ~ (l < k)
    <3>1. l < k => c(l) < c(k)
      <4> HIDE DEF K
      <4> QED BY <1>1, <2>3, UptoGrows
    <3> HIDE DEF c, K
    <3> QED BY <3>1, <2>3, <2>5, <1>8
  <2>8. k < l
    BY <2>5, <2>6, <2>7
  <2> HIDE DEF w
  <2> QED BY <2>3, <2>4, <2>8, <1>1
<1> HIDE DEF w
<1>9. Elements(w) = Elements(q) \ S
  BY <1>4, <1>7
<1> QED BY <1>8, <1>9 DEF w

(* A queue that lists nothing twice is as long as it has elements.         *)
LEMMA DistinctLength ==
  ASSUME NEW X, NEW q \in Seq(X),
         \A i, j \in 1..Len(q) : i < j => q[i] # q[j]
  PROVE  Len(q) = Cardinality(Elements(q))
<1> DEFINE n == Len(q)
           f == [i \in 1..n |-> q[i]]
<1>1. n \in Nat /\ IsFiniteSet(1..n) /\ Cardinality(1..n) = n
  BY FS_Interval, 1 \in Int, n \in Int
<1>2. f \in Surjection(1..n, Elements(q))
  BY DEF Surjection, Elements
<1>3. f \in Injection(1..n, Elements(q))
  <2>1. \A i, j \in 1..n : f[i] = f[j] => i = j
    <3>1. \A i, j \in 1..n : i < j \/ j < i \/ i = j
      BY <1>1
    <3> QED BY <3>1
  <2> QED BY <2>1, <1>2 DEF Injection, IsInjective, Surjection
<1>4. Cardinality(Elements(q)) = Cardinality(1..n)
  <2> HIDE DEF f, n
  <2> QED BY <1>1, <1>2, <1>3, FS_Surjection
<1> QED BY <1>1, <1>4

(* A function that lists a finite set S by positions up to its size,       *)
(* nothing twice, is a queue of all of S.                                  *)
LEMMA ListsAll ==
  ASSUME NEW S, IsFiniteSet(S), NEW w \in [1..Cardinality(S) -> S],
         \A i, j \in 1..Cardinality(S) : i < j => w[i] # w[j]
  PROVE  w \in Seq(S) /\ Len(w) = Cardinality(S) /\ Elements(w) = S
<1> DEFINE n == Cardinality(S)
<1>1. n \in Nat
  BY FS_CardinalityType
<1>2. w \in Seq(S)
  BY <1>1, SeqDef
<1>3. Len(w) = n
  <2>1. DOMAIN w = 1..n /\ DOMAIN w = 1..Len(w) /\ Len(w) \in Nat
    BY <1>2, LenProperties
  <2> HIDE DEF n
  <2> QED BY <2>1, <1>1
<1>4. IsFiniteSet(1..n) /\ Cardinality(1..n) = n
  BY <1>1, FS_Interval, 1 \in Int, n \in Int
<1>5. w \in Injection(1..n, S)
  <2>1. \A i, j \in 1..n : w[i] = w[j] => i = j
    <3>1. \A i, j \in 1..n : i < j \/ j < i \/ i = j
      BY <1>1
    <3> QED BY <3>1
  <2> QED BY <2>1 DEF Injection, IsInjective
<1>6. w \in Surjection(1..n, S)
  BY <1>4, <1>5, FS_Injection
<1>7. Elements(w) = S
  BY <1>3, <1>6 DEF Surjection, Elements
<1> QED BY <1>2, <1>3, <1>7
=============================================================================

----------------------------- MODULE FifoProofs -----------------------------
(***************************************************************************)
(* What the operators of Fifo return, for lists and sets of any size.      *)
(***************************************************************************)
EXTENDS Fifo, FiniteSetTheorems, SequenceTheorems, TLAPS

\* Ranks number the members of a finite set of positions from 1 up, in order.
LEMMA RankProperties ==
  ASSUME NEW n \in Nat, NEW K \in SUBSET (0..n)
  PROVE  /\ IsFiniteSet(K) /\ Cardinality(K) \in Nat
         /\ \A i \in K : Rank(K, i) \in 1..Cardinality(K)
         /\ \A i, j \in K : i < j => Rank(K, i) < Rank(K, j)
         /\ \A r \in 1..Cardinality(K) : \E i \in K : Rank(K, i) = r
<1>1. IsFiniteSet(K) /\ Cardinality(K) \in Nat
  <2>1. IsFiniteSet(0..n)
    BY FS_Interval
  <2>2. IsFiniteSet(K)
    BY <2>1, FS_Subset, Zenon
  <2> QED BY <2>2, FS_CardinalityType, Zenon
<1>2. ASSUME NEW i \in K
      PROVE  /\ IsFiniteSet({m \in K : m <= i})
             /\ Rank(K, i) \in 1..Cardinality(K)
  <2>1. /\ IsFiniteSet({m \in K : m <= i})
        /\ Cardinality({m \in K : m <= i}) <= Cardinality(K)
    <3>1. {m \in K : m <= i} \in SUBSET K
      OBVIOUS
    <3> QED BY <1>1, <3>1, FS_Subset, Zenon
  <2>2. Cardinality({m \in K : m <= i}) \in Nat
    BY <2>1, FS_CardinalityType
  <2>3. Cardinality({m \in K : m <= i}) # 0
    <3>1. i \in {m \in K : m <= i}
      OBVIOUS
    <3> QED BY <2>1, <3>1, FS_EmptySet, Zenon
  <2> QED BY <1>1, <2>1, <2>2, <2>3 DEF Rank
<1>3. ASSUME NEW i \in K, NEW j \in K, i < j
      PROVE  Rank(K, i) < Rank(K, j)
  <2> DEFINE I == {m \in K : m <= i}
             J == {m \in K : m <= j}
  <2>1. I \in SUBSET J /\ I # J
    <3>1. j \in J /\ j \notin I
      BY <1>3
    <3>2. \A m \in K : m <= i => m <= j
      BY <1>3
    <3> QED BY <3>1, <3>2
  <2>2. IsFiniteSet(J)
    BY <1>2
  <2> HIDE DEF I, J
  <2>3. Cardinality(I) <= Cardinality(J) /\ Cardinality(I) # Cardinality(J)
    BY <2>1, <2>2, FS_Subset
  <2>4. Cardinality(I) \in Nat /\ Cardinality(J) \in Nat
    BY <1>2, <1>1 DEF I, J, Rank
  <2> QED BY <2>3, <2>4 DEF I, J, Rank
<1>4. \A r \in 1..Cardinality(K) : \E i \in K : Rank(K, i) = r
  <2> DEFINE R == 1..Cardinality(K)
             f == [i \in K |-> Rank(K, i)]
  <2>1. f \in Injection(K, R)
    <3>1. f \in [K -> R]
      BY <1>2
    <3>2. \A i, j \in K : f[i] = f[j] => i = j
      <4>1. \A i, j \in K : i < j \/ j < i \/ i = j
        OBVIOUS
      <4>2. \A i \in K : Rank(K, i) \in Int
        <5> SUFFICES ASSUME NEW i \in K PROVE Rank(K, i) \in Int
          OBVIOUS
        <5>1. Rank(K, i) \in 1..Cardinality(K)
          BY <1>2
        <5> QED BY <5>1, <1>1
      <4> QED BY <1>3, <4>1, <4>2
    <3> QED BY <3>1, <3>2 DEF Injection, IsInjective
  <2>2. IsFiniteSet(R) /\ Cardinality(R) = Cardinality(K)
    BY <1>1, FS_Interval
  <2>3. f \in Surjection(K, R)
    <3> HIDE DEF f, R
    <3> QED BY <2>1, <2>2, FS_Injection
  <2> QED BY <2>3 DEF Surjection
<1> QED BY <1>1, <1>2, <1>3, <1>4

\* A non-empty bounded set of naturals has the least member Least chooses.
LEMMA LeastExists ==
  ASSUME NEW n \in Nat, NEW S \in SUBSET (0..n), S # {}
  PROVE  Least(S) \in S /\ \A y \in S : Least(S) <= y
<1>1. Cardinality(S) \in Nat /\ Cardinality(S) # 0
  BY RankProperties, FS_EmptySet
<1>2. PICK x \in S : Rank(S, x) = 1
  <2>1. \A r \in 1..Cardinality(S) : \E i \in S : Rank(S, i) = r
    BY RankProperties, Zenon
  <2> QED BY <1>1, <2>1
<1>3. \A y \in S : x <= y
  <2> SUFFICES ASSUME NEW y \in S, y < x PROVE FALSE
    OBVIOUS
  <2>1. Rank(S, y) < 1 /\ Rank(S, y) \in 1..Cardinality(S)
    BY <1>2, RankProperties
  <2> QED BY <2>1, <1>1
<1> QED BY <1>3 DEF Least

\* Nth and Rank are inverse to each other.
LEMMA NthProperties ==
  ASSUME NEW n \in Nat, NEW K \in SUBSET (0..n)
  PROVE  /\ \A j \in 1..Cardinality(K) : Nth(K, j) \in K /\ Rank(K, Nth(K, j)) = j
         /\ \A i \in K : Nth(K, Rank(K, i)) = i
<1>1. \A j \in 1..Cardinality(K) : Nth(K, j) \in K /\ Rank(K, Nth(K, j)) = j
  <2>1. \A r \in 1..Cardinality(K) : \E i \in K : Rank(K, i) = r
    BY RankProperties, Zenon
  <2> QED BY <2>1, Zenon DEF Nth
<1>2. ASSUME NEW i \in K
      PROVE  Nth(K, Rank(K, i)) = i
  <2> DEFINE k == Nth(K, Rank(K, i))
  <2>1. Rank(K, i) \in 1..Cardinality(K)
    BY RankProperties
  <2>2. k \in K /\ Rank(K, k) = Rank(K, i)
    BY <1>1, <2>1
  <2>3. Rank(K, i) \in Int
    BY <2>1, RankProperties
  <2>4. ~ (i < k) /\ ~ (k < i)
    <3> HIDE DEF k
    <3>1. \A a, b \in K : a < b => Rank(K, a) < Rank(K, b)
      BY RankProperties, Zenon
    <3> QED BY <2>2, <2>3, <3>1
  <2> HIDE DEF k
  <2>5. i = k
    BY <2>2, <2>4
  <2> QED BY <2>5 DEF k
<1> QED BY <1>1, <1>2

\* The entries at a set of positions: a list of that many, each of them at one
\* of the positions, each position's entry at its rank.
LEMMA AtProperties ==
  ASSUME NEW T, NEW q \in Seq(T), NEW K \in SUBSET (DOMAIN q)
  PROVE  /\ At(q, K) \in Seq(T)
         /\ Cardinality(K) \in Nat
         /\ Len(At(q, K)) = Cardinality(K)
         /\ DOMAIN At(q, K) = 1..Cardinality(K)
         /\ \A j \in DOMAIN At(q, K) : Nth(K, j) \in K /\ At(q, K)[j] = q[Nth(K, j)]
         /\ \A j, k \in DOMAIN At(q, K) : Nth(K, j) = Nth(K, k) => j = k
         /\ \A i \in K : \E j \in DOMAIN At(q, K) : At(q, K)[j] = q[i]
<1>1. Len(q) \in Nat /\ DOMAIN q = 1..Len(q) /\ K \in SUBSET (0..Len(q))
  BY LenProperties
<1>2. Cardinality(K) \in Nat
  BY <1>1, RankProperties
<1>3. /\ \A j \in 1..Cardinality(K) : Nth(K, j) \in K /\ Rank(K, Nth(K, j)) = j
      /\ \A i \in K : Nth(K, Rank(K, i)) = i
  BY <1>1, NthProperties, Zenon
<1>4. DOMAIN At(q, K) = 1..Cardinality(K)
  BY DEF At
<1>5. \A j \in 1..Cardinality(K) : q[Nth(K, j)] \in T
  BY <1>1, <1>3, ElementOfSeq
<1>6. At(q, K) \in [1..Cardinality(K) -> T]
  BY <1>5 DEF At
<1>7. At(q, K) \in Seq(T) /\ Len(At(q, K)) = Cardinality(K)
  <2>1. At(q, K) \in Seq(T)
    BY <1>2, <1>6, SeqDef
  <2> QED BY <2>1, <1>2, <1>4, LenProperties
<1>8. \A j \in DOMAIN At(q, K) : Nth(K, j) \in K /\ At(q, K)[j] = q[Nth(K, j)]
  BY <1>3, <1>4 DEF At
<1>9. \A j, k \in DOMAIN At(q, K) : Nth(K, j) = Nth(K, k) => j = k
  <2> SUFFICES ASSUME NEW j \in 1..Cardinality(K), NEW k \in 1..Cardinality(K),
                      Nth(K, j) = Nth(K, k)
               PROVE  j = k
    BY <1>4
  <2>1. Rank(K, Nth(K, j)) = j /\ Rank(K, Nth(K, k)) = k
    BY <1>3
  <2> QED BY <2>1
<1>10. ASSUME NEW i \in K
       PROVE  \E j \in DOMAIN At(q, K) : At(q, K)[j] = q[i]
  <2>1. Rank(K, i) \in 1..Cardinality(K)
    BY <1>1, RankProperties, Zenon
  <2>2. At(q, K)[Rank(K, i)] = q[i]
    BY <2>1, <1>3, <1>4, <1>8
  <2> QED BY <2>1, <2>2, <1>4
<1> QED BY <1>2, <1>4, <1>7, <1>8, <1>9, <1>10

\* Taking the members of S out of a list leaves exactly the others, each as
\* often as before.
LEMMA WithoutProperties ==
  ASSUME NEW T, NEW q \in Seq(T), NEW S
  PROVE  /\ Without(q, S) \in Seq(T)
         /\ \A j \in DOMAIN Without(q, S) :
              \E i \in DOMAIN q : q[i] = Without(q, S)[j] /\ q[i] \notin S
         /\ \A i \in DOMAIN q : q[i] \notin S =>
              \E j \in DOMAIN Without(q, S) : Without(q, S)[j] = q[i]
         /\ (\A i, k \in DOMAIN q : q[i] = q[k] => i = k) =>
              \A j, k \in DOMAIN Without(q, S) :
                Without(q, S)[j] = Without(q, S)[k] => j = k
<1> DEFINE K == {i \in DOMAIN q : q[i] \notin S}
           w == At(q, K)
<1>1. K \in SUBSET (DOMAIN q)
  OBVIOUS
<1>2. /\ w \in Seq(T)
      /\ \A j \in DOMAIN w : Nth(K, j) \in K /\ w[j] = q[Nth(K, j)]
      /\ \A j, k \in DOMAIN w : Nth(K, j) = Nth(K, k) => j = k
      /\ \A i \in K : \E j \in DOMAIN w : w[j] = q[i]
  <2> HIDE DEF K
  <2> QED BY <1>1, AtProperties
<1>3. w = Without(q, S)
  BY DEF Without
<1>4. \A i : i \in K <=> i \in DOMAIN q /\ q[i] \notin S
  OBVIOUS
<1> HIDE DEF K, w
<1> QED BY <1>2, <1>3, <1>4

\* The first n positions of a list pick out its first n entries.
LEMMA AtInitial ==
  ASSUME NEW T, NEW q \in Seq(T), NEW n \in 0..Len(q)
  PROVE  /\ Cardinality(1..n) = n
         /\ \A j \in 1..n : Nth(1..n, j) = j
         /\ At(q, 1..n) = SubSeq(q, 1, n)
<1>1. Len(q) \in Nat /\ DOMAIN q = 1..Len(q) /\ n \in Nat /\ n <= Len(q)
  BY LenProperties
<1>2. Cardinality(1..n) = n
  BY <1>1, FS_Interval
<1>3. ASSUME NEW j \in 1..n
      PROVE  Nth(1..n, j) = j
  <2>1. {m \in 1..n : m <= j} = 1..j
    BY <1>1
  <2>2. Cardinality(1..j) = j
    BY <1>1, FS_Interval
  <2>3. Rank(1..n, j) = j
    BY <2>1, <2>2 DEF Rank
  <2>4. 1..n \in SUBSET (0..n)
    BY <1>1
  <2>5. Nth(1..n, Rank(1..n, j)) = j
    BY <1>1, <2>4, NthProperties
  <2> QED BY <2>3, <2>5
<1>4. At(q, 1..n) = [j \in 1..n |-> q[j]]
  BY <1>2, <1>3 DEF At
<1>5. SubSeq(q, 1, n) = [j \in 1..n |-> q[j]]
  BY <1>1
<1> QED BY <1>2, <1>3, <1>4, <1>5
=============================================================================

------------------------------ MODULE Counting ------------------------------
(***************************************************************************)
(* Facts about numbers, finite sets and orders on them, that the proofs    *)
(* about several components use.  An order is a set of pairs.              *)
(***************************************************************************)
EXTENDS Integers, FiniteSets, FiniteSetTheorems, NaturalsInduction, TLAPS

\* R orders S, one element before another.
Orders(R, S) ==
    /\ \A a \in S : <<a, a>> \notin R
    /\ \A a, b \in S : a # b => <<a, b>> \in R \/ <<b, a>> \in R
    /\ \A a, b, c \in S : <<a, b>> \in R /\ <<b, c>> \in R => <<a, c>> \in R

\* The elements of S before a, and how many they are.
Below(R, S, a) == {b \in S : <<b, a>> \in R}
RankIn(R, S, a) == Cardinality(Below(R, S, a))

\* A set of numbers that is not empty has a least one.
LEMMA LeastNumber ==
    ASSUME NEW S \in SUBSET Nat, S # {}
    PROVE  \E n \in S : \A m \in S : n <= m
  <1>1. PICK n \in S : \A m \in S : ~ (<<m, n>> \in OpToRel(<, Nat))
    BY NatLessThanWellFounded, WFMin, Zenon
  <1>2. \A k, m \in Nat : m < k => <<m, k>> \in OpToRel(<, Nat)
    BY Zenon DEF OpToRel
  <1>3. \A m \in S : ~ (m < n)
    BY <1>1, <1>2, Zenon
  <1>4. QED
    BY <1>3

\* What is before a is finite, without a itself.
LEMMA RankIsNat ==
    ASSUME NEW S, IsFiniteSet(S), NEW R, NEW a \in S, Orders(R, S)
    PROVE  /\ IsFiniteSet(Below(R, S, a))
           /\ RankIn(R, S, a) \in Nat
           /\ RankIn(R, S, a) < Cardinality(S)
  <1>1. Below(R, S, a) \subseteq S \ {a}
    BY DEF Below, Orders
  <1>2. IsFiniteSet(S \ {a}) /\ Cardinality(S \ {a}) = Cardinality(S) - 1
    BY FS_RemoveElement
  <1>3. IsFiniteSet(Below(R, S, a)) /\ Cardinality(Below(R, S, a)) <= Cardinality(S) - 1
    BY <1>1, <1>2, FS_Subset
  <1>4. RankIn(R, S, a) \in Nat /\ Cardinality(S) \in Nat
    BY <1>3, FS_CardinalityType DEF RankIn
  <1>5. QED
    BY <1>3, <1>4 DEF RankIn

\* What comes before has the smaller rank, ...
LEMMA RankGrows ==
    ASSUME NEW S, IsFiniteSet(S), NEW R, Orders(R, S), NEW a \in S, NEW b \in S, <<a, b>> \in R
    PROVE  RankIn(R, S, a) < RankIn(R, S, b)
  <1>1. Below(R, S, a) \subseteq Below(R, S, b) \ {a} /\ a \in Below(R, S, b)
    BY DEF Below, Orders
  <1>2. IsFiniteSet(Below(R, S, b)) /\ IsFiniteSet(Below(R, S, a))
    BY RankIsNat
  <1>3. /\ IsFiniteSet(Below(R, S, b) \ {a})
        /\ Cardinality(Below(R, S, b) \ {a}) = RankIn(R, S, b) - 1
    BY <1>1, <1>2, FS_RemoveElement DEF RankIn
  <1>4. RankIn(R, S, a) <= RankIn(R, S, b) - 1
    BY <1>1, <1>3, FS_Subset DEF RankIn
  <1>5. RankIn(R, S, a) \in Nat /\ RankIn(R, S, b) \in Nat
    BY RankIsNat
  <1>6. QED
    BY <1>4, <1>5

\* ... and only that, so that no two elements have one rank.
LEMMA RankOrders ==
    ASSUME NEW S, IsFiniteSet(S), NEW R, Orders(R, S), NEW a \in S, NEW b \in S
    PROVE  /\ <<a, b>> \in R <=> RankIn(R, S, a) < RankIn(R, S, b)
           /\ RankIn(R, S, a) = RankIn(R, S, b) => a = b
  <1>1. RankIn(R, S, a) \in Nat /\ RankIn(R, S, b) \in Nat
    BY RankIsNat
  <1>2. CASE a = b
    BY <1>1, <1>2 DEF Orders
  <1>3. CASE <<a, b>> \in R
    <2>1. RankIn(R, S, a) < RankIn(R, S, b)
      BY <1>3, RankGrows
    <2>2. QED
      BY <1>1, <1>3, <2>1
  <1>4. CASE <<b, a>> \in R
    <2>1. RankIn(R, S, b) < RankIn(R, S, a)
      BY <1>4, RankGrows
    <2>2. <<a, b>> \notin R
      BY <1>4 DEF Orders
    <2>3. QED
      BY <1>1, <2>1, <2>2
  <1>5. QED
    BY <1>2, <1>3, <1>4 DEF Orders

\* Every number below the size of the set is the rank of one of its elements.
LEMMA RankCovers ==
    ASSUME NEW S, IsFiniteSet(S), NEW R, Orders(R, S), NEW n \in Nat, n < Cardinality(S)
    PROVE  \E a \in S : RankIn(R, S, a) = n
  <1> DEFINE N == Cardinality(S)
             T == 0 .. N - 1
             rank == [a \in S |-> RankIn(R, S, a)]
  <1>1. N \in Nat
    BY FS_CardinalityType
  <1>2. rank \in Injection(S, T)
    <2>1. \A a \in S : RankIn(R, S, a) \in T
      BY <1>1, RankIsNat
    <2>2. rank \in [S -> T]
      BY <2>1
    <2>3. \A a, b \in S : rank[a] = rank[b] => a = b
      BY RankOrders
    <2> HIDE DEF rank, T
    <2>4. QED
      BY <2>2, <2>3 DEF Injection, IsInjective
  <1>3. IsFiniteSet(T) /\ Cardinality(T) = N
    <2>1. 0 \in Int /\ N - 1 \in Int
      BY <1>1
    <2>2. IsFiniteSet(T) /\ Cardinality(T) = IF 0 > N - 1 THEN 0 ELSE N - 1 - 0 + 1
      BY <2>1, FS_Interval
    <2>3. QED
      BY <1>1, <2>2
  <1> HIDE DEF rank
  <1>4. rank \in Surjection(S, T)
    BY <1>2, <1>3, FS_Injection
  <1>5. PICK a \in S : rank[a] = n
    <2>1. n \in T
      BY <1>1
    <2> HIDE DEF T
    <2>2. QED
      BY <1>4, <2>1 DEF Surjection
  <1>6. QED
    BY <1>5 DEF rank

\* A finite set that is not empty has a first element and a last one.
LEMMA FirstAndLast ==
    ASSUME NEW S, IsFiniteSet(S), S # {}, NEW R, Orders(R, S)
    PROVE  /\ \E a \in S : \A b \in S \ {a} : <<a, b>> \in R
           /\ \E a \in S : \A b \in S \ {a} : <<b, a>> \in R
  <1>1. Cardinality(S) \in Nat /\ Cardinality(S) # 0
    BY FS_CardinalityType, FS_EmptySet
  <1>2. PICK a \in S : RankIn(R, S, a) = 0
    BY <1>1, RankCovers
  <1>3. PICK z \in S : RankIn(R, S, z) = Cardinality(S) - 1
    BY <1>1, RankCovers
  <1>4. ASSUME NEW b \in S \ {a} PROVE <<a, b>> \in R
    <2>1. RankIn(R, S, b) \in Nat
      BY RankIsNat
    <2>2. ~ (<<b, a>> \in R)
      BY <1>2, <2>1, RankOrders
    <2>3. QED
      BY <2>2 DEF Orders
  <1>5. ASSUME NEW b \in S \ {z} PROVE <<b, z>> \in R
    <2>1. RankIn(R, S, b) \in Nat /\ RankIn(R, S, b) < Cardinality(S)
      BY RankIsNat
    <2>2. ~ (<<z, b>> \in R)
      BY <1>1, <1>3, <2>1, RankOrders
    <2>3. QED
      BY <2>2 DEF Orders
  <1>6. QED
    BY <1>4, <1>5

\* What the division leaves.
LEMMA Division ==
    ASSUME NEW a \in Nat, NEW C \in Nat \ {0}
    PROVE  a \div C \in Nat /\ a % C \in 0 .. C - 1 /\ a = C * (a \div C) + (a % C)
  OBVIOUS

\* Two numbers less than C apart do not leave the same.
LEMMA RemaindersDiffer ==
    ASSUME NEW a \in Nat, NEW b \in Nat, NEW C \in Nat \ {0}, a < b, b - a < C
    PROVE  a % C # b % C
  <1>1. SUFFICES ASSUME a % C = b % C PROVE FALSE
    OBVIOUS
  <1> DEFINE qa == a \div C
             qb == b \div C
  <1>2. qa \in Nat /\ qb \in Nat /\ b - a = C * qb - C * qa
    <2>1. /\ qa \in Nat /\ qb \in Nat /\ a % C \in Nat
          /\ a = C * qa + (a % C) /\ b = C * qb + (b % C)
      BY Division
    <2> HIDE DEF qa, qb
    <2>2. QED
      BY <1>1, <2>1
  <1> HIDE DEF qa, qb
  <1>3. \A k, n \in Nat : n >= k => C * n >= C * k
    OBVIOUS
  <1>4. C * qa \in Int /\ C * qb \in Int
    BY <1>2
  <1>5. CASE qb <= qa
    BY <1>2, <1>3, <1>4, <1>5
  <1>6. CASE qb >= qa + 1
    <2>1. C * qb >= C * (qa + 1)
      BY <1>2, <1>3, <1>6
    <2>2. C * (qa + 1) = C * qa + C
      BY <1>2
    <2>3. QED
      BY <1>2, <1>4, <2>1, <2>2
  <1>7. QED
    BY <1>2, <1>5, <1>6
=============================================================================

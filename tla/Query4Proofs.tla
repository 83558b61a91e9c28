---------------------------- MODULE Query4Proofs ----------------------------
(***************************************************************************)
(* What query 4 computes, for every graph, every method and every number   *)
(* of threads and samples: no bound is above the sum that it bounds, the   *)
(* searches that share distances and bitsets find what a search of its own *)
(* finds, the heap yields in descending order, and the answer is the most  *)
(* central vertices.                                                       *)
(***************************************************************************)
EXTENDS Query4, Counting

-----------------------------------------------------------------------------
(* Sums over finite sets, as numbers of elements, and recursion.           *)

\* No two of the sets P[x] have an element in common.
Apart(P) == \A x, y \in DOMAIN P : x # y => P[x] \cap P[y] = {}

\* The elements of P[x] for x in s.
Parts(P, s) == UNION {P[x] : x \in s}

\* P has a finite set for each element of S.
FiniteParts(P, S) == DOMAIN P = S /\ \A x \in S : IsFiniteSet(P[x])

\* Finitely many finite sets have finitely many elements together.
LEMMA PartsFinite ==
    ASSUME NEW S, IsFiniteSet(S), NEW P, FiniteParts(P, S), NEW s \in SUBSET S
    PROVE  IsFiniteSet(Parts(P, s))
  <1> DEFINE f == [x \in s |-> P[x]]
             T == {P[x] : x \in s}
  <1>1. f \in Surjection(s, T)
    BY DEF Surjection
  <1>2. IsFiniteSet(s)
    BY FS_Subset
  <1> HIDE DEF f
  <1>3. IsFiniteSet(T)
    BY <1>1, <1>2, FS_Surjection
  <1>4. \A t \in T : IsFiniteSet(t)
    BY DEF FiniteParts
  <1>5. IsFiniteSet(UNION T)
    BY <1>3, <1>4, FS_UNION
  <1>6. QED
    BY <1>5 DEF Parts

\* One set more has as many elements more as it has itself.
LEMMA PartsApart ==
    ASSUME NEW S, IsFiniteSet(S), NEW P, FiniteParts(P, S), Apart(P),
           NEW s \in SUBSET S, NEW x \in s
    PROVE  /\ IsFiniteSet(Parts(P, s)) /\ IsFiniteSet(P[x])
           /\ Cardinality(Parts(P, s)) = Cardinality(P[x]) + Cardinality(Parts(P, s \ {x}))
  <1>1. s \ {x} \in SUBSET S
    OBVIOUS
  <1>2. IsFiniteSet(Parts(P, s)) /\ IsFiniteSet(Parts(P, s \ {x})) /\ IsFiniteSet(P[x])
    BY <1>1, PartsFinite DEF FiniteParts
  <1>3. Parts(P, s) = P[x] \cup Parts(P, s \ {x})
    BY DEF Parts
  <1>4. P[x] \cap Parts(P, s \ {x}) = {}
    BY DEF Parts, Apart, FiniteParts
  <1>5. /\ Cardinality(P[x] \cup Parts(P, s \ {x})) =
              Cardinality(P[x]) + Cardinality(Parts(P, s \ {x})) - Cardinality(P[x] \cap Parts(P, s \ {x}))
        /\ Cardinality(P[x] \cap Parts(P, s \ {x})) = 0
    BY <1>2, <1>4, FS_Union, FS_EmptySet
  <1>6. Cardinality(P[x]) \in Nat /\ Cardinality(Parts(P, s \ {x})) \in Nat
    BY <1>2, FS_CardinalityType
  <1>7. QED
    BY <1>2, <1>3, <1>5, <1>6

\* The sizes of sets apart add up to the size of their union.
LEMMA SumOfParts ==
    ASSUME NEW S, IsFiniteSet(S), NEW P, FiniteParts(P, S), Apart(P),
           NEW F, F = [x \in S |-> Cardinality(P[x])]
    PROVE  SumFunction(F) = Cardinality(Parts(P, S))
  <1> DEFINE R(h) == [s \in SUBSET S |->
                        IF s = {} THEN 0
                        ELSE F[CHOOSE x \in s : TRUE] + h[s \ {CHOOSE x \in s : TRUE}]]
             c == CHOOSE h : h = R(h)
             W == [s \in SUBSET S |-> Cardinality(Parts(P, s))]
  <1>1. DOMAIN F = S
    OBVIOUS
  <1>2. SumFunction(F) = c[S]
    BY <1>1 DEF SumFunction, SumFunctionOnSet, FoldFunctionOnSet, MapThenFoldSet
  <1>3. ASSUME NEW s \in SUBSET S, s # {}, NEW x \in s
        PROVE  W[s] = F[x] + W[s \ {x}]
    BY PartsApart
  <1>4. ASSUME NEW s \in SUBSET S PROVE W[s] = R(W)[s]
    <2>1. CASE s = {}
      <3>1. Parts(P, {}) = {}
        BY DEF Parts
      <3>2. QED
        BY <2>1, <3>1, FS_EmptySet
    <2>2. CASE s # {}
      <3>1. (CHOOSE x \in s : TRUE) \in s
        BY <2>2
      <3> HIDE DEF W
      <3>2. QED
        BY <2>2, <3>1, <1>3
    <2>3. QED
      BY <2>1, <2>2
  <1>5. W = R(W)
    <2>1. W = [s \in SUBSET S |-> W[s]] /\ R(W) = [s \in SUBSET S |-> R(W)[s]]
      OBVIOUS
    <2> HIDE DEF W, R
    <2>2. QED
      BY <1>4, <2>1
  <1> HIDE DEF R
  <1>6. c = R(c)
    BY <1>5, Zenon
  <1> HIDE DEF c
  <1>7. \A s \in SUBSET S : c[s] = W[s]
    <2> DEFINE D == {s \in SUBSET S : c[s] # W[s]}
               C == {Cardinality(s) : s \in D}
    <2> SUFFICES ASSUME D # {} PROVE FALSE
      OBVIOUS
    <2>1. \A s \in SUBSET S : IsFiniteSet(s) /\ Cardinality(s) \in Nat
      BY FS_Subset, FS_CardinalityType
    <2>2. C \in SUBSET Nat /\ C # {}
      BY <2>1
    <2>3. PICK n \in C : \A m \in C : n <= m
      BY <2>2, LeastNumber
    <2>4. PICK s \in D : Cardinality(s) = n
      BY <2>3
    <2>5. c[s] # W[s] /\ s \in SUBSET S
      BY <2>4
    <2>6. c[s] = R(c)[s] /\ W[s] = R(W)[s]
      BY <1>5, <1>6, Zenon
    <2>7. CASE s = {}
      BY <2>5, <2>6, <2>7 DEF R
    <2>8. CASE s # {}
      <3> DEFINE x == CHOOSE x \in s : TRUE
      <3>1. x \in s
        BY <2>8
      <3>2. R(c)[s] = F[x] + c[s \ {x}] /\ R(W)[s] = F[x] + W[s \ {x}]
        BY <2>5, <2>8 DEF R
      <3> HIDE DEF x
      <3>3. Cardinality(s \ {x}) = Cardinality(s) - 1 /\ s \ {x} \in SUBSET S
        BY <2>1, <2>5, <3>1, FS_RemoveElement
      <3>4. Cardinality(s) \in Nat /\ Cardinality(s \ {x}) < n
        BY <2>1, <2>4, <2>5, <3>3
      <3>5. s \ {x} \notin D
        <4> HIDE DEF D
        <4>1. \A r \in D : n <= Cardinality(r)
          BY <2>3
        <4>2. Cardinality(s \ {x}) \in Nat /\ n \in Nat
          BY <2>1, <2>2, <2>3, <3>3
        <4>3. QED
          BY <3>4, <4>1, <4>2
      <3>6. c[s \ {x}] = W[s \ {x}]
        BY <3>3, <3>5
      <3>7. QED
        BY <2>5, <2>6, <3>2, <3>6
    <2>9. QED
      BY <2>7, <2>8
  <1>8. QED
    BY <1>2, <1>7

\* f[0] is a, and F[n] gives each value from the one before.
Recurs(f, a, F) == f[0] = a /\ \A n \in Nat : f[n + 1] = F[n][f[n]]

\* An equation that gives each value from the one before has a solution.
LEMMA Recursion ==
    ASSUME NEW S, NEW a \in S, NEW F \in [Nat -> [S -> S]]
    PROVE  \E f \in [Nat -> S] : Recurs(f, a, F)
  <1> DEFINE Good(n, g) == /\ g \in [0 .. n -> S] /\ g[0] = a
                           /\ \A m \in 0 .. n - 1 : g[m + 1] = F[m][g[m]]
  <1>1. \A n \in Nat : \E g : Good(n, g)
    <2> DEFINE D == {n \in Nat : ~ \E g : Good(n, g)}
    <2> HIDE DEF Good
    <2> SUFFICES ASSUME D # {} PROVE FALSE
      OBVIOUS
    <2>1. PICK n \in D : \A m \in D : n <= m
      BY LeastNumber
    <2>2. CASE n = 0
      <3> DEFINE g == [m \in 0 .. 0 |-> a]
      <3>1. g \in [0 .. 0 -> S] /\ g[0] = a /\ 0 .. (0 - 1) = {}
        OBVIOUS
      <3>2. Good(0, g)
        BY <3>1 DEF Good
      <3>3. QED
        BY <2>1, <2>2, <3>2
    <2>3. CASE n # 0
      <3>1. n \in Nat /\ n - 1 \in Nat /\ n - 1 < n
        BY <2>1, <2>3
      <3>2. PICK h : Good(n - 1, h)
        BY <2>1, <3>1
      <3> DEFINE g == [m \in 0 .. n |-> IF m = n THEN F[n - 1][h[n - 1]] ELSE h[m]]
      <3>3. h \in [0 .. n - 1 -> S] /\ h[0] = a /\ \A m \in 0 .. (n - 1) - 1 : h[m + 1] = F[m][h[m]]
        BY <3>2 DEF Good
      <3>4. h[n - 1] \in S
        BY <3>1, <3>3
      <3>5. F[n - 1][h[n - 1]] \in S
        BY <3>1, <3>4
      <3>6. g \in [0 .. n -> S]
        BY <3>1, <3>3, <3>5
      <3>7. g[0] = a
        BY <3>1, <3>3
      <3>8. ASSUME NEW m \in 0 .. n - 1 PROVE g[m + 1] = F[m][g[m]]
        <4>1. g[m] = h[m]
          BY <3>1
        <4>2. CASE m = n - 1
          BY <3>1, <4>1, <4>2
        <4>3. CASE m # n - 1
          <5>1. m \in 0 .. (n - 1) - 1 /\ m + 1 # n /\ m + 1 \in 0 .. n
            BY <3>1, <4>3
          <5>2. g[m + 1] = h[m + 1]
            BY <5>1
          <5>3. QED
            BY <3>3, <4>1, <5>1, <5>2
        <4>4. QED
          BY <4>2, <4>3
      <3>9. Good(n, g)
        BY <3>6, <3>7, <3>8 DEF Good
      <3>10. QED
        BY <2>1, <3>9
    <2>4. QED
      BY <2>2, <2>3
  <1>2. ASSUME NEW n \in Nat, NEW m \in Nat, NEW g, NEW h, Good(n, g), Good(m, h), n <= m
        PROVE  \A j \in 0 .. n : g[j] = h[j]
    <2> DEFINE D == {j \in 0 .. n : g[j] # h[j]}
    <2> SUFFICES ASSUME D # {} PROVE FALSE
      OBVIOUS
    <2>1. D \in SUBSET Nat
      OBVIOUS
    <2>2. PICK j \in D : \A i \in D : j <= i
      BY <2>1, LeastNumber
    <2>3. j # 0
      BY <1>2, <2>2
    <2>4. j - 1 \in 0 .. n - 1 /\ j - 1 \in 0 .. m - 1 /\ (j - 1) + 1 = j /\ j - 1 < j
      BY <1>2, <2>2, <2>3
    <2>5. j - 1 \notin D /\ j - 1 \in 0 .. n
      BY <2>2, <2>4
    <2>6. g[j - 1] = h[j - 1]
      BY <2>5
    <2>7. g[(j - 1) + 1] = F[j - 1][g[j - 1]] /\ h[(j - 1) + 1] = F[j - 1][h[j - 1]]
      BY <1>2, <2>4
    <2>8. QED
      BY <2>2, <2>4, <2>6, <2>7
  <1> DEFINE upto(n) == CHOOSE g : Good(n, g)
             f == [n \in Nat |-> upto(n)[n]]
  <1>3. \A n \in Nat : Good(n, upto(n))
    <2> HIDE DEF Good
    <2>1. QED
      BY <1>1
  <1> HIDE DEF upto
  <1>4. f \in [Nat -> S]
    BY <1>3
  <1>5. f[0] = a
    BY <1>3
  <1>6. ASSUME NEW n \in Nat PROVE f[n + 1] = F[n][f[n]]
    <2>1. n + 1 \in Nat /\ n <= n + 1 /\ n \in 0 .. n /\ n \in 0 .. (n + 1) - 1
      OBVIOUS
    <2>2. Good(n + 1, upto(n + 1)) /\ Good(n, upto(n))
      BY <1>3, <2>1
    <2>3. upto(n + 1)[n + 1] = F[n][upto(n + 1)[n]]
      BY <2>1, <2>2
    <2> HIDE DEF Good
    <2>4. upto(n)[n] = upto(n + 1)[n]
      BY <1>2, <2>1, <2>2
    <2>5. QED
      BY <2>1, <2>3, <2>4
  <1>7. Recurs(f, a, F)
    BY <1>5, <1>6 DEF Recurs
  <1>8. QED
    BY <1>4, <1>7

\* As many dots for each element of s as F says.
Row(F, x) == {x} \X (1 .. F[x])
Rows(F, S) == [x \in S |-> Row(F, x)]

\* The rows of s together.
Dots(F, s) == UNION {Row(F, x) : x \in s}

\* The rows of a function are apart, and each has as many elements as the
\* function has for it.
LEMMA RowsAre ==
    ASSUME NEW S, NEW F \in [S -> Nat]
    PROVE  /\ FiniteParts(Rows(F, S), S) /\ Apart(Rows(F, S))
           /\ \A s \in SUBSET S : Parts(Rows(F, S), s) = Dots(F, s)
           /\ \A x \in S : Cardinality(Row(F, x)) = F[x] /\ IsFiniteSet(Row(F, x))
  <1>1. ASSUME NEW x \in S PROVE Cardinality(Row(F, x)) = F[x] /\ IsFiniteSet(Row(F, x))
    <2>1. F[x] \in Nat
      OBVIOUS
    <2>2. 1 \in Int /\ F[x] \in Int
      BY <2>1
    <2>3. IsFiniteSet(1 .. F[x]) /\ Cardinality(1 .. F[x]) = IF 1 > F[x] THEN 0 ELSE F[x] - 1 + 1
      BY <2>2, FS_Interval
    <2>4. Cardinality(1 .. F[x]) = F[x]
      BY <2>1, <2>3
    <2>5. IsFiniteSet({x}) /\ Cardinality({x}) = 1
      BY FS_Singleton
    <2>6. IsFiniteSet(Row(F, x)) /\ Cardinality(Row(F, x)) = 1 * F[x]
      BY <2>3, <2>4, <2>5, FS_Product DEF Row
    <2>7. QED
      BY <2>1, <2>6
  <1>2. FiniteParts(Rows(F, S), S)
    BY <1>1 DEF FiniteParts, Rows
  <1>3. Apart(Rows(F, S))
    BY DEF Apart, Rows, Row
  <1>4. \A s \in SUBSET S : Parts(Rows(F, S), s) = Dots(F, s)
    BY DEF Parts, Rows, Dots
  <1>5. QED
    BY <1>1, <1>2, <1>3, <1>4

\* The sum of the values is the number of dots.
LEMMA SumIsDots ==
    ASSUME NEW S, IsFiniteSet(S), NEW F \in [S -> Nat]
    PROVE  /\ SumFunction(F) = Cardinality(Dots(F, S))
           /\ \A s \in SUBSET S : IsFiniteSet(Dots(F, s))
           /\ SumFunction(F) \in Nat
  <1>1. F = [x \in S |-> Cardinality(Rows(F, S)[x])]
    <2>1. \A x \in S : Rows(F, S)[x] = Row(F, x)
      BY DEF Rows
    <2>2. \A x \in S : F[x] = Cardinality(Rows(F, S)[x])
      BY <2>1, RowsAre
    <2>3. F = [x \in S |-> F[x]]
      OBVIOUS
    <2>4. QED
      BY <2>2, <2>3
  <1>2. FiniteParts(Rows(F, S), S) /\ Apart(Rows(F, S))
    BY RowsAre
  <1>3. SumFunction(F) = Cardinality(Parts(Rows(F, S), S))
    BY <1>1, <1>2, SumOfParts
  <1>4. \A s \in SUBSET S : Parts(Rows(F, S), s) = Dots(F, s) /\ IsFiniteSet(Parts(Rows(F, S), s))
    BY <1>2, PartsFinite, RowsAre
  <1>5. S \in SUBSET S
    OBVIOUS
  <1>6. IsFiniteSet(Dots(F, S))
    BY <1>4, <1>5
  <1>7. QED
    BY <1>3, <1>4, <1>5, <1>6, FS_CardinalityType

\* The sum over two sets apart is that of both sums.
LEMMA SumOfTwo ==
    ASSUME NEW S, IsFiniteSet(S), NEW F \in [S -> Nat], NEW T \in SUBSET S
    PROVE  SumFunction(F) = SumFunction([x \in T |-> F[x]]) + SumFunction([x \in S \ T |-> F[x]])
  <1> DEFINE G == [x \in T |-> F[x]]
             H == [x \in S \ T |-> F[x]]
  <1>1. G \in [T -> Nat] /\ H \in [S \ T -> Nat] /\ IsFiniteSet(T) /\ IsFiniteSet(S \ T)
    BY FS_Subset
  <1>2. Dots(G, T) = Dots(F, T) /\ Dots(H, S \ T) = Dots(F, S \ T)
    BY DEF Dots, Row
  <1> HIDE DEF G, H
  <1>3. SumFunction(G) = Cardinality(Dots(G, T)) /\ SumFunction(H) = Cardinality(Dots(H, S \ T))
    BY <1>1, SumIsDots
  <1>4. /\ SumFunction(F) = Cardinality(Dots(F, S)) /\ IsFiniteSet(Dots(F, T)) /\ IsFiniteSet(Dots(F, S \ T))
        /\ T \in SUBSET S /\ S \ T \in SUBSET S
    BY SumIsDots
  <1>5. Dots(F, S) = Dots(F, T) \cup Dots(F, S \ T)
    BY DEF Dots
  <1>6. Dots(F, T) \cap Dots(F, S \ T) = {}
    BY DEF Dots, Row
  <1>7. /\ Cardinality(Dots(F, T) \cup Dots(F, S \ T)) =
              Cardinality(Dots(F, T)) + Cardinality(Dots(F, S \ T)) - Cardinality(Dots(F, T) \cap Dots(F, S \ T))
        /\ Cardinality(Dots(F, T) \cap Dots(F, S \ T)) = 0
    BY <1>4, <1>6, FS_Union, FS_EmptySet
  <1>8. Cardinality(Dots(F, T)) \in Nat /\ Cardinality(Dots(F, S \ T)) \in Nat
    BY <1>4, FS_CardinalityType
  <1>9. SumFunction(F) = SumFunction(G) + SumFunction(H)
    BY <1>2, <1>3, <1>4, <1>5, <1>7, <1>8
  <1>10. QED
    BY <1>9 DEF G, H

\* A sum of one number is that number.
LEMMA SumOfOne ==
    ASSUME NEW F, NEW x, F[x] \in Nat
    PROVE  SumFunction([y \in {x} |-> F[y]]) = F[x]
  <1> DEFINE G == [y \in {x} |-> F[y]]
  <1>1. G \in [{x} -> Nat] /\ G[x] = F[x] /\ IsFiniteSet({x})
    BY FS_Singleton
  <1> HIDE DEF G
  <1>2. SumFunction(G) = Cardinality(Dots(G, {x}))
    BY <1>1, SumIsDots
  <1>3. Dots(G, {x}) = Row(G, x)
    BY DEF Dots
  <1>4. Cardinality(Row(G, x)) = G[x]
    BY <1>1, RowsAre
  <1>5. QED
    BY <1>1, <1>2, <1>3, <1>4 DEF G

\* No value is above m, or all values are m.
LEMMA SumAtMost ==
    ASSUME NEW S, IsFiniteSet(S), NEW F \in [S -> Nat], NEW m \in Nat
    PROVE  /\ (\A x \in S : F[x] <= m) => SumFunction(F) <= Cardinality(S) * m
           /\ (\A x \in S : F[x] = m) => SumFunction(F) = Cardinality(S) * m
  <1>1. SumFunction(F) = Cardinality(Dots(F, S))
    BY SumIsDots
  <1>2. IsFiniteSet(1 .. m) /\ Cardinality(1 .. m) = m
    <2>1. 1 \in Int /\ m \in Int
      OBVIOUS
    <2>2. IsFiniteSet(1 .. m) /\ Cardinality(1 .. m) = IF 1 > m THEN 0 ELSE m - 1 + 1
      BY <2>1, FS_Interval
    <2>3. QED
      BY <2>2
  <1>3. IsFiniteSet(S \X (1 .. m)) /\ Cardinality(S \X (1 .. m)) = Cardinality(S) * m
    BY <1>2, FS_Product
  <1>4. ASSUME \A x \in S : F[x] <= m PROVE SumFunction(F) <= Cardinality(S) * m
    <2>1. \A x \in S : Row(F, x) \subseteq S \X (1 .. m)
      BY <1>4 DEF Row
    <2>2. Dots(F, S) \in SUBSET (S \X (1 .. m))
      BY <2>1 DEF Dots
    <2>3. QED
      BY <1>1, <1>3, <2>2, FS_Subset
  <1>5. ASSUME \A x \in S : F[x] = m PROVE SumFunction(F) = Cardinality(S) * m
    <2>1. Dots(F, S) = S \X (1 .. m)
      BY <1>5 DEF Dots, Row
    <2>2. QED
      BY <1>1, <1>3, <2>1
  <1>6. QED
    BY <1>4, <1>5

-----------------------------------------------------------------------------
(* Balls.                                                                  *)

\* The graphs of the calls.
Networks == {q.friends : q \in Queries}

\* The friends of v in the graph E, for Near before a query is chosen.
Adjacent(E, v) == {u \in Vertices : {u, v} \in E}

\* One more edge in all directions.
Wider(E, b) == [v \in Vertices |-> b[v] \cup UNION {Adjacent(E, u) : u \in b[v]}]

\* The vertices are N numbers from 1 on.
LEMMA SomeVertices ==
    /\ N \in Nat /\ N # 0 /\ 1 \in Vertices
    /\ IsFiniteSet(Vertices) /\ Cardinality(Vertices) = N /\ Vertices \subseteq Nat
  <1>1. N \in Nat /\ N # 0 /\ 1 \in Int /\ N \in Int
    BY GraphAssumption
  <1>2. IsFiniteSet(1 .. N) /\ Cardinality(1 .. N) = IF 1 > N THEN 0 ELSE N - 1 + 1
    BY <1>1, FS_Interval
  <1>3. QED
    BY <1>1, <1>2 DEF Vertices

\* The table of balls is what its equation says.
LEMMA BallsAre ==
    ASSUME NEW E \in Networks
    PROVE  /\ Balls[E][0] = [v \in Vertices |-> {v}]
           /\ \A n \in 0 .. N - 1 : Balls[E][n + 1] = Wider(E, Balls[E][n])
           /\ \A n \in 0 .. N : Balls[E][n] \in [Vertices -> SUBSET Vertices]
  <1> DEFINE near == [v \in Vertices |-> {u \in Vertices : {u, v} \in E}]
             R(b) == [n \in 0 .. N |->
                        IF n = 0 THEN [v \in Vertices |-> {v}]
                        ELSE [v \in Vertices |-> b[n - 1][v] \cup UNION {near[u] : u \in b[n - 1][v]}]]
             c == CHOOSE b : b = R(b)
             S == [Vertices -> SUBSET Vertices]
             a == [v \in Vertices |-> {v}]
             F == [n \in Nat |-> [b \in S |-> Wider(E, b)]]
  <1>1. Balls[E] = [n \in 0 .. N |-> c[n]]
    BY DEF Balls, Networks
  <1>2. a \in S
    OBVIOUS
  <1>3. \A b \in S : Wider(E, b) \in S
    BY DEF Wider, Adjacent
  <1>4. F \in [Nat -> [S -> S]]
    BY <1>3
  <1>5. \A n \in Nat, b \in S : F[n][b] = Wider(E, b)
    OBVIOUS
  <1>6. PICK f \in [Nat -> S] : f[0] = a /\ \A n \in Nat : f[n + 1] = F[n][f[n]]
    <2> HIDE DEF F, S, a
    <2>1. QED
      BY <1>2, <1>4, Recursion DEF Recurs
  <1>7. \A n \in Nat : f[n] \in S /\ f[n + 1] = Wider(E, f[n])
    <2> HIDE DEF F, S
    <2>1. QED
      BY <1>5, <1>6
  <1>8. \A b \in S : Wider(E, b) = [v \in Vertices |-> b[v] \cup UNION {near[u] : u \in b[v]}]
    <2>1. \A u \in Vertices : Adjacent(E, u) = near[u]
      BY DEF Adjacent
    <2>2. \A b \in S, v \in Vertices :
             UNION {near[u] : u \in b[v]} = UNION {Adjacent(E, u) : u \in b[v]}
      <3> HIDE DEF near
      <3>1. \A T \in SUBSET Vertices : UNION {near[u] : u \in T} = UNION {Adjacent(E, u) : u \in T}
        BY <2>1
      <3>2. QED
        BY <3>1
    <2>3. QED
      BY <2>2 DEF Wider
  <1> DEFINE W == [n \in 0 .. N |-> f[n]]
  <1>9. \A n \in 0 .. N : n # 0 => n - 1 \in 0 .. N /\ n - 1 \in Nat /\ (n - 1) + 1 = n
    BY SomeVertices
  <1>10. W = R(W)
    <2>1. ASSUME NEW n \in 0 .. N PROVE W[n] = R(W)[n]
      <3>1. CASE n = 0
        BY <1>6, <3>1
      <3>2. CASE n # 0
        <4>1. W[n] = Wider(E, f[n - 1]) /\ W[n - 1] = f[n - 1] /\ f[n - 1] \in S
          BY <1>7, <1>9, <3>2
        <4> HIDE DEF W
        <4>2. R(W)[n] = [v \in Vertices |-> W[n - 1][v] \cup UNION {near[u] : u \in W[n - 1][v]}]
          BY <3>2
        <4> HIDE DEF R, S, near
        <4>3. QED
          BY <1>8, <4>1, <4>2
      <3>3. QED
        BY <3>1, <3>2
    <2>2. W = [n \in 0 .. N |-> W[n]] /\ R(W) = [n \in 0 .. N |-> R(W)[n]]
      OBVIOUS
    <2> HIDE DEF W, R
    <2>3. QED
      BY <2>1, <2>2
  <1> HIDE DEF R
  <1>11. c = R(c)
    BY <1>10, Zenon
  <1> HIDE DEF c
  <1>12. \A n \in 0 .. N : c[n] = W[n]
    <2> DEFINE D == {n \in 0 .. N : c[n] # W[n]}
    <2> SUFFICES ASSUME D # {} PROVE FALSE
      OBVIOUS
    <2>1. D \in SUBSET Nat
      BY SomeVertices
    <2>2. PICK n \in D : \A m \in D : n <= m
      BY <2>1, LeastNumber
    <2>3. n \in 0 .. N /\ c[n] # W[n]
      BY <2>2
    <2>4. R(c)[n] = R(W)[n]
      <3>1. CASE n = 0
        BY <2>3, <3>1 DEF R
      <3>2. CASE n # 0
        <4>1. n - 1 \in 0 .. N /\ n - 1 < n
          BY <2>3, <3>2, SomeVertices
        <4>2. n - 1 \notin D
          BY <2>2, <4>1
        <4>3. c[n - 1] = W[n - 1]
          BY <4>1, <4>2
        <4>4. QED
          BY <2>3, <3>2, <4>3 DEF R
      <3>3. QED
        BY <3>1, <3>2
    <2>5. c[n] = R(c)[n] /\ W[n] = R(W)[n]
      BY <1>10, <1>11, Zenon
    <2>6. QED
      BY <2>3, <2>4, <2>5
  <1>13. \A n \in 0 .. N : Balls[E][n] = f[n]
    BY <1>1, <1>12
  <1>14. 0 \in 0 .. N /\ \A n \in 0 .. N - 1 : n \in 0 .. N /\ n + 1 \in 0 .. N /\ n \in Nat
    BY SomeVertices
  <1>15. QED
    <2> HIDE DEF S
    <2>1. Balls[E][0] = a
      BY <1>6, <1>13, <1>14
    <2>2. \A n \in 0 .. N - 1 : Balls[E][n + 1] = Wider(E, Balls[E][n])
      BY <1>7, <1>13, <1>14
    <2>3. \A n \in 0 .. N : Balls[E][n] \in S
      BY <1>7, <1>13
    <2>4. QED
      BY <2>1, <2>2, <2>3 DEF S

\* The query is one of those enumerated.
Asked == query \in Queries

\* Friendships are between two.
LEMMA FriendsAre ==
    ASSUME Asked
    PROVE  /\ friends \in Networks /\ k \in Nat \ {0} /\ method \in Methods
           /\ \A v \in Vertices : Near(v) \subseteq Vertices \ {v}
           /\ \A u, v \in Vertices : u \in Near(v) <=> v \in Near(u)
           /\ \A v \in Vertices : Near(v) = Adjacent(friends, v)
  <1>1. friends \in Networks /\ k \in Nat \ {0} /\ method \in Methods
    BY GraphAssumption DEF Asked, Networks, friends, k, method
  <1>2. \A e \in friends : Cardinality(e) = 2
    BY GraphAssumption DEF Asked, friends
  <1>3. ASSUME NEW v \in Vertices PROVE v \notin Near(v)
    <2>1. {v, v} = {v} /\ Cardinality({v}) = 1
      BY FS_Singleton
    <2>2. QED
      BY <1>2, <2>1 DEF Near
  <1>4. \A u, v \in Vertices : {u, v} = {v, u}
    OBVIOUS
  <1>5. \A u, v \in Vertices : u \in Near(v) <=> v \in Near(u)
    BY <1>4 DEF Near
  <1>6. QED
    BY <1>1, <1>3, <1>5 DEF Near, Adjacent

\* Balls grow by one edge from level to level, up to level N.
LEMMA BallInit ==
    ASSUME Asked
    PROVE  /\ \A v \in Vertices : Ball(v, 0) = {v}
           /\ \A v \in Vertices, n \in Nat : Ball(v, n) \in SUBSET Vertices
           /\ \A v \in Vertices, n \in 0 .. N - 1, u \in Vertices :
                 u \in Ball(v, n + 1) <=> u \in Ball(v, n) \/ \E x \in Ball(v, n) : u \in Near(x)
           /\ \A v \in Vertices, n \in Nat : n >= N => Ball(v, n) = Ball(v, N)
  <1>1. friends \in Networks
    BY FriendsAre
  <1> DEFINE B == Balls[friends]
  <1>2. /\ B[0] = [v \in Vertices |-> {v}]
        /\ \A n \in 0 .. N - 1 : B[n + 1] = Wider(friends, B[n])
        /\ \A n \in 0 .. N : B[n] \in [Vertices -> SUBSET Vertices]
    BY <1>1, BallsAre
  <1> HIDE DEF B
  <1>3. /\ UpTo(0) = 0 /\ \A n \in Nat : UpTo(n) \in 0 .. N
        /\ \A n \in 0 .. N - 1 : UpTo(n) = n /\ UpTo(n + 1) = n + 1
        /\ \A n \in Nat : n >= N => UpTo(n) = UpTo(N)
    BY SomeVertices DEF UpTo
  <1>4. \A v, n : Ball(v, n) = B[UpTo(n)][v]
    BY DEF Ball, B
  <1>5. \A v \in Vertices : Ball(v, 0) = {v}
    BY <1>2, <1>3, <1>4
  <1>6. \A v \in Vertices, n \in Nat : Ball(v, n) \in SUBSET Vertices
    BY <1>2, <1>3, <1>4
  <1>7. ASSUME NEW v \in Vertices, NEW n \in 0 .. N - 1, NEW u \in Vertices
        PROVE  u \in Ball(v, n + 1) <=> u \in Ball(v, n) \/ \E x \in Ball(v, n) : u \in Near(x)
    <2>1. Ball(v, n) = B[n][v] /\ Ball(v, n + 1) = Wider(friends, B[n])[v]
      BY <1>2, <1>3, <1>4
    <2>2. n \in 0 .. N
      BY SomeVertices
    <2>3. Ball(v, n + 1) = Ball(v, n) \cup UNION {Adjacent(friends, x) : x \in Ball(v, n)}
      BY <2>1 DEF Wider
    <2>4. \A x \in Ball(v, n) : Adjacent(friends, x) = Near(x)
      BY <1>6, <2>2, FriendsAre
    <2>5. QED
      BY <2>3, <2>4
  <1>8. \A v \in Vertices, n \in Nat : n >= N => Ball(v, n) = Ball(v, N)
    BY <1>3, <1>4
  <1>9. QED
    BY <1>5, <1>6, <1>7, <1>8

\* Each ball is in the next one.
LEMMA BallStep ==
    ASSUME Asked, NEW v \in Vertices, NEW n \in Nat
    PROVE  Ball(v, n) \subseteq Ball(v, n + 1) /\ Ball(v, n) \in SUBSET Vertices /\ IsFiniteSet(Ball(v, n))
  <1>1. Ball(v, n) \in SUBSET Vertices /\ IsFiniteSet(Ball(v, n)) /\ Ball(v, n + 1) \in SUBSET Vertices
    BY BallInit, SomeVertices, FS_Subset
  <1>2. CASE n < N
    <2>1. n \in 0 .. N - 1
      BY <1>2, SomeVertices
    <2>2. QED
      BY <1>1, <2>1, BallInit
  <1>3. CASE n >= N
    <2>1. n + 1 >= N /\ n + 1 \in Nat
      BY <1>3, SomeVertices
    <2>2. Ball(v, n) = Ball(v, N) /\ Ball(v, n + 1) = Ball(v, N)
      BY <1>3, <2>1, BallInit
    <2>3. QED
      BY <1>1, <2>2
  <1>4. QED
    BY <1>2, <1>3, SomeVertices

\* A ball that does not grow never will.
LEMMA BallStays ==
    ASSUME Asked, NEW v \in Vertices, NEW n \in 0 .. N - 1, Ball(v, n + 1) = Ball(v, n)
    PROVE  Ball(v, N) = Ball(v, n)
  <1> DEFINE D == {m \in Nat : n <= m /\ m <= N /\ Ball(v, m) # Ball(v, n)}
  <1>1. n \in Nat /\ n <= N
    BY SomeVertices
  <1>2. SUFFICES ASSUME D # {} PROVE FALSE
    BY <1>1, SomeVertices
  <1>3. PICK m \in D : \A l \in D : m <= l
    BY <1>2, LeastNumber
  <1>4. m # n /\ m \in Nat /\ n <= m /\ m <= N /\ Ball(v, m) # Ball(v, n)
    BY <1>3
  <1>5. m - 1 \in Nat /\ n <= m - 1 /\ m - 1 <= N /\ m - 1 \in 0 .. N - 1 /\ (m - 1) + 1 = m /\ ~ (m <= m - 1)
    BY <1>1, <1>4, SomeVertices
  <1>6. m - 1 \notin D
    BY <1>3, <1>5
  <1>7. Ball(v, m - 1) = Ball(v, n)
    BY <1>5, <1>6
  <1> HIDE DEF D
  <1>8. \A u \in Vertices : u \in Ball(v, m) <=> u \in Ball(v, n) \/ \E x \in Ball(v, n) : u \in Near(x)
    <2>1. \A u \in Vertices : u \in Ball(v, (m - 1) + 1) <=>
                                 u \in Ball(v, m - 1) \/ \E x \in Ball(v, m - 1) : u \in Near(x)
      BY <1>5, BallInit
    <2>2. QED
      BY <1>5, <1>7, <2>1
  <1>9. \A u \in Vertices : u \in Ball(v, n + 1) <=> u \in Ball(v, n) \/ \E x \in Ball(v, n) : u \in Near(x)
    BY BallInit
  <1>10. Ball(v, m) \in SUBSET Vertices /\ Ball(v, n) \in SUBSET Vertices
    BY <1>1, <1>4, BallInit
  <1>11. Ball(v, m) = Ball(v, n)
    BY <1>8, <1>9, <1>10
  <1>12. QED
    BY <1>4, <1>11

\* A ball that still grows after n edges has more than n vertices.
LEMMA BallSize ==
    ASSUME Asked, NEW v \in Vertices, NEW n \in 0 .. N, Ball(v, n) # Ball(v, N)
    PROVE  Cardinality(Ball(v, n)) > n
  <1> DEFINE D == {m \in Nat : m <= n /\ ~ (Cardinality(Ball(v, m)) > m)}
  <1>1. n \in Nat /\ n <= N /\ n # N
    BY SomeVertices
  <1>2. SUFFICES ASSUME D # {} PROVE FALSE
    BY <1>1
  <1>3. PICK m \in D : \A l \in D : m <= l
    BY <1>2, LeastNumber
  <1>4. m \in Nat /\ m <= n /\ ~ (Cardinality(Ball(v, m)) > m)
    BY <1>3
  <1>5. m # 0
    <2>1. Ball(v, 0) = {v} /\ Cardinality({v}) = 1
      BY BallInit, FS_Singleton
    <2>2. QED
      BY <1>4, <2>1
  <1>6. m - 1 \in Nat /\ m - 1 <= n /\ m - 1 \in 0 .. N - 1 /\ (m - 1) + 1 = m /\ ~ (m <= m - 1)
    BY <1>1, <1>4, <1>5, SomeVertices
  <1>7. m - 1 \notin D
    BY <1>3, <1>6
  <1>8. Cardinality(Ball(v, m - 1)) > m - 1
    BY <1>6, <1>7
  <1> HIDE DEF D
  <1>9. Ball(v, m) # Ball(v, m - 1)
    <2>1. SUFFICES ASSUME Ball(v, m) = Ball(v, m - 1) PROVE FALSE
      OBVIOUS
    <2>2. Ball(v, N) = Ball(v, m - 1)
      BY <1>6, <2>1, BallStays
    <2>3. Ball(v, n) = Ball(v, N)
      <3> DEFINE C == {l \in Nat : m - 1 <= l /\ l <= n /\ Ball(v, l) # Ball(v, m - 1)}
      <3>1. SUFFICES ASSUME C # {} PROVE FALSE
        BY <1>1, <1>6, <2>2
      <3>2. PICK l \in C : \A j \in C : l <= j
        BY <3>1, LeastNumber
      <3>3. l \in Nat /\ m - 1 <= l /\ l <= n /\ Ball(v, l) # Ball(v, m - 1) /\ l # m - 1
        BY <3>2
      <3>4. l - 1 \in Nat /\ m - 1 <= l - 1 /\ l - 1 <= n /\ l - 1 \in 0 .. N - 1 /\ (l - 1) + 1 = l /\ ~ (l <= l - 1)
        BY <1>1, <1>6, <3>3, SomeVertices
      <3>5. l - 1 \notin C
        BY <3>2, <3>4
      <3>6. Ball(v, l - 1) = Ball(v, m - 1)
        BY <3>4, <3>5
      <3> HIDE DEF C
      <3>7. /\ \A u \in Vertices : u \in Ball(v, (l - 1) + 1) <=>
                                      u \in Ball(v, l - 1) \/ \E x \in Ball(v, l - 1) : u \in Near(x)
            /\ \A u \in Vertices : u \in Ball(v, (m - 1) + 1) <=>
                                      u \in Ball(v, m - 1) \/ \E x \in Ball(v, m - 1) : u \in Near(x)
        BY <1>6, <3>4, BallInit
      <3>8. Ball(v, l) \in SUBSET Vertices /\ Ball(v, m) \in SUBSET Vertices
        BY <1>4, <3>3, BallInit
      <3>9. Ball(v, l) = Ball(v, m)
        BY <1>6, <3>4, <3>6, <3>7, <3>8
      <3>10. QED
        BY <2>1, <3>3, <3>9
    <2>4. QED
      BY <2>3
  <1>10. Ball(v, m - 1) \subseteq Ball(v, m) /\ IsFiniteSet(Ball(v, m))
    <2>1. Ball(v, m - 1) \subseteq Ball(v, (m - 1) + 1)
      BY <1>6, BallStep
    <2>2. QED
      BY <1>4, <1>6, <2>1, BallStep
  <1>11. Cardinality(Ball(v, m - 1)) < Cardinality(Ball(v, m))
    <2>1. IsFiniteSet(Ball(v, m - 1)) /\ Cardinality(Ball(v, m - 1)) <= Cardinality(Ball(v, m))
      BY <1>10, FS_Subset
    <2>2. Cardinality(Ball(v, m - 1)) # Cardinality(Ball(v, m))
      BY <1>9, <1>10, FS_Subset
    <2>3. Cardinality(Ball(v, m - 1)) \in Nat /\ Cardinality(Ball(v, m)) \in Nat
      BY <1>10, <2>1, FS_CardinalityType
    <2>4. QED
      BY <2>1, <2>2, <2>3
  <1>12. Cardinality(Ball(v, m - 1)) \in Nat /\ Cardinality(Ball(v, m)) \in Nat
    BY <1>4, <1>6, BallStep, FS_CardinalityType
  <1>13. QED
    BY <1>4, <1>6, <1>8, <1>11, <1>12

\* After N edges nothing more is found.
LEMMA BallEnds ==
    ASSUME Asked, NEW v \in Vertices
    PROVE  \A x \in Ball(v, N), u \in Vertices : u \in Near(x) => u \in Ball(v, N)
  <1>1. N - 1 \in 0 .. N - 1 /\ (N - 1) + 1 = N /\ N - 1 \in Nat
    BY SomeVertices
  <1>2. \E n \in 0 .. N - 1 : Ball(v, n + 1) = Ball(v, n)
    <2>1. CASE Ball(v, N - 1) = Ball(v, N)
      BY <1>1, <2>1
    <2>2. CASE Ball(v, N - 1) # Ball(v, N)
      <3>1. Cardinality(Ball(v, N - 1)) > N - 1
        BY <1>1, <2>2, BallSize
      <3>2. Ball(v, N - 1) \subseteq Ball(v, N) /\ Ball(v, N) \in SUBSET Vertices
        BY <1>1, BallStep, BallInit, SomeVertices
      <3>3. /\ IsFiniteSet(Ball(v, N)) /\ IsFiniteSet(Ball(v, N - 1))
            /\ Cardinality(Ball(v, N)) <= N /\ Cardinality(Ball(v, N - 1)) <= Cardinality(Ball(v, N))
        BY <3>2, SomeVertices, FS_Subset
      <3>4. Cardinality(Ball(v, N - 1)) \in Nat /\ Cardinality(Ball(v, N)) \in Nat
        BY <3>3, FS_CardinalityType
      <3>5. Cardinality(Ball(v, N - 1)) = Cardinality(Ball(v, N))
        BY <3>1, <3>3, <3>4, SomeVertices
      <3>6. QED
        BY <2>2, <3>2, <3>3, <3>5, FS_Subset
    <2>3. QED
      BY <2>1, <2>2
  <1>3. PICK n \in 0 .. N - 1 : Ball(v, n + 1) = Ball(v, n)
    BY <1>2
  <1>4. Ball(v, N) = Ball(v, n)
    BY <1>3, BallStays
  <1>5. \A u \in Vertices : u \in Ball(v, n + 1) <=> u \in Ball(v, n) \/ \E x \in Ball(v, n) : u \in Near(x)
    BY <1>3, BallInit
  <1>6. QED
    BY <1>3, <1>4, <1>5

\* One more edge, from any ball.
LEMMA BallNext ==
    ASSUME Asked, NEW v \in Vertices, NEW n \in Nat, NEW u \in Vertices
    PROVE  u \in Ball(v, n + 1) <=> u \in Ball(v, n) \/ \E x \in Ball(v, n) : u \in Near(x)
  <1>1. CASE n < N
    <2>1. n \in 0 .. N - 1
      BY <1>1, SomeVertices
    <2>2. QED
      BY <2>1, BallInit
  <1>2. CASE n >= N
    <2>1. n + 1 >= N /\ n + 1 \in Nat
      BY <1>2, SomeVertices
    <2>2. Ball(v, n) = Ball(v, N) /\ Ball(v, n + 1) = Ball(v, N)
      BY <1>2, <2>1, BallInit
    <2>3. QED
      BY <2>2, BallEnds
  <1>3. QED
    BY <1>1, <1>2, SomeVertices

\* A larger radius gives a larger ball, N the largest.
LEMMA BallGrows ==
    ASSUME Asked, NEW v \in Vertices, NEW m \in Nat, NEW n \in Nat
    PROVE  /\ m <= n => Ball(v, m) \subseteq Ball(v, n)
           /\ Ball(v, n) \subseteq Ball(v, N)
           /\ v \in Ball(v, n)
  <1>1. \A l \in Nat, j \in Nat : l <= j => Ball(v, l) \subseteq Ball(v, j)
    <2> SUFFICES ASSUME NEW l \in Nat PROVE \A j \in Nat : l <= j => Ball(v, l) \subseteq Ball(v, j)
      OBVIOUS
    <2> DEFINE D == {j \in Nat : l <= j /\ ~ (Ball(v, l) \subseteq Ball(v, j))}
    <2>1. SUFFICES ASSUME D # {} PROVE FALSE
      OBVIOUS
    <2>2. PICK j \in D : \A i \in D : j <= i
      BY <2>1, LeastNumber
    <2>3. j \in Nat /\ l <= j /\ ~ (Ball(v, l) \subseteq Ball(v, j)) /\ j # l
      BY <2>2
    <2>4. j - 1 \in Nat /\ l <= j - 1 /\ (j - 1) + 1 = j /\ ~ (j <= j - 1)
      BY <2>3
    <2>5. j - 1 \notin D
      BY <2>2, <2>4
    <2>6. Ball(v, l) \subseteq Ball(v, j - 1)
      BY <2>4, <2>5
    <2>7. Ball(v, j - 1) \subseteq Ball(v, (j - 1) + 1)
      BY <2>4, BallStep
    <2>8. QED
      BY <2>3, <2>4, <2>6, <2>7
  <1>2. n <= N \/ n >= N
    BY SomeVertices
  <1>3. Ball(v, n) \subseteq Ball(v, N)
    BY <1>1, <1>2, BallInit, SomeVertices
  <1>4. v \in Ball(v, 0) /\ 0 <= n
    BY BallInit
  <1>5. QED
    BY <1>1, <1>3, <1>4

\* Two legs of a way.
LEMMA BallsMeet ==
    ASSUME Asked, NEW v \in Vertices, NEW u \in Vertices, NEW a \in Nat, u \in Ball(v, a)
    PROVE  \A b \in Nat, w \in Vertices : w \in Ball(u, b) => w \in Ball(v, a + b)
  <1> DEFINE D == {b \in Nat : \E w \in Vertices : w \in Ball(u, b) /\ w \notin Ball(v, a + b)}
  <1>1. SUFFICES ASSUME D # {} PROVE FALSE
    OBVIOUS
  <1>2. PICK b \in D : \A i \in D : b <= i
    BY <1>1, LeastNumber
  <1>3. PICK w \in Vertices : b \in Nat /\ w \in Ball(u, b) /\ w \notin Ball(v, a + b)
    BY <1>2
  <1>4. b # 0
    BY <1>3, BallInit
  <1>5. b - 1 \in Nat /\ ~ (b <= b - 1) /\ (b - 1) + 1 = b /\ a + (b - 1) \in Nat /\ (a + (b - 1)) + 1 = a + b
    BY <1>3, <1>4
  <1>6. b - 1 \notin D
    BY <1>2, <1>5
  <1>7. \A x \in Vertices : x \in Ball(u, b - 1) => x \in Ball(v, a + (b - 1))
    BY <1>5, <1>6
  <1> HIDE DEF D
  <1>8. w \in Ball(u, (b - 1) + 1) <=> w \in Ball(u, b - 1) \/ \E x \in Ball(u, b - 1) : w \in Near(x)
    BY <1>5, BallNext
  <1>9. w \in Ball(v, (a + (b - 1)) + 1) <=>
           w \in Ball(v, a + (b - 1)) \/ \E x \in Ball(v, a + (b - 1)) : w \in Near(x)
    BY <1>5, BallNext
  <1>10. Ball(u, b - 1) \in SUBSET Vertices
    BY <1>5, BallInit
  <1>11. QED
    BY <1>3, <1>5, <1>7, <1>8, <1>9, <1>10

\* Distances are the same both ways.
LEMMA BallsBack ==
    ASSUME Asked
    PROVE  \A n \in Nat, u, v \in Vertices : u \in Ball(v, n) => v \in Ball(u, n)
  <1> DEFINE D == {n \in Nat : \E u, v \in Vertices : u \in Ball(v, n) /\ v \notin Ball(u, n)}
  <1>1. SUFFICES ASSUME D # {} PROVE FALSE
    OBVIOUS
  <1>2. PICK n \in D : \A i \in D : n <= i
    BY <1>1, LeastNumber
  <1>3. PICK u \in Vertices, v \in Vertices : n \in Nat /\ u \in Ball(v, n) /\ v \notin Ball(u, n)
    BY <1>2
  <1>4. n # 0
    BY <1>3, BallInit
  <1>5. n - 1 \in Nat /\ ~ (n <= n - 1) /\ (n - 1) + 1 = n /\ 1 + (n - 1) = n /\ n - 1 <= n
    BY <1>3, <1>4
  <1>6. n - 1 \notin D
    BY <1>2, <1>5
  <1>7. \A x, y \in Vertices : x \in Ball(y, n - 1) => y \in Ball(x, n - 1)
    BY <1>5, <1>6
  <1> HIDE DEF D
  <1>8. u \in Ball(v, n - 1) \/ \E x \in Ball(v, n - 1) : u \in Near(x)
    <2>1. u \in Ball(v, (n - 1) + 1) <=> u \in Ball(v, n - 1) \/ \E x \in Ball(v, n - 1) : u \in Near(x)
      BY <1>5, BallNext
    <2>2. QED
      BY <1>3, <1>5, <2>1
  <1>9. CASE u \in Ball(v, n - 1)
    <2>1. v \in Ball(u, n - 1) /\ Ball(u, n - 1) \subseteq Ball(u, n)
      BY <1>3, <1>5, <1>7, <1>9, BallGrows
    <2>2. QED
      BY <1>3, <2>1
  <1>10. CASE \E x \in Ball(v, n - 1) : u \in Near(x)
    <2>1. PICK x \in Ball(v, n - 1) : u \in Near(x)
      BY <1>10
    <2>2. x \in Vertices /\ v \in Ball(x, n - 1)
      BY <1>5, <1>7, BallInit
    <2>3. x \in Near(u)
      BY <2>1, <2>2, FriendsAre
    <2>4. x \in Ball(u, 1)
      <3>1. u \in Ball(u, 0) /\ 0 \in Nat /\ 0 + 1 = 1
        BY BallInit
      <3>2. x \in Ball(u, 0 + 1)
        BY <2>2, <2>3, <3>1, BallNext
      <3>3. QED
        BY <3>1, <3>2
    <2>5. v \in Ball(u, 1 + (n - 1))
      BY <1>5, <2>2, <2>4, BallsMeet
    <2>6. QED
      BY <1>3, <1>5, <2>5
  <1>11. QED
    BY <1>8, <1>9, <1>10

\* The first edge of a way may be taken first.
LEMMA BallFirst ==
    ASSUME Asked, NEW v \in Vertices, NEW n \in Nat, NEW u \in Vertices
    PROVE  u \in Ball(v, n + 1) <=> u \in Ball(v, n) \/ \E x \in Near(v) : u \in Ball(x, n)
  <1>1. v \in Ball(u, n + 1) <=> v \in Ball(u, n) \/ \E x \in Ball(u, n) : v \in Near(x)
    BY BallNext
  <1>2. Ball(u, n) \in SUBSET Vertices /\ Near(v) \subseteq Vertices
    BY BallInit, FriendsAre
  <1>3. \A x \in Vertices : (v \in Near(x) <=> x \in Near(v)) /\ (x \in Ball(u, n) <=> u \in Ball(x, n))
    BY FriendsAre, BallsBack
  <1>4. (u \in Ball(v, n + 1) <=> v \in Ball(u, n + 1)) /\ (u \in Ball(v, n) <=> v \in Ball(u, n))
    BY BallsBack
  <1>5. QED
    BY <1>1, <1>2, <1>3, <1>4

\* A component is the same for all its vertices.
LEMMA SameComponent ==
    ASSUME Asked, NEW v \in Vertices, NEW u \in Ball(v, N)
    PROVE  u \in Vertices /\ Ball(u, N) = Ball(v, N)
  <1>1. u \in Vertices /\ v \in Ball(u, N) /\ N \in Nat /\ N + N \in Nat /\ N + N >= N
    <2>1. N \in Nat /\ N + N \in Nat /\ N + N >= N
      BY SomeVertices
    <2>2. u \in Vertices
      BY <2>1, BallInit
    <2>3. QED
      BY <2>1, <2>2, BallsBack
  <1>2. Ball(v, N + N) = Ball(v, N) /\ Ball(u, N + N) = Ball(u, N)
    BY <1>1, BallInit
  <1>3. \A w \in Vertices : (w \in Ball(u, N) => w \in Ball(v, N + N)) /\ (w \in Ball(v, N) => w \in Ball(u, N + N))
    BY <1>1, BallsMeet
  <1>4. Ball(u, N) \in SUBSET Vertices /\ Ball(v, N) \in SUBSET Vertices
    BY <1>1, BallInit
  <1>5. QED
    BY <1>1, <1>2, <1>3, <1>4

-----------------------------------------------------------------------------
(* Sums of distances.                                                      *)

\* The vertices of the table of balls that are n edges away.
RingOf(E, n, v) == Balls[E][n][v] \ Balls[E][n - 1][v]

\* The table of sums is what its equation says.
LEMMA SumsAre ==
    ASSUME NEW E \in Networks
    PROVE  /\ Sums[E][0] = [v \in Vertices |-> 0]
           /\ \A n \in 0 .. N - 1, v \in Vertices :
                 Sums[E][n + 1][v] = Sums[E][n][v] + (n + 1) * Cardinality(RingOf(E, n + 1, v))
           /\ \A n \in 0 .. N, v \in Vertices : Sums[E][n][v] \in Nat
  <1> DEFINE R(b) == [n \in 0 .. N |->
                        IF n = 0 THEN [v \in Vertices |-> 0]
                        ELSE [v \in Vertices |->
                                b[n - 1][v] + n * Cardinality(Balls[E][n][v] \ Balls[E][n - 1][v])]]
             c == CHOOSE b : b = R(b)
             S == [Vertices -> Nat]
             a == [v \in Vertices |-> 0]
             size(n, v) == IF n \in 1 .. N THEN Cardinality(RingOf(E, n, v)) ELSE 0
             F == [n \in Nat |-> [b \in S |-> [v \in Vertices |-> b[v] + (n + 1) * size(n + 1, v)]]]
  <1>1. Sums[E] = [n \in 0 .. N |-> c[n]]
    <2>1. E \in DOMAIN Balls
      BY DEF Balls, Networks
    <2>2. QED
      BY <2>1 DEF Sums
  <1>2. a \in S
    OBVIOUS
  <1>3. \A n \in Nat, v \in Vertices : size(n, v) \in Nat
    <2>1. ASSUME NEW n \in 1 .. N, NEW v \in Vertices PROVE Cardinality(RingOf(E, n, v)) \in Nat
      <3>1. n \in 0 .. N
        BY SomeVertices
      <3>2. RingOf(E, n, v) \in SUBSET Vertices
        <4>1. Balls[E][n] \in [Vertices -> SUBSET Vertices]
          BY <3>1, BallsAre
        <4>2. Balls[E][n][v] \in SUBSET Vertices
          BY <4>1
        <4>3. QED
          BY <4>2 DEF RingOf
      <3>3. QED
        BY <3>2, SomeVertices, FS_Subset, FS_CardinalityType
    <2>2. QED
      BY <2>1
  <1> HIDE DEF size
  <1>4. ASSUME NEW n \in Nat, NEW b \in S
        PROVE  [v \in Vertices |-> b[v] + (n + 1) * size(n + 1, v)] \in S
    <2>1. ASSUME NEW v \in Vertices PROVE b[v] + (n + 1) * size(n + 1, v) \in Nat
      <3>1. b[v] \in Nat /\ n + 1 \in Nat /\ size(n + 1, v) \in Nat
        BY <1>3
      <3>2. \A x, y, z \in Nat : x + y * z \in Nat
        OBVIOUS
      <3>3. QED
        BY <3>1, <3>2
    <2>2. QED
      BY <2>1
  <1>5. F \in [Nat -> [S -> S]]
    BY <1>4
  <1>6. \A n \in Nat, b \in S : F[n][b] = [v \in Vertices |-> b[v] + (n + 1) * size(n + 1, v)]
    OBVIOUS
  <1>7. PICK f \in [Nat -> S] : f[0] = a /\ \A n \in Nat : f[n + 1] = F[n][f[n]]
    <2> HIDE DEF F, S, a
    <2>1. QED
      BY <1>2, <1>5, Recursion DEF Recurs
  <1>8. \A n \in Nat : f[n] \in S /\ f[n + 1] = [v \in Vertices |-> f[n][v] + (n + 1) * size(n + 1, v)]
    <2> HIDE DEF F, S
    <2>1. QED
      BY <1>6, <1>7
  <1> DEFINE W == [n \in 0 .. N |-> f[n]]
  <1>9. \A n \in 0 .. N : n # 0 => n - 1 \in 0 .. N /\ n - 1 \in Nat /\ (n - 1) + 1 = n /\ n \in 1 .. N
    BY SomeVertices
  <1>10. W = R(W)
    <2>1. ASSUME NEW n \in 0 .. N PROVE W[n] = R(W)[n]
      <3>1. CASE n = 0
        BY <1>7, <3>1
      <3>2. CASE n # 0
        <4>1. W[n - 1] = f[n - 1] /\ W[n] = f[n]
          BY <1>9, <3>2
        <4>2. W[n] = [v \in Vertices |-> W[n - 1][v] + n * size(n, v)]
          <5>1. f[(n - 1) + 1] = [v \in Vertices |-> f[n - 1][v] + ((n - 1) + 1) * size((n - 1) + 1, v)]
            BY <1>8, <1>9, <3>2
          <5> HIDE DEF W
          <5>2. QED
            BY <1>9, <3>2, <4>1, <5>1
        <4> HIDE DEF W
        <4>3. \A v \in Vertices : size(n, v) = Cardinality(Balls[E][n][v] \ Balls[E][n - 1][v])
          BY <1>9, <3>2 DEF size, RingOf
        <4>4. R(W)[n] = [v \in Vertices |-> W[n - 1][v] + n * Cardinality(Balls[E][n][v] \ Balls[E][n - 1][v])]
          BY <3>2
        <4> HIDE DEF R
        <4>5. QED
          BY <4>2, <4>3, <4>4
      <3>3. QED
        BY <3>1, <3>2
    <2>2. W = [n \in 0 .. N |-> W[n]] /\ R(W) = [n \in 0 .. N |-> R(W)[n]]
      OBVIOUS
    <2> HIDE DEF W, R
    <2>3. QED
      BY <2>1, <2>2
  <1> HIDE DEF R
  <1>11. c = R(c)
    BY <1>10, Zenon
  <1> HIDE DEF c
  <1>12. \A n \in 0 .. N : c[n] = W[n]
    <2> DEFINE D == {n \in 0 .. N : c[n] # W[n]}
    <2> SUFFICES ASSUME D # {} PROVE FALSE
      OBVIOUS
    <2>1. D \in SUBSET Nat
      BY SomeVertices
    <2>2. PICK n \in D : \A m \in D : n <= m
      BY <2>1, LeastNumber
    <2>3. n \in 0 .. N /\ c[n] # W[n]
      BY <2>2
    <2>4. R(c)[n] = R(W)[n]
      <3>1. CASE n = 0
        BY <2>3, <3>1 DEF R
      <3>2. CASE n # 0
        <4>1. n - 1 \in 0 .. N /\ n - 1 < n
          BY <2>3, <3>2, SomeVertices
        <4>2. n - 1 \notin D
          BY <2>2, <4>1
        <4>3. c[n - 1] = W[n - 1]
          BY <4>1, <4>2
        <4>4. QED
          BY <2>3, <3>2, <4>3 DEF R
      <3>3. QED
        BY <3>1, <3>2
    <2>5. c[n] = R(c)[n] /\ W[n] = R(W)[n]
      BY <1>10, <1>11, Zenon
    <2>6. QED
      BY <2>3, <2>4, <2>5
  <1>13. \A n \in 0 .. N : Sums[E][n] = f[n]
    BY <1>1, <1>12
  <1>14. 0 \in 0 .. N /\ \A n \in 0 .. N - 1 : n \in 0 .. N /\ n + 1 \in 0 .. N /\ n \in Nat /\ n + 1 \in 1 .. N
    BY SomeVertices
  <1>15. Sums[E][0] = a
    BY <1>7, <1>13, <1>14
  <1>16. ASSUME NEW n \in 0 .. N - 1, NEW v \in Vertices
         PROVE  Sums[E][n + 1][v] = Sums[E][n][v] + (n + 1) * Cardinality(RingOf(E, n + 1, v))
    <2>1. Sums[E][n + 1][v] = f[n][v] + (n + 1) * size(n + 1, v)
      <3>1. Sums[E][n + 1] = f[n + 1] /\ n \in Nat
        BY <1>13, <1>14
      <3>2. f[n + 1] = [u \in Vertices |-> f[n][u] + (n + 1) * size(n + 1, u)]
        BY <1>8, <3>1
      <3>3. QED
        BY <3>1, <3>2
    <2>2. size(n + 1, v) = Cardinality(RingOf(E, n + 1, v))
      BY <1>14 DEF size
    <2>3. QED
      BY <1>13, <1>14, <2>1, <2>2
  <1>17. \A n \in 0 .. N, v \in Vertices : Sums[E][n][v] \in Nat
    <2>1. \A n \in 0 .. N : f[n] \in [Vertices -> Nat] /\ n \in Nat
      BY <1>8, SomeVertices
    <2>2. QED
      BY <1>13, <2>1
  <1>18. QED
    BY <1>15, <1>16, <1>17

\* How many vertices are within n edges, and how many are n edges away.
LEMMA RingSize ==
    ASSUME Asked, NEW v \in Vertices, NEW n \in Nat
    PROVE  /\ Cardinality(Ball(v, n)) \in Nat
           /\ Cardinality(Ring(v, n + 1)) \in Nat
           /\ Cardinality(Ball(v, n + 1)) = Cardinality(Ball(v, n)) + Cardinality(Ring(v, n + 1))
           /\ Cardinality(Ball(v, n)) <= Cardinality(Ball(v, N))
           /\ Cardinality(Ball(v, 0)) = 1
           /\ Ring(v, n + 1) = Ball(v, n + 1) \ Ball(v, n)
  <1>1. Ring(v, n + 1) = Ball(v, n + 1) \ Ball(v, n)
    <2>1. n + 1 # 0 /\ (n + 1) - 1 = n
      OBVIOUS
    <2>2. QED
      BY <2>1 DEF Ring
  <1>2. Ball(v, n) \subseteq Ball(v, n + 1) /\ IsFiniteSet(Ball(v, n))
    BY BallStep
  <1>3. IsFiniteSet(Ball(v, n + 1)) /\ Ball(v, n) \subseteq Ball(v, N) /\ IsFiniteSet(Ball(v, N))
    BY BallStep, BallGrows, SomeVertices
  <1>4. /\ IsFiniteSet(Ball(v, n + 1) \ Ball(v, n))
        /\ Cardinality(Ball(v, n + 1) \ Ball(v, n)) = Cardinality(Ball(v, n + 1)) - Cardinality(Ball(v, n + 1) \cap Ball(v, n))
    BY <1>2, <1>3, FS_Difference
  <1>5. Ball(v, n + 1) \cap Ball(v, n) = Ball(v, n)
    BY <1>2
  <1>6. /\ Cardinality(Ball(v, n + 1)) \in Nat /\ Cardinality(Ball(v, n)) \in Nat
        /\ Cardinality(Ring(v, n + 1)) \in Nat
    BY <1>1, <1>2, <1>3, <1>4, FS_CardinalityType
  <1>7. Cardinality(Ball(v, n)) <= Cardinality(Ball(v, N))
    BY <1>3, FS_Subset
  <1>8. Cardinality(Ball(v, 0)) = 1
    BY BallInit, FS_Singleton
  <1>9. Cardinality(Ring(v, n + 1)) = Cardinality(Ball(v, n + 1)) - Cardinality(Ball(v, n))
    BY <1>1, <1>4, <1>5
  <1>10. Cardinality(Ball(v, n + 1)) = Cardinality(Ball(v, n)) + Cardinality(Ring(v, n + 1))
    BY <1>6, <1>9
  <1>11. QED
    BY <1>1, <1>6, <1>7, <1>8, <1>10

\* Another level is added to the sum.
LEMMA SumNext ==
    ASSUME Asked, NEW v \in Vertices
    PROVE  /\ SumWithin(v, 0) = 0
           /\ \A n \in Nat : SumWithin(v, n) \in Nat
           /\ \A n \in Nat : SumWithin(v, n + 1) = SumWithin(v, n) + (n + 1) * Cardinality(Ring(v, n + 1))
           /\ \A n \in Nat : n >= N => SumWithin(v, n) = get_exact_s(v)
  <1>1. friends \in Networks
    BY FriendsAre
  <1> DEFINE s == Sums[friends]
  <1>2. /\ s[0] = [u \in Vertices |-> 0]
        /\ \A n \in 0 .. N - 1 : s[n + 1][v] = s[n][v] + (n + 1) * Cardinality(RingOf(friends, n + 1, v))
        /\ \A n \in 0 .. N : s[n][v] \in Nat
    BY <1>1, SumsAre
  <1> HIDE DEF s
  <1>3. /\ UpTo(0) = 0 /\ \A n \in Nat : UpTo(n) \in 0 .. N
        /\ \A n \in 0 .. N - 1 : UpTo(n) = n /\ UpTo(n + 1) = n + 1
        /\ \A n \in Nat : n >= N => UpTo(n) = UpTo(N)
    BY SomeVertices DEF UpTo
  <1>4. \A n : SumWithin(v, n) = s[UpTo(n)][v]
    BY DEF SumWithin, s
  <1>5. SumWithin(v, 0) = 0
    BY <1>2, <1>3, <1>4
  <1>6. \A n \in Nat : SumWithin(v, n) \in Nat
    BY <1>2, <1>3, <1>4
  <1>7. \A n \in Nat : n >= N => SumWithin(v, n) = get_exact_s(v)
    BY <1>3, <1>4 DEF get_exact_s
  <1>8. ASSUME NEW n \in Nat
        PROVE  SumWithin(v, n + 1) = SumWithin(v, n) + (n + 1) * Cardinality(Ring(v, n + 1))
    <2>1. CASE n < N
      <3>1. n \in 0 .. N - 1
        BY <2>1, SomeVertices
      <3>2. RingOf(friends, n + 1, v) = Ring(v, n + 1)
        <4>1. Ball(v, n + 1) = Balls[friends][n + 1][v] /\ Ball(v, n) = Balls[friends][n][v] /\ (n + 1) - 1 = n
          BY <1>3, <3>1 DEF Ball
        <4>2. QED
          BY <4>1, RingSize DEF RingOf
      <3>3. QED
        BY <1>2, <1>3, <1>4, <3>1, <3>2
    <2>2. CASE n >= N
      <3>1. n + 1 >= N /\ n + 1 \in Nat
        BY <2>2, SomeVertices
      <3>2. Ball(v, n + 1) = Ball(v, n)
        BY <2>2, <3>1, BallInit
      <3>3. Ring(v, n + 1) = {}
        BY <3>2, RingSize
      <3>4. Cardinality(Ring(v, n + 1)) = 0
        BY <3>3, FS_EmptySet
      <3>5. SumWithin(v, n + 1) = SumWithin(v, n) /\ SumWithin(v, n) \in Nat
        BY <1>6, <1>7, <2>2, <3>1
      <3>6. QED
        BY <3>4, <3>5
    <2>3. QED
      BY <2>1, <2>2, SomeVertices
  <1>9. QED
    BY <1>5, <1>6, <1>7, <1>8

\* The size of the component of v.
Size(v) == Cardinality(Ball(v, N))

\* What LimitDepth is once the degrees are there.
LimitOf(v, d) == SumWithin(v, d) + (Size(v) - Cardinality(Ball(v, d))) * (d + 1)

\* A number times a sum.
LEMMA TimesSum ==
    ASSUME NEW a \in Int, NEW b \in Int, NEW c \in Int
    PROVE  /\ a * (b + c) = a * b + a * c /\ (b + c) * a = b * a + c * a
           /\ a * b = b * a /\ a * b \in Int /\ a * c \in Int /\ b * a \in Int /\ c * a \in Int
  OBVIOUS

\* One level deeper, each vertex still not found counts one more.
LEMMA LimitNext ==
    ASSUME Asked, NEW v \in Vertices, NEW n \in Nat
    PROVE  /\ LimitOf(v, n) \in Nat /\ Size(v) \in Nat \ {0}
           /\ LimitOf(v, n + 1) = LimitOf(v, n) + (Size(v) - Cardinality(Ball(v, n + 1)))
           /\ LimitOf(v, 0) = Size(v) - 1
  <1> DEFINE b == Cardinality(Ball(v, n))
             r == Cardinality(Ring(v, n + 1))
             s == SumWithin(v, n)
             c == Size(v)
  <1>1. /\ b \in Nat /\ r \in Nat /\ Cardinality(Ball(v, n + 1)) = b + r
        /\ b <= c /\ b + r <= c /\ Cardinality(Ball(v, 0)) = 1 /\ c \in Nat /\ 1 <= c
    <2>1. n + 1 \in Nat /\ N \in Nat /\ 0 \in Nat
      BY SomeVertices
    <2>2. Cardinality(Ball(v, 0)) <= Cardinality(Ball(v, N)) /\ Cardinality(Ball(v, 0)) = 1
      BY <2>1, RingSize
    <2>3. Cardinality(Ball(v, n + 1)) <= Cardinality(Ball(v, N)) /\ Cardinality(Ball(v, N)) \in Nat
      BY <2>1, RingSize
    <2>4. /\ b \in Nat /\ r \in Nat /\ Cardinality(Ball(v, n + 1)) = b + r
          /\ b <= Cardinality(Ball(v, N))
      BY RingSize
    <2>5. QED
      BY <2>2, <2>3, <2>4 DEF Size
  <1>2. s \in Nat /\ SumWithin(v, n + 1) = s + (n + 1) * r /\ SumWithin(v, 0) = 0
    BY SumNext
  <1>3. LimitOf(v, n) = s + (c - b) * (n + 1)
    BY DEF LimitOf
  <1>4. LimitOf(v, n + 1) = (s + (n + 1) * r) + (c - (b + r)) * ((n + 1) + 1)
    BY <1>1, <1>2 DEF LimitOf
  <1>5. LimitOf(v, 0) = 0 + (c - 1) * (0 + 1)
    BY <1>1, <1>2 DEF LimitOf
  <1> HIDE DEF b, r, s, c
  <1>6. (c - (b + r)) * ((n + 1) + 1) = (c - (b + r)) * (n + 1) + (c - (b + r))
    BY <1>1
  <1>7. (c - (b + r)) * (n + 1) = (c - b) * (n + 1) - r * (n + 1)
    BY <1>1
  <1>8. r * (n + 1) = (n + 1) * r /\ r * (n + 1) \in Nat /\ (c - b) * (n + 1) \in Nat
    BY <1>1
  <1>9. LimitOf(v, n + 1) = LimitOf(v, n) + (c - (b + r))
    BY <1>1, <1>2, <1>3, <1>4, <1>6, <1>7, <1>8
  <1>10. LimitOf(v, n) \in Nat
    BY <1>2, <1>3, <1>8
  <1>11. LimitOf(v, 0) = c - 1
    BY <1>1, <1>5
  <1>12. QED
    BY <1>1, <1>9, <1>10, <1>11 DEF b, r, c

\* A deeper search gives no smaller sum.
LEMMA LimitGrows ==
    ASSUME Asked, NEW v \in Vertices, NEW m \in Nat
    PROVE  \A n \in Nat : m <= n => LimitOf(v, m) <= LimitOf(v, n)
  <1> DEFINE D == {n \in Nat : m <= n /\ ~ (LimitOf(v, m) <= LimitOf(v, n))}
  <1>1. SUFFICES ASSUME D # {} PROVE FALSE
    OBVIOUS
  <1>2. PICK n \in D : \A l \in D : n <= l
    BY <1>1, LeastNumber
  <1>3. n \in Nat /\ m <= n /\ ~ (LimitOf(v, m) <= LimitOf(v, n)) /\ LimitOf(v, m) \in Nat
    BY <1>2, LimitNext
  <1>4. n # m
    BY <1>3
  <1>5. n - 1 \in Nat /\ m <= n - 1 /\ ~ (n <= n - 1) /\ (n - 1) + 1 = n
    BY <1>3, <1>4
  <1>6. n - 1 \notin D
    BY <1>2, <1>5
  <1>7. LimitOf(v, m) <= LimitOf(v, n - 1) /\ LimitOf(v, n - 1) \in Nat
    BY <1>5, <1>6, LimitNext
  <1>8. LimitOf(v, n) = LimitOf(v, n - 1) + (Size(v) - Cardinality(Ball(v, n))) /\ Size(v) \in Nat
    BY <1>5, LimitNext
  <1>9. Cardinality(Ball(v, n)) \in Nat /\ Cardinality(Ball(v, n)) <= Size(v)
    BY <1>3, RingSize DEF Size
  <1>10. QED
    BY <1>3, <1>7, <1>8, <1>9

\* The bounds are between one edge for each of the others and their distances.
LEMMA LimitBetween ==
    ASSUME Asked, NEW v \in Vertices, NEW n \in Nat
    PROVE  /\ Size(v) - 1 <= LimitOf(v, n) /\ LimitOf(v, n) <= get_exact_s(v)
           /\ n >= N => LimitOf(v, n) = get_exact_s(v)
           /\ get_exact_s(v) \in Nat
           /\ Cardinality(Ball(v, n)) = Size(v) => SumWithin(v, n) = get_exact_s(v)
  <1>1. N \in Nat
    BY SomeVertices
  <1>2. \A m \in Nat : m >= N => LimitOf(v, m) = get_exact_s(v)
    <2> SUFFICES ASSUME NEW m \in Nat, m >= N PROVE LimitOf(v, m) = get_exact_s(v)
      OBVIOUS
    <2>1. Ball(v, m) = Ball(v, N)
      BY BallInit
    <2>2. Size(v) - Cardinality(Ball(v, m)) = 0
      BY <2>1, LimitNext DEF Size
    <2>3. SumWithin(v, m) = get_exact_s(v) /\ SumWithin(v, m) \in Nat
      BY SumNext
    <2>4. QED
      BY <2>2, <2>3 DEF LimitOf
  <1>3. n + N \in Nat /\ n <= n + N /\ n + N >= N /\ 0 <= n /\ 0 \in Nat
    BY <1>1
  <1>4. LimitOf(v, n) <= get_exact_s(v) /\ LimitOf(v, n + N) = get_exact_s(v)
    BY <1>2, <1>3, LimitGrows
  <1>5. LimitOf(v, 0) <= LimitOf(v, n) /\ LimitOf(v, 0) = Size(v) - 1
    BY <1>3, LimitGrows, LimitNext
  <1>6. get_exact_s(v) \in Nat
    BY <1>1, SumNext DEF get_exact_s
  <1>7. ASSUME Cardinality(Ball(v, n)) = Size(v) PROVE SumWithin(v, n) = get_exact_s(v)
    <2>1. IsFiniteSet(Ball(v, N)) /\ Ball(v, n) \in SUBSET Ball(v, N)
      BY <1>1, BallStep, BallGrows
    <2>2. Ball(v, n) = Ball(v, N)
      BY <1>7, <2>1, FS_Subset DEF Size
    <2>3. LimitOf(v, n) = SumWithin(v, n) + (Size(v) - Size(v)) * (n + 1)
      BY <1>7 DEF LimitOf
    <2>4. LimitOf(v, n) = SumWithin(v, n)
      BY <2>3, LimitNext, SumNext
    <2>5. Cardinality(Ball(v, n)) = Cardinality(Ball(v, N))
      BY <2>2
    <2>6. \A l \in Nat : n <= l => LimitOf(v, l) <= LimitOf(v, n)
      <3> DEFINE D == {l \in Nat : n <= l /\ ~ (LimitOf(v, l) <= LimitOf(v, n))}
      <3>1. SUFFICES ASSUME D # {} PROVE FALSE
        OBVIOUS
      <3>2. PICK l \in D : \A i \in D : l <= i
        BY <3>1, LeastNumber
      <3>3. l \in Nat /\ n <= l /\ ~ (LimitOf(v, l) <= LimitOf(v, n)) /\ LimitOf(v, n) \in Nat
        BY <3>2, LimitNext
      <3>4. l # n
        BY <3>3
      <3>5. l - 1 \in Nat /\ n <= l - 1 /\ ~ (l <= l - 1) /\ (l - 1) + 1 = l
        BY <3>3, <3>4
      <3>6. l - 1 \notin D
        BY <3>2, <3>5
      <3>7. LimitOf(v, l - 1) <= LimitOf(v, n) /\ LimitOf(v, l - 1) \in Nat
        BY <3>5, <3>6, LimitNext
      <3>8. Ball(v, l) = Ball(v, N)
        BY <2>2, <3>3, BallGrows
      <3>9. LimitOf(v, l) = LimitOf(v, l - 1) + (Size(v) - Size(v)) /\ Size(v) \in Nat
        BY <3>5, <3>8, LimitNext DEF Size
      <3>10. QED
        BY <3>3, <3>7, <3>9
    <2>7. LimitOf(v, n + N) <= LimitOf(v, n)
      BY <1>3, <2>6
    <2>8. QED
      BY <1>4, <2>4, <2>7, LimitNext, <1>6
  <1>8. QED
    BY <1>2, <1>4, <1>5, <1>6, <1>7

\* A sum up to d + 1 is the sum up to d and the last number.
LEMMA SumUpTo ==
    ASSUME NEW d \in Nat, NEW F \in [0 .. d + 1 -> Nat]
    PROVE  SumFunction(F) = SumFunction([n \in 0 .. d |-> F[n]]) + F[d + 1]
  <1> DEFINE S == 0 .. d + 1
             T == 0 .. d
  <1>1. IsFiniteSet(S)
    <2>1. 0 \in Int /\ d + 1 \in Int
      OBVIOUS
    <2>2. QED
      BY <2>1, FS_Interval
  <1>2. T \in SUBSET S /\ S \ T = {d + 1}
    OBVIOUS
  <1>3. F \in [S -> Nat] /\ F[d + 1] \in Nat
    OBVIOUS
  <1> HIDE DEF S, T
  <1>4. SumFunction(F) = SumFunction([x \in T |-> F[x]]) + SumFunction([x \in S \ T |-> F[x]])
    <2>1. T \in SUBSET S
      BY <1>2
    <2>2. QED
      BY <1>1, <2>1, <1>3, SumOfTwo, Zenon
  <1>5. SumFunction([x \in {d + 1} |-> F[x]]) = F[d + 1]
    BY <1>3, SumOfOne
  <1>6. QED
    BY <1>2, <1>4, <1>5 DEF T

\* The rings, level by level, have the sums of distances and make up the ball.
RingCount(v, d) == [n \in 0 .. d |-> Cardinality(Ring(v, n))]

\* Level n counts n times for each of its vertices.
RingSum(v, d) == [n \in 0 .. d |-> n * Cardinality(Ring(v, n))]

\* Levels are counted by natural numbers.
LEMMA RingType ==
    ASSUME Asked, NEW v \in Vertices
    PROVE  \A n \in Nat : Cardinality(Ring(v, n)) \in Nat /\ n * Cardinality(Ring(v, n)) \in Nat
  <1> SUFFICES ASSUME NEW n \in Nat PROVE Cardinality(Ring(v, n)) \in Nat
    OBVIOUS
  <1>1. CASE n = 0
    BY <1>1, FS_Singleton DEF Ring
  <1>2. CASE n # 0
    <2>1. n - 1 \in Nat /\ (n - 1) + 1 = n
      BY <1>2
    <2>2. QED
      BY <2>1, RingSize
  <1>3. QED
    BY <1>1, <1>2

\* Counted level by level, a ball has as many vertices as it has, and their
\* distances add up to SumWithin.
LEMMA LevelSums ==
    ASSUME Asked, NEW v \in Vertices
    PROVE  \A d \in Nat : /\ SumFunction(RingCount(v, d)) = Cardinality(Ball(v, d))
                          /\ SumFunction(RingSum(v, d)) = SumWithin(v, d)
  <1> DEFINE D == {d \in Nat : ~ (/\ SumFunction(RingCount(v, d)) = Cardinality(Ball(v, d))
                                  /\ SumFunction(RingSum(v, d)) = SumWithin(v, d))}
  <1>1. SUFFICES ASSUME D # {} PROVE FALSE
    OBVIOUS
  <1>2. PICK d \in D : \A l \in D : d <= l
    BY <1>1, LeastNumber
  <1>3. d \in Nat
    BY <1>2
  <1>4. CASE d = 0
    <2>1. 0 .. 0 = {0}
      OBVIOUS
    <2> DEFINE F == [n \in {0} |-> Cardinality(Ring(v, n))]
               G == [n \in {0} |-> n * Cardinality(Ring(v, n))]
    <2>2. F[0] = Cardinality(Ring(v, 0)) /\ G[0] = 0 * Cardinality(Ring(v, 0)) /\ 0 \in Nat
      OBVIOUS
    <2>3. Ring(v, 0) = {v} /\ Cardinality({v}) = 1 /\ Ball(v, 0) = {v}
      BY BallInit, FS_Singleton DEF Ring
    <2>4. F[0] = 1 /\ G[0] = 0
      BY <2>2, <2>3
    <2>5. F = [n \in {0} |-> F[n]] /\ G = [n \in {0} |-> G[n]]
      OBVIOUS
    <2>6. RingCount(v, 0) = F /\ RingSum(v, 0) = G
      BY <2>1 DEF RingCount, RingSum
    <2> HIDE DEF F, G
    <2>7. SumFunction(F) = 1 /\ SumFunction(G) = 0
      <3>1. F[0] \in Nat /\ G[0] \in Nat
        BY <2>4
      <3>2. SumFunction([n \in {0} |-> F[n]]) = F[0] /\ SumFunction([n \in {0} |-> G[n]]) = G[0]
        BY <3>1, SumOfOne
      <3>3. QED
        BY <2>4, <2>5, <3>2
    <2>8. SumWithin(v, 0) = 0
      BY SumNext
    <2>9. QED
      BY <1>2, <1>4, <2>3, <2>6, <2>7, <2>8
  <1>5. CASE d # 0
    <2>1. d - 1 \in Nat /\ ~ (d <= d - 1) /\ (d - 1) + 1 = d
      BY <1>3, <1>5
    <2>2. d - 1 \notin D
      BY <1>2, <2>1
    <2>3. /\ SumFunction(RingCount(v, d - 1)) = Cardinality(Ball(v, d - 1))
          /\ SumFunction(RingSum(v, d - 1)) = SumWithin(v, d - 1)
      BY <2>1, <2>2
    <2> DEFINE F == RingCount(v, d)
               G == RingSum(v, d)
    <2>4. F \in [0 .. (d - 1) + 1 -> Nat] /\ G \in [0 .. (d - 1) + 1 -> Nat]
      <3>1. \A n \in 0 .. d : Cardinality(Ring(v, n)) \in Nat /\ n * Cardinality(Ring(v, n)) \in Nat
        BY RingType
      <3>2. F \in [0 .. d -> Nat]
        BY <3>1 DEF RingCount
      <3>3. G \in [0 .. d -> Nat]
        BY <3>1 DEF RingSum
      <3> HIDE DEF F, G
      <3>4. QED
        BY <2>1, <3>2, <3>3
    <2>5. /\ F[(d - 1) + 1] = Cardinality(Ring(v, d))
          /\ G[(d - 1) + 1] = d * Cardinality(Ring(v, d))
      BY <1>3, <2>1 DEF RingCount, RingSum
    <2>6. /\ RingCount(v, d - 1) = [n \in 0 .. d - 1 |-> F[n]]
          /\ RingSum(v, d - 1) = [n \in 0 .. d - 1 |-> G[n]]
      <3>1. \A n \in 0 .. d - 1 : n \in 0 .. d
        BY <2>1
      <3>2. QED
        BY <3>1 DEF RingCount, RingSum
    <2> HIDE DEF F, G
    <2>7. SumFunction(F) = Cardinality(Ball(v, d - 1)) + Cardinality(Ring(v, d))
      BY <2>1, <2>3, <2>4, <2>5, <2>6, SumUpTo
    <2>8. SumFunction(G) = SumWithin(v, d - 1) + d * Cardinality(Ring(v, d))
      BY <2>1, <2>3, <2>4, <2>5, <2>6, SumUpTo
    <2>9. Cardinality(Ball(v, d)) = Cardinality(Ball(v, d - 1)) + Cardinality(Ring(v, d))
      BY <2>1, RingSize
    <2>10. SumWithin(v, d) = SumWithin(v, d - 1) + d * Cardinality(Ring(v, d))
      BY <2>1, SumNext
    <2>11. QED
      BY <1>2, <2>7, <2>8, <2>9, <2>10 DEF F, G
  <1>6. QED
    BY <1>4, <1>5

\* A ring that is not empty is nearer than the component has vertices.
LEMMA RingNear ==
    ASSUME Asked, NEW v \in Vertices, NEW n \in Nat, Ring(v, n) # {}
    PROVE  n < Size(v) /\ n <= N /\ Size(v) <= N
  <1>1. Size(v) \in Nat \ {0} /\ N \in Nat /\ Size(v) <= N
    BY BallInit, SomeVertices, LimitNext, FS_Subset DEF Size
  <1>2. CASE n = 0
    BY <1>1, <1>2
  <1>3. CASE n # 0
    <2>1. n - 1 \in Nat /\ (n - 1) + 1 = n
      BY <1>3
    <2>2. Ring(v, n) = Ball(v, n) \ Ball(v, n - 1)
      BY <2>1, RingSize
    <2>3. Ball(v, n) \subseteq Ball(v, N)
      BY BallGrows, SomeVertices
    <2>4. Ball(v, n - 1) # Ball(v, N) /\ Ball(v, n - 1) \subseteq Ball(v, N)
      BY <2>1, <2>2, <2>3, BallGrows, SomeVertices
    <2>5. n - 1 < N
      BY <1>1, <2>1, <2>4, BallInit
    <2>6. Cardinality(Ball(v, n - 1)) > n - 1
      BY <1>1, <2>1, <2>4, <2>5, BallSize
    <2>7. Cardinality(Ball(v, n - 1)) <= Size(v) /\ Cardinality(Ball(v, n - 1)) # Size(v)
      BY <1>1, <2>1, <2>4, BallStep, FS_Subset DEF Size
    <2>8. Cardinality(Ball(v, n - 1)) \in Nat
      BY <2>1, RingSize
    <2>9. QED
      BY <1>1, <2>6, <2>7, <2>8
  <1>4. QED
    BY <1>2, <1>3

\* A square grows by at least this much.
LEMMA SquareGrows ==
    ASSUME NEW a \in Nat, NEW r \in Nat, NEW m \in Nat, r # 0 => m <= a + 1
    PROVE  a * a \in Nat /\ a * a + m * r <= (a + r) * (a + r)
  <1>1. CASE r = 0
    <2>1. m * r = 0 /\ a + r = a
      BY <1>1
    <2>2. QED
      BY <2>1
  <1>2. CASE r # 0
    <2>1. (a + r) * (a + r) = a * a + (a * r + (a * r + r * r))
      OBVIOUS
    <2>2. r * r >= r * 1
      BY <1>2
    <2>3. m * r <= (a + 1) * r
      <3> DEFINE e == (a + 1) - m
      <3>1. e \in Nat /\ a + 1 = m + e
        BY <1>2
      <3> HIDE DEF e
      <3>2. (m + e) * r = m * r + e * r /\ e * r \in Nat /\ m * r \in Nat
        BY <3>1
      <3>3. QED
        BY <3>1, <3>2
    <2>4. (a + 1) * r = a * r + r /\ a * r \in Nat /\ r * 1 = r /\ r * r \in Nat /\ m * r \in Nat /\ a * a \in Nat
      OBVIOUS
    <2>5. QED
      BY <2>1, <2>2, <2>3, <2>4
  <1>3. QED
    BY <1>1, <1>2

\* No sum of distances is above the square of the number of the others.
LEMMA ExactAtMost ==
    ASSUME Asked, NEW v \in Vertices
    PROVE  get_exact_s(v) <= (Size(v) - 1) * (Size(v) - 1)
  <1> DEFINE b(n) == Cardinality(Ball(v, n))
             Good(n) == SumWithin(v, n) <= (b(n) - 1) * (b(n) - 1)
             D == {n \in Nat : ~ Good(n)}
  <1>1. \A n \in Nat : b(n) \in Nat /\ b(n) - 1 \in Nat
    <2> SUFFICES ASSUME NEW n \in Nat PROVE b(n) \in Nat /\ b(n) - 1 \in Nat
      OBVIOUS
    <2>1. b(n) \in Nat /\ b(0) = 1
      BY RingSize
    <2>2. Ball(v, 0) \in SUBSET Ball(v, n) /\ IsFiniteSet(Ball(v, n))
      BY BallGrows, BallStep
    <2>3. b(0) <= b(n)
      BY <2>2, FS_Subset
    <2>4. QED
      BY <2>1, <2>3
  <1>2. D = {}
    <2>1. SUFFICES ASSUME D # {} PROVE FALSE
      OBVIOUS
    <2> HIDE DEF Good
    <2>2. PICK n \in D : \A l \in D : n <= l
      BY <2>1, LeastNumber
    <2>3. n \in Nat /\ ~ Good(n)
      BY <2>2
    <2>4. n # 0
      <3>1. SumWithin(v, 0) = 0 /\ b(0) = 1
        BY SumNext, RingSize
      <3>2. Good(0)
        BY <3>1 DEF Good
      <3>3. QED
        BY <2>3, <3>2
    <2>5. n - 1 \in Nat /\ ~ (n <= n - 1) /\ (n - 1) + 1 = n
      BY <2>3, <2>4
    <2>6. Good(n - 1)
      BY <2>2, <2>5
    <2> DEFINE a == b(n - 1) - 1
               r == Cardinality(Ring(v, n))
    <2>7. r \in Nat /\ b(n) = b(n - 1) + r /\ SumWithin(v, n) = SumWithin(v, n - 1) + n * r
      BY <2>5, RingSize, SumNext
    <2>8. a \in Nat /\ b(n) - 1 = a + r /\ b(n - 1) - 1 = a
      BY <1>1, <2>5, <2>7
    <2>9. ASSUME r # 0 PROVE n <= a + 1
      <3>1. Ring(v, n) # {} /\ Ring(v, n) = Ball(v, n) \ Ball(v, n - 1)
        <4>1. Ring(v, n) # {}
          BY <2>9, FS_EmptySet
        <4>2. Ring(v, n) = Ball(v, n) \ Ball(v, n - 1)
          BY <2>5, RingSize
        <4>3. QED
          BY <4>1, <4>2
      <3>2. Ball(v, n) \subseteq Ball(v, N)
        BY <2>3, BallGrows, SomeVertices
      <3>3. Ball(v, n - 1) # Ball(v, N)
        BY <3>1, <3>2
      <3>4. n - 1 \in 0 .. N
        <4>1. n - 1 < N
          BY <2>5, <3>3, BallInit, SomeVertices
        <4>2. QED
          BY <2>5, <4>1, SomeVertices
      <3>5. b(n - 1) > n - 1
        BY <3>3, <3>4, BallSize
      <3>6. QED
        BY <1>1, <2>3, <2>5, <3>5
    <2>10. SumWithin(v, n - 1) <= a * a /\ SumWithin(v, n - 1) \in Nat
      BY <2>5, <2>6, SumNext DEF Good
    <2>11. Good(n) <=> SumWithin(v, n - 1) + n * r <= (a + r) * (a + r)
      BY <2>7, <2>8 DEF Good
    <2> HIDE DEF a, r
    <2>12. a * a \in Nat /\ a * a + n * r <= (a + r) * (a + r) /\ n * r \in Nat /\ (a + r) * (a + r) \in Nat
      BY <2>3, <2>7, <2>8, <2>9, SquareGrows
    <2>13. QED
      BY <2>3, <2>10, <2>11, <2>12
  <1>3. N \in Nat /\ Good(N)
    BY <1>2, SomeVertices
  <1>4. QED
    BY <1>3 DEF get_exact_s, Size

\* There is a last ring that is not empty.
LEMMA EccentricityIs ==
    ASSUME Asked, NEW v \in Vertices
    PROVE  Eccentricity(v) \in 0 .. N
  <1> DEFINE D == {n \in Nat : Ball(v, n + 1) = Ball(v, n)}
  <1>1. N \in D
    <2>1. N \in Nat /\ N + 1 \in Nat /\ N + 1 >= N
      BY SomeVertices
    <2>2. QED
      BY <2>1, BallInit
  <1>2. PICK n \in D : \A l \in D : n <= l
    BY <1>1, LeastNumber
  <1>3. n \in Nat /\ n <= N /\ Ball(v, n + 1) = Ball(v, n) /\ n \in 0 .. N
    BY <1>1, <1>2, SomeVertices
  <1>4. Ring(v, n + 1) = {}
    BY <1>3, RingSize
  <1>5. Ring(v, n) # {}
    <2>1. CASE n = 0
      BY <2>1 DEF Ring
    <2>2. CASE n # 0
      <3>1. n - 1 \in Nat /\ ~ (n <= n - 1) /\ (n - 1) + 1 = n
        BY <1>3, <2>2
      <3>2. Ball(v, n) # Ball(v, n - 1)
        BY <1>2, <3>1
      <3>3. Ring(v, n) = Ball(v, n) \ Ball(v, n - 1) /\ Ball(v, n - 1) \subseteq Ball(v, n)
        BY <3>1, RingSize, BallStep
      <3>4. QED
        BY <3>2, <3>3
    <2>3. QED
      BY <2>1, <2>2
  <1>6. \E m \in 0 .. N : Ring(v, m) # {} /\ Ring(v, m + 1) = {}
    BY <1>3, <1>4, <1>5
  <1>7. QED
    BY <1>6 DEF Eccentricity

\* The powers of four.
LEMMA Fours ==
    /\ FourTo[0] = 1
    /\ \A n \in Nat : FourTo[n + 1] = 4 * FourTo[n] /\ FourTo[n] \in Nat /\ FourTo[n] > n
  <1> DEFINE F == [n \in Nat |-> [x \in Nat |-> 4 * x]]
             R(g) == [n \in Nat |-> IF n = 0 THEN 1 ELSE 4 * g[n - 1]]
  <1>1. F \in [Nat -> [Nat -> Nat]] /\ 1 \in Nat
    OBVIOUS
  <1> HIDE DEF F
  <1>2. PICK f \in [Nat -> Nat] : f[0] = 1 /\ \A n \in Nat : f[n + 1] = F[n][f[n]]
    <2>1. \E f \in [Nat -> Nat] : Recurs(f, 1, F)
      BY <1>1, Recursion
    <2>2. QED
      BY <2>1 DEF Recurs
  <1>3. \A n \in Nat : f[n] \in Nat /\ f[n + 1] = 4 * f[n]
    <2>1. \A n \in Nat : f[n] \in Nat
      BY <1>2
    <2>2. \A n \in Nat : F[n][f[n]] = 4 * f[n]
      BY <2>1 DEF F
    <2>3. QED
      BY <1>2, <2>1, <2>2
  <1>4. f = R(f)
    <2>1. ASSUME NEW n \in Nat PROVE f[n] = R(f)[n]
      <3>1. CASE n = 0
        BY <1>2, <3>1
      <3>2. CASE n # 0
        <4>1. n - 1 \in Nat /\ (n - 1) + 1 = n
          BY <3>2
        <4>2. f[n] = 4 * f[n - 1]
          BY <1>3, <4>1
        <4>3. QED
          BY <3>2, <4>2
      <3>3. QED
        BY <3>1, <3>2
    <2>2. f = [n \in Nat |-> f[n]] /\ R(f) = [n \in Nat |-> R(f)[n]]
      BY <1>2
    <2> HIDE DEF R
    <2>3. QED
      BY <2>1, <2>2
  <1>5. FourTo = CHOOSE g : g = R(g)
    BY DEF FourTo
  <1> HIDE DEF R
  <1>6. FourTo = R(FourTo)
    BY <1>4, <1>5, Zenon
  <1>7. FourTo = [n \in Nat |-> IF n = 0 THEN 1 ELSE 4 * FourTo[n - 1]]
    BY <1>6 DEF R
  <1>8. FourTo[0] = 1
    BY <1>7
  <1>9. \A n \in Nat : FourTo[n + 1] = 4 * FourTo[n]
    <2> SUFFICES ASSUME NEW n \in Nat PROVE FourTo[n + 1] = 4 * FourTo[n]
      OBVIOUS
    <2>1. n + 1 \in Nat /\ n + 1 # 0 /\ (n + 1) - 1 = n
      OBVIOUS
    <2>2. QED
      BY <1>7, <2>1
  <1>10. \A n \in Nat : FourTo[n] \in Nat /\ FourTo[n] > n
    <2> DEFINE D == {n \in Nat : ~ (FourTo[n] \in Nat /\ FourTo[n] > n)}
    <2> SUFFICES ASSUME D # {} PROVE FALSE
      OBVIOUS
    <2>1. PICK n \in D : \A l \in D : n <= l
      BY LeastNumber
    <2>2. n # 0 /\ n \in Nat
      BY <1>8, <2>1
    <2>3. n - 1 \in Nat /\ ~ (n <= n - 1) /\ (n - 1) + 1 = n
      BY <2>2
    <2>4. FourTo[n - 1] \in Nat /\ FourTo[n - 1] > n - 1
      BY <2>1, <2>3
    <2>5. FourTo[n] = 4 * FourTo[n - 1]
      BY <1>9, <2>3
    <2>6. QED
      BY <2>1, <2>2, <2>4, <2>5
  <1>11. QED
    BY <1>8, <1>9, <1>10

\* query4_v3.cc searches two levels deep at least, whatever diameter it found.
LEMMA DepthIs ==
    ASSUME NEW d \in Nat
    PROVE  DepthOf(d) \in Nat /\ DepthOf(d) >= 2
  <1>1. CASE d = 0
    BY <1>1 DEF DepthOf
  <1>2. CASE d # 0
    <2> DEFINE e == 2 * d * d
    <2>1. e \in Nat /\ e >= 1
      <3>1. d * d >= 1 * d /\ 2 * d * d = d * d + d * d /\ d * d \in Nat
        BY <1>2
      <3>2. QED
        BY <1>2, <3>1
    <2>2. RoundLog2(d) = CHOOSE n \in 0 .. e : FourTo[n] <= e /\ e < FourTo[n + 1]
      BY DEF RoundLog2
    <2> HIDE DEF e
    <2> DEFINE D == {n \in Nat : e < FourTo[n + 1]}
    <2>3. e \in D
      BY <2>1, Fours
    <2>4. PICK n \in D : \A l \in D : n <= l
      BY <2>3, LeastNumber
    <2>5. n \in 0 .. e /\ e < FourTo[n + 1] /\ n \in Nat
      BY <2>1, <2>3, <2>4
    <2>6. FourTo[n] <= e
      <3>1. CASE n = 0
        BY <2>1, <3>1, Fours
      <3>2. CASE n # 0
        <4>1. n - 1 \in Nat /\ ~ (n <= n - 1) /\ (n - 1) + 1 = n
          BY <2>5, <3>2
        <4>2. ~ (e < FourTo[n])
          BY <2>4, <4>1
        <4>3. FourTo[n] \in Nat
          BY <2>5, Fours
        <4>4. QED
          BY <2>1, <4>2, <4>3
      <3>3. QED
        BY <3>1, <3>2
    <2>7. RoundLog2(d) \in 0 .. e
      BY <2>2, <2>5, <2>6
    <2>8. RoundLog2(d) \in Nat
      BY <2>1, <2>7
    <2>9. \E m \in {2, RoundLog2(d)} : \A l \in {2, RoundLog2(d)} : m >= l
      BY <2>8
    <2>10. Max({2, RoundLog2(d)}) \in {2, RoundLog2(d)} /\ Max({2, RoundLog2(d)}) >= 2
      BY <2>9 DEF Max
    <2>11. QED
      BY <1>2, <2>8, <2>10 DEF DepthOf
  <1>3. QED
    BY <1>1, <1>2

\* A set of numbers up to n has a largest.
LEMMA LargestNumber ==
    ASSUME NEW n \in Nat, NEW S \in SUBSET (0 .. n), S # {}
    PROVE  Max(S) \in S /\ \A m \in S : m <= Max(S)
  <1> DEFINE D == {n - m : m \in S}
  <1>1. D \in SUBSET Nat /\ D # {}
    <2>1. \A m \in S : n - m \in Nat
      OBVIOUS
    <2>2. PICK m \in S : TRUE
      OBVIOUS
    <2>3. QED
      BY <2>1, <2>2
  <1>2. PICK l \in D : \A i \in D : l <= i
    BY <1>1, LeastNumber
  <1>3. PICK m \in S : l = n - m
    BY <1>2
  <1>4. \A i \in S : m >= i
    <2> SUFFICES ASSUME NEW i \in S PROVE m >= i
      OBVIOUS
    <2>1. n - i \in D
      OBVIOUS
    <2>2. n - m <= n - i
      BY <1>2, <1>3, <2>1
    <2>3. m \in 0 .. n /\ i \in 0 .. n
      OBVIOUS
    <2>4. QED
      BY <2>2, <2>3
  <1>5. QED
    BY <1>3, <1>4 DEF Max

-----------------------------------------------------------------------------
(* Bitsets.                                                                *)

\* What division rounds to.
LEMMA Quotient ==
    ASSUME NEW a \in Nat, NEW C \in Nat \ {0}, NEW q \in Nat, C * q <= a, a < C * (q + 1)
    PROVE  a \div C = q
  <1> DEFINE p == a \div C
             r == a % C
  <1>1. p \in Nat /\ r \in 0 .. C - 1 /\ a = C * p + r
    BY Division
  <1> HIDE DEF p, r
  <1>2. \A i, j \in Nat : i >= j => C * i >= C * j
    OBVIOUS
  <1>3. C * p \in Nat /\ C * q \in Nat /\ C * (q + 1) = C * q + C /\ C * (p + 1) = C * p + C
    BY <1>1
  <1>4. ~ (p >= q + 1)
    <2>1. SUFFICES ASSUME p >= q + 1 PROVE FALSE
      OBVIOUS
    <2>2. C * p >= C * (q + 1)
      BY <1>1, <1>2, <2>1
    <2>3. QED
      BY <1>1, <1>3, <2>2
  <1>5. ~ (q >= p + 1)
    <2>1. SUFFICES ASSUME q >= p + 1 PROVE FALSE
      OBVIOUS
    <2>2. C * q >= C * (p + 1)
      BY <1>1, <1>2, <2>1
    <2>3. QED
      BY <1>1, <1>3, <2>2
  <1>6. p = q
    BY <1>1, <1>4, <1>5
  <1>7. QED
    BY <1>6 DEF p

\* Division does not change the order.
LEMMA QuotientGrows ==
    ASSUME NEW a \in Nat, NEW b \in Nat, NEW C \in Nat \ {0}, a <= b
    PROVE  a \div C <= b \div C
  <1> DEFINE p == a \div C
             q == b \div C
  <1>1. p \in Nat /\ q \in Nat /\ C * p <= a /\ b < C * q + C
    <2>1. a \div C \in Nat /\ a % C \in 0 .. C - 1 /\ a = C * (a \div C) + (a % C)
      BY Division
    <2>2. b \div C \in Nat /\ b % C \in 0 .. C - 1 /\ b = C * (b \div C) + (b % C)
      BY Division
    <2> DEFINE r == a % C
               s == b % C
    <2>3. r \in 0 .. C - 1 /\ s \in 0 .. C - 1 /\ a = C * p + r /\ b = C * q + s /\ p \in Nat /\ q \in Nat
      BY <2>1, <2>2
    <2> HIDE DEF r, s, p, q
    <2>4. C * p \in Nat /\ C * q \in Nat
      BY <2>3
    <2>5. QED
      BY <2>3, <2>4
  <1> HIDE DEF p, q
  <1>2. \A i, j \in Nat : i >= j => C * i >= C * j
    OBVIOUS
  <1>3. ~ (p >= q + 1)
    <2>1. SUFFICES ASSUME p >= q + 1 PROVE FALSE
      OBVIOUS
    <2>2. C * p >= C * (q + 1) /\ C * (q + 1) = C * q + C /\ C * q \in Nat /\ C * p \in Nat
      BY <1>1, <1>2, <2>1
    <2>3. QED
      BY <1>1, <2>2
  <1>4. p <= q
    BY <1>1, <1>3
  <1>5. QED
    BY <1>4 DEF p, q

\* The constants of the bitsets are positive; words are whole bytes and chunks
\* whole groups.
LEMMA BitConstants ==
    /\ WordBits \in Nat \ {0} /\ ByteBits \in Nat \ {0} /\ ByteSize \in Nat \ {0}
    /\ Group \in Nat \ {0} /\ Chunk \in Nat \ {0}
    /\ WordBits = ByteBits * (WordBits \div ByteBits) /\ WordBits \div ByteBits \in Nat
    /\ Chunk = Group * (Chunk \div Group) /\ Chunk \div Group \in Nat
    /\ Chunk * ByteBits < ByteSize
  <1>1. /\ WordBits \in Nat \ {0} /\ ByteBits \in Nat \ {0} /\ ByteSize \in Nat \ {0}
        /\ Group \in Nat \ {0} /\ Chunk \in Nat \ {0}
        /\ WordBits % ByteBits = 0 /\ Chunk % Group = 0 /\ Chunk * ByteBits < ByteSize
    BY BitsetAssumption
  <1>2. /\ WordBits \div ByteBits \in Nat
        /\ WordBits = ByteBits * (WordBits \div ByteBits) + (WordBits % ByteBits)
    BY <1>1, Division
  <1>3. /\ Chunk \div Group \in Nat
        /\ Chunk = Group * (Chunk \div Group) + (Chunk % Group)
    BY <1>1, Division
  <1> DEFINE w == WordBits \div ByteBits
             g == Chunk \div Group
  <1>4. WordBits = ByteBits * w + 0 /\ Chunk = Group * g + 0 /\ w \in Nat /\ g \in Nat
    BY <1>1, <1>2, <1>3
  <1> HIDE DEF w, g
  <1>5. WordBits = ByteBits * w /\ Chunk = Group * g
    BY <1>1, <1>4
  <1>6. QED
    BY <1>1, <1>4, <1>5 DEF w, g

\* Where a bit is: its word, and its place in the word.
LEMMA BitPlace ==
    ASSUME NEW x \in Nat
    PROVE  /\ WordOf(x) \in Nat /\ x % WordBits \in 0 .. WordBits - 1
           /\ x = WordBits * WordOf(x) + (x % WordBits)
           /\ x = WordOf(x) * WordBits + (x % WordBits)
           /\ ByteOf(x) \in 0 .. WordBits \div ByteBits - 1
           /\ (x % WordBits) % ByteBits \in 0 .. ByteBits - 1
           /\ x % WordBits = ByteBits * ByteOf(x) + ((x % WordBits) % ByteBits)
  <1> DEFINE q == WordOf(x)
             r == x % WordBits
             p == ByteOf(x)
             s == r % ByteBits
             P == WordBits \div ByteBits
  <1>1. q \in Nat /\ r \in 0 .. WordBits - 1 /\ x = WordBits * q + r
    BY BitConstants, Division DEF WordOf
  <1>2. r \in Nat
    BY <1>1
  <1>3. r \div ByteBits \in Nat /\ r % ByteBits \in 0 .. ByteBits - 1
        /\ r = ByteBits * (r \div ByteBits) + (r % ByteBits)
    <2> HIDE DEF r
    <2>1. QED
      BY <1>2, BitConstants, Division
  <1>4. p = r \div ByteBits
    BY DEF ByteOf
  <1>5. p \in Nat /\ s \in 0 .. ByteBits - 1 /\ r = ByteBits * p + s
    BY <1>3, <1>4
  <1>6. WordBits = ByteBits * P /\ P \in Nat
    BY BitConstants
  <1> HIDE DEF q, r, p, s, P
  <1>7. p <= P - 1
    <2>1. SUFFICES ASSUME p >= P PROVE FALSE
      BY <1>5, <1>6
    <2>2. ByteBits * p >= ByteBits * P /\ ByteBits * p \in Nat
      BY <1>5, <1>6, <2>1, BitConstants
    <2>3. QED
      BY <1>1, <1>5, <1>6, <2>2
  <1>8. p \in 0 .. P - 1
    BY <1>5, <1>6, <1>7
  <1>9. WordBits * q = q * WordBits
    BY <1>1, BitConstants
  <1>10. x = q * WordBits + r
    BY <1>1, <1>9
  <1>11. QED
    BY <1>1, <1>5, <1>8, <1>10 DEF q, r, p, s, P

\* Each number has a bit of its own.
LEMMA BitsAre ==
    ASSUME NEW S \in SUBSET Nat
    PROVE  Bits(S) = S
  <1>1. \A x \in S : WordOf(x) * WordBits + (x % WordBits) = x
    BY BitPlace
  <1>2. QED
    BY <1>1 DEF Bits

\* Rounding up: not below n, and not above a multiple that n is not above.
LEMMA RoundedUp ==
    ASSUME NEW n \in Nat, NEW G \in Nat \ {0}
    PROVE  /\ LeastMultiple(n, G) \in Nat /\ LeastMultiple(n, G) >= n
           /\ \A m \in Nat : n <= G * m => LeastMultiple(n, G) <= G * m
  <1> DEFINE a == n + G - 1
             q == a \div G
             r == a % G
  <1>1. a \in Nat
    OBVIOUS
  <1>2. q \in Nat /\ r \in 0 .. G - 1 /\ a = G * q + r
    <2> HIDE DEF a
    <2>1. QED
      BY <1>1, Division
  <1>3. LeastMultiple(n, G) = G * q
    BY DEF LeastMultiple
  <1>4. n + G - 1 = G * q + r
    BY <1>2
  <1> HIDE DEF a, q, r
  <1>5. G * q \in Nat
    BY <1>2
  <1>6. G * q >= n /\ G * q < n + G
    BY <1>2, <1>4, <1>5
  <1>7. ASSUME NEW m \in Nat, n <= G * m PROVE G * q <= G * m
    <2>1. SUFFICES ASSUME q >= m + 1 PROVE FALSE
      <3>1. q <= m => G * q <= G * m
        BY <1>2
      <3>2. QED
        BY <1>2, <3>1
    <2>2. G * q >= G * (m + 1) /\ G * (m + 1) = G * m + G /\ G * m \in Nat
      BY <1>2, <2>1
    <2>3. QED
      BY <1>5, <1>6, <1>7, <2>2
  <1>8. QED
    BY <1>3, <1>5, <1>6, <1>7

\* Each vertex has its bit in the words that the loops go through.
LEMMA LenCovers ==
    /\ len \in Nat \ {0}
    /\ \A x \in 0 .. N - 1 : WordOf(x) \in WordsOf(len) /\ WordOf(x) \in 0 .. len - 1
  <1> DEFINE l == (N - 1) \div WordBits + 1
  <1>1. N - 1 \in Nat /\ N \in Nat /\ 0 .. N - 1 \subseteq Nat
    BY SomeVertices
  <1>2. (N - 1) \div WordBits \in Nat
    BY <1>1, BitConstants, Division
  <1>3. l \in Nat \ {0}
    BY <1>2
  <1>4. len = IF l % Group = 0 THEN l ELSE (l \div Group + 1) * Group
    BY DEF len, get_len_from_bit
  <1>5. l \div Group \in Nat /\ l % Group \in 0 .. Group - 1 /\ l = Group * (l \div Group) + (l % Group)
    <2> HIDE DEF l
    <2>1. QED
      BY <1>3, BitConstants, Division
  <1>6. \A x \in 0 .. N - 1 : WordOf(x) \in Nat /\ WordOf(x) <= l - 1
    <2> SUFFICES ASSUME NEW x \in 0 .. N - 1 PROVE WordOf(x) \in Nat /\ WordOf(x) <= l - 1
      OBVIOUS
    <2>1. x \in Nat /\ x <= N - 1
      BY <1>1
    <2>2. WordOf(x) \in Nat
      BY <2>1, BitPlace
    <2>3. x \div WordBits <= (N - 1) \div WordBits
      BY <1>1, <2>1, BitConstants, QuotientGrows
    <2>4. QED
      BY <1>2, <2>2, <2>3 DEF WordOf
  <1>7. len \in Nat /\ len >= l
    <2> DEFINE q == l \div Group
               r == l % Group
    <2>1. q \in Nat /\ r \in 0 .. Group - 1 /\ l = Group * q + r /\ len = (IF r = 0 THEN l ELSE (q + 1) * Group)
      BY <1>4, <1>5
    <2> HIDE DEF l, q, r
    <2>2. (q + 1) * Group = Group * q + Group /\ Group * q \in Nat
      BY <2>1, BitConstants
    <2>3. QED
      BY <1>3, <2>1, <2>2, BitConstants
  <1> HIDE DEF l
  <1>8. len \in Nat \ {0}
    BY <1>3, <1>7
  <1>9. Max({len, 1}) \in Nat /\ Max({len, 1}) >= len
    <2>1. \E m \in {len, 1} : \A i \in {len, 1} : m >= i
      BY <1>8
    <2>2. Max({len, 1}) \in {len, 1} /\ Max({len, 1}) >= len
      BY <2>1 DEF Max
    <2>3. QED
      BY <1>8, <2>2
  <1>10. LeastMultiple(Max({len, 1}), Group) \in Nat /\ LeastMultiple(Max({len, 1}), Group) >= len
    <2> DEFINE n == Max({len, 1})
    <2>1. n \in Nat /\ n >= len /\ Group \in Nat \ {0}
      BY <1>9, BitConstants
    <2> HIDE DEF n
    <2>2. LeastMultiple(n, Group) \in Nat /\ LeastMultiple(n, Group) >= n
      BY <2>1, RoundedUp
    <2>3. QED
      BY <1>8, <2>1, <2>2 DEF n
  <1>11. \A x \in 0 .. N - 1 : WordOf(x) \in WordsOf(len) /\ WordOf(x) \in 0 .. len - 1
    BY <1>3, <1>6, <1>7, <1>10 DEF WordsOf
  <1>12. QED
    BY <1>8, <1>11

\* The bits of b in the words of chunk c.
InChunk(b, l, c) == {x \in b : WordOf(x) \in WordsIn(c, l)}

\* A chunk has its own words and no others, and no more than Chunk.
LEMMA ChunkWords ==
    ASSUME NEW l \in Nat \ {0}, NEW w \in Nat
    PROVE  /\ \A c \in 0 .. (l - 1) \div Chunk : w \in WordsIn(c, l) => w \in c * Chunk .. (c + 1) * Chunk - 1
           /\ \A c \in 0 .. (l - 1) \div Chunk : w \in WordsIn(c, l) => w \div Chunk = c
           /\ w <= l - 1 => w \div Chunk \in 0 .. (l - 1) \div Chunk /\ w \in WordsIn(w \div Chunk, l)
  <1>1. Chunk \in Nat \ {0} /\ Group \in Nat \ {0} /\ l - 1 \in Nat
    BY BitConstants
  <1>2. (l - 1) \div Chunk \in Nat
    BY <1>1, Division
  <1>3. ASSUME NEW c \in Nat, NEW m \in Nat, m = Min({l, (c + 1) * Chunk})
        PROVE  /\ m \in {l, (c + 1) * Chunk} /\ m <= (c + 1) * Chunk
               /\ LeastMultiple(m, Group) \in Nat /\ LeastMultiple(m, Group) >= m
               /\ LeastMultiple(m, Group) <= (c + 1) * Chunk
               /\ WordsIn(c, l) = c * Chunk .. LeastMultiple(m, Group) - 1
    <2> DEFINE u == (c + 1) * Chunk
               g == Chunk \div Group
    <2>1. u \in Nat
      BY <1>1
    <2>2. g \in Nat /\ Chunk = Group * g
      BY BitConstants
    <2> HIDE DEF g
    <2>3. u = Group * ((c + 1) * g) /\ (c + 1) * g \in Nat
      BY <1>1, <2>2
    <2> HIDE DEF u
    <2>4. \E i \in {l, u} : \A j \in {l, u} : i <= j
      BY <2>1
    <2>5. Min({l, u}) \in {l, u} /\ Min({l, u}) <= u
      BY <2>4 DEF Min
    <2>6. m = Min({l, u})
      BY <1>3 DEF u
    <2>7. m \in {l, u} /\ m <= u
      BY <2>5, <2>6
    <2>8. LeastMultiple(m, Group) \in Nat /\ LeastMultiple(m, Group) >= m /\ LeastMultiple(m, Group) <= u
      BY <1>1, <2>3, <2>7, RoundedUp
    <2>9. WordsIn(c, l) = c * Chunk .. LeastMultiple(m, Group) - 1
      BY <2>6 DEF WordsIn, u
    <2>10. QED
      BY <2>7, <2>8, <2>9 DEF u
  <1>4. \A c \in Nat : Min({l, (c + 1) * Chunk}) \in Nat
    <2> SUFFICES ASSUME NEW c \in Nat PROVE Min({l, (c + 1) * Chunk}) \in Nat
      OBVIOUS
    <2> DEFINE u == (c + 1) * Chunk
    <2>1. u \in Nat
      BY <1>1
    <2> HIDE DEF u
    <2>2. \E i \in {l, u} : \A j \in {l, u} : i <= j
      BY <2>1
    <2>3. Min({l, u}) \in {l, u}
      BY <2>2 DEF Min
    <2>4. Min({l, u}) \in Nat
      BY <2>1, <2>3
    <2>5. QED
      BY <2>4 DEF u
  <1>5. ASSUME NEW c \in Nat, w \in WordsIn(c, l)
        PROVE  w \in c * Chunk .. (c + 1) * Chunk - 1 /\ w \div Chunk = c
    <2> DEFINE m == Min({l, (c + 1) * Chunk})
    <2>1. m \in Nat
      BY <1>4
    <2>2. LeastMultiple(m, Group) \in Nat /\ LeastMultiple(m, Group) <= (c + 1) * Chunk
          /\ WordsIn(c, l) = c * Chunk .. LeastMultiple(m, Group) - 1
      BY <1>3, <2>1
    <2> HIDE DEF m
    <2>3. (c + 1) * Chunk \in Nat /\ c * Chunk \in Nat
      BY <1>1
    <2>4. w \in c * Chunk .. (c + 1) * Chunk - 1
      BY <1>5, <2>2, <2>3
    <2>5. Chunk * c <= w /\ w < Chunk * (c + 1)
      BY <1>1, <2>3, <2>4
    <2>6. QED
      BY <1>1, <2>4, <2>5, Quotient
  <1>6. ASSUME w <= l - 1
        PROVE  w \div Chunk \in 0 .. (l - 1) \div Chunk /\ w \in WordsIn(w \div Chunk, l)
    <2> DEFINE c == w \div Chunk
               r == w % Chunk
    <2>1. c \in Nat /\ r \in 0 .. Chunk - 1 /\ w = Chunk * c + r
      BY <1>1, Division
    <2>2. c <= (l - 1) \div Chunk
      BY <1>1, <1>6, QuotientGrows
    <2> DEFINE m == Min({l, (c + 1) * Chunk})
    <2> HIDE DEF c, r
    <2>3. m \in Nat
      BY <1>4, <2>1
    <2>4. m \in {l, (c + 1) * Chunk} /\ LeastMultiple(m, Group) \in Nat /\ LeastMultiple(m, Group) >= m
          /\ WordsIn(c, l) = c * Chunk .. LeastMultiple(m, Group) - 1
      BY <1>3, <2>1, <2>3
    <2> HIDE DEF m
    <2>5. (c + 1) * Chunk = Chunk * c + Chunk /\ c * Chunk = Chunk * c /\ Chunk * c \in Nat
      BY <1>1, <2>1
    <2>6. c * Chunk <= w /\ w < m
      BY <1>1, <1>6, <2>1, <2>4, <2>5
    <2>7. w \in WordsIn(c, l)
      BY <2>3, <2>4, <2>5, <2>6
    <2>8. QED
      BY <1>2, <2>1, <2>2, <2>7 DEF c
  <1>7. \A c \in 0 .. (l - 1) \div Chunk : c \in Nat
    BY <1>2
  <1>8. QED
    BY <1>5, <1>6, <1>7

\* No byte of the register overflows.
LEMMA ByteHolds ==
    ASSUME NEW b \in SUBSET Nat, NEW l \in Nat \ {0}, NEW c \in 0 .. (l - 1) \div Chunk,
           NEW p \in 0 .. WordBits \div ByteBits - 1
    PROVE  /\ IsFiniteSet(BitsIn(b, l, c, p))
           /\ Cardinality(BitsIn(b, l, c, p)) \in Nat /\ Cardinality(BitsIn(b, l, c, p)) < ByteSize
  <1> DEFINE S == BitsIn(b, l, c, p)
             A == c * Chunk .. (c + 1) * Chunk - 1
             B == 0 .. ByteBits - 1
             f == [x \in S |-> <<WordOf(x), (x % WordBits) % ByteBits>>]
  <1>1. Chunk \in Nat \ {0} /\ ByteBits \in Nat \ {0} /\ ByteSize \in Nat \ {0} /\ Chunk * ByteBits < ByteSize
    BY BitConstants
  <1>2. c \in Nat
    <2>1. (l - 1) \div Chunk \in Nat
      BY <1>1, Division
    <2>2. QED
      BY <2>1
  <1>3. ASSUME NEW x \in S PROVE x \in Nat /\ WordOf(x) \in A /\ (x % WordBits) % ByteBits \in B /\ ByteOf(x) = p
    <2>1. x \in Nat /\ WordOf(x) \in WordsIn(c, l) /\ ByteOf(x) = p
      BY DEF BitsIn
    <2>2. WordOf(x) \in Nat /\ (x % WordBits) % ByteBits \in B
      BY <2>1, BitPlace
    <2>3. WordOf(x) \in A
      BY <2>1, <2>2, ChunkWords
    <2>4. QED
      BY <2>1, <2>2, <2>3
  <1>4. f \in Injection(S, A \X B)
    <2>1. f \in [S -> A \X B]
      <3> HIDE DEF S, A, B
      <3>1. QED
        BY <1>3
    <2>2. ASSUME NEW x \in S, NEW y \in S, f[x] = f[y] PROVE x = y
      <3>1. f[x] = <<WordOf(x), (x % WordBits) % ByteBits>> /\ f[y] = <<WordOf(y), (y % WordBits) % ByteBits>>
        OBVIOUS
      <3>2. WordOf(x) = WordOf(y) /\ (x % WordBits) % ByteBits = (y % WordBits) % ByteBits
        BY <2>2, <3>1
      <3>3. x \in Nat /\ y \in Nat /\ ByteOf(x) = ByteOf(y)
        BY <1>3
      <3>4. x = WordBits * WordOf(x) + (x % WordBits) /\ y = WordBits * WordOf(y) + (y % WordBits)
        BY <3>3, BitPlace
      <3>5. /\ x % WordBits = ByteBits * ByteOf(x) + ((x % WordBits) % ByteBits)
            /\ y % WordBits = ByteBits * ByteOf(y) + ((y % WordBits) % ByteBits)
        BY <3>3, BitPlace
      <3>6. x % WordBits = y % WordBits
        BY <3>2, <3>3, <3>5
      <3>7. QED
        BY <3>2, <3>4, <3>6
    <2> HIDE DEF f
    <2>3. QED
      BY <2>1, <2>2 DEF Injection, IsInjective
  <1>5. IsFiniteSet(A) /\ Cardinality(A) = Chunk /\ IsFiniteSet(B) /\ Cardinality(B) = ByteBits
    <2> DEFINE i == c * Chunk
               j == (c + 1) * Chunk - 1
    <2>1. j = i + Chunk - 1 /\ i \in Int
      BY <1>1, <1>2
    <2> HIDE DEF i, j
    <2>2. j \in Int
      BY <1>1, <2>1
    <2>3. IsFiniteSet(i .. j) /\ Cardinality(i .. j) = IF i > j THEN 0 ELSE j - i + 1
      BY <2>1, <2>2, FS_Interval
    <2>4. Cardinality(i .. j) = Chunk
      BY <1>1, <2>1, <2>2, <2>3
    <2>5. 0 \in Int /\ ByteBits - 1 \in Int
      BY <1>1
    <2>6. IsFiniteSet(B) /\ Cardinality(B) = IF 0 > ByteBits - 1 THEN 0 ELSE ByteBits - 1 - 0 + 1
      BY <2>5, FS_Interval
    <2>7. Cardinality(B) = ByteBits
      BY <1>1, <2>6
    <2>8. QED
      BY <2>3, <2>4, <2>6, <2>7 DEF i, j
  <1> HIDE DEF f, A, B, S
  <1>6. IsFiniteSet(A \X B) /\ Cardinality(A \X B) = Chunk * ByteBits
    BY <1>5, FS_Product
  <1>7. IsFiniteSet(S) /\ Cardinality(S) <= Cardinality(A \X B)
    BY <1>4, <1>6, FS_Injection
  <1>8. Cardinality(S) \in Nat
    BY <1>7, FS_CardinalityType
  <1>9. Chunk * ByteBits \in Nat
    BY <1>1
  <1>10. Cardinality(S) < ByteSize
    BY <1>1, <1>6, <1>7, <1>8, <1>9
  <1>11. QED
    BY <1>7, <1>8, <1>10 DEF S

\* The bytes of the register add up to the bits of the chunk.
LEMMA ChunkCount ==
    ASSUME NEW b \in SUBSET Nat, NEW l \in Nat \ {0}, NEW c \in 0 .. (l - 1) \div Chunk
    PROVE  /\ SumFunction(Register(b, l, c)) = Cardinality(InChunk(b, l, c))
           /\ IsFiniteSet(InChunk(b, l, c))
  <1> DEFINE S == 0 .. WordBits \div ByteBits - 1
             P == [p \in S |-> BitsIn(b, l, c, p)]
             F == [p \in S |-> Cardinality(P[p])]
  <1>1. IsFiniteSet(S)
    <2>1. WordBits \div ByteBits \in Nat
      BY BitConstants
    <2>2. 0 \in Int /\ WordBits \div ByteBits - 1 \in Int
      BY <2>1
    <2>3. QED
      BY <2>2, FS_Interval
  <1>2. \A p \in S : IsFiniteSet(BitsIn(b, l, c, p))
    BY ByteHolds
  <1>3. FiniteParts(P, S)
    <2> HIDE DEF S
    <2>1. QED
      BY <1>2 DEF FiniteParts
  <1>4. Apart(P)
    <2> HIDE DEF S
    <2>1. QED
      BY DEF Apart, BitsIn
  <1>5. Register(b, l, c) = F
    <2>1. ASSUME NEW p \in S PROVE Cardinality(BitsIn(b, l, c, p)) % ByteSize = Cardinality(P[p])
      <3>1. Cardinality(BitsIn(b, l, c, p)) \in Nat /\ Cardinality(BitsIn(b, l, c, p)) < ByteSize
        BY ByteHolds
      <3>2. \A i \in Nat : i < ByteSize => i % ByteSize = i
        BY BitConstants
      <3>3. P[p] = BitsIn(b, l, c, p)
        OBVIOUS
      <3> HIDE DEF P
      <3>4. QED
        BY <3>1, <3>2, <3>3
    <2> HIDE DEF P
    <2>2. QED
      BY <2>1 DEF Register
  <1>6. Parts(P, S) = InChunk(b, l, c)
    <2>1. \A x \in b : ByteOf(x) \in S
      BY BitPlace
    <2> HIDE DEF S
    <2>2. \A x \in b : \A p \in S : x \in P[p] <=> WordOf(x) \in WordsIn(c, l) /\ ByteOf(x) = p
      BY DEF BitsIn
    <2>3. \A p \in S : P[p] \subseteq b
      BY DEF BitsIn
    <2> HIDE DEF P
    <2>4. QED
      BY <2>1, <2>2, <2>3 DEF Parts, InChunk
  <1> HIDE DEF S, P
  <1>7. SumFunction(F) = Cardinality(Parts(P, S))
    BY <1>1, <1>3, <1>4, SumOfParts
  <1>8. IsFiniteSet(Parts(P, S))
    <2>1. S \in SUBSET S
      OBVIOUS
    <2>2. QED
      BY <1>1, <1>3, <2>1, PartsFinite
  <1>9. QED
    BY <1>5, <1>6, <1>7, <1>8

\* The count is the number of bits.
LEMMA CountIs ==
    ASSUME NEW b \in SUBSET (0 .. N - 1)
    PROVE  count(b, len) = Cardinality(b)
  <1> DEFINE S == 0 .. (len - 1) \div Chunk
             P == [c \in S |-> InChunk(b, len, c)]
             F == [c \in S |-> Cardinality(P[c])]
  <1>1. len \in Nat \ {0} /\ b \in SUBSET Nat
    BY LenCovers, SomeVertices
  <1>2. IsFiniteSet(S)
    <2>1. len - 1 \in Nat /\ Chunk \in Nat \ {0}
      BY <1>1, BitConstants
    <2>2. (len - 1) \div Chunk \in Nat
      BY <2>1, Division
    <2>3. 0 \in Int /\ (len - 1) \div Chunk \in Int
      BY <2>2
    <2>4. QED
      BY <2>3, FS_Interval
  <1>3. \A c \in S : IsFiniteSet(InChunk(b, len, c)) /\ SumFunction(Register(b, len, c)) = Cardinality(InChunk(b, len, c))
    BY <1>1, ChunkCount
  <1>4. \A x \in b : WordOf(x) \in Nat /\ WordOf(x) \div Chunk \in S /\ WordOf(x) \in WordsIn(WordOf(x) \div Chunk, len)
    <2> SUFFICES ASSUME NEW x \in b
                 PROVE  WordOf(x) \in Nat /\ WordOf(x) \div Chunk \in S /\ WordOf(x) \in WordsIn(WordOf(x) \div Chunk, len)
      OBVIOUS
    <2>1. WordOf(x) \in 0 .. len - 1
      BY LenCovers
    <2>2. WordOf(x) \in Nat /\ WordOf(x) <= len - 1
      BY <1>1, <2>1
    <2>3. QED
      BY <1>1, <2>2, ChunkWords
  <1>5. \A x \in b, c \in S : WordOf(x) \in WordsIn(c, len) => WordOf(x) \div Chunk = c
    BY <1>1, <1>4, ChunkWords
  <1>6. count(b, len) = SumFunction([c \in S |-> SumFunction(Register(b, len, c))])
    BY DEF count
  <1> HIDE DEF S
  <1>7. FiniteParts(P, S)
    BY <1>3 DEF FiniteParts
  <1>8. Apart(P)
    BY <1>5 DEF Apart, InChunk
  <1>9. Parts(P, S) = b
    <2>1. \A c \in S : P[c] = InChunk(b, len, c) /\ P[c] \subseteq b
      BY DEF InChunk
    <2>2. \A x \in b : x \in InChunk(b, len, WordOf(x) \div Chunk)
      BY <1>4 DEF InChunk
    <2> HIDE DEF P
    <2>3. \A x \in b : x \in P[WordOf(x) \div Chunk]
      BY <1>4, <2>1, <2>2
    <2>4. b \subseteq UNION {P[c] : c \in S}
      BY <1>4, <2>3
    <2>5. QED
      BY <2>1, <2>4 DEF Parts
  <1>10. [c \in S |-> SumFunction(Register(b, len, c))] = F
    <2>1. \A c \in S : P[c] = InChunk(b, len, c)
      OBVIOUS
    <2> HIDE DEF P
    <2>2. \A c \in S : SumFunction(Register(b, len, c)) = Cardinality(P[c])
      BY <1>3, <2>1
    <2>3. QED
      BY <2>2
  <1> HIDE DEF P
  <1>11. SumFunction(F) = Cardinality(Parts(P, S))
    BY <1>2, <1>7, <1>8, SumOfParts
  <1>12. QED
    BY <1>6, <1>9, <1>10, <1>11

\* The vertices of a set, numbered from 0.
LEMMA BitsOfAre ==
    ASSUME NEW S \in SUBSET Vertices
    PROVE  /\ BitsOf(S) \in SUBSET (0 .. N - 1)
           /\ BitsOf(S) = {v - 1 : v \in S}
           /\ \A v \in Vertices : v - 1 \in BitsOf(S) <=> v \in S
           /\ IsFiniteSet(S) /\ IsFiniteSet(BitsOf(S))
           /\ Cardinality(BitsOf(S)) = Cardinality(S)
           /\ count(BitsOf(S), len) = Cardinality(S)
  <1> DEFINE T == {v - 1 : v \in S}
             f == [v \in S |-> v - 1]
  <1>1. \A v \in S : v - 1 \in 0 .. N - 1
    BY SomeVertices DEF Vertices
  <1>2. T \in SUBSET (0 .. N - 1) /\ T \in SUBSET Nat
    BY <1>1
  <1>3. BitsOf(S) = T
    BY <1>2, BitsAre DEF BitsOf
  <1>4. \A v \in Vertices : v - 1 \in T <=> v \in S
    BY SomeVertices
  <1>5. IsFiniteSet(S)
    BY SomeVertices, FS_Subset
  <1>6. f \in Bijection(S, T)
    <2>1. f \in [S -> T]
      OBVIOUS
    <2>2. \A u, v \in S : f[u] = f[v] => u = v
      BY SomeVertices DEF Vertices
    <2>3. \A t \in T : \E v \in S : f[v] = t
      OBVIOUS
    <2> HIDE DEF f, T
    <2>4. QED
      BY <2>1, <2>2, <2>3 DEF Bijection, Injection, Surjection, IsInjective
  <1> HIDE DEF f, T
  <1>7. IsFiniteSet(T) /\ Cardinality(T) = Cardinality(S)
    <2>1. ExistsBijection(S, T)
      BY <1>6 DEF ExistsBijection
    <2>2. QED
      BY <1>5, <2>1, FS_Bijection
  <1>8. count(T, len) = Cardinality(T)
    BY <1>2, CountIs
  <1>9. QED
    BY <1>2, <1>3, <1>4, <1>5, <1>7, <1>8 DEF T

\* What or_arr and and_not_arr do to bits of vertices.
LEMMA ArraysAre ==
    ASSUME NEW a \in SUBSET (0 .. N - 1), NEW b \in SUBSET (0 .. N - 1)
    PROVE  or_arr(a, b, len) = a \cup b /\ and_not_arr(a, b, len) = a \ b
  <1>1. \A x \in b : WordOf(x) \in WordsOf(len)
    BY LenCovers
  <1>2. {x \in b : WordOf(x) \in WordsOf(len)} = b
    BY <1>1
  <1>3. QED
    BY <1>2 DEF or_arr, and_not_arr

\* The bits of the friends of v, whatever the order they are joined in.
Friendly(s, v) == UNION {s[u] : u \in Near(v)}

\* Bitsets of len words keep all vertices, so what or_arr and and_not_arr leave
\* is what the friends have and v has not.
LEMMA JoinedIs ==
    ASSUME Asked, NEW v \in Vertices, s_prev \in [Vertices -> SUBSET (0 .. N - 1)]
    PROVE  Joined(v) = Friendly(s_prev, v) \ s_prev[v]
  <1> DEFINE S == Near(v)
             R(h) == [s \in SUBSET S |->
                        IF s = {} THEN {}
                        ELSE or_arr(h[s \ {CHOOSE x \in s : TRUE}], s_prev[CHOOSE x \in s : TRUE], len)]
             c == CHOOSE h : h = R(h)
             W == [s \in SUBSET S |-> UNION {s_prev[u] : u \in s}]
  <1>1. S \subseteq Vertices /\ IsFiniteSet(S)
    BY FriendsAre, SomeVertices, FS_Subset
  <1>2. Joined(v) = and_not_arr(c[S], s_prev[v], len)
    BY DEF Joined, FoldSet, MapThenFoldSet
  <1> HIDE DEF S
  <1>3. \A s \in SUBSET S : W[s] \in SUBSET (0 .. N - 1)
    BY <1>1
  <1>4. ASSUME NEW s \in SUBSET S, s # {}, NEW x \in s
        PROVE  W[s] = or_arr(W[s \ {x}], s_prev[x], len)
    <2>1. s \ {x} \in SUBSET S /\ s_prev[x] \in SUBSET (0 .. N - 1)
      BY <1>1
    <2>2. W[s \ {x}] \in SUBSET (0 .. N - 1)
      BY <1>3, <2>1
    <2>3. W[s] = W[s \ {x}] \cup s_prev[x]
      BY <2>1
    <2> HIDE DEF W
    <2>4. QED
      BY <2>1, <2>2, <2>3, ArraysAre
  <1>5. ASSUME NEW s \in SUBSET S PROVE W[s] = R(W)[s]
    <2>1. CASE s = {}
      BY <2>1
    <2>2. CASE s # {}
      <3>1. (CHOOSE x \in s : TRUE) \in s
        BY <2>2
      <3> HIDE DEF W
      <3>2. QED
        BY <2>2, <3>1, <1>4
    <2>3. QED
      BY <2>1, <2>2
  <1>6. W = R(W)
    <2>1. W = [s \in SUBSET S |-> W[s]] /\ R(W) = [s \in SUBSET S |-> R(W)[s]]
      OBVIOUS
    <2> HIDE DEF W, R
    <2>2. QED
      BY <1>5, <2>1
  <1> HIDE DEF R
  <1>7. c = R(c)
    BY <1>6, Zenon
  <1> HIDE DEF c
  <1>8. \A s \in SUBSET S : c[s] = W[s]
    <2> DEFINE D == {s \in SUBSET S : c[s] # W[s]}
               C == {Cardinality(s) : s \in D}
    <2> SUFFICES ASSUME D # {} PROVE FALSE
      OBVIOUS
    <2>1. \A s \in SUBSET S : IsFiniteSet(s) /\ Cardinality(s) \in Nat
      BY <1>1, FS_Subset, FS_CardinalityType
    <2>2. C \in SUBSET Nat /\ C # {}
      BY <2>1
    <2>3. PICK n \in C : \A m \in C : n <= m
      BY <2>2, LeastNumber
    <2>4. PICK s \in D : Cardinality(s) = n
      BY <2>3
    <2>5. c[s] # W[s] /\ s \in SUBSET S
      BY <2>4
    <2>6. c[s] = R(c)[s] /\ W[s] = R(W)[s]
      BY <1>6, <1>7, Zenon
    <2>7. CASE s = {}
      BY <2>5, <2>6, <2>7 DEF R
    <2>8. CASE s # {}
      <3> DEFINE x == CHOOSE x \in s : TRUE
      <3>1. x \in s
        BY <2>8
      <3>2. R(c)[s] = or_arr(c[s \ {x}], s_prev[x], len) /\ R(W)[s] = or_arr(W[s \ {x}], s_prev[x], len)
        BY <2>5, <2>8 DEF R
      <3> HIDE DEF x
      <3>3. Cardinality(s \ {x}) = Cardinality(s) - 1 /\ s \ {x} \in SUBSET S
        BY <2>1, <2>5, <3>1, FS_RemoveElement
      <3>4. Cardinality(s) \in Nat /\ Cardinality(s \ {x}) < n
        BY <2>1, <2>4, <2>5, <3>3
      <3>5. s \ {x} \notin D
        <4> HIDE DEF D
        <4>1. \A r \in D : n <= Cardinality(r)
          BY <2>3
        <4>2. Cardinality(s \ {x}) \in Nat /\ n \in Nat
          BY <2>1, <2>2, <2>3, <3>3
        <4>3. QED
          BY <3>4, <4>1, <4>2
      <3>6. c[s \ {x}] = W[s \ {x}]
        BY <3>3, <3>5
      <3>7. QED
        BY <2>5, <2>6, <3>2, <3>6
    <2>9. QED
      BY <2>7, <2>8
  <1>9. S \in SUBSET S /\ s_prev[v] \in SUBSET (0 .. N - 1)
    OBVIOUS
  <1>10. c[S] = W[S] /\ W[S] \in SUBSET (0 .. N - 1)
    BY <1>3, <1>8, <1>9
  <1>11. W[S] = Friendly(s_prev, v)
    BY <1>9 DEF Friendly, S
  <1> HIDE DEF W
  <1>12. QED
    BY <1>2, <1>9, <1>10, <1>11, ArraysAre

-----------------------------------------------------------------------------
(* Bitsets of the friends joined.                                          *)

\* The balls of the friends, without that of v, are the next ring.
LEMMA JoinBalls ==
    ASSUME Asked, NEW v \in Vertices, NEW n \in Nat,
           s_prev = [u \in Vertices |-> BitsOf(Ball(u, n))]
    PROVE  /\ Joined(v) = BitsOf(Ring(v, n + 1)) /\ count(Joined(v), len) = Cardinality(Ring(v, n + 1))
           /\ or_arr(Joined(v), s_prev[v], len) = BitsOf(Ball(v, n + 1))
  <1>1. \A u \in Vertices : Ball(u, n) \in SUBSET Vertices
    BY BallInit
  <1>2. s_prev \in [Vertices -> SUBSET (0 .. N - 1)]
    BY <1>1, BitsOfAre
  <1>3. Joined(v) = Friendly(s_prev, v) \ s_prev[v]
    BY <1>2, JoinedIs
  <1>4. Ring(v, n + 1) = Ball(v, n + 1) \ Ball(v, n) /\ Near(v) \subseteq Vertices
        /\ Ball(v, n + 1) \in SUBSET Vertices /\ Ball(v, n) \subseteq Ball(v, n + 1)
    <2>1. Ring(v, n + 1) = Ball(v, n + 1) \ Ball(v, n)
      BY RingSize
    <2>2. Near(v) \subseteq Vertices
      BY FriendsAre
    <2>3. n + 1 \in Nat
      OBVIOUS
    <2>4. Ball(v, n + 1) \in SUBSET Vertices
      BY <2>3, BallInit
    <2>5. Ball(v, n) \subseteq Ball(v, n + 1)
      BY BallStep
    <2>6. QED
      BY <2>1, <2>2, <2>4, <2>5
  <1>5. \A u \in Vertices : s_prev[u] = {x - 1 : x \in Ball(u, n)}
    <2>1. \A u \in Vertices : BitsOf(Ball(u, n)) = {x - 1 : x \in Ball(u, n)}
      BY <1>1, BitsOfAre
    <2>2. QED
      BY <2>1
  <1>6. \A u \in Vertices, x \in Vertices : x - 1 \in s_prev[u] <=> x \in Ball(u, n)
    <2>1. \A u \in Vertices, x \in Vertices : x - 1 \in BitsOf(Ball(u, n)) <=> x \in Ball(u, n)
      BY <1>1, BitsOfAre
    <2>2. \A u \in Vertices : s_prev[u] = BitsOf(Ball(u, n))
      OBVIOUS
    <2>3. QED
      BY <2>1, <2>2
  <1>7. BitsOf(Ring(v, n + 1)) = {x - 1 : x \in Ring(v, n + 1)}
    BY <1>4, BitsOfAre
  <1>8. \A x \in Vertices : x \in Ball(v, n + 1) <=> x \in Ball(v, n) \/ \E u \in Near(v) : x \in Ball(u, n)
    BY BallFirst
  <1>9. Joined(v) \subseteq BitsOf(Ring(v, n + 1))
    <2> SUFFICES ASSUME NEW y \in Friendly(s_prev, v), y \notin s_prev[v] PROVE y \in BitsOf(Ring(v, n + 1))
      BY <1>3
    <2>1. PICK u \in Near(v) : y \in s_prev[u]
      BY DEF Friendly
    <2>2. PICK x \in Ball(u, n) : y = x - 1
      BY <1>4, <1>5, <2>1
    <2>3. x \in Vertices /\ x \notin Ball(v, n)
      BY <1>1, <1>4, <1>6, <2>2
    <2>4. x \in Ring(v, n + 1)
      BY <1>4, <1>8, <2>1, <2>2, <2>3
    <2>5. QED
      BY <1>7, <2>2, <2>4
  <1>10. BitsOf(Ring(v, n + 1)) \subseteq Joined(v)
    <2> SUFFICES ASSUME NEW y \in BitsOf(Ring(v, n + 1)) PROVE y \in Friendly(s_prev, v) /\ y \notin s_prev[v]
      BY <1>3
    <2>1. PICK x \in Ring(v, n + 1) : y = x - 1
      BY <1>7
    <2>2. x \in Vertices /\ x \notin Ball(v, n) /\ x \in Ball(v, n + 1)
      BY <1>4
    <2>3. PICK u \in Near(v) : x \in Ball(u, n)
      BY <1>8, <2>2
    <2>4. y \in s_prev[u] /\ y \notin s_prev[v]
      BY <1>4, <1>6, <2>1, <2>2, <2>3
    <2>5. QED
      BY <2>4 DEF Friendly
  <1>11. Joined(v) = BitsOf(Ring(v, n + 1))
    BY <1>9, <1>10
  <1>12. Ring(v, n + 1) \in SUBSET Vertices
    BY <1>4
  <1>13. count(BitsOf(Ring(v, n + 1)), len) = Cardinality(Ring(v, n + 1))
    BY <1>12, BitsOfAre
  <1>14. or_arr(Joined(v), s_prev[v], len) = Joined(v) \cup s_prev[v]
    <2>1. Joined(v) \in SUBSET (0 .. N - 1) /\ s_prev[v] \in SUBSET (0 .. N - 1)
      BY <1>2, <1>11, <1>12, BitsOfAre
    <2>2. QED
      BY <2>1, ArraysAre
  <1>15. BitsOf(Ball(v, n + 1)) = {x - 1 : x \in Ball(v, n + 1)}
    BY <1>4, BitsOfAre
  <1>16. Joined(v) \cup s_prev[v] = BitsOf(Ball(v, n + 1))
    BY <1>4, <1>5, <1>7, <1>11, <1>15
  <1>17. QED
    BY <1>11, <1>13, <1>14, <1>16

\* The rings of the friends at distance 3: the vertices at distance 4 are among
\* them, and else only some at distance 2.
LEMMA JoinRings ==
    ASSUME Asked, NEW v \in Vertices, s_prev = [u \in Vertices |-> BitsOf(Ring(u, 3))]
    PROVE  /\ count(Joined(v), len) \in Nat
           /\ Cardinality(Ring(v, 4)) <= count(Joined(v), len)
           /\ count(Joined(v), len) <= Cardinality(Ring(v, 2)) + Cardinality(Ring(v, 4))
  <1> DEFINE J == {x \in Vertices : (\E u \in Near(v) : x \in Ring(u, 3)) /\ x \notin Ring(v, 3)}
  <1>0. 1 \in Nat /\ 2 \in Nat /\ 3 \in Nat /\ 4 \in Nat /\ 1 + 1 = 2 /\ 2 + 1 = 3 /\ 3 + 1 = 4
        /\ 1 + 3 = 4 /\ 1 + 1 = 2 /\ 0 \in Nat /\ 0 + 1 = 1
    OBVIOUS
  <1>1. \A u \in Vertices : /\ Ring(u, 3) = Ball(u, 3) \ Ball(u, 2) /\ Ring(u, 4) = Ball(u, 4) \ Ball(u, 3)
                            /\ Ring(u, 2) = Ball(u, 2) \ Ball(u, 1)
                            /\ Ball(u, 3) \in SUBSET Vertices /\ Ball(u, 4) \in SUBSET Vertices
                            /\ Ball(u, 2) \in SUBSET Vertices
    <2> SUFFICES ASSUME NEW u \in Vertices
                 PROVE  /\ Ring(u, 3) = Ball(u, 3) \ Ball(u, 2) /\ Ring(u, 4) = Ball(u, 4) \ Ball(u, 3)
                        /\ Ring(u, 2) = Ball(u, 2) \ Ball(u, 1)
                        /\ Ball(u, 3) \in SUBSET Vertices /\ Ball(u, 4) \in SUBSET Vertices
                        /\ Ball(u, 2) \in SUBSET Vertices
      OBVIOUS
    <2>1. Ring(u, 2 + 1) = Ball(u, 2 + 1) \ Ball(u, 2)
      BY <1>0, RingSize
    <2>2. Ring(u, 3 + 1) = Ball(u, 3 + 1) \ Ball(u, 3)
      BY <1>0, RingSize
    <2>3. Ring(u, 1 + 1) = Ball(u, 1 + 1) \ Ball(u, 1)
      BY <1>0, RingSize
    <2>4. Ball(u, 3) \in SUBSET Vertices /\ Ball(u, 4) \in SUBSET Vertices /\ Ball(u, 2) \in SUBSET Vertices
      BY <1>0, BallInit
    <2>5. QED
      BY <1>0, <2>1, <2>2, <2>3, <2>4
  <1>2. Near(v) \subseteq Vertices
    BY FriendsAre
  <1>3. s_prev \in [Vertices -> SUBSET (0 .. N - 1)]
    <2>1. \A u \in Vertices : Ring(u, 3) \in SUBSET Vertices
      BY <1>1
    <2>2. \A u \in Vertices : BitsOf(Ring(u, 3)) \in SUBSET (0 .. N - 1)
      BY <2>1, BitsOfAre
    <2>3. QED
      BY <2>2
  <1>4. Joined(v) = Friendly(s_prev, v) \ s_prev[v]
    BY <1>3, JoinedIs
  <1>5. J \in SUBSET Vertices
    BY <1>1, <1>2
  <1>20. \A x \in Vertices : x \in J <=> (\E u \in Near(v) : x \in Ring(u, 3)) /\ x \notin Ring(v, 3)
    OBVIOUS
  <1> HIDE DEF J
  <1>6. \A u \in Vertices : s_prev[u] = {x - 1 : x \in Ring(u, 3)}
    <2>1. \A u \in Vertices : Ring(u, 3) \in SUBSET Vertices
      BY <1>1
    <2>2. \A u \in Vertices : BitsOf(Ring(u, 3)) = {x - 1 : x \in Ring(u, 3)}
      BY <2>1, BitsOfAre
    <2>3. QED
      BY <2>2
  <1>7. \A u \in Vertices : \A x \in Vertices : x - 1 \in s_prev[u] <=> x \in Ring(u, 3)
    <2> SUFFICES ASSUME NEW u \in Vertices PROVE \A x \in Vertices : x - 1 \in s_prev[u] <=> x \in Ring(u, 3)
      OBVIOUS
    <2>1. Ring(u, 3) \in SUBSET Vertices
      BY <1>1
    <2>2. \A x \in Vertices : x - 1 \in BitsOf(Ring(u, 3)) <=> x \in Ring(u, 3)
      BY <2>1, BitsOfAre
    <2>3. s_prev[u] = BitsOf(Ring(u, 3))
      OBVIOUS
    <2>4. QED
      BY <2>2, <2>3
  <1>8. Joined(v) = {x - 1 : x \in J}
    <2>1. ASSUME NEW y \in Joined(v) PROVE y \in {x - 1 : x \in J}
      <3>1. y \in Friendly(s_prev, v) /\ y \notin s_prev[v]
        BY <1>4
      <3>2. PICK u \in Near(v) : y \in s_prev[u]
        BY <3>1 DEF Friendly
      <3>3. PICK x \in Ring(u, 3) : y = x - 1
        BY <1>2, <1>6, <3>2
      <3>4. x \in Vertices
        BY <1>1, <1>2, <3>3
      <3>5. x \notin Ring(v, 3)
        BY <1>7, <3>1, <3>3, <3>4
      <3>6. x \in J
        BY <1>20, <3>2, <3>3, <3>4, <3>5
      <3>7. QED
        BY <3>3, <3>6
    <2>2. ASSUME NEW x \in J PROVE x - 1 \in Joined(v)
      <3>1. PICK u \in Near(v) : x \in Ring(u, 3)
        BY <1>5, <1>20
      <3>2. x \in Vertices /\ x \notin Ring(v, 3)
        BY <1>5, <1>20
      <3>3. x - 1 \in s_prev[u] /\ x - 1 \notin s_prev[v]
        BY <1>2, <1>7, <3>1, <3>2
      <3>4. QED
        BY <1>4, <3>1, <3>3 DEF Friendly
    <2>3. QED
      BY <2>1, <2>2
  <1>9. Joined(v) = BitsOf(J) /\ count(BitsOf(J), len) = Cardinality(J) /\ IsFiniteSet(J)
    <2>1. BitsOf(J) = {x - 1 : x \in J} /\ count(BitsOf(J), len) = Cardinality(J) /\ IsFiniteSet(J)
      BY <1>5, BitsOfAre
    <2>2. QED
      BY <1>8, <2>1
  <1>10. Ring(v, 4) \subseteq J
    <2> SUFFICES ASSUME NEW w \in Ring(v, 4) PROVE w \in J
      OBVIOUS
    <2>1. w \in Vertices /\ w \in Ball(v, 4) /\ w \notin Ball(v, 3)
      BY <1>1
    <2>2. \E x \in Near(v) : w \in Ball(x, 3)
      BY <1>0, <2>1, BallFirst
    <2>3. PICK x \in Near(v) : w \in Ball(x, 3)
      BY <2>2
    <2>4. w \notin Ball(x, 2)
      BY <1>0, <2>1, BallFirst
    <2>5. w \in Ring(x, 3) /\ w \notin Ring(v, 3)
      BY <1>1, <1>2, <2>1, <2>3, <2>4
    <2>6. QED
      BY <1>20, <2>1, <2>5
  <1>11. J \subseteq Ring(v, 2) \cup Ring(v, 4)
    <2> SUFFICES ASSUME NEW w \in J PROVE w \in Ring(v, 2) \cup Ring(v, 4)
      OBVIOUS
    <2>1. PICK u \in Near(v) : w \in Ring(u, 3)
      BY <1>5, <1>20
    <2>2. w \in Vertices /\ w \notin Ring(v, 3) /\ u \in Vertices
      BY <1>2, <1>5, <1>20
    <2>3. w \in Ball(u, 3) /\ w \notin Ball(u, 2)
      BY <1>1, <2>1, <2>2
    <2>4. w \in Ball(v, 4)
      BY <1>0, <2>2, <2>3, BallFirst
    <2>5. v \in Near(u)
      BY <2>1, <2>2, FriendsAre
    <2>6. w \notin Ball(v, 1)
      <3>1. w \in Ball(v, 1) => w \in Ball(u, 1 + 1)
        BY <1>0, <2>2, <2>5, BallFirst
      <3>2. QED
        BY <1>0, <2>3, <3>1
    <2>7. QED
      BY <1>1, <2>2, <2>4, <2>6
  <1>12. /\ IsFiniteSet(Ring(v, 2)) /\ IsFiniteSet(Ring(v, 4))
         /\ Cardinality(Ring(v, 2)) \in Nat /\ Cardinality(Ring(v, 4)) \in Nat
    <2>1. Ring(v, 2) \in SUBSET Vertices /\ Ring(v, 4) \in SUBSET Vertices
      BY <1>1
    <2>2. QED
      BY <2>1, SomeVertices, FS_Subset, FS_CardinalityType
  <1>13. Ring(v, 2) \cap Ring(v, 4) = {}
    <2>1. Ball(v, 2) \subseteq Ball(v, 3)
      BY <1>0, BallStep
    <2>2. QED
      BY <1>1, <2>1
  <1>14. /\ Cardinality(Ring(v, 2) \cup Ring(v, 4)) =
               Cardinality(Ring(v, 2)) + Cardinality(Ring(v, 4)) - Cardinality(Ring(v, 2) \cap Ring(v, 4))
         /\ IsFiniteSet(Ring(v, 2) \cup Ring(v, 4))
    BY <1>12, FS_Union
  <1>15. Cardinality(Ring(v, 2) \cup Ring(v, 4)) = Cardinality(Ring(v, 2)) + Cardinality(Ring(v, 4))
    BY <1>12, <1>13, <1>14, FS_EmptySet
  <1>16. Cardinality(J) <= Cardinality(Ring(v, 2) \cup Ring(v, 4))
    BY <1>11, <1>14, FS_Subset
  <1>17. Cardinality(Ring(v, 4)) <= Cardinality(J)
    BY <1>9, <1>10, FS_Subset
  <1>18. Cardinality(J) \in Nat
    BY <1>9, FS_CardinalityType
  <1>19. QED
    BY <1>9, <1>15, <1>16, <1>17, <1>18

-----------------------------------------------------------------------------
(* The inductive invariant, phase by phase.                                *)

\* The methods of the HybridEstimator, and those whose searches share their work.
HybridMethods == {"bfs_2_dp_1", "bfs_3_dp_1", "bfs_depth", "bfs_2_dp_more"}
SharedMethods == {"delta", "schedule", "sse"}

\* Whether vertices may be given up, or taken by their recorded sums.
MayGiveUp == method \in HybridMethods /\ query.estimating

\* compute_degree has given every vertex the size of its component.
Counted == degree = [v \in Vertices |-> Size(v)]

\* The vertices the HybridEstimator does not have to bound.
Aside == calculated \cup given_up

\* A bound that lies between the number of other vertices and the sum; and one
\* that may be given up instead.
Between(v, r) == r \in Nat /\ Size(v) - 1 <= r /\ r <= get_exact_s(v)
Fine(v, r) == Between(v, r) \/ (MayGiveUp /\ r \in Nat /\ r >= GivenUp)

\* The sum that counts for v.
SumOf(v) == IF sampled[v] > 0 THEN exact[v] ELSE get_exact_s(v)

\* Nothing is chosen.
Plain ==
    /\ noneed = [v \in Vertices |-> FALSE] /\ sum_bound = GivenUp
    /\ sampled = [v \in Vertices |-> 0]
    /\ calculated = {} /\ given_up = {}

\* The vertices with recorded sums that are not small.
LargeKnown == {v \in calculated : exact[v] >= SmallSum}

\* The sum r of a search that counts its source again.
SampleSum(v, r) ==
    /\ r \in Nat /\ get_exact_s(v) <= r
    /\ r <= (Size(v) - 1) * (Size(v) - 1) + 2
    /\ Size(v) = 1 => r = 0

\* What exact_s holds of v: for a sample, a sum that its own search found.
Recorded(v) ==
    /\ SampleSum(v, exact[v])
    /\ sampled[v] = 0 => exact[v] = get_exact_s(v)

\* The samples and the 2k vertices with sums that are not small are known.
Narrowed ==
    /\ sampled \in [Vertices -> Nat]
    /\ Samples \subseteq calculated /\ calculated \subseteq Vertices
    /\ \A v \in calculated : Recorded(v)
    /\ Cardinality(LargeKnown) >= 2 * k

\* noneed leaves out only what is calculated or given up.
Needed == \A v \in Vertices \ Aside : ~ noneed[v]

\* Only calculated vertices have sums before the heap; and nothing is popped.
Unknown == exact \in [Vertices -> Int] /\ \A v \in Vertices \ calculated : exact[v] = -1
Unpopped == last = <<0, -1>> /\ ans = <<>>

\* What is known of the samples when the estimators begin.
Chosen == (IF MayGiveUp THEN Narrowed ELSE Plain) /\ Unknown

\* What the method finds, in the phases after degree.
AtDegree ==
    /\ next \in 1 .. N
    /\ degree \in [Vertices -> Int]
    /\ \A v \in Vertices : degree[v] \in {-1, Size(v)}
    /\ \A v \in Vertices : v < next => degree[v] = Size(v)
    /\ result \in [Vertices -> Int]
    /\ Plain /\ Unknown /\ is_done = {} /\ Unpopped

\* The branch use_estimate: before the samples, before their searches, and
\* when every sample has the sum of its search.
AtSample == MayGiveUp /\ Counted /\ Plain /\ Unpopped
AtApproximate == MayGiveUp /\ Counted /\ sampled \in [Vertices -> Nat] /\ Unpopped
AtNarrow ==
    /\ MayGiveUp /\ Counted /\ sampled \in [Vertices -> Nat] /\ Unpopped
    /\ approx_result \in [Vertices -> Nat]
    /\ \A v \in Samples : SampleSum(v, approx_result[v])

\* What holds from the first estimator to the heap.
Begun == Counted /\ Chosen /\ Unpopped

\* Before the searches of depth 2 or 3.
AtNear == Begun /\ method \in HybridMethods /\ Needed

\* The first n levels are found, of those that are not set aside.
FoundTo(n) ==
    \A v \in Vertices \ Aside :
       IF noneed[v] THEN MayGiveUp /\ result[v] \in Nat /\ result[v] >= GivenUp
                    ELSE result[v] = SumWithin(v, n)
Hybrid(n) ==
    /\ depth_max = n + 1
    /\ left = [v \in Vertices |-> Size(v) - Cardinality(Ball(v, n))]
    /\ FoundTo(n)

\* The bitsets hold the balls searched; before the union that finds the fourth
\* level they hold the third.
AtUnion ==
    /\ Begun /\ method \in HybridMethods \ {"bfs_depth"}
    /\ \E n \in {2, 3} :
          /\ method # "bfs_3_dp_1" => n = 2
          /\ s_prev = [v \in Vertices |-> BitsOf(Ball(v, n))]
          /\ Hybrid(n)
AtUnion4 ==
    /\ Begun /\ method = "bfs_2_dp_more"
    /\ s_prev = [v \in Vertices |-> BitsOf(Ring(v, 3))]
    /\ Hybrid(3)

\* query4_v2.cc, before its searches.
AtV2 == Begun /\ method = "v2"

\* query4_v3.cc, with its depth not yet, and with it known.
Other == Begun /\ method \in SharedMethods \cup {"limit"} /\ result \in [Vertices -> Int]
Deep == depth_max \in Nat /\ depth_max >= 2

\* Before the diameter, before the searches of each vertex, and before and
\* between the rounds of SSEUnionSetEstimator.
AtDiameter == Other /\ next = 1 /\ is_done = {}
AtLimit == Other /\ Deep /\ method = "limit"
AtSse == Other /\ Deep /\ method = "sse" /\ next = 1
AtLevel ==
    /\ Other /\ Deep /\ method = "sse"
    /\ next \in 1 .. depth_max
    /\ s_prev = [v \in Vertices |-> BitsOf(Ball(v, next))]
    /\ result = [v \in Vertices |-> SumWithin(v, next)]
    /\ left = [v \in Vertices |-> Size(v) - Cardinality(Ball(v, next))]

\* d has the distances from w as far as depth_max, from b on.
Distances(d, w, b) ==
    /\ d \in [Vertices -> Int]
    /\ \A u \in Vertices, n \in 0 .. depth_max : u \in Ring(w, n) => d[u] = b + n
    /\ \A u \in Vertices \ Ball(w, depth_max) : d[u] > b + depth_max

\* DeltaEstimator and Q4Scheduler: the vertices done have the sums that searches
\* of their own find; walked from, a vertex has its distances in dist.
Searched ==
    /\ Other /\ Deep /\ is_done \subseteq Vertices
    /\ \A v \in is_done : result[v] = LimitOf(v, depth_max)
AtDelta ==
    /\ Searched /\ method = "delta" /\ next \in 1 .. N
    /\ \A v \in Vertices : v < next => v \in is_done
AtWalk ==
    /\ AtDelta
    /\ base \in Int /\ Len(path) = 1 /\ path[1].vtx \in Vertices
    /\ Distances(dist, path[1].vtx, base)
AtSchedule == Searched /\ method = "schedule" /\ is_done = {}

\* The distances before each of the searches of path.
Taken(p, d) == [v \in Vertices |-> IF v \in DOMAIN p.undo THEN p.undo[v] ELSE d[v]]

\* What each search of the tree wrote over; ds[i] is what dist was when the i-th
\* of path had been searched, and undo takes it back to the one before.
Undos == UNION {[S -> Int] : S \in SUBSET Vertices}
Stack(ds) ==
    /\ path \in Seq([vtx : Vertices, undo : Undos])
    /\ ds \in Seq([Vertices -> Int]) /\ Len(ds) = Len(path)
    /\ path # <<>> => ds[Len(path)] = dist
    /\ \A i \in 1 .. Len(path) :
          /\ path[i].vtx \in is_done
          /\ Distances(ds[i], path[i].vtx, base + Len(path) - i)
          /\ i > 1 => ds[i - 1] = Taken(path[i], ds[i])

\* The tree that the scheduler walks: whoever has been left has passed on to all
\* of its friends one level further from the first vertex.
OnPath == {path[i].vtx : i \in 1 .. Len(path)}
OneFurther(v) == {u \in Near(v) : \E n \in 1 .. N : u \in Ring(1, n) /\ v \in Ring(1, n - 1)}
AtTree ==
    /\ Searched /\ method = "schedule" /\ 1 \in is_done
    /\ base \in Int
    /\ \E ds : Stack(ds)
    /\ \A v \in is_done \ OnPath : OneFurther(v) \subseteq is_done

\* Every vertex needed has a bound.
AtEstimated ==
    /\ Begun
    /\ \A v \in Vertices \ Aside : Fine(v, result[v])
    /\ method \in SharedMethods => result = [v \in Vertices |-> LimitOf(v, depth_max)]
    /\ DOMAIN result = Vertices

\* What is in the heap for v: its sum, or the bound while it has none.
InHeap(v) ==
    \/ heap[v] = SumOf(v)
    \/ heap[v] = result[v] /\ exact[v] = -1 /\ Fine(v, result[v])

\* Nothing in the heap is more central than what was popped last; and what has
\* been answered comes before all that has not been answered then.
NoneBefore == \A v \in DOMAIN heap : last[1] # 0 => ~ MoreCentral(v, heap[v], last[1], last[2])
InOrder ==
    \A i \in 1 .. Len(ans) :
       \A v \in {u \in Vertices : result[u] < GivenUp} \ {ans[j] : j \in 1 .. i} :
          Precedes(ans[i], SumOf(ans[i]), v, SumOf(v))

\* The heap: every vertex is in it or answered, and what was popped and put
\* back went back with its sum.
AtHeap ==
    /\ Counted
    /\ IF MayGiveUp THEN Narrowed ELSE Plain
    /\ exact \in [Vertices -> Int]
    /\ \A v \in Vertices : v \notin calculated => exact[v] \in {-1, get_exact_s(v)}
    /\ method \in SharedMethods => result = [v \in Vertices |-> LimitOf(v, depth_max)]
    /\ DOMAIN heap \subseteq Vertices
    /\ \A v \in DOMAIN heap : InHeap(v)
    /\ ans \in Seq(Vertices) /\ Len(ans) <= k
    /\ pc = "heap" => Len(ans) < k
    /\ \A v \in Vertices : v \in DOMAIN heap \/ \E i \in 1 .. Len(ans) : ans[i] = v
    /\ last[1] \in DOMAIN heap => heap[last[1]] = SumOf(last[1])
    /\ last[1] # 0 => last[1] \in Vertices /\ last[2] \in Nat
    /\ NoneBefore /\ InOrder

\* The inductive invariant: what holds in each phase of the call.
Query4Inv ==
    /\ Asked /\ Answerable
    /\ pc = "degree" => AtDegree
    /\ pc = "sample" => AtSample
    /\ pc = "approximate" => AtApproximate
    /\ pc = "narrow" => AtNarrow
    /\ pc = "near" => AtNear
    /\ pc = "union" => AtUnion
    /\ pc = "union4" => AtUnion4
    /\ pc = "v2" => AtV2
    /\ pc = "diameter" => AtDiameter
    /\ pc = "limit" => AtLimit
    /\ pc = "sse" => AtSse
    /\ pc = "level" => AtLevel
    /\ pc = "delta" => AtDelta
    /\ pc = "walk" => AtWalk
    /\ pc = "schedule" => AtSchedule
    /\ pc = "tree" => AtTree
    /\ pc = "estimated" => AtEstimated
    /\ pc \in {"heap", "done"} => AtHeap

-----------------------------------------------------------------------------
(* Steps: what does not change.                                            *)

\* The graph of the call, and the call, stay the same.
Same ==
    /\ \A v : Size(v)' = Size(v) /\ get_exact_s(v)' = get_exact_s(v) /\ Near(v)' = Near(v)
    /\ \A v, n : Ball(v, n)' = Ball(v, n) /\ Ring(v, n)' = Ring(v, n)
    /\ \A v, n : SumWithin(v, n)' = SumWithin(v, n) /\ LimitOf(v, n)' = LimitOf(v, n)
    /\ k' = k /\ method' = method /\ friends' = friends

\* The distances are those of the query, so they stay when it does.
LEMMA GraphStays ==
    ASSUME query' = query
    PROVE  Same
  <1>1. k' = k /\ method' = method /\ friends' = friends
    BY DEF k, method, friends
  <1>2. \A v, n : Ball(v, n)' = Ball(v, n)
    BY DEF Ball, friends
  <1>3. \A v : Size(v)' = Size(v)
    BY <1>2 DEF Size
  <1>4. \A v, n : Ring(v, n)' = Ring(v, n)
    BY <1>2 DEF Ring
  <1>5. \A v, n : SumWithin(v, n)' = SumWithin(v, n)
    BY DEF SumWithin, friends
  <1>6. \A v : get_exact_s(v)' = get_exact_s(v)
    BY <1>5 DEF get_exact_s
  <1>7. \A v : Near(v)' = Near(v)
    BY DEF Near, friends
  <1>8. \A v, n : LimitOf(v, n)' = LimitOf(v, n)
    BY <1>2, <1>3, <1>5 DEF LimitOf
  <1>9. QED
    BY <1>1, <1>2, <1>3, <1>4, <1>5, <1>6, <1>7, <1>8 DEF Same

\* The call stays answerable, and whether it gives up.
LEMMA CallStays ==
    ASSUME Asked, Answerable, query' = query
    PROVE  Asked' /\ Answerable' /\ Same /\ (MayGiveUp' <=> MayGiveUp)
  <1>1. Same
    BY GraphStays
  <1>2. Asked'
    BY DEF Asked
  <1>3. {v \in Vertices : get_exact_s(v) >= SmallSum}' = {v \in Vertices : get_exact_s(v) >= SmallSum}
    BY <1>1 DEF Same
  <1>4. Answerable'
    <2>1. method' = method /\ k' = k /\ Ball(1, N - 2)' = Ball(1, N - 2)
      BY <1>1 DEF Same
    <2>2. QED
      BY <1>3, <2>1 DEF Answerable
  <1>5. MayGiveUp' <=> MayGiveUp
    BY <1>1 DEF MayGiveUp, Same
  <1>6. QED
    BY <1>1, <1>2, <1>4, <1>5

\* The recorded sums stay right as long as they are not written.
LEMMA NarrowedStays ==
    ASSUME Same, Narrowed, UNCHANGED choice
    PROVE  Narrowed'
  <1>1. sampled' = sampled /\ calculated' = calculated /\ given_up' = given_up /\ exact' = exact
    BY DEF choice
  <1>2. Samples' = Samples
    BY <1>1 DEF Samples
  <1>3. LargeKnown' = LargeKnown
    BY <1>1 DEF LargeKnown
  <1>4. \A v : Recorded(v)' <=> Recorded(v)
    BY <1>1 DEF Recorded, SampleSum, Same
  <1>5. k' = k
    BY DEF Same
  <1>6. QED
    BY <1>1, <1>2, <1>3, <1>4, <1>5 DEF Narrowed

\* Without use_estimate nothing is recorded, sampled or given up.
LEMMA PlainStays ==
    ASSUME Plain, UNCHANGED <<cut, choice>>
    PROVE  Plain'
  BY DEF Plain, cut, choice

\* The estimators keep what held when they began.
LEMMA BegunStays ==
    ASSUME Asked, Answerable, Begun, UNCHANGED <<query, degree, cut, choice, heapVars>>
    PROVE  Begun' /\ Asked' /\ Answerable' /\ Same /\ (MayGiveUp' <=> MayGiveUp)
  <1>1. Asked' /\ Answerable' /\ Same /\ (MayGiveUp' <=> MayGiveUp)
    BY CallStays
  <1>2. Counted'
    <2>1. Counted /\ degree' = degree
      BY DEF Begun
    <2>2. \A v : Size(v)' = Size(v)
      BY <1>1 DEF Same
    <2>3. QED
      BY <2>1, <2>2 DEF Counted
  <1>3. Unknown'
    BY DEF Begun, Chosen, Unknown, choice
  <1>4. MayGiveUp => Narrowed'
    BY <1>1, NarrowedStays DEF Begun, Chosen
  <1>5. ~ MayGiveUp => Plain'
    BY PlainStays DEF Begun, Chosen
  <1>6. Unpopped'
    BY DEF Begun, Unpopped, heapVars
  <1>7. QED
    BY <1>1, <1>2, <1>3, <1>4, <1>5, <1>6 DEF Begun, Chosen

-----------------------------------------------------------------------------
(* Steps: the phases of degree, diameter, limit and v2.                    *)

\* Every phase that may follow the counting of the components.
LEMMA FirstPhases ==
    ASSUME Asked
    PROVE  \/ FirstPhase = "sample" /\ MayGiveUp
           \/ FirstPhase = "near" /\ method \in HybridMethods /\ ~ MayGiveUp
           \/ FirstPhase = "v2" /\ method = "v2" /\ ~ MayGiveUp
           \/ FirstPhase = "diameter" /\ method \in SharedMethods \cup {"limit"} /\ ~ MayGiveUp
  <1>1. method \in Methods
    BY FriendsAre
  <1> DEFINE m == method
  <1>2. m \in Methods
    BY <1>1
  <1>3. CASE m \in HybridMethods
    <2>1. FirstPhase = IF query.estimating THEN "sample" ELSE "near"
      BY <1>3 DEF FirstPhase, HybridMethods
    <2>2. QED
      BY <1>3, <2>1 DEF MayGiveUp
  <1>4. CASE m = "v2"
    BY <1>4 DEF FirstPhase, MayGiveUp, HybridMethods
  <1>5. CASE m \notin HybridMethods \cup {"v2"}
    <2>1. FirstPhase = "diameter"
      BY <1>5 DEF FirstPhase, HybridMethods
    <2>2. m \in SharedMethods \cup {"limit"}
      BY <1>2, <1>5 DEF Methods, HybridMethods, SharedMethods
    <2>3. QED
      BY <2>1, <2>2, <1>5 DEF MayGiveUp
  <1>6. QED
    BY <1>3, <1>4, <1>5

\* The sizes that one more search gives are right.
LEMMA DegreeStep ==
    ASSUME Asked, Answerable, AtDegree, pc = "degree", ComputeDegree
    PROVE  /\ degree' \in [Vertices -> Int]
           /\ \A v \in Vertices : degree'[v] \in {-1, Size(v)}
           /\ \A v \in Vertices : v <= next => degree'[v] = Size(v)
  <1>1. next \in Vertices /\ degree \in [Vertices -> Int]
    BY SomeVertices DEF AtDegree, Vertices
  <1>2. degree' = [v \in Vertices |-> IF degree[next] = -1 /\ v \in Ball(next, N)
                                      THEN Cardinality(Ball(next, N)) ELSE degree[v]]
    BY DEF ComputeDegree
  <1>3. N \in Nat
    BY SomeVertices
  <1>4. next \in Ball(next, N)
    BY <1>1, <1>3, BallGrows
  <1>5. ASSUME NEW v \in Vertices
        PROVE  degree'[v] \in Int /\ degree'[v] \in {-1, Size(v)} /\ (v <= next => degree'[v] = Size(v))
    <2>1. Size(v) \in Nat \ {0}
      BY <1>3, LimitNext
    <2>2. degree[v] \in {-1, Size(v)} /\ (v < next => degree[v] = Size(v))
      BY DEF AtDegree
    <2>3. CASE degree[next] = -1 /\ v \in Ball(next, N)
      <3>1. Ball(v, N) = Ball(next, N)
        BY <1>1, <2>3, SameComponent
      <3>2. degree'[v] = Size(v)
        BY <1>2, <2>3, <3>1 DEF Size
      <3>3. QED
        BY <2>1, <3>2
    <2>4. CASE ~ (degree[next] = -1 /\ v \in Ball(next, N))
      <3>1. degree'[v] = degree[v]
        BY <1>2, <2>4
      <3>2. v = next => degree[v] # -1
        BY <1>4, <2>4
      <3>3. v <= next => v < next \/ v = next
        BY <1>1, SomeVertices
      <3>4. QED
        BY <2>1, <2>2, <3>1, <3>2, <3>3
    <2>5. QED
      BY <2>3, <2>4
  <1>6. degree' \in [Vertices -> Int]
    BY <1>2, <1>5
  <1>7. QED
    BY <1>5, <1>6

\* The steps of SumEstimator leave the rest alone; so do those of the others
\* below.
Quiet == UNCHANGED <<cut, choice, delta, heapVars>>

\* compute_degree: the vertices up to the one done have their components' sizes.
LEMMA StepComputeDegree ==
    ASSUME Query4Inv, ComputeDegree, Quiet
    PROVE  Query4Inv'
  <1>1. pc = "degree" /\ Asked /\ Answerable /\ AtDegree
    BY DEF Query4Inv, ComputeDegree, Advance
  <1>2. query' = query /\ result' = result
    BY DEF ComputeDegree, estimate
  <1>3. Asked' /\ Answerable' /\ Same /\ (MayGiveUp' <=> MayGiveUp)
    BY <1>1, <1>2, CallStays
  <1>4. Plain' /\ Unknown' /\ Unpopped' /\ is_done' = {}
    <2>1. Plain'
      BY <1>1, PlainStays DEF AtDegree, Quiet
    <2>2. QED
      BY <1>1, <2>1 DEF AtDegree, Quiet, Unknown, Unpopped, choice, delta, heapVars
  <1>5. /\ degree' \in [Vertices -> Int]
        /\ \A v \in Vertices : degree'[v] \in {-1, Size(v)}
        /\ \A v \in Vertices : v <= next => degree'[v] = Size(v)
    BY <1>1, DegreeStep
  <1>6. next \in 1 .. N /\ N \in Nat /\ result \in [Vertices -> Int]
    BY <1>1, SomeVertices DEF AtDegree
  <1>7. \A v : Size(v)' = Size(v)
    BY <1>3 DEF Same
  <1>8. CASE next < N
    <2>1. pc' = "degree" /\ next' = next + 1
      BY <1>8, <1>1 DEF ComputeDegree, Advance
    <2>2. next' \in 1 .. N /\ \A v \in Vertices : v < next' => v <= next
      BY <1>6, <1>8, <2>1, SomeVertices
    <2>3. AtDegree'
      BY <1>2, <1>4, <1>5, <1>6, <1>7, <2>2 DEF AtDegree
    <2>4. QED
      BY <1>3, <2>1, <2>3 DEF Query4Inv
  <1>9. CASE ~ next < N
    <2>1. pc' = FirstPhase /\ next' = 1
      BY <1>9, <1>1 DEF ComputeDegree, Advance
    <2>2. Counted'
      <3>1. \A v \in Vertices : v <= next
        BY <1>6, <1>9 DEF Vertices
      <3>2. \A v \in Vertices : degree'[v] = Size(v)
        BY <1>5, <3>1
      <3>3. degree' = [v \in Vertices |-> Size(v)]
        BY <1>5, <3>2
      <3>4. QED
        BY <3>3, <1>7 DEF Counted
    <2>3. ~ MayGiveUp => Begun'
      BY <1>3, <1>4, <2>2 DEF Begun, Chosen
    <2>4. method' = method
      BY <1>3 DEF Same
    <2>5. CASE FirstPhase = "sample" /\ MayGiveUp
      <3>1. AtSample'
        BY <1>3, <1>4, <2>2, <2>5 DEF AtSample
      <3>2. QED
        BY <1>3, <2>1, <2>5, <3>1 DEF Query4Inv
    <2>6. CASE FirstPhase = "near" /\ method \in HybridMethods /\ ~ MayGiveUp
      <3>1. Needed'
        BY <1>4 DEF Needed, Plain
      <3>2. AtNear'
        BY <2>3, <2>4, <2>6, <3>1 DEF AtNear
      <3>3. QED
        BY <1>3, <2>1, <2>6, <3>2 DEF Query4Inv
    <2>7. CASE FirstPhase = "v2" /\ method = "v2" /\ ~ MayGiveUp
      <3>1. AtV2'
        BY <2>3, <2>4, <2>7 DEF AtV2
      <3>2. QED
        BY <1>3, <2>1, <2>7, <3>1 DEF Query4Inv
    <2>8. CASE FirstPhase = "diameter" /\ method \in SharedMethods \cup {"limit"} /\ ~ MayGiveUp
      <3>1. AtDiameter'
        BY <1>2, <1>4, <1>6, <2>1, <2>3, <2>4, <2>8 DEF AtDiameter, Other
      <3>2. QED
        BY <1>3, <2>1, <2>8, <3>1 DEF Query4Inv
    <2>9. QED
      BY <1>1, <2>5, <2>6, <2>7, <2>8, FirstPhases
  <1>10. QED
    BY <1>8, <1>9

\* The depth chosen is two at least.
LEMMA SweptDepth ==
    ASSUME Asked, NEW far, NEW roots, roots = {v \in Vertices : \A u \in Ball(v, N) : v <= u},
           far \in [roots -> Vertices]
    PROVE  /\ DepthOf(Max({Eccentricity(far[v]) : v \in roots})) \in Nat
           /\ DepthOf(Max({Eccentricity(far[v]) : v \in roots})) >= 2
  <1> DEFINE S == {Eccentricity(far[v]) : v \in roots}
  <1>1. 1 \in roots
    <2>1. 1 \in Vertices /\ Vertices \subseteq Nat /\ N \in Nat
      BY SomeVertices
    <2>2. Ball(1, N) \in SUBSET Vertices
      BY <2>1, BallInit
    <2>3. \A u \in Vertices : 1 <= u
      BY <2>1 DEF Vertices
    <2>4. QED
      BY <2>1, <2>2, <2>3
  <1>2. S # {}
    BY <1>1
  <1>3. \A v \in roots : Eccentricity(far[v]) \in 0 .. N
    BY EccentricityIs
  <1>4. S \in SUBSET (0 .. N)
    BY <1>3
  <1>5. N \in Nat
    BY SomeVertices
  <1> HIDE DEF S
  <1>6. Max(S) \in S
    BY <1>2, <1>4, <1>5, LargestNumber
  <1>7. Max(S) \in Nat
    <2>1. Max(S) \in 0 .. N
      BY <1>4, <1>6, Zenon
    <2>2. \A m \in 0 .. N : m \in Nat
      BY <1>5
    <2>3. QED
      BY <2>1, <2>2, Zenon
  <1>8. DepthOf(Max(S)) \in Nat /\ DepthOf(Max(S)) >= 2
    BY <1>7, DepthIs
  <1>9. QED
    BY <1>8 DEF S

\* Two searches give a depth of two at least.
LEMMA StepDoubleSweep ==
    ASSUME Query4Inv, DoubleSweep, Quiet
    PROVE  Query4Inv'
  <1>1. pc = "diameter" /\ Asked /\ Answerable /\ AtDiameter /\ pc' = method /\ next' = next
    BY DEF Query4Inv, DoubleSweep, Goto
  <1>2. UNCHANGED <<query, degree, cut, choice, heapVars, result>> /\ is_done' = is_done
    BY DEF DoubleSweep, Quiet, delta
  <1>3. Begun /\ result \in [Vertices -> Int] /\ method \in SharedMethods \cup {"limit"} /\ next = 1 /\ is_done = {}
    BY <1>1 DEF AtDiameter, Other
  <1>4. Begun' /\ Asked' /\ Answerable' /\ Same
    BY <1>1, <1>2, <1>3, BegunStays
  <1>5. method' = method
    BY <1>4 DEF Same
  <1>6. Deep'
    <2>1. PICK far \in [{v \in Vertices : \A u \in Ball(v, N) : v <= u} -> Vertices] :
             depth_max' = DepthOf(Max({Eccentricity(far[v]) : v \in {v \in Vertices : \A u \in Ball(v, N) : v <= u}}))
      BY DEF DoubleSweep
    <2> DEFINE roots == {v \in Vertices : \A u \in Ball(v, N) : v <= u}
    <2>2. depth_max' = DepthOf(Max({Eccentricity(far[v]) : v \in roots}))
      BY <2>1
    <2>3. far \in [roots -> Vertices] /\ roots = {v \in Vertices : \A u \in Ball(v, N) : v <= u}
      BY <2>1
    <2> HIDE DEF roots
    <2>4. depth_max' \in Nat /\ depth_max' >= 2
      BY <1>1, <2>2, <2>3, SweptDepth
    <2>5. QED
      BY <2>4 DEF Deep
  <1>7. Other'
    BY <1>2, <1>3, <1>4, <1>5 DEF Other
  <1>8. CASE method = "limit"
    <2>1. AtLimit'
      BY <1>6, <1>7, <1>5, <1>8 DEF AtLimit
    <2>2. QED
      BY <1>1, <1>4, <1>8, <2>1 DEF Query4Inv
  <1>9. CASE method = "sse"
    <2>1. AtSse'
      BY <1>1, <1>3, <1>6, <1>7, <1>5, <1>9 DEF AtSse
    <2>2. QED
      BY <1>1, <1>4, <1>9, <2>1 DEF Query4Inv
  <1>10. Searched'
    BY <1>2, <1>3, <1>6, <1>7 DEF Searched
  <1>11. CASE method = "delta"
    <2>1. N \in Nat \ {0} /\ \A v \in Vertices : ~ v < 1
      BY SomeVertices DEF Vertices
    <2>2. next' = 1 /\ 1 \in 1 .. N
      BY <1>1, <1>3, <2>1
    <2>3. AtDelta'
      BY <1>10, <1>5, <1>11, <2>1, <2>2 DEF AtDelta
    <2>4. QED
      BY <1>1, <1>4, <1>11, <2>3 DEF Query4Inv
  <1>12. CASE method = "schedule"
    <2>1. AtSchedule'
      BY <1>2, <1>3, <1>10, <1>5, <1>12 DEF AtSchedule
    <2>2. QED
      BY <1>1, <1>4, <1>12, <2>1 DEF Query4Inv
  <1>13. QED
    BY <1>3, <1>8, <1>9, <1>11, <1>12 DEF SharedMethods

\* What a limited search finds is between the bounds.
LEMMA LimitIsFine ==
    ASSUME Asked, NEW v \in Vertices, NEW n \in Nat
    PROVE  Between(v, LimitOf(v, n)) /\ Fine(v, LimitOf(v, n))
  <1>1. Size(v) - 1 <= LimitOf(v, n) /\ LimitOf(v, n) <= get_exact_s(v)
    BY LimitBetween
  <1>2. LimitOf(v, n) \in Nat
    BY LimitNext
  <1>3. QED
    BY <1>1, <1>2 DEF Between, Fine

\* With the degrees known, LimitDepth is the sum and one edge more for the rest.
LEMMA LimitDepthIs ==
    ASSUME Counted, NEW v \in Vertices, NEW n
    PROVE  LimitDepth(v, n) = LimitOf(v, n)
  <1>1. degree[v] = Size(v)
    BY DEF Counted
  <1>2. QED
    BY <1>1 DEF LimitDepth, LimitOf

\* The bounds are all of one depth: they may go into the heap.
LEMMA AllBounded ==
    ASSUME Begun', Asked', Answerable', pc' = "estimated", NEW n \in Nat,
           Same, Asked,
           result' = [v \in Vertices |-> LimitOf(v, n)],
           (method \in SharedMethods)' => depth_max' = n
    PROVE  Query4Inv'
  <1>1. \A v, m : LimitOf(v, m)' = LimitOf(v, m)
    BY DEF Same
  <1>2. \A v \in Vertices : result'[v] = LimitOf(v, n)
    OBVIOUS
  <1>3. \A v \in Vertices : Between(v, LimitOf(v, n))
    BY LimitIsFine
  <1>4. \A v, r : Between(v, r) => Between(v, r)'
    BY DEF Same, Between
  <1>5. \A v \in Vertices : Between(v, result[v])'
    BY <1>2, <1>3, <1>4
  <1>6. \A v \in Vertices : Fine(v, result[v])'
    BY <1>5 DEF Fine
  <1>7. (method \in SharedMethods)' => result' = [v \in Vertices |-> LimitOf(v, depth_max)']
    BY <1>1
  <1>8. DOMAIN result' = Vertices
    OBVIOUS
  <1>9. AtEstimated'
    BY <1>6, <1>7, <1>8 DEF AtEstimated
  <1>10. QED
    BY <1>9 DEF Query4Inv

\* LimitDepthEstimator bounds every sum from below.
LEMMA StepLimitDepthAll ==
    ASSUME Query4Inv, LimitDepthAll, Quiet
    PROVE  Query4Inv'
  <1>1. pc = "limit" /\ Asked /\ Answerable /\ AtLimit /\ pc' = "estimated"
    BY DEF Query4Inv, LimitDepthAll, Goto
  <1>2. Begun /\ Deep /\ Counted
    BY <1>1 DEF AtLimit, Other, Begun
  <1>3. UNCHANGED <<query, degree, cut, choice, heapVars, depth_max>>
    BY DEF LimitDepthAll, Quiet
  <1>4. Begun' /\ Asked' /\ Answerable' /\ Same
    BY <1>1, <1>2, <1>3, BegunStays
  <1>5. \A v \in Vertices : LimitDepth(v, depth_max) = LimitOf(v, depth_max)
    BY <1>2, LimitDepthIs
  <1>6. result' = [v \in Vertices |-> LimitOf(v, depth_max)]
    BY <1>5 DEF LimitDepthAll
  <1>7. depth_max \in Nat
    BY <1>2 DEF Deep
  <1>8. QED
    BY <1>1, <1>3, <1>4, <1>6, <1>7, AllBounded

\* CentralityEstimator bounds every sum from below, with two edges or three.
LEMMA StepEstimateV2 ==
    ASSUME Query4Inv, EstimateV2, Quiet
    PROVE  Query4Inv'
  <1>1. pc = "v2" /\ Asked /\ Answerable /\ AtV2 /\ pc' = "estimated"
    BY DEF Query4Inv, EstimateV2, Goto
  <1>2. Begun /\ Counted
    BY <1>1 DEF AtV2, Begun
  <1>3. UNCHANGED <<query, degree, cut, choice, heapVars>>
    BY DEF EstimateV2, Quiet
  <1>4. Begun' /\ Asked' /\ Answerable' /\ Same
    BY <1>1, <1>2, <1>3, BegunStays
  <1>5. PICK n \in Nat : n = depth_max'
    BY DEF EstimateV2
  <1>6. \A v \in Vertices : LimitDepth(v, n) = LimitOf(v, n)
    BY <1>2, LimitDepthIs
  <1>7. result' = [v \in Vertices |-> LimitDepth(v, n)]
    BY <1>5 DEF EstimateV2
  <1>8. result' = [v \in Vertices |-> LimitOf(v, n)]
    BY <1>6, <1>7
  <1>9. QED
    BY <1>1, <1>4, <1>5, <1>8, AllBounded

-----------------------------------------------------------------------------
(* Steps: SSEUnionSetEstimator.                                            *)

\* A vertex and its friends are what one edge reaches.
LEMMA FirstBall ==
    ASSUME Asked, NEW v \in Vertices
    PROVE  /\ Ball(v, 1) = {v} \cup Near(v)
           /\ Near(v) = Ring(v, 1)
           /\ Cardinality(Ball(v, 1)) = 1 + Cardinality(Near(v)) /\ Cardinality(Near(v)) \in Nat
           /\ SumWithin(v, 1) = Cardinality(Near(v))
  <1>1. Near(v) \subseteq Vertices \ {v} /\ 0 \in Nat /\ 0 + 1 = 1
    BY FriendsAre
  <1>2. Ball(v, 0) = {v}
    BY BallInit
  <1>3. Ball(v, 0 + 1) \in SUBSET Vertices /\ Ball(v, 1) \in SUBSET Vertices
    BY BallInit, <1>1
  <1>4. \A u \in Vertices : u \in Ball(v, 0 + 1) <=> u \in Ball(v, 0) \/ \E x \in Ball(v, 0) : u \in Near(x)
    BY <1>1, BallNext
  <1>5. Ball(v, 1) = {v} \cup Near(v)
    BY <1>1, <1>2, <1>3, <1>4
  <1>6. /\ Cardinality(Ring(v, 0 + 1)) \in Nat
        /\ Cardinality(Ball(v, 0 + 1)) = Cardinality(Ball(v, 0)) + Cardinality(Ring(v, 0 + 1))
        /\ Cardinality(Ball(v, 0)) = 1
        /\ Ring(v, 0 + 1) = Ball(v, 0 + 1) \ Ball(v, 0)
    BY <1>1, RingSize
  <1>7. Near(v) = Ring(v, 1)
    BY <1>1, <1>2, <1>5, <1>6
  <1>8. SumWithin(v, 0) = 0 /\ SumWithin(v, 0 + 1) = SumWithin(v, 0) + (0 + 1) * Cardinality(Ring(v, 0 + 1))
    BY <1>1, SumNext
  <1>9. QED
    BY <1>5, <1>6, <1>7, <1>8

\* The bitsets begin with the ball of one edge.
LEMMA StepUnionInit ==
    ASSUME Query4Inv, UnionInit, Quiet
    PROVE  Query4Inv'
  <1>1. pc = "sse" /\ Asked /\ Answerable /\ AtSse /\ pc' = "level" /\ next' = next
    BY DEF Query4Inv, UnionInit, Goto
  <1>2. Begun /\ Counted /\ next = 1 /\ method = "sse" /\ Deep
    BY <1>1 DEF AtSse, Other, Begun
  <1>3. UNCHANGED <<query, degree, cut, choice, heapVars, depth_max>>
    BY DEF UnionInit, Quiet
  <1>4. Begun' /\ Asked' /\ Answerable' /\ Same
    BY <1>1, <1>2, <1>3, BegunStays
  <1>5. \A v \in Vertices : /\ Ball(v, 1) = {v} \cup Near(v)
                            /\ Cardinality(Ball(v, 1)) = 1 + Cardinality(Near(v))
                            /\ Cardinality(Near(v)) \in Nat
                            /\ SumWithin(v, 1) = Cardinality(Near(v))
    BY <1>1, FirstBall
  <1>6. s_prev' = [v \in Vertices |-> BitsOf(Ball(v, 1))]
    <2>1. s_prev' = [v \in Vertices |-> BitsOf({v} \cup Near(v))]
      BY DEF UnionInit
    <2>2. QED
      BY <1>5, <2>1
  <1>7. result' = [v \in Vertices |-> SumWithin(v, 1)]
    BY <1>5 DEF UnionInit
  <1>8. left' = [v \in Vertices |-> Size(v) - Cardinality(Ball(v, 1))]
    <2>1. left' = [v \in Vertices |-> degree[v] - 1 - Cardinality(Near(v))]
      BY DEF UnionInit
    <2>2. \A v \in Vertices : degree[v] = Size(v) /\ Size(v) \in Nat
      <3>1. 0 \in Nat
        OBVIOUS
      <3>2. QED
        BY <1>1, <1>2, <3>1, LimitNext DEF Counted
    <2>3. \A v \in Vertices : degree[v] - 1 - Cardinality(Near(v)) = Size(v) - Cardinality(Ball(v, 1))
      BY <1>5, <2>2
    <2>4. QED
      BY <2>1, <2>3
  <1>9. result' \in [Vertices -> Int]
    <2>1. \A v \in Vertices : SumWithin(v, 1) \in Int
      BY <1>5
    <2>2. QED
      BY <1>7, <2>1
  <1>10. Other' /\ Deep' /\ method' = "sse"
    BY <1>2, <1>3, <1>4, <1>9 DEF Other, Deep, Same, SharedMethods
  <1>11. next' = 1 /\ (next \in 1 .. depth_max)'
    <2>1. depth_max \in Nat /\ depth_max >= 2
      BY <1>2 DEF Deep
    <2>2. QED
      BY <1>1, <1>2, <1>3, <2>1
  <1>12. AtLevel'
    <2>1. s_prev' = [v \in Vertices |-> BitsOf(Ball(v, next)')]
      BY <1>4, <1>6, <1>11 DEF Same
    <2>2. result' = [v \in Vertices |-> SumWithin(v, next)']
      BY <1>4, <1>7, <1>11 DEF Same
    <2>3. left' = [v \in Vertices |-> Size(v)' - Cardinality(Ball(v, next)')]
      BY <1>4, <1>8, <1>11 DEF Same
    <2>4. QED
      BY <1>10, <1>11, <2>1, <2>2, <2>3 DEF AtLevel, BitsOf
  <1>13. QED
    BY <1>1, <1>4, <1>12 DEF Query4Inv

\* A round of SSEUnionSetEstimator: joined bitsets are the next ball, the new
\* bits counted are the next ring; after the last the rest counts one edge more.
LEMMA StepUnionLevel ==
    ASSUME Query4Inv, UnionLevel, Quiet
    PROVE  Query4Inv'
  <1>1. pc = "level" /\ Asked /\ Answerable /\ AtLevel
    BY DEF Query4Inv, UnionLevel
  <1>2. Begun /\ Counted /\ next \in 1 .. depth_max /\ method = "sse" /\ Deep
    BY <1>1 DEF AtLevel, Other, Begun
  <1>3. UNCHANGED <<query, degree, cut, choice, heapVars, depth_max>>
    BY DEF UnionLevel, Quiet
  <1>4. Begun' /\ Asked' /\ Answerable' /\ Same
    BY <1>1, <1>2, <1>3, BegunStays
  <1>5. /\ s_prev = [v \in Vertices |-> BitsOf(Ball(v, next))]
        /\ result = [v \in Vertices |-> SumWithin(v, next)]
        /\ left = [v \in Vertices |-> Size(v) - Cardinality(Ball(v, next))]
    BY <1>1 DEF AtLevel
  <1>6. next \in Nat /\ depth_max \in Nat /\ next + 1 \in Nat /\ depth_max >= 2
    BY <1>2 DEF Deep
  <1>7. CASE next + 1 > depth_max
    <2>1. next = depth_max
      BY <1>2, <1>6, <1>7
    <2>2. pc' = "estimated" /\ result' = [v \in Vertices |-> result[v] + left[v] * (depth_max + 1)]
      BY <1>7 DEF UnionLevel
    <2>3. \A v \in Vertices : result[v] + left[v] * (depth_max + 1) = LimitOf(v, depth_max)
      BY <1>5, <2>1 DEF LimitOf
    <2>4. result' = [v \in Vertices |-> LimitOf(v, depth_max)]
      BY <2>2, <2>3
    <2>5. QED
      BY <1>1, <1>3, <1>4, <1>6, <2>2, <2>4, AllBounded
  <1>8. CASE ~ next + 1 > depth_max
    <2> DEFINE s == [v \in Vertices |-> Joined(v)]
               c == [v \in Vertices |-> count(s[v], len)]
    <2>1. /\ pc' = "level" /\ next' = next + 1
          /\ result' = [v \in Vertices |-> result[v] + c[v] * (next + 1)]
          /\ left' = [v \in Vertices |-> left[v] - c[v]]
          /\ s_prev' = [v \in Vertices |-> or_arr(s[v], s_prev[v], len)]
      BY <1>1, <1>8 DEF UnionLevel
    <2>2. \A v \in Vertices : /\ count(Joined(v), len) = Cardinality(Ring(v, next + 1))
                              /\ or_arr(Joined(v), s_prev[v], len) = BitsOf(Ball(v, next + 1))
      BY <1>1, <1>5, <1>6, JoinBalls
    <2>3. \A v \in Vertices : s[v] = Joined(v) /\ c[v] = Cardinality(Ring(v, next + 1))
      BY <2>2
    <2> HIDE DEF s, c
    <2>4. s_prev' = [v \in Vertices |-> BitsOf(Ball(v, next + 1))]
      BY <2>1, <2>2, <2>3
    <2>5. \A v \in Vertices :
             /\ SumWithin(v, next) \in Nat /\ SumWithin(v, next + 1) \in Nat
             /\ SumWithin(v, next + 1) = SumWithin(v, next) + (next + 1) * Cardinality(Ring(v, next + 1))
      BY <1>1, <1>6, SumNext
    <2>6. \A v \in Vertices :
             /\ Cardinality(Ball(v, next)) \in Nat /\ Cardinality(Ring(v, next + 1)) \in Nat
             /\ Cardinality(Ball(v, next + 1)) = Cardinality(Ball(v, next)) + Cardinality(Ring(v, next + 1))
      BY <1>1, <1>6, RingSize
    <2>7. \A v \in Vertices : Size(v) \in Nat
      BY <1>1, <1>6, LimitNext
    <2>8. ASSUME NEW v \in Vertices
          PROVE  /\ result[v] + c[v] * (next + 1) = SumWithin(v, next + 1)
                 /\ left[v] - c[v] = Size(v) - Cardinality(Ball(v, next + 1))
      <3>1. c[v] = Cardinality(Ring(v, next + 1)) /\ result[v] = SumWithin(v, next)
            /\ left[v] = Size(v) - Cardinality(Ball(v, next))
        BY <1>5, <2>3
      <3>2. (next + 1) * Cardinality(Ring(v, next + 1)) = Cardinality(Ring(v, next + 1)) * (next + 1)
        BY <1>6, <2>6, TimesSum
      <3>3. QED
        BY <2>5, <2>6, <2>7, <3>1, <3>2
    <2>9. result' = [v \in Vertices |-> SumWithin(v, next + 1)]
      BY <2>1, <2>8
    <2>10. left' = [v \in Vertices |-> Size(v) - Cardinality(Ball(v, next + 1))]
      BY <2>1, <2>8
    <2>11. result' \in [Vertices -> Int]
      BY <2>5, <2>9
    <2>12. Other' /\ Deep' /\ method' = "sse"
      BY <1>2, <1>3, <1>4, <2>11 DEF Other, Deep, Same, SharedMethods
    <2>13. (next \in 1 .. depth_max)'
      BY <1>2, <1>3, <1>6, <1>8, <2>1
    <2>14. AtLevel'
      <3>1. s_prev' = [v \in Vertices |-> BitsOf(Ball(v, next)')]
        BY <1>4, <2>1, <2>4 DEF Same
      <3>2. result' = [v \in Vertices |-> SumWithin(v, next)']
        BY <1>4, <2>1, <2>9 DEF Same
      <3>3. left' = [v \in Vertices |-> Size(v)' - Cardinality(Ball(v, next)')]
        BY <1>4, <2>1, <2>10 DEF Same
      <3>4. QED
        BY <2>12, <2>13, <3>1, <3>2, <3>3 DEF AtLevel, BitsOf
    <2>15. QED
      BY <1>4, <2>1, <2>14 DEF Query4Inv
  <1>9. QED
    BY <1>7, <1>8

-----------------------------------------------------------------------------
(* Steps: the HybridEstimator.                                             *)

\* The friends of the vertices R, counted one by one.
FriendsOf(R) == SumFunction([u \in R |-> Cardinality(Near(u))])

\* Some vertices have as many friends as all together at most.
LEMMA FriendsAtMost ==
    ASSUME Asked, NEW R \in SUBSET Vertices
    PROVE  FriendsOf(R) \in Nat /\ FriendsOfAll(query) \in Nat /\ FriendsOf(R) <= FriendsOfAll(query)
  <1> DEFINE F == [u \in Vertices |-> Cardinality(Near(u))]
             G == [u \in R |-> F[u]]
             H == [u \in Vertices \ R |-> F[u]]
  <1>1. IsFiniteSet(Vertices)
    BY SomeVertices
  <1>2. IsFiniteSet(R) /\ IsFiniteSet(Vertices \ R)
    BY <1>1, FS_Subset
  <1>3. ASSUME NEW u \in Vertices
        PROVE  Cardinality(Near(u)) \in Nat
    <2>1. Near(u) \subseteq Vertices
      BY FriendsAre
    <2>2. QED
      BY <1>1, <2>1, FS_Subset, FS_CardinalityType
  <1>4. F \in [Vertices -> Nat]
    BY <1>3
  <1>5. FriendsOf(R) = SumFunction(G)
    BY DEF FriendsOf
  <1>6. FriendsOfAll(query) = SumFunction(F)
    BY DEF FriendsOfAll, Near, friends
  <1> HIDE DEF F
  <1>7. G \in [R -> Nat] /\ H \in [Vertices \ R -> Nat]
    BY <1>4
  <1>8. SumFunction(F) = SumFunction(G) + SumFunction(H)
    BY <1>1, <1>4, SumOfTwo
  <1> HIDE DEF G, H
  <1>9. SumFunction(F) \in Nat /\ SumFunction(G) \in Nat /\ SumFunction(H) \in Nat
    BY <1>1, <1>2, <1>4, <1>7, SumIsDots
  <1>10. QED
    BY <1>5, <1>6, <1>8, <1>9

\* The first three levels in numbers.
LEMMA ThreeLevels ==
    ASSUME Asked, NEW v \in Vertices
    PROVE  LET r(n) == Cardinality(Ring(v, n))
               b(n) == Cardinality(Ball(v, n))
           IN /\ r(1) \in Nat /\ r(2) \in Nat /\ r(3) \in Nat /\ r(4) \in Nat
              /\ b(2) = 1 + r(1) + r(2) /\ b(3) = b(2) + r(3) /\ b(4) = b(3) + r(4)
              /\ SumWithin(v, 2) = r(1) + 2 * r(2)
              /\ SumWithin(v, 3) = SumWithin(v, 2) + 3 * r(3)
              /\ SumWithin(v, 4) = SumWithin(v, 3) + 4 * r(4)
              /\ b(2) <= Size(v) /\ b(3) <= Size(v) /\ b(4) <= Size(v)
              /\ Size(v) \in Nat /\ Size(v) <= N
  <1>1. 0 \in Nat /\ 1 \in Nat /\ 2 \in Nat /\ 3 \in Nat /\ 4 \in Nat /\ 0 + 1 = 1 /\ 1 + 1 = 2 /\ 2 + 1 = 3 /\ 3 + 1 = 4
    OBVIOUS
  <1>2. \A n \in Nat : /\ Cardinality(Ring(v, n + 1)) \in Nat /\ Cardinality(Ball(v, n)) \in Nat
                       /\ Cardinality(Ball(v, n + 1)) = Cardinality(Ball(v, n)) + Cardinality(Ring(v, n + 1))
                       /\ Cardinality(Ball(v, n)) <= Size(v)
                       /\ Cardinality(Ball(v, 0)) = 1
    BY RingSize DEF Size
  <1>3. \A n \in Nat : SumWithin(v, n + 1) = SumWithin(v, n) + (n + 1) * Cardinality(Ring(v, n + 1))
    BY SumNext
  <1>4. SumWithin(v, 0) = 0
    BY SumNext
  <1>5. Size(v) \in Nat /\ Size(v) <= N
    <2>1. IsFiniteSet(Vertices) /\ Cardinality(Vertices) = N /\ N \in Nat
      BY SomeVertices
    <2>2. Ball(v, N) \in SUBSET Vertices
      BY <2>1, BallInit
    <2>3. QED
      BY <2>1, <2>2, FS_Subset, FS_CardinalityType DEF Size
  <1>6. /\ Cardinality(Ring(v, 1)) \in Nat /\ Cardinality(Ball(v, 1)) = 1 + Cardinality(Ring(v, 1))
        /\ SumWithin(v, 1) = Cardinality(Ring(v, 1))
    <2>1. /\ Cardinality(Ring(v, 0 + 1)) \in Nat
          /\ Cardinality(Ball(v, 0 + 1)) = Cardinality(Ball(v, 0)) + Cardinality(Ring(v, 0 + 1))
          /\ SumWithin(v, 0 + 1) = SumWithin(v, 0) + (0 + 1) * Cardinality(Ring(v, 0 + 1))
      BY <1>1, <1>2, <1>3
    <2>2. QED
      BY <1>1, <1>2, <1>4, <2>1
  <1>7. /\ Cardinality(Ring(v, 2)) \in Nat /\ Cardinality(Ball(v, 2)) = Cardinality(Ball(v, 1)) + Cardinality(Ring(v, 2))
        /\ SumWithin(v, 2) = SumWithin(v, 1) + 2 * Cardinality(Ring(v, 2)) /\ Cardinality(Ball(v, 2)) <= Size(v)
    <2>1. /\ Cardinality(Ring(v, 1 + 1)) \in Nat
          /\ Cardinality(Ball(v, 1 + 1)) = Cardinality(Ball(v, 1)) + Cardinality(Ring(v, 1 + 1))
          /\ SumWithin(v, 1 + 1) = SumWithin(v, 1) + (1 + 1) * Cardinality(Ring(v, 1 + 1))
      BY <1>1, <1>2, <1>3
    <2>2. QED
      BY <1>1, <1>2, <2>1
  <1>8. /\ Cardinality(Ring(v, 3)) \in Nat /\ Cardinality(Ball(v, 3)) = Cardinality(Ball(v, 2)) + Cardinality(Ring(v, 3))
        /\ SumWithin(v, 3) = SumWithin(v, 2) + 3 * Cardinality(Ring(v, 3)) /\ Cardinality(Ball(v, 3)) <= Size(v)
    <2>1. /\ Cardinality(Ring(v, 2 + 1)) \in Nat
          /\ Cardinality(Ball(v, 2 + 1)) = Cardinality(Ball(v, 2)) + Cardinality(Ring(v, 2 + 1))
          /\ SumWithin(v, 2 + 1) = SumWithin(v, 2) + (2 + 1) * Cardinality(Ring(v, 2 + 1))
      BY <1>1, <1>2, <1>3
    <2>2. QED
      BY <1>1, <1>2, <2>1
  <1>9. /\ Cardinality(Ring(v, 4)) \in Nat /\ Cardinality(Ball(v, 4)) = Cardinality(Ball(v, 3)) + Cardinality(Ring(v, 4))
        /\ SumWithin(v, 4) = SumWithin(v, 3) + 4 * Cardinality(Ring(v, 4)) /\ Cardinality(Ball(v, 4)) <= Size(v)
    <2>1. /\ Cardinality(Ring(v, 3 + 1)) \in Nat
          /\ Cardinality(Ball(v, 3 + 1)) = Cardinality(Ball(v, 3)) + Cardinality(Ring(v, 3 + 1))
          /\ SumWithin(v, 3 + 1) = SumWithin(v, 3) + (3 + 1) * Cardinality(Ring(v, 3 + 1))
      BY <1>1, <1>2, <1>3
    <2>2. QED
      BY <1>1, <1>2, <2>1
  <1>10. QED
    BY <1>5, <1>6, <1>7, <1>8, <1>9

\* The guess at a lower bound is far below GivenUp.
LEMMA GuessAtMost ==
    ASSUME Asked, Counted, ~ query.estimating, NEW v \in Vertices
    PROVE  est_s_lowerbound(v) \in Int /\ est_s_lowerbound(v) < GivenUp
  <1> DEFINE r1 == Cardinality(Ring(v, 1))
             r2 == Cardinality(Ring(v, 2))
             b2 == Cardinality(Ball(v, 2))
             f1 == FriendsOf(Ring(v, 1))
             f2 == FriendsOf(Ring(v, 2))
             f == FriendsOfAll(query)
             n == Cardinality(Near(v))
             s2 == SumWithin(v, 2)
  <1>1. /\ r1 \in Nat /\ r2 \in Nat /\ b2 = 1 + r1 + r2 /\ s2 = r1 + 2 * r2
        /\ b2 <= Size(v) /\ Size(v) \in Nat /\ Size(v) <= N
    BY ThreeLevels
  <1>2. N \in Nat \ {0} /\ GivenUp \in Nat /\ GivenUp > 4 * N + f
    BY GivenUpAssumption, SomeVertices DEF Asked
  <1>3. Ring(v, 1) \in SUBSET Vertices /\ Ring(v, 2) \in SUBSET Vertices
    <2>1. 1 \in Nat /\ 2 \in Nat
      OBVIOUS
    <2>2. Ball(v, 1) \in SUBSET Vertices /\ Ball(v, 2) \in SUBSET Vertices
      BY <2>1, BallInit
    <2>3. QED
      BY <2>2 DEF Ring
  <1>4. f1 \in Nat /\ f \in Nat /\ f1 <= f /\ f2 \in Nat
    BY <1>3, FriendsAtMost
  <1>5. n \in Nat
    BY FirstBall
  <1>6. degree[v] = Size(v)
    BY DEF Counted
  <1>7. n3_upper(v) = f2 - f1 + n + 1
    BY DEF n3_upper, FriendsOf
  <1>8. est_s_lowerbound(v) = s2 + (f2 - f1 + n + 1) * 3 + ((Size(v) - b2) - (f2 - f1 + n + 1)) * 4
    BY <1>6, <1>7 DEF est_s_lowerbound, Remaining
  <1> HIDE DEF r1, r2, b2, f1, f2, f, n, s2
  <1>9. QED
    BY <1>1, <1>2, <1>4, <1>5, <1>8

\* Only with use_estimate is a vertex cut.
LEMMA CutOnly ==
    ASSUME Asked, Begun, method \in HybridMethods, ~ MayGiveUp, NEW v \in Vertices
    PROVE  ~ noneed[v] /\ ~ Cut(v)
  <1>1. Plain /\ Counted
    BY DEF Begun, Chosen
  <1>2. noneed[v] = FALSE /\ sum_bound = GivenUp
    BY <1>1 DEF Plain
  <1>3. est_s_lowerbound(v) \in Int /\ est_s_lowerbound(v) < GivenUp /\ GivenUp \in Nat
    BY <1>1, GuessAtMost, GivenUpAssumption DEF MayGiveUp
  <1>4. QED
    BY <1>2, <1>3 DEF Cut

\* The steps of the HybridEstimator leave the rest alone.
Calm == UNCHANGED <<choice, delta, heapVars>>

\* Those set aside are so for good.
LEMMA BegunKeeps ==
    ASSUME Asked, Answerable, Begun, UNCHANGED <<query, degree, sum_bound, choice, heapVars>>,
           ~ MayGiveUp => noneed' = noneed
    PROVE  Begun' /\ Asked' /\ Answerable' /\ Same /\ (MayGiveUp' <=> MayGiveUp) /\ Aside' = Aside
  <1>1. Asked' /\ Answerable' /\ Same /\ (MayGiveUp' <=> MayGiveUp)
    BY CallStays
  <1>2. Counted'
    <2>1. Counted /\ degree' = degree
      BY DEF Begun
    <2>2. \A v : Size(v)' = Size(v)
      BY <1>1 DEF Same
    <2>3. QED
      BY <2>1, <2>2 DEF Counted
  <1>3. Unknown'
    BY DEF Begun, Chosen, Unknown, choice
  <1>4. MayGiveUp => Narrowed'
    BY <1>1, NarrowedStays DEF Begun, Chosen
  <1>5. ~ MayGiveUp => Plain'
    BY DEF Begun, Chosen, Plain, choice
  <1>6. Unpopped'
    BY DEF Begun, Unpopped, heapVars
  <1>7. Aside' = Aside
    BY DEF Aside, choice
  <1>8. QED
    BY <1>1, <1>2, <1>3, <1>4, <1>5, <1>6, <1>7 DEF Begun, Chosen

\* A HybridEstimator ends with bounds for those that are not set aside.
LEMMA HybridBounded ==
    ASSUME Begun', Asked', Answerable', Same, MayGiveUp' <=> MayGiveUp, Aside' = Aside,
           pc' = "estimated", method \in HybridMethods, DOMAIN result' = Vertices,
           \A v \in Vertices \ Aside : Fine(v, result'[v])
    PROVE  Query4Inv'
  <1>1. \A v, r : Fine(v, r) => Fine(v, r)'
    BY DEF Same, Between, Fine
  <1>2. \A v \in Vertices \ Aside' : Fine(v, result[v])'
    BY <1>1
  <1>3. method' \notin SharedMethods
    BY DEF HybridMethods, SharedMethods, Same
  <1>4. AtEstimated'
    BY <1>2, <1>3 DEF AtEstimated
  <1>5. QED
    BY <1>4 DEF Query4Inv

\* A sum as large as GivenUp is that of a vertex given up.
LEMMA GivenUpIsFine ==
    ASSUME MayGiveUp, NEW v \in Vertices, NEW r \in Nat, r >= GivenUp
    PROVE  Fine(v, r)
  BY DEF Fine

\* bfs_depth(3) bounds the sums of all that are needed.
LEMMA Step_bfs_depth ==
    ASSUME Query4Inv, bfs_depth, Calm
    PROVE  Query4Inv'
  <1>1. pc = "near" /\ Asked /\ Answerable /\ AtNear /\ pc' = "estimated"
    BY DEF Query4Inv, bfs_depth, Goto
  <1>2. Begun /\ method \in HybridMethods /\ Needed /\ Counted
    BY <1>1 DEF AtNear, Begun
  <1>3. UNCHANGED <<query, degree, sum_bound, choice, heapVars>> /\ noneed' = noneed
    BY DEF bfs_depth, Calm, cut
  <1>4. Begun' /\ Asked' /\ Answerable' /\ Same /\ (MayGiveUp' <=> MayGiveUp) /\ Aside' = Aside
    BY <1>1, <1>2, <1>3, BegunKeeps
  <1>5. result' = [v \in Vertices |-> IF noneed[v] THEN GivenUp ELSE LimitDepth(v, 3)]
    BY DEF bfs_depth
  <1>6. ASSUME NEW v \in Vertices \ Aside
        PROVE  Fine(v, result'[v])
    <2>1. ~ noneed[v]
      BY <1>2 DEF Needed
    <2>2. 3 \in Nat
      OBVIOUS
    <2>3. LimitDepth(v, 3) = LimitOf(v, 3)
      BY <1>2, LimitDepthIs
    <2>4. Fine(v, LimitOf(v, 3))
      BY <1>1, <2>2, LimitIsFine
    <2>5. QED
      BY <1>5, <2>1, <2>3, <2>4
  <1>7. DOMAIN result' = Vertices
    BY <1>5
  <1>8. QED
    BY <1>1, <1>2, <1>4, <1>6, <1>7, HybridBounded

\* Searches of depth 2: a vertex cut gets GivenUp, the others their sums so far.
LEMMA StepSearchTwo ==
    ASSUME Query4Inv, SearchTwo, Calm
    PROVE  Query4Inv'
  <1>1. pc = "near" /\ Asked /\ Answerable /\ AtNear /\ pc' = "union"
    BY DEF Query4Inv, SearchTwo, Goto
  <1>2. /\ Begun /\ method \in {"bfs_2_dp_1", "bfs_2_dp_more"} /\ Needed /\ Counted
        /\ method \in HybridMethods
    BY <1>1 DEF AtNear, Begun, SearchTwo
  <1>3. UNCHANGED <<query, degree, sum_bound, choice, heapVars>>
    BY DEF SearchTwo, Calm
  <1>4. noneed' = [v \in Vertices |-> noneed[v] \/ Cut(v)]
    BY DEF SearchTwo
  <1>5. ~ MayGiveUp => noneed' = noneed
    <2>1. SUFFICES ASSUME ~ MayGiveUp
                   PROVE  noneed' = noneed
      OBVIOUS
    <2>2. \A v \in Vertices : ~ noneed[v] /\ ~ Cut(v)
      BY <1>1, <1>2, <2>1, CutOnly
    <2>3. noneed = [v \in Vertices |-> FALSE]
      BY <1>2, <2>1 DEF Begun, Chosen, Plain
    <2>4. \A v \in Vertices : (noneed[v] \/ Cut(v)) = FALSE
      BY <2>2, Zenon
    <2>5. noneed' = [v \in Vertices |-> FALSE]
      BY <1>4, <2>4, Zenon
    <2>6. QED
      BY <2>3, <2>5
  <1>6. Begun' /\ Asked' /\ Answerable' /\ Same /\ (MayGiveUp' <=> MayGiveUp) /\ Aside' = Aside
    BY <1>1, <1>2, <1>3, <1>5, BegunKeeps
  <1>7. ASSUME NEW v \in Vertices \ Aside
        PROVE  IF noneed'[v] THEN MayGiveUp /\ result'[v] \in Nat /\ result'[v] >= GivenUp
                             ELSE result'[v] = SumWithin(v, 2)
    <2>1. ~ noneed[v]
      BY <1>2 DEF Needed
    <2>2. noneed'[v] <=> Cut(v)
      BY <1>4, <2>1, Zenon
    <2>3. result'[v] = IF Cut(v) THEN GivenUp ELSE SumWithin(v, 2)
      BY DEF SearchTwo
    <2>4. Cut(v) => MayGiveUp
      BY <1>1, <1>2, CutOnly
    <2>5. GivenUp \in Nat
      BY GivenUpAssumption
    <2>6. CASE Cut(v)
      <3>1. noneed'[v]
        BY <2>2, <2>6, Zenon
      <3>2. result'[v] = GivenUp /\ MayGiveUp
        BY <2>3, <2>4, <2>6
      <3>3. QED
        BY <2>5, <3>1, <3>2
    <2>7. CASE ~ Cut(v)
      <3>1. ~ noneed'[v]
        BY <2>2, <2>7, Zenon
      <3>2. result'[v] = SumWithin(v, 2)
        BY <2>3, <2>7
      <3>3. QED
        BY <3>1, <3>2
    <2>8. QED
      BY <2>6, <2>7
  <1>8. FoundTo(2)'
    <2>1. \A v \in Vertices \ Aside' :
             IF noneed'[v] THEN MayGiveUp' /\ result'[v] \in Nat /\ result'[v] >= GivenUp
                           ELSE result'[v] = SumWithin(v, 2)'
      BY <1>6, <1>7 DEF Same
    <2>2. QED
      BY <2>1 DEF FoundTo
  <1>9. left' = [v \in Vertices |-> Size(v)' - Cardinality(Ball(v, 2)')]
    <2>1. \A v \in Vertices : degree[v] = Size(v)
      BY <1>2 DEF Counted
    <2>2. left' = [v \in Vertices |-> degree[v] - Cardinality(Ball(v, 2))]
      BY DEF SearchTwo, Remaining
    <2>3. QED
      BY <1>6, <2>1, <2>2 DEF Same
  <1>10. s_prev' = [v \in Vertices |-> BitsOf(Ball(v, 2)')]
    BY <1>6 DEF SearchTwo, Same
  <1>11. depth_max' = 2 + 1
    BY DEF SearchTwo
  <1>12. Hybrid(2)'
    BY <1>8, <1>9, <1>11 DEF Hybrid
  <1>13. method' = method
    BY <1>6 DEF Same
  <1>14. AtUnion'
    BY <1>2, <1>6, <1>10, <1>12, <1>13 DEF AtUnion, HybridMethods, BitsOf
  <1>15. QED
    BY <1>1, <1>6, <1>14 DEF Query4Inv

\* Searches of depth 3.
LEMMA StepSearchThree ==
    ASSUME Query4Inv, SearchThree, Calm
    PROVE  Query4Inv'
  <1>1. pc = "near" /\ Asked /\ Answerable /\ AtNear
    BY DEF Query4Inv, SearchThree
  <1>2. Begun /\ method = "bfs_3_dp_1" /\ method \in HybridMethods /\ Needed /\ Counted
    BY <1>1 DEF AtNear, Begun, SearchThree
  <1>3. UNCHANGED <<query, degree, sum_bound, choice, heapVars>> /\ noneed' = noneed
    BY DEF SearchThree, Calm, cut
  <1>4. Begun' /\ Asked' /\ Answerable' /\ Same /\ (MayGiveUp' <=> MayGiveUp) /\ Aside' = Aside
    BY <1>1, <1>2, <1>3, BegunKeeps
  <1>5. PICK good \in BOOLEAN :
          /\ pc' = IF good THEN "estimated" ELSE "union"
          /\ depth_max' = IF good THEN 3 ELSE 4
          /\ result' = [v \in Vertices |-> IF good THEN LimitDepth(v, 3) ELSE SumWithin(v, 3)]
    BY DEF SearchThree, Goto, good_err
  <1>6. CASE good
    <2>1. 3 \in Nat /\ pc' = "estimated"
      BY <1>5, <1>6
    <2>2. \A v \in Vertices : LimitDepth(v, 3) = LimitOf(v, 3)
      BY <1>2, LimitDepthIs
    <2>3. result' = [v \in Vertices |-> LimitOf(v, 3)]
      BY <1>5, <1>6, <2>2
    <2>4. depth_max' = 3
      BY <1>5, <1>6
    <2>5. QED
      BY <1>1, <1>4, <2>1, <2>3, <2>4, AllBounded
  <1>7. CASE ~ good
    <2>1. pc' = "union" /\ depth_max' = 3 + 1 /\ result' = [v \in Vertices |-> SumWithin(v, 3)]
      BY <1>5, <1>7
    <2>2. FoundTo(3)'
      <3>1. \A v \in Vertices \ Aside' : ~ noneed'[v] /\ result'[v] = SumWithin(v, 3)'
        BY <1>2, <1>3, <1>4, <2>1 DEF Needed, Same
      <3>2. QED
        BY <3>1 DEF FoundTo
    <2>3. left' = [v \in Vertices |-> Size(v)' - Cardinality(Ball(v, 3)')]
      <3>1. \A v \in Vertices : degree[v] = Size(v)
        BY <1>2 DEF Counted
      <3>2. left' = [v \in Vertices |-> degree[v] - Cardinality(Ball(v, 3))]
        BY DEF SearchThree, Remaining
      <3>3. QED
        BY <1>4, <3>1, <3>2 DEF Same
    <2>4. s_prev' = [v \in Vertices |-> BitsOf(Ball(v, 3)')]
      BY <1>4 DEF SearchThree, Same
    <2>5. Hybrid(3)'
      BY <2>1, <2>2, <2>3 DEF Hybrid
    <2>6. method' = method
      BY <1>4 DEF Same
    <2>7. AtUnion'
      BY <1>2, <1>4, <2>4, <2>5, <2>6 DEF AtUnion, HybridMethods, BitsOf
    <2>8. QED
      BY <1>4, <2>1, <2>7 DEF Query4Inv
  <1>8. QED
    BY <1>6, <1>7

\* What is skipped when depth is added has its bound already.
LEMMA SkippedIsFine ==
    ASSUME Asked, NEW n \in {2, 3}, Hybrid(n), NEW v \in Vertices \ Aside, Skipped(v)
    PROVE  Fine(v, result[v])
  <1>1. IF noneed[v] THEN MayGiveUp /\ result[v] \in Nat /\ result[v] >= GivenUp
                     ELSE result[v] = SumWithin(v, n)
    BY DEF Hybrid, FoundTo
  <1>2. CASE noneed[v]
    BY <1>1, <1>2 DEF Fine
  <1>3. CASE ~ noneed[v]
    <2>1. result[v] = SumWithin(v, n) /\ n \in Nat
      BY <1>1, <1>3
    <2>2. left[v] = Size(v) - Cardinality(Ball(v, n))
      BY DEF Hybrid
    <2> DEFINE r(i) == Cardinality(Ring(v, i))
               b(i) == Cardinality(Ball(v, i))
    <2>3. /\ r(1) \in Nat /\ r(2) \in Nat /\ r(3) \in Nat
          /\ b(2) = 1 + r(1) + r(2) /\ b(3) = b(2) + r(3)
          /\ SumWithin(v, 2) = r(1) + 2 * r(2)
          /\ SumWithin(v, 3) = SumWithin(v, 2) + 3 * r(3)
          /\ b(2) <= Size(v) /\ b(3) <= Size(v) /\ Size(v) \in Nat
      BY ThreeLevels
    <2>4. SumWithin(v, n) = 0 => b(n) = 1
      <3> HIDE DEF r, b
      <3>1. CASE n = 2
        BY <2>3, <3>1
      <3>2. CASE n = 3
        BY <2>3, <3>2
      <3>3. QED
        BY <3>1, <3>2
    <2>5. b(n) = Size(v)
      <3>1. CASE result[v] = 0
        <4>1. b(n) = 1 /\ Near(v) = Ring(v, 1) /\ r(1) = 0
          <5>1. b(n) = 1
            BY <2>1, <2>4, <3>1
          <5>2. Near(v) = Ring(v, 1)
            BY FirstBall
          <5>3. r(1) = 0
            <6> HIDE DEF r, b
            <6>1. CASE n = 2
              BY <2>3, <6>1, <5>1
            <6>2. CASE n = 3
              BY <2>3, <6>2, <5>1
            <6>3. QED
              BY <6>1, <6>2
          <5>4. QED
            BY <5>1, <5>2, <5>3
        <4>2. 0 \in 0 .. N - 1 /\ 0 + 1 = 1 /\ N \in Nat /\ N # 0
          BY SomeVertices
        <4>3. Ball(v, 0) = {v} /\ b(0) = 1 /\ Ball(v, 0 + 1) = {v} \cup Near(v)
          <5>1. Ball(v, 0) = {v}
            BY BallInit
          <5>2. Ball(v, 1) = {v} \cup Near(v)
            BY FirstBall
          <5>3. b(0) = 1
            BY <5>1, FS_Singleton
          <5>4. QED
            BY <4>2, <5>1, <5>2, <5>3
        <4>4. Near(v) = {}
          <5>1. IsFiniteSet(Near(v))
            <6>1. Near(v) \subseteq Vertices
              BY FriendsAre
            <6>2. QED
              BY <6>1, SomeVertices, FS_Subset
          <5>2. Cardinality(Near(v)) = 0
            BY <4>1
          <5>3. QED
            BY <5>1, <5>2, FS_EmptySet
        <4>5. Ball(v, 0 + 1) = Ball(v, 0)
          BY <4>3, <4>4
        <4>6. Ball(v, N) = Ball(v, 0)
          BY <4>2, <4>5, BallStays
        <4>7. Size(v) = 1
          BY <4>3, <4>6 DEF Size
        <4>8. QED
          BY <4>1, <4>7
      <3>2. CASE left[v] = 0
        <4>1. b(n) \in Nat
          BY <2>1, RingSize
        <4>2. Size(v) - b(n) = 0 /\ Size(v) \in Nat
          BY <2>2, <2>3, <3>2
        <4>3. QED
          BY <4>1, <4>2
      <3>3. QED
        BY <1>3, <3>1, <3>2 DEF Skipped
    <2>6. SumWithin(v, n) = get_exact_s(v)
      BY <2>1, <2>5, LimitBetween
    <2>7. Size(v) - 1 <= LimitOf(v, n) /\ LimitOf(v, n) <= get_exact_s(v) /\ get_exact_s(v) \in Nat
      BY <2>1, LimitBetween
    <2>8. LimitOf(v, n) \in Nat
      BY <2>1, LimitNext
    <2>9. Between(v, result[v])
      BY <2>1, <2>3, <2>6, <2>7, <2>8 DEF Between
    <2>10. QED
      BY <2>9 DEF Fine
  <1>4. QED
    BY <1>2, <1>3

\* One depth more by the bitsets of the balls gives what a search gives.
LEMMA AddedIsFine ==
    ASSUME Asked, NEW n \in {2, 3}, Hybrid(n), NEW v \in Vertices \ Aside, ~ Skipped(v),
           s_prev = [u \in Vertices |-> BitsOf(Ball(u, n))]
    PROVE  Fine(v, result[v] + count(Joined(v), len) * depth_max
                   + (left[v] - count(Joined(v), len)) * (depth_max + 1))
  <1>1. result[v] = SumWithin(v, n) /\ depth_max = n + 1 /\ left[v] = Size(v) - Cardinality(Ball(v, n))
    BY DEF Hybrid, FoundTo, Skipped
  <1>2. n \in Nat /\ n + 1 \in Nat
    OBVIOUS
  <1>3. count(Joined(v), len) = Cardinality(Ring(v, n + 1))
    BY <1>2, JoinBalls
  <1> DEFINE c == Cardinality(Ring(v, n + 1))
             b == Cardinality(Ball(v, n))
             b1 == Cardinality(Ball(v, n + 1))
             s == SumWithin(v, n)
             s1 == SumWithin(v, n + 1)
  <1>4. c \in Nat /\ b \in Nat /\ b1 = b + c
    BY <1>2, RingSize
  <1>5. s1 = s + (n + 1) * c /\ s \in Nat /\ s1 \in Nat
    BY <1>2, SumNext
  <1>6. Size(v) \in Nat
    BY <1>2, LimitNext
  <1>7. LimitOf(v, n + 1) = s1 + (Size(v) - b1) * (n + 1 + 1)
    BY DEF LimitOf
  <1>8. Fine(v, LimitOf(v, n + 1))
    BY <1>2, LimitIsFine
  <1> HIDE DEF c, b, b1, s, s1
  <1>9. s + c * (n + 1) + ((Size(v) - b) - c) * (n + 1 + 1) = s1 + (Size(v) - b1) * (n + 1 + 1)
    <2>1. CASE n = 2
      BY <1>4, <1>5, <1>6, <2>1
    <2>2. CASE n = 3
      BY <1>4, <1>5, <1>6, <2>2
    <2>3. QED
      BY <2>1, <2>2
  <1>10. QED
    BY <1>1, <1>3, <1>7, <1>8, <1>9 DEF c, b, s

\* One union more, and the rest counts one edge more: still no sum is passed.
LEMMA StepUnionNear ==
    ASSUME Query4Inv, UnionNear, Calm
    PROVE  Query4Inv'
  <1>1. pc = "union" /\ Asked /\ Answerable /\ AtUnion /\ pc' = "estimated"
    BY DEF Query4Inv, UnionNear, Goto
  <1>2. Begun /\ method \in HybridMethods
    BY <1>1 DEF AtUnion
  <1>3. UNCHANGED <<query, degree, sum_bound, choice, heapVars>> /\ noneed' = noneed
    BY DEF UnionNear, Calm, cut
  <1>4. Begun' /\ Asked' /\ Answerable' /\ Same /\ (MayGiveUp' <=> MayGiveUp) /\ Aside' = Aside
    BY <1>1, <1>2, <1>3, BegunKeeps
  <1>5. PICK n \in {2, 3} : s_prev = [v \in Vertices |-> BitsOf(Ball(v, n))] /\ Hybrid(n)
    BY <1>1 DEF AtUnion
  <1> DEFINE c == [v \in Vertices |-> IF Skipped(v) THEN 0 ELSE count(Joined(v), len)]
  <1>6. result' = [v \in Vertices |->
          IF Skipped(v) THEN result[v] ELSE result[v] + c[v] * depth_max + (left[v] - c[v]) * (depth_max + 1)]
    BY DEF UnionNear, AddDepth
  <1>7. ASSUME NEW v \in Vertices \ Aside
        PROVE  Fine(v, result'[v])
    <2>1. CASE Skipped(v)
      <3>1. result'[v] = result[v]
        BY <1>6, <2>1
      <3>2. Fine(v, result[v])
        BY <1>1, <1>5, <2>1, SkippedIsFine
      <3>3. QED
        BY <3>1, <3>2
    <2>2. CASE ~ Skipped(v)
      <3>1. c[v] = count(Joined(v), len)
        BY <2>2
      <3>2. result'[v] = result[v] + count(Joined(v), len) * depth_max
                         + (left[v] - count(Joined(v), len)) * (depth_max + 1)
        BY <1>6, <2>2, <3>1
      <3>3. Fine(v, result[v] + count(Joined(v), len) * depth_max
                    + (left[v] - count(Joined(v), len)) * (depth_max + 1))
        BY <1>1, <1>5, <2>2, AddedIsFine
      <3>4. QED
        BY <3>2, <3>3
    <2>3. QED
      BY <2>1, <2>2
  <1>8. DOMAIN result' = Vertices
    BY <1>6
  <1>9. QED
    BY <1>1, <1>2, <1>4, <1>7, <1>8, HybridBounded

\* The third level for bfs_2_dp_more, kept as a ring.
LEMMA StepUnionMore ==
    ASSUME Query4Inv, UnionMore, Calm
    PROVE  Query4Inv'
  <1>1. pc = "union" /\ Asked /\ Answerable /\ AtUnion /\ method = "bfs_2_dp_more"
    BY DEF Query4Inv, UnionMore
  <1>2. Begun /\ method \in HybridMethods
    BY <1>1 DEF AtUnion
  <1>3. UNCHANGED <<query, degree, sum_bound, choice, heapVars>> /\ noneed' = noneed
    BY DEF UnionMore, Calm, cut
  <1>4. Begun' /\ Asked' /\ Answerable' /\ Same /\ (MayGiveUp' <=> MayGiveUp) /\ Aside' = Aside
    BY <1>1, <1>2, <1>3, BegunKeeps
  <1>5. s_prev = [v \in Vertices |-> BitsOf(Ball(v, 2))] /\ Hybrid(2)
    BY <1>1 DEF AtUnion
  <1>6. depth_max = 3 /\ left = [v \in Vertices |-> Size(v) - Cardinality(Ball(v, 2))] /\ FoundTo(2)
    BY <1>5 DEF Hybrid
  <1>7. 2 \in Nat /\ 2 + 1 = 3
    OBVIOUS
  <1>8. \A v \in Vertices : Joined(v) = BitsOf(Ring(v, 3)) /\ count(Joined(v), len) = Cardinality(Ring(v, 3))
    <2>1. \A v \in Vertices : /\ Joined(v) = BitsOf(Ring(v, 2 + 1))
                              /\ count(Joined(v), len) = Cardinality(Ring(v, 2 + 1))
      BY <1>1, <1>5, <1>7, JoinBalls
    <2>2. QED
      BY <2>1, <1>7
  <1> DEFINE s == [v \in Vertices |-> Joined(v)]
             c == [v \in Vertices |-> count(s[v], len)]
             rest == [v \in Vertices |-> left[v] - c[v]]
             sum == [v \in Vertices |-> result[v] + c[v] * depth_max]
  <1>9. /\ left' = rest
        /\ \/ pc' = "union4" /\ depth_max' = depth_max + 1 /\ s_prev' = s /\ result' = sum
           \/ pc' = "estimated" /\ result' = [v \in Vertices |-> sum[v] + rest[v] * (depth_max + 1)]
    BY DEF UnionMore, Goto
  <1>10. s = [v \in Vertices |-> BitsOf(Ring(v, 3))]
    BY <1>8
  <1>11. ASSUME NEW v \in Vertices
         PROVE  /\ rest[v] = Size(v) - Cardinality(Ball(v, 3))
                /\ sum[v] = result[v] + Cardinality(Ring(v, 3)) * 3
                /\ rest[v] \in Nat /\ Cardinality(Ring(v, 3)) \in Nat
                /\ SumWithin(v, 3) = SumWithin(v, 2) + 3 * Cardinality(Ring(v, 3))
                /\ SumWithin(v, 2) \in Nat
    <2> DEFINE r(i) == Cardinality(Ring(v, i))
               b(i) == Cardinality(Ball(v, i))
    <2>1. /\ r(3) \in Nat /\ b(3) = b(2) + r(3) /\ r(1) \in Nat /\ r(2) \in Nat
          /\ SumWithin(v, 3) = SumWithin(v, 2) + 3 * r(3)
          /\ b(2) = 1 + r(1) + r(2)
          /\ b(3) <= Size(v) /\ Size(v) \in Nat
      BY <1>1, ThreeLevels
    <2>2. c[v] = r(3)
      BY <1>8
    <2>3. left[v] = Size(v) - b(2)
      BY <1>6
    <2>4. rest[v] = left[v] - c[v] /\ sum[v] = result[v] + c[v] * depth_max
      OBVIOUS
    <2>5. SumWithin(v, 2) \in Nat
      BY <1>1, <1>7, SumNext
    <2> HIDE DEF r, b, rest, sum, c
    <2>6. rest[v] = Size(v) - b(3) /\ rest[v] \in Nat
      BY <2>1, <2>2, <2>3, <2>4
    <2>7. QED
      BY <1>6, <2>1, <2>2, <2>4, <2>5, <2>6 DEF r, b
  <1>12. left' = [v \in Vertices |-> Size(v) - Cardinality(Ball(v, 3))]
    BY <1>9, <1>11
  <1> HIDE DEF s, c
  <1>13. CASE pc' = "union4" /\ depth_max' = depth_max + 1 /\ s_prev' = s /\ result' = sum
    <2>1. ASSUME NEW v \in Vertices \ Aside
          PROVE  IF noneed'[v] THEN MayGiveUp' /\ result'[v] \in Nat /\ result'[v] >= GivenUp
                               ELSE result'[v] = SumWithin(v, 3)'
      <3>1. result'[v] = result[v] + Cardinality(Ring(v, 3)) * 3
        BY <1>11, <1>13
      <3>2. IF noneed[v] THEN MayGiveUp /\ result[v] \in Nat /\ result[v] >= GivenUp
                         ELSE result[v] = SumWithin(v, 2)
        BY <1>6 DEF FoundTo
      <3>3. /\ Cardinality(Ring(v, 3)) \in Nat /\ SumWithin(v, 2) \in Nat
            /\ SumWithin(v, 3) = SumWithin(v, 2) + 3 * Cardinality(Ring(v, 3))
        BY <1>11
      <3>4. GivenUp \in Nat
        BY GivenUpAssumption
      <3>5. SumWithin(v, 3)' = SumWithin(v, 3)
        BY <1>4 DEF Same
      <3>6. CASE noneed[v]
        <4>1. MayGiveUp /\ result[v] \in Nat /\ result[v] >= GivenUp
          BY <3>2, <3>6
        <4>2. result'[v] \in Nat /\ result'[v] >= GivenUp
          BY <3>1, <3>3, <3>4, <4>1
        <4>3. noneed'[v]
          BY <1>3, <3>6
        <4>4. QED
          BY <1>4, <4>1, <4>2, <4>3
      <3>7. CASE ~ noneed[v]
        <4>1. result'[v] = SumWithin(v, 3)
          BY <3>1, <3>2, <3>3, <3>7
        <4>2. ~ noneed'[v]
          BY <1>3, <3>7
        <4>3. QED
          BY <3>5, <4>1, <4>2
      <3>8. QED
        BY <3>6, <3>7
    <2>2. FoundTo(3)'
      BY <1>4, <2>1 DEF FoundTo
    <2>3. Hybrid(3)'
      <3>1. left' = [v \in Vertices |-> Size(v)' - Cardinality(Ball(v, 3)')]
        BY <1>4, <1>12 DEF Same
      <3>2. depth_max' = 3 + 1
        BY <1>6, <1>13
      <3>3. QED
        BY <2>2, <3>1, <3>2 DEF Hybrid
    <2>4. s_prev' = [v \in Vertices |-> BitsOf(Ring(v, 3)')]
      BY <1>4, <1>10, <1>13 DEF Same
    <2>5. AtUnion4'
      BY <1>1, <1>4, <2>3, <2>4 DEF AtUnion4, Same, BitsOf
    <2>6. QED
      BY <1>4, <1>13, <2>5 DEF Query4Inv
  <1>14. CASE pc' = "estimated" /\ result' = [v \in Vertices |-> sum[v] + rest[v] * (depth_max + 1)]
    <2>1. ASSUME NEW v \in Vertices \ Aside
          PROVE  Fine(v, result'[v])
      <3>1. result'[v] = (result[v] + Cardinality(Ring(v, 3)) * 3) + (Size(v) - Cardinality(Ball(v, 3))) * 4
        <4>1. result'[v] = sum[v] + rest[v] * (depth_max + 1)
          BY <1>14
        <4>2. depth_max + 1 = 4
          BY <1>6
        <4>3. QED
          BY <1>11, <4>1, <4>2
      <3>2. IF noneed[v] THEN MayGiveUp /\ result[v] \in Nat /\ result[v] >= GivenUp
                         ELSE result[v] = SumWithin(v, 2)
        BY <1>6 DEF FoundTo
      <3>3. /\ Cardinality(Ring(v, 3)) \in Nat /\ SumWithin(v, 2) \in Nat
            /\ SumWithin(v, 3) = SumWithin(v, 2) + 3 * Cardinality(Ring(v, 3))
            /\ Size(v) - Cardinality(Ball(v, 3)) \in Nat
        BY <1>11
      <3>4. GivenUp \in Nat
        BY GivenUpAssumption
      <3>5. CASE noneed[v]
        <4>1. MayGiveUp /\ result[v] \in Nat /\ result[v] >= GivenUp
          BY <3>2, <3>5
        <4>2. result'[v] \in Nat /\ result'[v] >= GivenUp
          BY <3>1, <3>3, <3>4, <4>1
        <4>3. QED
          BY <4>1, <4>2 DEF Fine
      <3>6. CASE ~ noneed[v]
        <4>1. LimitOf(v, 3) = SumWithin(v, 3) + (Size(v) - Cardinality(Ball(v, 3))) * (3 + 1)
          BY DEF LimitOf
        <4>2. 3 \in Nat /\ 3 + 1 = 4
          OBVIOUS
        <4>3. result'[v] = LimitOf(v, 3)
          BY <3>1, <3>2, <3>3, <3>6, <4>1, <4>2
        <4>4. Fine(v, LimitOf(v, 3))
          BY <1>1, <4>2, LimitIsFine
        <4>5. QED
          BY <4>3, <4>4
      <3>7. QED
        BY <3>5, <3>6
    <2>2. DOMAIN result' = Vertices
      BY <1>14
    <2>3. QED
      BY <1>2, <1>4, <1>14, <2>1, <2>2, HybridBounded
  <1>15. QED
    BY <1>9, <1>13, <1>14

\* The fourth depth counts some vertices of the second again, so the bound is
\* smaller than that of a search, and still not below the smallest.
LEMMA FourthIsFine ==
    ASSUME Asked, Hybrid(3), NEW v \in Vertices \ Aside, ~ Skipped(v),
           s_prev = [u \in Vertices |-> BitsOf(Ring(u, 3))]
    PROVE  Fine(v, result[v] + count(Joined(v), len) * depth_max
                   + (left[v] - count(Joined(v), len)) * (depth_max + 1))
  <1>1. result[v] = SumWithin(v, 3) /\ depth_max = 4 /\ left[v] = Size(v) - Cardinality(Ball(v, 3))
    BY DEF Hybrid, FoundTo, Skipped
  <1> DEFINE r(i) == Cardinality(Ring(v, i))
             b(i) == Cardinality(Ball(v, i))
             c == count(Joined(v), len)
  <1>2. c \in Nat /\ r(4) <= c /\ c <= r(2) + r(4)
    BY JoinRings
  <1>3. /\ r(1) \in Nat /\ r(2) \in Nat /\ r(3) \in Nat /\ r(4) \in Nat
        /\ b(2) = 1 + r(1) + r(2) /\ b(3) = b(2) + r(3) /\ b(4) = b(3) + r(4)
        /\ SumWithin(v, 2) = r(1) + 2 * r(2)
        /\ SumWithin(v, 3) = SumWithin(v, 2) + 3 * r(3)
        /\ SumWithin(v, 4) = SumWithin(v, 3) + 4 * r(4)
        /\ b(4) <= Size(v) /\ Size(v) \in Nat
    BY ThreeLevels
  <1>4. LimitOf(v, 4) = SumWithin(v, 4) + (Size(v) - b(4)) * (4 + 1)
    BY DEF LimitOf
  <1>5. 4 \in Nat
    OBVIOUS
  <1>6. LimitOf(v, 4) <= get_exact_s(v) /\ get_exact_s(v) \in Nat
    BY <1>5, LimitBetween
  <1> DEFINE x == result[v] + c * depth_max + (left[v] - c) * (depth_max + 1)
  <1>7. x = SumWithin(v, 3) + c * 4 + ((Size(v) - b(3)) - c) * 5
    BY <1>1
  <1> HIDE DEF x, c, r, b
  <1>8. x \in Nat /\ Size(v) - 1 <= x /\ x <= LimitOf(v, 4)
    BY <1>2, <1>3, <1>4, <1>7
  <1>11. LimitOf(v, 4) \in Nat
    BY <1>5, LimitNext
  <1>9. Between(v, x)
    BY <1>6, <1>8, <1>3, <1>11 DEF Between
  <1>10. QED
    BY <1>9 DEF Fine, x, c

\* The fourth level, the union of the rings without what was found.
LEMMA StepUnionFour ==
    ASSUME Query4Inv, UnionFour, Calm
    PROVE  Query4Inv'
  <1>1. pc = "union4" /\ Asked /\ Answerable /\ AtUnion4 /\ pc' = "estimated"
    BY DEF Query4Inv, UnionFour, Goto
  <1>2. Begun /\ method \in HybridMethods /\ Hybrid(3) /\ s_prev = [v \in Vertices |-> BitsOf(Ring(v, 3))]
    BY <1>1 DEF AtUnion4, HybridMethods
  <1>3. UNCHANGED <<query, degree, sum_bound, choice, heapVars>> /\ noneed' = noneed
    BY DEF UnionFour, Calm, cut
  <1>4. Begun' /\ Asked' /\ Answerable' /\ Same /\ (MayGiveUp' <=> MayGiveUp) /\ Aside' = Aside
    BY <1>1, <1>2, <1>3, BegunKeeps
  <1> DEFINE c == [v \in Vertices |-> IF Skipped(v) THEN 0 ELSE count(Joined(v), len)]
  <1>6. result' = [v \in Vertices |->
          IF Skipped(v) THEN result[v] ELSE result[v] + c[v] * depth_max + (left[v] - c[v]) * (depth_max + 1)]
    BY DEF UnionFour, AddDepth
  <1>7. ASSUME NEW v \in Vertices \ Aside
        PROVE  Fine(v, result'[v])
    <2>1. CASE Skipped(v)
      <3>1. result'[v] = result[v]
        BY <1>6, <2>1
      <3>2. Fine(v, result[v])
        BY <1>1, <1>2, <2>1, SkippedIsFine
      <3>3. QED
        BY <3>1, <3>2
    <2>2. CASE ~ Skipped(v)
      <3>1. c[v] = count(Joined(v), len)
        BY <2>2
      <3>2. result'[v] = result[v] + count(Joined(v), len) * depth_max
                         + (left[v] - count(Joined(v), len)) * (depth_max + 1)
        BY <1>6, <2>2, <3>1
      <3>3. Fine(v, result[v] + count(Joined(v), len) * depth_max
                    + (left[v] - count(Joined(v), len)) * (depth_max + 1))
        BY <1>1, <1>2, <2>2, FourthIsFine
      <3>4. QED
        BY <3>2, <3>3
    <2>3. QED
      BY <2>1, <2>2
  <1>8. DOMAIN result' = Vertices
    BY <1>6
  <1>9. QED
    BY <1>1, <1>2, <1>4, <1>7, <1>8, HybridBounded

-----------------------------------------------------------------------------
(* Steps: the samples.                                                     *)

\* Every vertex that is reached is on one level.
LEMMA StepsAre ==
    ASSUME Asked, NEW s \in Vertices
    PROVE  /\ \A v \in Ball(s, N) : Steps(s, v) \in Nat \ {0}
           /\ \A n \in Nat : \A v \in Ring(s, n + 1) : Steps(s, v) = n + 1
           /\ Steps(s, s) = 2
  <1>0. N \in Nat /\ 0 \in Nat
    BY SomeVertices
  <1>1. \A m, n \in Nat, v \in Vertices : v \in Ring(s, m + 1) /\ v \in Ring(s, n + 1) => ~ m < n
    <2>1. SUFFICES ASSUME NEW m \in Nat, NEW n \in Nat, NEW v \in Vertices,
                          v \in Ring(s, m + 1), v \in Ring(s, n + 1), m < n
                   PROVE  FALSE
      OBVIOUS
    <2>2. Ring(s, m + 1) = Ball(s, m + 1) \ Ball(s, m) /\ Ring(s, n + 1) = Ball(s, n + 1) \ Ball(s, n)
      BY RingSize
    <2>3. m + 1 \in Nat /\ m + 1 <= n
      BY <2>1
    <2>4. Ball(s, m + 1) \subseteq Ball(s, n)
      BY <2>3, BallGrows
    <2>5. QED
      BY <2>1, <2>2, <2>4
  <1>2. \A v \in Ball(s, N) : v # s => \E n \in Nat : n + 1 \in 1 .. N /\ v \in Ring(s, n + 1)
    <2>1. SUFFICES ASSUME NEW v \in Ball(s, N), v # s
                   PROVE  \E n \in Nat : n + 1 \in 1 .. N /\ v \in Ring(s, n + 1)
      OBVIOUS
    <2> DEFINE D == {n \in Nat : v \in Ball(s, n)}
    <2>2. N \in D
      BY <1>0
    <2>3. PICK n \in D : \A m \in D : n <= m
      BY <2>2, LeastNumber
    <2>4. n \in Nat /\ n <= N /\ v \in Ball(s, n)
      BY <2>2, <2>3
    <2>5. n # 0
      <3>1. Ball(s, 0) = {s}
        BY BallInit
      <3>2. QED
        BY <2>1, <2>4, <3>1
    <2>6. n - 1 \in Nat /\ (n - 1) + 1 = n /\ ~ n <= n - 1
      BY <2>4, <2>5
    <2>7. v \notin Ball(s, n - 1)
      BY <2>3, <2>6
    <2>8. Ring(s, (n - 1) + 1) = Ball(s, (n - 1) + 1) \ Ball(s, n - 1)
      BY <2>6, RingSize
    <2>9. v \in Ring(s, (n - 1) + 1) /\ (n - 1) + 1 \in 1 .. N
      BY <1>0, <2>4, <2>6, <2>7, <2>8
    <2>10. QED
      BY <2>6, <2>9
  <1>3. ASSUME NEW n \in Nat, NEW v \in Vertices, v # s, v \in Ring(s, n + 1), n + 1 \in 1 .. N
        PROVE  Steps(s, v) = n + 1
    <2> DEFINE c == CHOOSE m \in 1 .. N : v \in Ring(s, m)
    <2>1. c \in 1 .. N /\ v \in Ring(s, c)
      BY <1>3
    <2>2. c - 1 \in Nat /\ (c - 1) + 1 = c
      BY <1>0, <2>1
    <2> HIDE DEF c
    <2>3. ~ c - 1 < n
      BY <1>1, <1>3, <2>1, <2>2
    <2>4. ~ n < c - 1
      BY <1>1, <1>3, <2>1, <2>2
    <2>5. c = n + 1
      BY <2>2, <2>3, <2>4
    <2>6. Steps(s, v) = c
      BY <1>3 DEF Steps, c
    <2>7. QED
      BY <2>5, <2>6
  <1>4. Steps(s, s) = 2
    BY DEF Steps
  <1>5. Ball(s, N) \in SUBSET Vertices
    BY <1>0, BallInit
  <1>6. \A v \in Ball(s, N) : Steps(s, v) \in Nat \ {0}
    <2>1. SUFFICES ASSUME NEW v \in Ball(s, N)
                   PROVE  Steps(s, v) \in Nat \ {0}
      OBVIOUS
    <2>2. CASE v = s
      BY <1>4, <2>2
    <2>3. CASE v # s
      <3>1. PICK n \in Nat : n + 1 \in 1 .. N /\ v \in Ring(s, n + 1)
        BY <1>2, <2>3
      <3>2. Steps(s, v) = n + 1
        BY <1>3, <1>5, <2>3, <3>1
      <3>3. QED
        BY <3>2
    <2>4. QED
      BY <2>2, <2>3
  <1>7. ASSUME NEW n \in Nat, NEW v \in Ring(s, n + 1)
        PROVE  Steps(s, v) = n + 1
    <2>1. n + 1 \in Nat /\ Ring(s, n + 1) = Ball(s, n + 1) \ Ball(s, n)
      BY RingSize
    <2>2. Ball(s, n + 1) \in SUBSET Vertices /\ s \in Ball(s, n) /\ Ball(s, n + 1) \subseteq Ball(s, N)
      BY <2>1, BallInit, BallGrows
    <2>3. v \in Vertices /\ v # s /\ v \in Ball(s, N)
      BY <2>1, <2>2
    <2>4. PICK m \in Nat : m + 1 \in 1 .. N /\ v \in Ring(s, m + 1)
      BY <1>2, <2>3
    <2>5. ~ m < n /\ ~ n < m
      BY <1>1, <1>7, <2>3, <2>4
    <2>6. m = n
      BY <2>5
    <2>7. QED
      BY <1>3, <2>3, <2>4, <2>6
  <1>8. QED
    BY <1>4, <1>6, <1>7

\* The steps from s to each of S.
StepsOf(s, S) == [v \in S |-> Steps(s, v)]

\* Level by level, the steps add up to the sum of the distances, and two more.
LEMMA StepsSum ==
    ASSUME Asked, NEW s \in Vertices
    PROVE  \A n \in Nat : SumFunction(StepsOf(s, Ball(s, n))) = 2 + SumWithin(s, n)
  <1> DEFINE D == {n \in Nat : SumFunction(StepsOf(s, Ball(s, n))) # 2 + SumWithin(s, n)}
  <1>1. SUFFICES ASSUME D # {} PROVE FALSE
    OBVIOUS
  <1>2. PICK n \in D : \A l \in D : n <= l
    BY <1>1, LeastNumber
  <1>3. n \in Nat /\ SumFunction(StepsOf(s, Ball(s, n))) # 2 + SumWithin(s, n)
    BY <1>2
  <1>4. Steps(s, s) = 2
    BY StepsAre
  <1>5. CASE n = 0
    <2>1. Ball(s, 0) = {s} /\ SumWithin(s, 0) = 0
      BY BallInit, SumNext
    <2> DEFINE F == [v \in {s} |-> Steps(s, v)]
    <2>2. F[s] = 2 /\ F = [v \in {s} |-> F[v]]
      BY <1>4
    <2>3. StepsOf(s, Ball(s, 0)) = F
      BY <2>1 DEF StepsOf
    <2> HIDE DEF F
    <2>4. F[s] \in Nat
      BY <2>2
    <2>5. SumFunction([v \in {s} |-> F[v]]) = F[s]
      BY <2>4, SumOfOne
    <2>6. SumFunction(F) = 2
      BY <2>2, <2>5
    <2>7. QED
      BY <1>3, <1>5, <2>1, <2>3, <2>6
  <1>6. CASE n # 0
    <2>1. n - 1 \in Nat /\ (n - 1) + 1 = n /\ ~ n <= n - 1
      BY <1>3, <1>6
    <2>2. SumFunction(StepsOf(s, Ball(s, n - 1))) = 2 + SumWithin(s, n - 1)
      BY <1>2, <2>1
    <2> DEFINE S == Ball(s, n)
               T == Ball(s, n - 1)
               R == Ring(s, n)
               F == [v \in S |-> Steps(s, v)]
    <2>3. Ball(s, n - 1) \subseteq Ball(s, (n - 1) + 1) /\ Ball(s, n) \in SUBSET Vertices /\ IsFiniteSet(Ball(s, n))
      BY <1>3, <2>1, BallStep
    <2>4. Ball(s, n) \subseteq Ball(s, N)
      BY <1>3, BallGrows
    <2>5. \A v \in S : Steps(s, v) \in Nat
      BY <2>4, StepsAre
    <2>6. F \in [S -> Nat]
      BY <2>5
    <2>7. T \in SUBSET S /\ IsFiniteSet(S)
      BY <2>1, <2>3
    <2>8. Ring(s, (n - 1) + 1) = Ball(s, (n - 1) + 1) \ Ball(s, n - 1) /\ Cardinality(Ring(s, (n - 1) + 1)) \in Nat
      BY <2>1, RingSize
    <2>9. R = S \ T /\ Cardinality(R) \in Nat
      BY <2>1, <2>8
    <2>10. \A v \in Ring(s, (n - 1) + 1) : Steps(s, v) = (n - 1) + 1
      BY <2>1, StepsAre
    <2>11. \A v \in S \ T : F[v] = n
      BY <2>1, <2>9, <2>10
    <2>12. StepsOf(s, T) = [v \in T |-> F[v]]
      BY <2>7 DEF StepsOf
    <2> DEFINE G == [v \in S \ T |-> F[v]]
    <2>13. StepsOf(s, S) = F
      BY DEF StepsOf
    <2> HIDE DEF F
    <2>14. G \in [S \ T -> Nat] /\ \A v \in S \ T : G[v] = n
      BY <2>6, <2>11
    <2> HIDE DEF S, T, R
    <2>15. SumFunction(F) = SumFunction([v \in T |-> F[v]]) + SumFunction([v \in S \ T |-> F[v]])
      BY <2>6, <2>7, SumOfTwo
    <2>16. IsFiniteSet(S \ T)
      BY <2>7, FS_Difference
    <2>17. SumFunction(G) = Cardinality(S \ T) * n
      <3> HIDE DEF G
      <3>1. QED
        BY <1>3, <2>14, <2>16, SumAtMost
    <2>18. SumWithin(s, (n - 1) + 1) = SumWithin(s, n - 1) + ((n - 1) + 1) * Cardinality(Ring(s, (n - 1) + 1))
           /\ SumWithin(s, n - 1) \in Nat
      BY <2>1, SumNext
    <2>19. SumWithin(s, n) = SumWithin(s, n - 1) + n * Cardinality(R)
      BY <2>1, <2>18 DEF R
    <2>20. n * Cardinality(R) = Cardinality(R) * n /\ n * Cardinality(R) \in Int
      BY <1>3, <2>9, TimesSum
    <2>21. SumFunction(F) = (2 + SumWithin(s, n - 1)) + Cardinality(R) * n
      BY <2>2, <2>9, <2>12, <2>15, <2>17 DEF T
    <2>22. SumFunction(F) = 2 + SumWithin(s, n)
      BY <2>18, <2>19, <2>20, <2>21
    <2>23. QED
      BY <1>3, <2>13, <2>22 DEF S
  <1>7. QED
    BY <1>5, <1>6

\* What bfs_all finds counts the source twice, and nothing when it has no friends.
LEMMA SampleSums ==
    ASSUME Asked, NEW s \in Vertices
    PROVE  SampleSum(s, bfs_all(s))
  <1>1. get_exact_s(s) <= (Size(s) - 1) * (Size(s) - 1)
    BY ExactAtMost
  <1>2. N \in Nat /\ 0 \in Nat
    BY SomeVertices
  <1>3. Size(s) \in Nat \ {0} /\ get_exact_s(s) \in Nat
    BY <1>2, LimitNext, LimitBetween
  <1>4. (Size(s) - 1) * (Size(s) - 1) \in Nat
    <2>1. Size(s) - 1 \in Nat
      BY <1>3
    <2>2. QED
      BY <2>1
  <1>5. CASE Near(s) = {}
    <2>1. Reached(s) = {}
      BY <1>5 DEF Reached
    <2> DEFINE F == [v \in {} |-> Steps(s, v)]
    <2>2. bfs_all(s) = SumFunction(F)
      BY <2>1 DEF bfs_all
    <2>3. F \in [{} -> Nat] /\ IsFiniteSet({}) /\ Cardinality({}) = 0
      BY FS_EmptySet
    <2> HIDE DEF F
    <2>4. SumFunction(F) \in Nat
      BY <2>3, SumIsDots
    <2>5. SumFunction(F) <= Cardinality({}) * 0
      BY <1>2, <2>3, SumAtMost
    <2>6. bfs_all(s) = 0
      BY <2>2, <2>3, <2>4, <2>5
    <2>7. get_exact_s(s) = 0
      <3>1. Ball(s, 0) = {s} /\ Ball(s, 0 + 1) = {s} \cup Near(s)
        BY BallInit, FirstBall
      <3>2. Ball(s, 0 + 1) = Ball(s, 0) /\ 0 \in 0 .. N - 1
        BY <1>5, <3>1, SomeVertices
      <3>3. Ball(s, N) = Ball(s, 0)
        BY <3>2, BallStays
      <3>4. Size(s) = 1
        BY <3>1, <3>3, FS_Singleton DEF Size
      <3>5. QED
        BY <1>1, <1>3, <3>4
    <2>8. QED
      BY <1>3, <1>4, <2>6, <2>7 DEF SampleSum
  <1>6. CASE Near(s) # {}
    <2>1. Reached(s) = Ball(s, N)
      BY <1>6 DEF Reached
    <2>2. bfs_all(s) = SumFunction(StepsOf(s, Ball(s, N)))
      BY <2>1 DEF bfs_all, StepsOf
    <2>3. bfs_all(s) = 2 + get_exact_s(s)
      BY <1>2, <2>2, StepsSum DEF get_exact_s
    <2>4. Size(s) # 1
      <3>1. PICK u \in Near(s) : TRUE
        BY <1>6
      <3>2. Near(s) = Ring(s, 1) /\ u \in Ring(s, 1) /\ 1 \in Nat
        BY <3>1, FirstBall
      <3>3. 1 < Size(s)
        BY <3>2, RingNear
      <3>4. QED
        BY <3>3
    <2>5. QED
      BY <1>1, <1>3, <1>4, <2>3, <2>4 DEF SampleSum
  <1>7. QED
    BY <1>5, <1>6

\* The smaller of two numbers, and the larger.
LEMMA TwoNumbers ==
    ASSUME NEW a \in Nat, NEW b \in Nat
    PROVE  /\ Min({a, b}) \in Nat /\ Min({a, b}) <= a
           /\ Max({a, b}) \in Nat
  <1>1. \E x \in {a, b} : \A y \in {a, b} : x <= y
    OBVIOUS
  <1>2. Min({a, b}) \in {a, b} /\ \A y \in {a, b} : Min({a, b}) <= y
    BY <1>1, Zenon DEF Min
  <1>3. \E x \in {a, b} : \A y \in {a, b} : y <= x
    OBVIOUS
  <1>4. Max({a, b}) \in {a, b}
    <2>1. \E x \in {a, b} : \A y \in {a, b} : x >= y
      OBVIOUS
    <2>2. QED
      BY <2>1, Zenon DEF Max
  <1>5. QED
    BY <1>2, <1>4

\* The steps of RandomChoiceEstimator leave the searches and the heap alone.
Steady == UNCHANGED <<delta, heapVars>>

\* The degrees stay right.
LEMMA CountedStays ==
    ASSUME Same, Counted, UNCHANGED degree
    PROVE  Counted'
  BY DEF Same, Counted

\* The samples chosen are vertices.
LEMMA StepSample ==
    ASSUME Query4Inv, Sample, Steady
    PROVE  Query4Inv'
  <1>1. pc = "sample" /\ pc' = "approximate" /\ Asked /\ Answerable /\ AtSample
    BY DEF Query4Inv, Sample, Goto
  <1>2. MayGiveUp /\ Counted /\ Unpopped
    BY <1>1 DEF AtSample
  <1>3. query' = query /\ degree' = degree /\ last' = last /\ ans' = ans
    BY DEF Sample, Steady, heapVars
  <1>4. Asked' /\ Answerable' /\ Same /\ (MayGiveUp' <=> MayGiveUp)
    BY <1>1, <1>3, CallStays
  <1> DEFINE large == {v \in Vertices : degree[v] > SampleDegree}
             n == Min({NSamples, Cardinality(large)})
  <1>5. PICK S : sampled' = [v \in Vertices |-> (IF v \in S THEN 1 ELSE 0) + (IF v = 1 THEN NSamples - n ELSE 0)]
    BY DEF Sample
  <1>6. NSamples \in Nat /\ Cardinality(large) \in Nat
    <2>1. IsFiniteSet(large)
      BY SomeVertices, FS_Subset
    <2>2. QED
      BY <2>1, FS_CardinalityType, RandomChoiceAssumption
  <1> HIDE DEF large
  <1>7. n \in Nat /\ n <= NSamples
    BY <1>6, TwoNumbers
  <1> HIDE DEF n
  <1>8. \A v \in Vertices : (IF v \in S THEN 1 ELSE 0) + (IF v = 1 THEN NSamples - n ELSE 0) \in Nat
    BY <1>6, <1>7
  <1>9. sampled' \in [Vertices -> Nat]
    BY <1>5, <1>8
  <1>10. Counted'
    BY <1>2, <1>3, <1>4, CountedStays
  <1>11. AtApproximate'
    BY <1>2, <1>3, <1>4, <1>9, <1>10 DEF AtApproximate, Unpopped
  <1>12. QED
    BY <1>1, <1>4, <1>11 DEF Query4Inv

\* The search of a sample finds a sum between what its friends force and its
\* own sum and two; the others are taken in proportion.
LEMMA StepApproximate ==
    ASSUME Query4Inv, Approximate, Steady
    PROVE  Query4Inv'
  <1>1. pc = "approximate" /\ pc' = "narrow" /\ Asked /\ Answerable /\ AtApproximate
    BY DEF Query4Inv, Approximate, Goto
  <1>2. MayGiveUp /\ Counted /\ Unpopped /\ sampled \in [Vertices -> Nat]
    BY <1>1 DEF AtApproximate
  <1>3. query' = query /\ degree' = degree /\ last' = last /\ ans' = ans /\ sampled' = sampled
    BY DEF Approximate, Steady, heapVars, choice
  <1>4. Asked' /\ Answerable' /\ Same /\ (MayGiveUp' <=> MayGiveUp)
    BY <1>1, <1>3, CallStays
  <1> DEFINE of(v) == {s \in Samples : v \in Reached(s)}
             vst_cnt(v) == SumFunction([s \in of(v) |-> sampled[s]])
             sum(v) == SumFunction([s \in of(v) |-> sampled[s] * Steps(s, v)])
             approx(v) == IF sampled[v] > 0 THEN bfs_all(v)
                          ELSE IF vst_cnt(v) = 0 THEN get_exact_s(v)
                          ELSE (sum(v) * degree[v]) \div vst_cnt(v)
  <1>5. approx_result' = [v \in Vertices |-> approx(v)]
    BY DEF Approximate
  <1>6. \A v \in Vertices : SampleSum(v, bfs_all(v))
    BY <1>1, SampleSums
  <1>7. ASSUME NEW v \in Vertices
        PROVE  approx(v) \in Nat
    <2>1. Samples \subseteq Vertices /\ IsFiniteSet(of(v)) /\ of(v) \subseteq Vertices
      <3>1. Samples \subseteq Vertices
        BY DEF Samples
      <3>2. of(v) \subseteq Vertices
        BY <3>1
      <3>3. IsFiniteSet(of(v))
        BY <3>2, SomeVertices, FS_Subset
      <3>4. QED
        BY <3>1, <3>2, <3>3
    <2>2. ASSUME NEW s \in of(v)
          PROVE  sampled[s] \in Nat /\ sampled[s] * Steps(s, v) \in Nat
      <3>1. s \in Vertices /\ v \in Reached(s)
        BY <2>1
      <3>2. v \in Ball(s, N)
        BY <3>1 DEF Reached
      <3>3. Steps(s, v) \in Nat
        BY <1>1, <3>1, <3>2, StepsAre
      <3>4. sampled[s] \in Nat
        BY <1>2, <3>1
      <3>5. QED
        BY <3>3, <3>4
    <2> DEFINE F == [s \in of(v) |-> sampled[s]]
               G == [s \in of(v) |-> sampled[s] * Steps(s, v)]
    <2>3. F \in [of(v) -> Nat] /\ G \in [of(v) -> Nat]
      BY <2>2
    <2> HIDE DEF F, G, of
    <2>4. SumFunction(F) \in Nat
      BY <2>1, <2>3, SumIsDots
    <2>5. SumFunction(G) \in Nat
      BY <2>1, <2>3, SumIsDots
    <2>6. vst_cnt(v) \in Nat /\ sum(v) \in Nat
      BY <2>4, <2>5 DEF F, G
    <2>7. 0 \in Nat /\ degree[v] = Size(v)
      BY <1>2 DEF Counted
    <2>8. degree[v] \in Nat /\ get_exact_s(v) \in Nat
      BY <1>1, <2>7, LimitNext, LimitBetween
    <2>9. bfs_all(v) \in Nat
      BY <1>6 DEF SampleSum
    <2> HIDE DEF vst_cnt, sum
    <2>10. sum(v) * degree[v] \in Nat
      BY <2>6, <2>8
    <2>11. vst_cnt(v) # 0 => (sum(v) * degree[v]) \div vst_cnt(v) \in Nat
      BY <2>6, <2>10, Division
    <2>12. QED
      BY <2>8, <2>9, <2>11
  <1> HIDE DEF of, vst_cnt, sum
  <1>8. approx_result' \in [Vertices -> Nat]
    <2> HIDE DEF approx
    <2>1. QED
      BY <1>5, <1>7
  <1>9. ASSUME NEW v \in Samples
        PROVE  SampleSum(v, approx_result'[v])
    <2>1. v \in Vertices /\ sampled[v] > 0
      BY DEF Samples
    <2>2. approx_result'[v] = bfs_all(v)
      BY <1>5, <2>1
    <2>3. QED
      BY <1>6, <2>1, <2>2
  <1>10. Samples' = Samples
    BY <1>3 DEF Samples
  <1>11. \A v, r : SampleSum(v, r) => SampleSum(v, r)'
    BY <1>4 DEF SampleSum, Same
  <1>12. \A v \in Samples' : SampleSum(v, approx_result[v])'
    BY <1>9, <1>10, <1>11
  <1>13. Counted'
    BY <1>2, <1>3, <1>4, CountedStays
  <1>14. AtNarrow'
    BY <1>2, <1>3, <1>4, <1>8, <1>12, <1>13 DEF AtNarrow, Unpopped
  <1>15. QED
    BY <1>1, <1>4, <1>14 DEF Query4Inv

\* The vertices by approximate sum, as a relation.
Nearer ==
    {p \in Vertices \X Vertices : \/ approx_result[p[1]] < approx_result[p[2]]
                                  \/ approx_result[p[1]] = approx_result[p[2]] /\ p[1] < p[2]}

\* Approximate sums, then numbers, order the vertices.
LEMMA NearerOrders ==
    ASSUME approx_result \in [Vertices -> Nat]
    PROVE  /\ Orders(Nearer, Vertices)
           /\ \A a, b \in Vertices : <<b, a>> \in Nearer <=>
                 approx_result[b] < approx_result[a] \/ (approx_result[b] = approx_result[a] /\ b < a)
  <1>1. \A a, b \in Vertices : <<b, a>> \in Nearer <=>
           approx_result[b] < approx_result[a] \/ (approx_result[b] = approx_result[a] /\ b < a)
    BY DEF Nearer
  <1>2. \A a \in Vertices : a \in Nat /\ approx_result[a] \in Nat
    BY SomeVertices
  <1>3. \A a \in Vertices : <<a, a>> \notin Nearer
    BY <1>1, <1>2
  <1>4. \A a, b \in Vertices : a # b => <<a, b>> \in Nearer \/ <<b, a>> \in Nearer
    BY <1>1, <1>2
  <1>5. \A a, b, c \in Vertices : <<a, b>> \in Nearer /\ <<b, c>> \in Nearer => <<a, c>> \in Nearer
    BY <1>1, <1>2
  <1>6. QED
    BY <1>1, <1>3, <1>4, <1>5 DEF Orders

\* How many vertices come before a in that order.
RankNear(a) ==
    Cardinality({b \in Vertices : \/ approx_result[b] < approx_result[a]
                                  \/ approx_result[b] = approx_result[a] /\ b < a})

\* Sorting puts every vertex at one place.
LEMMA OrderIs ==
    ASSUME approx_result \in [Vertices -> Nat]
    PROVE  /\ \A n \in 1 .. N : approx_result_with_person[n] \in Vertices
           /\ \A v \in Vertices : \E n \in 1 .. N : approx_result_with_person[n] = v
  <1> DEFINE order == approx_result_with_person
  <1>1. N \in Nat /\ IsFiniteSet(Vertices) /\ Cardinality(Vertices) = N
    BY SomeVertices
  <1>2. Orders(Nearer, Vertices)
    BY NearerOrders
  <1>3. \A a \in Vertices : RankNear(a) = RankIn(Nearer, Vertices, a)
    <2>1. SUFFICES ASSUME NEW a \in Vertices
                   PROVE  RankNear(a) = RankIn(Nearer, Vertices, a)
      OBVIOUS
    <2>2. \A b \in Vertices : <<b, a>> \in Nearer <=>
             approx_result[b] < approx_result[a] \/ (approx_result[b] = approx_result[a] /\ b < a)
      BY NearerOrders
    <2>3. {b \in Vertices : \/ approx_result[b] < approx_result[a]
                            \/ approx_result[b] = approx_result[a] /\ b < a} = Below(Nearer, Vertices, a)
      BY <2>2 DEF Below
    <2>4. QED
      BY <2>3 DEF RankNear, RankIn
  <1>4. approx_result_with_person =
          [n \in 1 .. Cardinality(Vertices) |-> CHOOSE a \in Vertices : RankNear(a) = n - 1]
    BY Zenon DEF approx_result_with_person, Sorted, RankNear
  <1>5. \A n \in 1 .. N : order[n] = CHOOSE a \in Vertices : RankNear(a) = n - 1
    BY <1>1, <1>4
  <1> HIDE DEF order
  <1>6. ASSUME NEW n \in 1 .. N
        PROVE  order[n] \in Vertices /\ RankNear(order[n]) = n - 1
    <2>1. n - 1 \in Nat /\ n - 1 < Cardinality(Vertices)
      BY <1>1
    <2>2. \E a \in Vertices : RankIn(Nearer, Vertices, a) = n - 1
      BY <1>1, <1>2, <2>1, RankCovers
    <2>3. \E a \in Vertices : RankNear(a) = n - 1
      BY <1>3, <2>2
    <2>4. QED
      BY <1>5, <2>3
  <1>7. ASSUME NEW v \in Vertices
        PROVE  \E n \in 1 .. N : order[n] = v
    <2>1. RankIn(Nearer, Vertices, v) \in Nat /\ RankIn(Nearer, Vertices, v) < Cardinality(Vertices)
      BY <1>1, <1>2, RankIsNat
    <2>2. RankNear(v) \in Nat /\ RankNear(v) < N
      BY <1>1, <1>3, <2>1
    <2>3. RankNear(v) + 1 \in 1 .. N /\ (RankNear(v) + 1) - 1 = RankNear(v)
      BY <1>1, <2>2
    <2>4. order[RankNear(v) + 1] \in Vertices /\ RankNear(order[RankNear(v) + 1]) = RankNear(v)
      BY <1>6, <2>3
    <2>5. RankIn(Nearer, Vertices, order[RankNear(v) + 1]) = RankIn(Nearer, Vertices, v)
      BY <1>3, <2>4
    <2>6. order[RankNear(v) + 1] = v
      BY <1>1, <1>2, <2>4, <2>5, RankOrders
    <2>7. QED
      BY <2>3, <2>6
  <1>8. QED
    BY <1>6, <1>7 DEF order

\* The vertices with sums that are not small among the first n.
LargeTo(order, known, n) == {v \in {order[i] : i \in 1 .. n} : known[v] >= SmallSum}

\* Some place in the order is the first with enough large sums before it.
LEMMA EnoughLarge ==
    ASSUME NEW order, NEW known, NEW m \in Nat \ {0},
           \A i \in 1 .. N : order[i] \in Vertices,
           m <= Cardinality(LargeTo(order, known, N))
    PROVE  \E n \in 1 .. N : /\ Cardinality(LargeTo(order, known, n)) = m
                             /\ Cardinality(LargeTo(order, known, n - 1)) < m
  <1> DEFINE L(n) == LargeTo(order, known, n)
             D == {n \in Nat : n <= N /\ m <= Cardinality(L(n))}
  <1>1. N \in Nat /\ IsFiniteSet(Vertices)
    BY SomeVertices
  <1>2. N \in D
    BY <1>1
  <1>3. PICK n \in D : \A l \in D : n <= l
    BY <1>2, LeastNumber
  <1>4. n \in Nat /\ n <= N /\ m <= Cardinality(L(n))
    BY <1>3
  <1>5. \A l \in Nat : l <= N => L(l) \subseteq Vertices
    BY <1>1 DEF LargeTo
  <1>6. \A l \in Nat : l <= N => IsFiniteSet(L(l)) /\ Cardinality(L(l)) \in Nat
    BY <1>1, <1>5, FS_Subset, FS_CardinalityType
  <1>7. n # 0
    <2>1. L(0) = {}
      BY DEF LargeTo
    <2>2. Cardinality(L(0)) = 0
      BY <2>1, FS_EmptySet
    <2>3. QED
      BY <1>4, <2>2
  <1>8. n - 1 \in Nat /\ n - 1 <= N /\ ~ n <= n - 1
    BY <1>1, <1>4, <1>7
  <1>9. ~ m <= Cardinality(L(n - 1))
    BY <1>3, <1>8
  <1>10. L(n) \subseteq L(n - 1) \cup {order[n]}
    <2>1. \A i \in 1 .. n : i \in 1 .. n - 1 \/ i = n
      BY <1>4
    <2>2. QED
      BY <2>1 DEF LargeTo
  <1>11. Cardinality(L(n)) <= Cardinality(L(n - 1)) + 1
    <2> HIDE DEF L
    <2>1. IsFiniteSet(L(n - 1)) /\ Cardinality(L(n - 1)) \in Nat
      BY <1>6, <1>8
    <2>2. IsFiniteSet(L(n - 1) \cup {order[n]})
          /\ Cardinality(L(n - 1) \cup {order[n]}) <= Cardinality(L(n - 1)) + 1
      BY <2>1, FS_AddElement
    <2>3. Cardinality(L(n)) <= Cardinality(L(n - 1) \cup {order[n]})
      BY <1>10, <2>2, FS_Subset
    <2>4. Cardinality(L(n - 1) \cup {order[n]}) \in Nat /\ Cardinality(L(n)) \in Nat
      BY <1>4, <1>6, <2>2, FS_CardinalityType
    <2>5. QED
      BY <2>1, <2>2, <2>3, <2>4
  <1>12. Cardinality(L(n)) \in Nat /\ Cardinality(L(n - 1)) \in Nat
    BY <1>4, <1>6, <1>8
  <1>13. Cardinality(L(n)) = m /\ Cardinality(L(n - 1)) < m
    <2> HIDE DEF L
    <2>1. QED
      BY <1>4, <1>9, <1>11, <1>12
  <1>14. n \in 1 .. N
    BY <1>1, <1>4, <1>7
  <1>15. QED
    BY <1>13, <1>14

\* With 2k sums that are not small the loop ends, the k-th of them is there,
\* and all calculated have the sums they should.
LEMMA StepNarrow ==
    ASSUME Query4Inv, Narrow, Steady
    PROVE  Query4Inv'
  <1>1. pc = "narrow" /\ pc' = "near" /\ Asked /\ Answerable /\ AtNarrow
    BY DEF Query4Inv, Narrow, Goto
  <1>2. /\ MayGiveUp /\ Counted /\ Unpopped /\ sampled \in [Vertices -> Nat]
        /\ approx_result \in [Vertices -> Nat] /\ \A v \in Samples : SampleSum(v, approx_result[v])
    BY <1>1 DEF AtNarrow
  <1>3. query' = query /\ degree' = degree /\ last' = last /\ ans' = ans /\ sampled' = sampled
    BY DEF Narrow, Steady, heapVars
  <1>4. Asked' /\ Answerable' /\ Same /\ (MayGiveUp' <=> MayGiveUp)
    BY <1>1, <1>3, CallStays
  <1> DEFINE order == approx_result_with_person
             known == [v \in Vertices |-> IF sampled[v] > 0 THEN approx_result[v] ELSE get_exact_s(v)]
             Large(n) == {v \in {order[i] : i \in 1 .. n} : known[v] >= SmallSum}
             upto == CHOOSE n \in 1 .. N : /\ Cardinality(Large(n)) = 2 * k
                                           /\ Cardinality(Large(n - 1)) < 2 * k
  <1>5. /\ calculated' = Samples \cup {order[i] : i \in 1 .. upto}
        /\ exact' = [v \in Vertices |-> IF v \in calculated' THEN known[v] ELSE -1]
        /\ noneed' = [v \in Vertices |-> v \in calculated' \cup given_up']
    <2> DEFINE First(o, n) == {v \in {o[i] : i \in 1 .. n} : known[v] >= SmallSum}
               Enough(o) == CHOOSE n \in 1 .. N : /\ Cardinality(First(o, n)) = 2 * k
                                                  /\ Cardinality(First(o, n - 1)) < 2 * k
    <2>1. PICK o \in {order} :
             /\ calculated' = Samples \cup {o[i] : i \in 1 .. Enough(o)}
             /\ exact' = [v \in Vertices |-> IF v \in calculated' THEN known[v] ELSE -1]
             /\ noneed' = [v \in Vertices |-> v \in calculated' \cup given_up']
      BY DEF Narrow
    <2>2. o = order
      BY <2>1
    <2>3. QED
      BY <2>1, <2>2
  <1>6. \A i \in 1 .. N : order[i] \in Vertices
    BY <1>2, OrderIs
  <1>7. \A v \in Vertices : \E i \in 1 .. N : order[i] = v
    BY <1>2, OrderIs
  <1> HIDE DEF order
  <1>8. N \in Nat /\ 0 \in Nat /\ IsFiniteSet(Vertices) /\ SmallSum \in Nat /\ k \in Nat \ {0}
    BY <1>1, SomeVertices, RandomChoiceAssumption, FriendsAre
  <1>9. \A v \in Vertices : /\ SampleSum(v, known[v]) /\ (sampled[v] = 0 => known[v] = get_exact_s(v))
                            /\ known[v] \in Nat /\ get_exact_s(v) \in Nat /\ get_exact_s(v) <= known[v]
    <2>1. SUFFICES ASSUME NEW v \in Vertices
                   PROVE  /\ SampleSum(v, known[v]) /\ (sampled[v] = 0 => known[v] = get_exact_s(v))
                          /\ known[v] \in Nat /\ get_exact_s(v) \in Nat /\ get_exact_s(v) <= known[v]
      OBVIOUS
    <2>2. get_exact_s(v) <= (Size(v) - 1) * (Size(v) - 1)
      BY <1>1, ExactAtMost
    <2>3. get_exact_s(v) \in Nat /\ Size(v) \in Nat \ {0}
      BY <1>1, <1>8, LimitBetween, LimitNext
    <2>4. (Size(v) - 1) * (Size(v) - 1) \in Nat
      <3>1. Size(v) - 1 \in Nat
        BY <2>3
      <3>2. QED
        BY <3>1
    <2>5. SampleSum(v, get_exact_s(v))
      BY <2>2, <2>3, <2>4 DEF SampleSum
    <2>6. sampled[v] \in Nat
      BY <1>2
    <2>7. SampleSum(v, known[v])
      <3>1. CASE sampled[v] > 0
        <4>1. v \in Samples
          BY <3>1 DEF Samples
        <4>2. QED
          BY <1>2, <3>1, <4>1
      <3>2. CASE ~ sampled[v] > 0
        BY <2>5, <3>2
      <3>3. QED
        BY <3>1, <3>2
    <2>8. sampled[v] = 0 => known[v] = get_exact_s(v)
      OBVIOUS
    <2>9. known[v] \in Nat /\ get_exact_s(v) <= known[v]
      BY <2>7 DEF SampleSum
    <2>10. QED
      BY <2>3, <2>7, <2>8, <2>9
  <1> HIDE DEF known
  <1>10. upto \in 1 .. N /\ Cardinality(Large(upto)) = 2 * k
    <2> DEFINE B == {v \in Vertices : get_exact_s(v) >= SmallSum}
    <2>1. Cardinality(B) >= 2 * k
      BY <1>1, <1>2 DEF Answerable, MayGiveUp
    <2>2. B \subseteq Large(N)
      BY <1>7, <1>8, <1>9
    <2>3. Large(N) \subseteq Vertices
      BY <1>6
    <2>4. \A n : Large(n) = LargeTo(order, known, n)
      BY DEF LargeTo
    <2> HIDE DEF B, Large
    <2>5. IsFiniteSet(Large(N)) /\ Cardinality(Large(N)) \in Nat
      BY <1>8, <2>3, FS_Subset, FS_CardinalityType
    <2>6. Cardinality(B) <= Cardinality(Large(N)) /\ Cardinality(B) \in Nat
      BY <2>2, <2>5, FS_Subset, FS_CardinalityType
    <2>7. 2 * k \in Nat \ {0} /\ 2 * k <= Cardinality(Large(N))
      BY <1>8, <2>1, <2>5, <2>6
    <2>8. 2 * k <= Cardinality(LargeTo(order, known, N))
      BY <2>4, <2>7
    <2>9. \E n \in 1 .. N : /\ Cardinality(LargeTo(order, known, n)) = 2 * k
                            /\ Cardinality(LargeTo(order, known, n - 1)) < 2 * k
      BY <1>6, <2>7, <2>8, EnoughLarge
    <2>10. \E n \in 1 .. N : Cardinality(Large(n)) = 2 * k /\ Cardinality(Large(n - 1)) < 2 * k
      BY <2>4, <2>9
    <2>11. QED
      BY <2>10
  <1>11. \A i \in 1 .. upto : i \in 1 .. N
    BY <1>8, <1>10
  <1> HIDE DEF upto
  <1>12. calculated' \subseteq Vertices /\ Samples \subseteq calculated'
    BY <1>5, <1>6, <1>11 DEF Samples
  <1>13. \A v \in calculated' : exact'[v] = known[v]
    BY <1>5, <1>12
  <1>14. Samples' = Samples /\ k' = k
    BY <1>3, <1>4 DEF Samples, Same
  <1>15. \A v, r : SampleSum(v, r) => SampleSum(v, r)'
    BY <1>4 DEF SampleSum, Same
  <1>16. \A v \in calculated' : Recorded(v)'
    <2>1. \A v \in calculated' : SampleSum(v, exact[v])'
      BY <1>9, <1>12, <1>13, <1>15
    <2>2. \A v \in calculated' : sampled'[v] = 0 => exact'[v] = get_exact_s(v)'
      BY <1>3, <1>4, <1>9, <1>12, <1>13 DEF Same
    <2>3. QED
      BY <2>1, <2>2 DEF Recorded
  <1>17. Cardinality(LargeKnown') >= 2 * k
    <2>1. Large(upto) \subseteq LargeKnown'
      BY <1>5, <1>13 DEF LargeKnown
    <2>2. LargeKnown' \subseteq Vertices
      BY <1>12 DEF LargeKnown
    <2>3. IsFiniteSet(LargeKnown') /\ Cardinality(LargeKnown') \in Nat
      BY <1>8, <2>2, FS_Subset, FS_CardinalityType
    <2> HIDE DEF Large
    <2>4. Cardinality(Large(upto)) <= Cardinality(LargeKnown')
      BY <2>1, <2>3, FS_Subset
    <2>5. QED
      BY <1>8, <1>10, <2>3, <2>4
  <1>18. Narrowed'
    BY <1>2, <1>3, <1>12, <1>14, <1>16, <1>17 DEF Narrowed
  <1>19. Unknown'
    <2>1. \A v \in Vertices : known[v] \in Int
      BY <1>9
    <2>2. exact' \in [Vertices -> Int]
      BY <1>5, <2>1
    <2>3. \A v \in Vertices \ calculated' : exact'[v] = -1
      BY <1>5
    <2>4. QED
      BY <2>2, <2>3 DEF Unknown
  <1>20. Counted'
    BY <1>2, <1>3, <1>4, CountedStays
  <1>21. Begun'
    BY <1>2, <1>3, <1>4, <1>18, <1>19, <1>20 DEF Begun, Chosen, Unpopped
  <1>22. Needed'
    BY <1>5, Zenon DEF Needed, Aside
  <1>23. method' \in HybridMethods
    BY <1>2, <1>4 DEF MayGiveUp
  <1>24. AtNear'
    BY <1>21, <1>22, <1>23 DEF AtNear
  <1>25. QED
    BY <1>1, <1>4, <1>24 DEF Query4Inv

-----------------------------------------------------------------------------
(* Steps: the searches that share distances.                               *)

\* No vertex is on two levels, and every level is reached from the one before.
LEMMA RingsAre ==
    ASSUME Asked, NEW v \in Vertices
    PROVE  /\ \A m, n \in Nat, u \in Vertices : u \in Ring(v, m) /\ u \in Ring(v, n) => m = n
           /\ \A n \in Nat : Ring(v, n) \subseteq Vertices /\ Ring(v, n) \subseteq Ball(v, n)
           /\ Ring(v, 0) = {v}
           /\ \A n \in Nat, u \in Vertices : u \in Ring(v, n + 1) => \E x \in Ring(v, n) : u \in Near(x)
           /\ \A n \in Nat, u \in Vertices : u \in Ball(v, n) => \E m \in 0 .. n : u \in Ring(v, m)
  <1>1. Ring(v, 0) = {v} /\ \A n \in Nat : n # 0 => Ring(v, n) = Ball(v, n) \ Ball(v, n - 1)
    BY DEF Ring
  <1>2. Ball(v, 0) = {v} /\ \A n \in Nat : Ball(v, n) \in SUBSET Vertices
    BY BallInit
  <1>3. \A m, n \in Nat : m <= n => Ball(v, m) \subseteq Ball(v, n)
    BY BallGrows
  <1>4. \A n \in Nat : Ring(v, n) \subseteq Vertices /\ Ring(v, n) \subseteq Ball(v, n)
    BY <1>1, <1>2
  <1>5. \A m, n \in Nat, u \in Vertices : m < n /\ u \in Ring(v, m) => u \notin Ring(v, n)
    <2>1. SUFFICES ASSUME NEW m \in Nat, NEW n \in Nat, NEW u \in Vertices, m < n, u \in Ring(v, m)
                   PROVE  u \notin Ring(v, n)
      OBVIOUS
    <2>2. n # 0 /\ n - 1 \in Nat /\ m <= n - 1
      BY <2>1
    <2>3. u \in Ball(v, n - 1)
      BY <1>3, <1>4, <2>1, <2>2
    <2>4. QED
      BY <1>1, <2>2, <2>3
  <1>6. \A m, n \in Nat, u \in Vertices : u \in Ring(v, m) /\ u \in Ring(v, n) => m = n
    <2>1. \A m, n \in Nat : m = n \/ m < n \/ n < m
      OBVIOUS
    <2>2. QED
      BY <1>5, <2>1
  <1>7. ASSUME NEW n \in Nat, NEW u \in Vertices, u \in Ball(v, n)
        PROVE  \E m \in 0 .. n : u \in Ring(v, m)
    <2> DEFINE D == {m \in Nat : u \in Ball(v, m)}
    <2>1. n \in D
      BY <1>7
    <2>2. PICK m \in D : \A l \in D : m <= l
      BY <2>1, LeastNumber
    <2>3. m \in Nat /\ m <= n /\ u \in Ball(v, m)
      BY <2>1, <2>2
    <2>4. CASE m = 0
      BY <1>1, <1>2, <2>3, <2>4
    <2>5. CASE m # 0
      <3>1. m - 1 \in Nat /\ ~ m <= m - 1
        BY <2>3, <2>5
      <3>2. u \notin Ball(v, m - 1)
        BY <2>2, <3>1
      <3>3. u \in Ring(v, m)
        BY <1>1, <2>3, <2>5, <3>2
      <3>4. QED
        BY <2>3, <3>3
    <2>6. QED
      BY <2>4, <2>5
  <1>8. ASSUME NEW n \in Nat, NEW u \in Vertices, u \in Ring(v, n + 1)
        PROVE  \E x \in Ring(v, n) : u \in Near(x)
    <2>1. Ring(v, n + 1) = Ball(v, n + 1) \ Ball(v, n)
      BY RingSize
    <2>2. u \in Ball(v, n + 1) <=> u \in Ball(v, n) \/ \E x \in Ball(v, n) : u \in Near(x)
      BY BallNext
    <2>3. PICK x \in Ball(v, n) : u \in Near(x)
      BY <1>8, <2>1, <2>2
    <2>4. x \in Vertices
      BY <1>2
    <2>5. PICK m \in 0 .. n : x \in Ring(v, m)
      BY <1>7, <2>4
    <2>6. CASE m = n
      BY <2>3, <2>5, <2>6
    <2>7. CASE m # n
      <3>1. m \in Nat /\ m + 1 \in Nat /\ m + 1 <= n
        BY <2>5, <2>7
      <3>2. x \in Ball(v, m)
        BY <1>4, <2>5, <3>1
      <3>3. u \in Ball(v, m + 1) <=> u \in Ball(v, m) \/ \E y \in Ball(v, m) : u \in Near(y)
        BY <3>1, BallNext
      <3>4. u \in Ball(v, n)
        BY <1>3, <2>3, <3>1, <3>2, <3>3
      <3>5. QED
        BY <1>8, <2>1, <3>4
    <2>8. QED
      BY <2>6, <2>7
  <1>9. QED
    BY <1>1, <1>4, <1>6, <1>7, <1>8

\* What a search needs of the distances that an older one left: none is too
\* small, and where one is right already so are those behind it.
Fits(old, v, from) ==
    /\ old \in [Vertices -> Int]
    /\ \A n \in 0 .. depth_max, u \in Vertices : u \in Ring(v, n) => old[u] >= from + n
    /\ \A n \in 1 .. depth_max, x \in Vertices, u \in Vertices :
          x \in Ring(v, n) /\ u \in Ring(v, n + 1) /\ u \in Near(x) /\ old[x] = from + n /\ n + 1 <= depth_max
             => old[u] = from + n + 1
    /\ \A u \in Vertices \ Ball(v, depth_max) : old[u] > from + depth_max

\* The vertices that the search comes to at distance n.
Followed(old, v, from) ==
    [n \in 0 .. depth_max |-> {u \in Ring(v, n) : n = 0 \/ old[u] > from + n}]

\* A walk takes the friends of those walked to that were further away before.
LEMMA FollowedAre ==
    ASSUME Asked, depth_max \in Nat, NEW v \in Vertices, NEW from \in Int, NEW old, Fits(old, v, from),
           NEW n \in 1 .. depth_max
    PROVE  LET W == Followed(old, v, from)
           IN W[n] = {u \in UNION {Near(x) : x \in W[n - 1]} :
                         old[u] > from + n /\ \A m \in 0 .. n - 1 : u \notin W[m]}
  <1> DEFINE W == Followed(old, v, from)
             T == {u \in UNION {Near(x) : x \in W[n - 1]} :
                      old[u] > from + n /\ \A m \in 0 .. n - 1 : u \notin W[m]}
  <1>1. /\ n \in Nat /\ n # 0 /\ n - 1 \in Nat /\ (n - 1) + 1 = n
        /\ n \in 0 .. depth_max /\ n - 1 \in 0 .. depth_max
        /\ \A m \in 0 .. n - 1 : m \in 0 .. depth_max /\ m \in Nat /\ m < n
    OBVIOUS
  <1>2. \A m \in 0 .. depth_max : \A u : u \in W[m] <=> u \in Ring(v, m) /\ (m = 0 \/ old[u] > from + m)
    BY DEF Followed
  <1> HIDE DEF W
  <1>3. /\ \A l, m \in Nat, u \in Vertices : u \in Ring(v, l) /\ u \in Ring(v, m) => l = m
        /\ \A m \in Nat : Ring(v, m) \subseteq Vertices /\ Ring(v, m) \subseteq Ball(v, m)
        /\ \A m \in Nat, u \in Vertices : u \in Ring(v, m + 1) => \E x \in Ring(v, m) : u \in Near(x)
        /\ \A m \in Nat, u \in Vertices : u \in Ball(v, m) => \E l \in 0 .. m : u \in Ring(v, l)
    BY RingsAre
  <1>4. \A x \in Vertices : Near(x) \subseteq Vertices
    BY FriendsAre
  <1>5. old \in [Vertices -> Int]
    BY DEF Fits
  <1>6. ASSUME NEW u, u \in W[n]
        PROVE  u \in T
    <2>1. u \in Ring(v, n) /\ old[u] > from + n /\ u \in Vertices
      BY <1>1, <1>2, <1>3, <1>6
    <2>2. PICK x \in Ring(v, n - 1) : u \in Near(x)
      BY <1>1, <1>3, <2>1
    <2>3. x \in Vertices
      BY <1>1, <1>3
    <2>4. x \in W[n - 1]
      <3>1. CASE n - 1 = 0
        BY <1>1, <1>2, <2>2, <3>1
      <3>2. CASE n - 1 # 0
        <4>1. old[x] >= from + (n - 1)
          BY <1>1, <2>2, <2>3 DEF Fits
        <4>2. old[x] # from + (n - 1)
          <5>1. SUFFICES ASSUME old[x] = from + (n - 1)
                         PROVE  FALSE
            OBVIOUS
          <5>2. n - 1 \in 1 .. depth_max /\ (n - 1) + 1 <= depth_max
            BY <1>1, <3>2
          <5>3. u \in Ring(v, (n - 1) + 1)
            BY <1>1, <2>1
          <5>4. old[u] = from + (n - 1) + 1
            BY <2>1, <2>2, <2>3, <5>1, <5>2, <5>3 DEF Fits
          <5>5. QED
            BY <1>5, <2>1, <5>4
        <4>3. old[x] > from + (n - 1)
          BY <1>5, <2>3, <4>1, <4>2
        <4>4. QED
          BY <1>1, <1>2, <2>2, <4>3
      <3>3. QED
        BY <3>1, <3>2
    <2>5. \A m \in 0 .. n - 1 : u \notin W[m]
      BY <1>1, <1>2, <1>3, <2>1
    <2>6. QED
      BY <2>1, <2>2, <2>4, <2>5
  <1>7. ASSUME NEW u \in T
        PROVE  u \in W[n]
    <2>1. PICK x \in W[n - 1] : u \in Near(x)
      OBVIOUS
    <2>2. old[u] > from + n /\ \A m \in 0 .. n - 1 : u \notin W[m]
      OBVIOUS
    <2>3. x \in Ring(v, n - 1) /\ x \in Vertices /\ x \in Ball(v, n - 1)
      BY <1>1, <1>2, <1>3, <2>1
    <2>4. u \in Vertices
      BY <1>4, <2>1, <2>3
    <2>5. u \in Ball(v, (n - 1) + 1) <=> u \in Ball(v, n - 1) \/ \E y \in Ball(v, n - 1) : u \in Near(y)
      BY <1>1, <2>4, BallNext
    <2>6. u \in Ball(v, n)
      BY <1>1, <2>1, <2>3, <2>5
    <2>7. PICK l \in 0 .. n : u \in Ring(v, l)
      BY <1>1, <1>3, <2>4, <2>6
    <2>8. CASE l = n
      BY <1>1, <1>2, <2>2, <2>7, <2>8
    <2>9. CASE l # n
      <3>1. l \in 0 .. n - 1 /\ l \in 0 .. depth_max
        BY <2>7, <2>9
      <3>2. old[u] > from + l
        BY <1>5, <2>2, <2>4, <2>7, <2>9
      <3>3. u \in W[l]
        BY <1>2, <2>7, <3>1, <3>2
      <3>4. QED
        BY <2>2, <3>1, <3>3
    <2>10. QED
      BY <2>8, <2>9
  <1> HIDE DEF T
  <1>8. W[n] = T
    BY <1>6, <1>7
  <1>9. QED
    BY <1>8 DEF W, T

\* The levels at which a walk comes to u.
FoundAt(old, v, from, u) == {n \in 0 .. depth_max : u \in Followed(old, v, from)[n]}

\* The search follows every level as far as it has something to correct.
LEMMA BfsFollows ==
    ASSUME Asked, depth_max \in Nat, NEW v \in Vertices, NEW from \in Int, NEW old, Fits(old, v, from)
    PROVE  bfs(old, v, from) =
              [u \in Vertices |-> IF FoundAt(old, v, from, u) = {} THEN old[u]
                                  ELSE from + Max(FoundAt(old, v, from, u))]
  <1> DEFINE R(b) == [n \in 0 .. depth_max |->
                        IF n = 0 THEN {v}
                        ELSE {u \in UNION {Near(x) : x \in b[n - 1]} :
                                 old[u] > from + n /\ \A m \in 0 .. n - 1 : u \notin b[m]}]
             c == CHOOSE b : b = R(b)
             W == Followed(old, v, from)
             Levels(q, u) == {n \in 0 .. depth_max : u \in q[n]}
             K(b, n) == {u \in UNION {Near(x) : x \in b[n - 1]} :
                            old[u] > from + n /\ \A m \in 0 .. n - 1 : u \notin b[m]}
  <1>1. bfs(old, v, from) = [u \in Vertices |-> IF Levels(c, u) = {} THEN old[u] ELSE from + Max(Levels(c, u))]
    BY DEF bfs
  <1>2. W[0] = {v}
    <2>1. Ring(v, 0) = {v}
      BY RingsAre
    <2>2. 0 \in 0 .. depth_max
      OBVIOUS
    <2>3. QED
      BY <2>1, <2>2 DEF Followed
  <1>3. \A n \in 1 .. depth_max : W[n] = K(W, n)
    BY FollowedAre
  <1>4. W = [n \in 0 .. depth_max |-> W[n]]
    BY DEF Followed
  <1> HIDE DEF W
  <1>5. \A b : R(b) = [n \in 0 .. depth_max |-> R(b)[n]]
    OBVIOUS
  <1>6. \A b : R(b)[0] = {v}
    BY 0 \in 0 .. depth_max
  <1>7. \A b, n : n \in 1 .. depth_max => R(b)[n] = K(b, n)
    <2>1. \A n \in 1 .. depth_max : n \in 0 .. depth_max /\ n # 0
      OBVIOUS
    <2>2. QED
      BY <2>1
  <1> HIDE DEF R, K
  <1>8. \A n \in 0 .. depth_max : n = 0 \/ n \in 1 .. depth_max
    OBVIOUS
  <1>9. W = R(W)
    <2>1. \A n \in 0 .. depth_max : W[n] = R(W)[n]
      BY <1>2, <1>3, <1>6, <1>7, <1>8
    <2>2. R(W) = [n \in 0 .. depth_max |-> R(W)[n]]
      BY <1>5
    <2>3. QED
      BY <1>4, <2>1, <2>2
  <1>10. c = R(c)
    BY <1>9, Zenon
  <1> HIDE DEF c
  <1>11. \A n \in 0 .. depth_max : c[n] = W[n]
    <2> DEFINE D == {n \in 0 .. depth_max : c[n] # W[n]}
    <2> SUFFICES ASSUME D # {} PROVE FALSE
      OBVIOUS
    <2>1. D \in SUBSET Nat
      OBVIOUS
    <2>2. PICK n \in D : \A m \in D : n <= m
      BY <2>1, LeastNumber
    <2>3. n \in 0 .. depth_max /\ c[n] # W[n]
      BY <2>2
    <2>4. R(c)[n] = R(W)[n]
      <3>1. CASE n = 0
        BY <1>6, <3>1
      <3>2. CASE n # 0
        <4>1. n \in 1 .. depth_max
          BY <2>3, <3>2
        <4>2. \A m \in 0 .. n - 1 : m \in 0 .. depth_max /\ ~ n <= m
          BY <4>1
        <4>3. \A m \in 0 .. n - 1 : c[m] = W[m]
          BY <2>2, <4>2
        <4>4. c[n - 1] = W[n - 1]
          <5>1. n - 1 \in 0 .. n - 1
            BY <4>1
          <5>2. QED
            BY <4>3, <5>1
        <4>5. K(c, n) = K(W, n)
          BY <4>3, <4>4 DEF K
        <4>6. QED
          BY <1>7, <4>1, <4>5
      <3>3. QED
        BY <3>1, <3>2
    <2>5. c[n] = R(c)[n] /\ W[n] = R(W)[n]
      BY <1>9, <1>10, Zenon
    <2>6. QED
      BY <2>3, <2>4, <2>5
  <1>12. \A u : Levels(c, u) = FoundAt(old, v, from, u)
    BY <1>11 DEF FoundAt, W
  <1> HIDE DEF Levels
  <1>13. QED
    BY <1>1, <1>12

\* After a search that fits, the distances from its source are there.
LEMMA BfsFinds ==
    ASSUME Asked, depth_max \in Nat, NEW v \in Vertices, NEW from \in Int, NEW old, Fits(old, v, from)
    PROVE  Distances(bfs(old, v, from), v, from)
  <1> DEFINE d == bfs(old, v, from)
             L(u) == FoundAt(old, v, from, u)
  <1>1. \A u \in Vertices : d[u] = IF L(u) = {} THEN old[u] ELSE from + Max(L(u))
    BY BfsFollows
  <1>2. DOMAIN d = Vertices /\ d = [u \in Vertices |-> d[u]]
    BY BfsFollows
  <1>3. /\ \A l, m \in Nat, u \in Vertices : u \in Ring(v, l) /\ u \in Ring(v, m) => l = m
        /\ \A m \in Nat : Ring(v, m) \subseteq Ball(v, m)
    BY RingsAre
  <1>4. \A u : L(u) = {n \in 0 .. depth_max : u \in Ring(v, n) /\ (n = 0 \/ old[u] > from + n)}
    BY DEF FoundAt, Followed
  <1> HIDE DEF d, L
  <1>5. \A n \in 0 .. depth_max : n \in Nat /\ n <= depth_max
    OBVIOUS
  <1>6. ASSUME NEW u \in Vertices, NEW n \in 0 .. depth_max, u \in Ring(v, n)
        PROVE  d[u] = from + n
    <2>1. old[u] >= from + n /\ old[u] \in Int
      BY <1>6 DEF Fits
    <2>2. \A m \in L(u) : m = n
      BY <1>3, <1>4, <1>5, <1>6
    <2>3. CASE L(u) = {}
      <3>1. ~ old[u] > from + n
        BY <1>4, <1>6, <2>3
      <3>2. old[u] = from + n
        BY <1>5, <2>1, <3>1
      <3>3. QED
        BY <1>1, <2>3, <3>2
    <2>4. CASE L(u) # {}
      <3>1. L(u) = {n}
        BY <2>2, <2>4
      <3>2. Max({n}) = n
        <4>1. {n} \in SUBSET (0 .. n) /\ {n} # {} /\ n \in Nat
          BY <1>5
        <4>2. Max({n}) \in {n}
          BY <4>1, LargestNumber
        <4>3. QED
          BY <4>2
      <3>3. QED
        BY <1>1, <2>4, <3>1, <3>2
    <2>5. QED
      BY <2>3, <2>4
  <1>7. \A m \in 0 .. depth_max : Ball(v, m) \subseteq Ball(v, depth_max)
    BY <1>5, BallGrows
  <1>8. ASSUME NEW u \in Vertices \ Ball(v, depth_max)
        PROVE  d[u] = old[u] /\ d[u] > from + depth_max
    <2>1. L(u) = {}
      BY <1>3, <1>4, <1>5, <1>7
    <2>2. d[u] = old[u]
      BY <1>1, <2>1
    <2>3. old[u] > from + depth_max
      BY DEF Fits
    <2>4. QED
      BY <2>2, <2>3
  <1>9. \A u \in Vertices : d[u] \in Int
    <2>1. SUFFICES ASSUME NEW u \in Vertices
                   PROVE  d[u] \in Int
      OBVIOUS
    <2>2. CASE u \in Ball(v, depth_max)
      <3>1. PICK n \in 0 .. depth_max : u \in Ring(v, n)
        BY <2>2, RingsAre
      <3>2. QED
        BY <1>5, <1>6, <3>1
    <2>3. CASE u \notin Ball(v, depth_max)
      BY <1>8, <2>3 DEF Fits
    <2>4. QED
      BY <2>2, <2>3
  <1>10. d \in [Vertices -> Int]
    BY <1>2, <1>9
  <1>11. QED
    BY <1>6, <1>8, <1>10 DEF Distances, d

\* With these distances dist_count has the sizes of the levels.
LEMMA CountedDistances ==
    ASSUME Asked, Counted, depth_max \in Nat, NEW v \in Vertices, NEW from \in Int, NEW d, Distances(d, v, from)
    PROVE  get_s_by_dist_count(v, d, from) = LimitOf(v, depth_max)
  <1> DEFINE dist_count == [n \in 0 .. depth_max |-> Cardinality({u \in Vertices : d[u] = from + n})]
  <1>1. /\ d \in [Vertices -> Int]
        /\ \A u \in Vertices, n \in 0 .. depth_max : u \in Ring(v, n) => d[u] = from + n
        /\ \A u \in Vertices \ Ball(v, depth_max) : d[u] > from + depth_max
    BY DEF Distances
  <1>2. /\ \A n \in Nat : Ring(v, n) \subseteq Vertices
        /\ \A u \in Vertices : u \in Ball(v, depth_max) => \E m \in 0 .. depth_max : u \in Ring(v, m)
    BY RingsAre
  <1>3. ASSUME NEW n \in 0 .. depth_max
        PROVE  {u \in Vertices : d[u] = from + n} = Ring(v, n)
    <2>1. n \in Nat /\ n <= depth_max
      OBVIOUS
    <2>2. ASSUME NEW u \in Vertices, d[u] = from + n
          PROVE  u \in Ring(v, n)
      <3>1. ~ d[u] > from + depth_max
        BY <2>1, <2>2
      <3>2. u \in Ball(v, depth_max)
        BY <1>1, <3>1
      <3>3. PICK m \in 0 .. depth_max : u \in Ring(v, m)
        BY <1>2, <3>2
      <3>4. d[u] = from + m
        BY <1>1, <3>3
      <3>5. m = n
        BY <2>1, <2>2, <3>4
      <3>6. QED
        BY <3>3, <3>5
    <2>3. \A u \in Ring(v, n) : u \in Vertices /\ d[u] = from + n
      BY <1>1, <1>2, <2>1
    <2>4. QED
      BY <2>2, <2>3
  <1>4. dist_count = RingCount(v, depth_max)
    BY <1>3 DEF RingCount
  <1>5. [n \in 0 .. depth_max |-> n * dist_count[n]] = RingSum(v, depth_max)
    BY <1>3 DEF RingSum
  <1> HIDE DEF dist_count
  <1>6. /\ SumFunction(RingCount(v, depth_max)) = Cardinality(Ball(v, depth_max))
        /\ SumFunction(RingSum(v, depth_max)) = SumWithin(v, depth_max)
    BY LevelSums
  <1>7. get_s_by_dist_count(v, d, from) =
           SumFunction([n \in 0 .. depth_max |-> n * dist_count[n]])
           + (depth_max + 1) * (degree[v] - SumFunction(dist_count))
    BY DEF get_s_by_dist_count, dist_count
  <1>8. degree[v] = Size(v)
    BY DEF Counted
  <1>9. get_s_by_dist_count(v, d, from) =
           SumWithin(v, depth_max) + (depth_max + 1) * (Size(v) - Cardinality(Ball(v, depth_max)))
    BY <1>4, <1>5, <1>6, <1>7, <1>8
  <1>10. Size(v) \in Nat /\ Cardinality(Ball(v, depth_max)) \in Nat
    BY LimitNext, RingSize
  <1>11. (depth_max + 1) * (Size(v) - Cardinality(Ball(v, depth_max)))
         = (Size(v) - Cardinality(Ball(v, depth_max))) * (depth_max + 1)
    <2>1. depth_max + 1 \in Int /\ Size(v) - Cardinality(Ball(v, depth_max)) \in Int
      BY <1>10
    <2>2. QED
      BY <2>1, TimesSum
  <1>12. QED
    BY <1>9, <1>11 DEF LimitOf

\* A first search fits, for nothing has a distance yet.
LEMMA FitsFresh ==
    ASSUME Asked, depth_max \in Nat, NEW v \in Vertices, NEW from \in Int, from < N
    PROVE  Fits(Fresh, v, from)
  <1>1. N \in Nat
    BY SomeVertices
  <1>2. Fresh \in [Vertices -> Int] /\ \A u \in Vertices : Fresh[u] = N + depth_max
    BY <1>1 DEF Fresh, Untouched
  <1>3. \A n \in 0 .. depth_max : N + depth_max > from + n
    BY <1>1
  <1>4. \A n \in 1 .. depth_max : n \in 0 .. depth_max
    OBVIOUS
  <1>5. depth_max \in 0 .. depth_max
    OBVIOUS
  <1>6. \A n \in 0 .. depth_max, u \in Vertices : Fresh[u] > from + n /\ Fresh[u] >= from + n /\ Fresh[u] # from + n
    <2>1. \A n \in 0 .. depth_max : N + depth_max > from + n /\ N + depth_max >= from + n /\ N + depth_max # from + n
      BY <1>1
    <2>2. QED
      BY <1>2, <2>1
  <1>7. QED
    BY <1>2, <1>4, <1>5, <1>6 DEF Fits

\* Nor does a search from a friend find a distance too small.
LEMMA FitsFriend ==
    ASSUME Asked, depth_max \in Nat, NEW w \in Vertices, NEW v \in Vertices, v \in Near(w),
           NEW b \in Int, NEW old, Distances(old, w, b)
    PROVE  Fits(old, v, b - 1)
  <1>1. /\ old \in [Vertices -> Int]
        /\ \A u \in Vertices, n \in 0 .. depth_max : u \in Ring(w, n) => old[u] = b + n
        /\ \A u \in Vertices \ Ball(w, depth_max) : old[u] > b + depth_max
    BY DEF Distances
  <1>2. /\ \A l, m \in Nat, u \in Vertices : u \in Ring(v, l) /\ u \in Ring(v, m) => l = m
        /\ \A m \in Nat, u \in Vertices : u \in Ball(v, m) => \E l \in 0 .. m : u \in Ring(v, l)
        /\ \A m \in Nat : Ring(v, m) \subseteq Ball(v, m)
    BY RingsAre
  <1>3. /\ \A m \in Nat, u \in Vertices : u \in Ball(w, m) => \E l \in 0 .. m : u \in Ring(w, l)
        /\ \A m \in Nat : Ring(w, m) \subseteq Ball(w, m)
    BY RingsAre
  <1>4. w \in Ball(v, 1) /\ 1 \in Nat
    <2>1. w \in Near(v)
      BY FriendsAre
    <2>2. QED
      BY <2>1, FirstBall
  <1>5. \A m \in Nat, u \in Vertices : u \in Ball(w, m) => u \in Ball(v, 1 + m)
    BY <1>4, BallsMeet
  <1>6. \A u \in Vertices : \/ old[u] > b + depth_max /\ u \notin Ball(w, depth_max)
                            \/ \E m \in 0 .. depth_max : u \in Ring(w, m) /\ old[u] = b + m /\ u \in Ball(w, m)
    <2>1. SUFFICES ASSUME NEW u \in Vertices
                   PROVE  \/ old[u] > b + depth_max /\ u \notin Ball(w, depth_max)
                          \/ \E m \in 0 .. depth_max : u \in Ring(w, m) /\ old[u] = b + m /\ u \in Ball(w, m)
      OBVIOUS
    <2>2. CASE u \in Ball(w, depth_max)
      <3>1. PICK m \in 0 .. depth_max : u \in Ring(w, m)
        BY <1>3, <2>2
      <3>2. m \in Nat /\ old[u] = b + m
        BY <1>1, <3>1
      <3>3. QED
        BY <1>3, <3>1, <3>2
    <2>3. CASE u \notin Ball(w, depth_max)
      BY <1>1, <2>3
    <2>4. QED
      BY <2>2, <2>3
  <1>7. ASSUME NEW n \in 0 .. depth_max, NEW u \in Vertices, u \in Ring(v, n)
        PROVE  old[u] >= (b - 1) + n
    <2>1. CASE old[u] > b + depth_max
      <3>1. old[u] \in Int
        BY <1>1
      <3>2. QED
        BY <2>1, <3>1
    <2>2. CASE \E m \in 0 .. depth_max : u \in Ring(w, m) /\ old[u] = b + m /\ u \in Ball(w, m)
      <3>1. PICK m \in 0 .. depth_max : old[u] = b + m /\ u \in Ball(w, m)
        BY <2>2
      <3>2. m \in Nat /\ 1 + m \in Nat /\ n \in Nat
        OBVIOUS
      <3>3. u \in Ball(v, 1 + m)
        BY <1>5, <3>1, <3>2
      <3>4. PICK l \in 0 .. 1 + m : u \in Ring(v, l)
        BY <1>2, <3>2, <3>3
      <3>5. l = n
        BY <1>2, <1>7, <3>2, <3>4
      <3>6. n <= 1 + m
        BY <3>4, <3>5
      <3>7. QED
        BY <3>1, <3>2, <3>6
    <2>3. QED
      BY <1>6, <2>1, <2>2
  <1>8. ASSUME NEW n \in 1 .. depth_max, NEW x \in Vertices, NEW u \in Vertices,
               x \in Ring(v, n), u \in Ring(v, n + 1), u \in Near(x), old[x] = (b - 1) + n, n + 1 <= depth_max
        PROVE  old[u] = (b - 1) + n + 1
    <2>1. n \in Nat /\ n + 1 \in 0 .. depth_max /\ n \in 0 .. depth_max /\ n - 1 \in Nat /\ (n - 1) + 1 = n
      BY <1>8
    <2>2. ~ old[x] > b + depth_max
      BY <1>8, <2>1
    <2>3. PICK m \in 0 .. depth_max : old[x] = b + m /\ x \in Ball(w, m)
      BY <1>6, <2>2
    <2>4. m = n - 1
      BY <1>8, <2>1, <2>3
    <2>5. u \in Ball(w, (n - 1) + 1) <=> u \in Ball(w, n - 1) \/ \E y \in Ball(w, n - 1) : u \in Near(y)
      BY <2>1, BallNext
    <2>6. u \in Ball(w, n)
      BY <1>8, <2>1, <2>3, <2>4, <2>5
    <2>7. PICK l \in 0 .. n : u \in Ring(w, l)
      BY <1>3, <2>1, <2>6
    <2>8. l \in 0 .. depth_max
      BY <2>1, <2>7
    <2>9. old[u] = b + l
      BY <1>1, <2>7, <2>8
    <2>10. old[u] >= (b - 1) + (n + 1)
      BY <1>7, <1>8, <2>1
    <2>11. l = n
      BY <2>1, <2>7, <2>9, <2>10
    <2>12. QED
      BY <2>1, <2>9, <2>11
  <1>9. ASSUME NEW u \in Vertices \ Ball(v, depth_max)
        PROVE  old[u] > (b - 1) + depth_max
    <2>1. CASE old[u] > b + depth_max
      <3>1. old[u] \in Int
        BY <1>1
      <3>2. QED
        BY <2>1, <3>1
    <2>2. CASE \E m \in 0 .. depth_max : u \in Ring(w, m) /\ old[u] = b + m /\ u \in Ball(w, m)
      <3>1. PICK m \in 0 .. depth_max : old[u] = b + m /\ u \in Ball(w, m)
        BY <2>2
      <3>2. m \in Nat /\ 1 + m \in Nat /\ m <= depth_max
        OBVIOUS
      <3>3. u \in Ball(v, 1 + m)
        BY <1>5, <3>1, <3>2
      <3>4. 1 + m <= depth_max => Ball(v, 1 + m) \subseteq Ball(v, depth_max)
        BY <3>2, BallGrows
      <3>5. m = depth_max
        BY <3>2, <3>3, <3>4
      <3>6. QED
        BY <3>1, <3>5
    <2>3. QED
      BY <1>6, <2>1, <2>2
  <1>10. QED
    BY <1>1, <1>7, <1>8, <1>9 DEF Fits

\* The source v is put on the path, with what the search changes.
Pushed(v, old, before) ==
    \E p \in [vtx : Vertices, undo : Undos] :
       path' = Append(before, p) /\ p.vtx = v /\ Taken(p, dist') = old

\* A search that fits finds the bound of its source.
LEMMA SearchIs ==
    ASSUME Asked, Counted, depth_max \in Nat, NEW v \in Vertices, NEW from \in Int, NEW old, NEW before,
           Fits(old, v, from), Search(old, v, from, before)
    PROVE  /\ Distances(dist', v, from) /\ base' = from /\ is_done' = is_done \cup {v}
           /\ result' = [result EXCEPT ![v] = LimitOf(v, depth_max)]
           /\ Pushed(v, old, before)
  <1> DEFINE d == bfs(old, v, from)
             changed == {u \in Vertices : d[u] # old[u]} \cup {v}
             p == [vtx |-> v, undo |-> [u \in changed |-> old[u]]]
  <1>1. /\ dist' = d /\ base' = from /\ is_done' = is_done \cup {v}
        /\ result' = [result EXCEPT ![v] = get_s_by_dist_count(v, d, from)]
        /\ path' = Append(before, p)
    BY DEF Search
  <1>2. Distances(d, v, from)
    BY BfsFinds
  <1> HIDE DEF d
  <1>3. get_s_by_dist_count(v, d, from) = LimitOf(v, depth_max)
    BY <1>2, CountedDistances
  <1>4. old \in [Vertices -> Int]
    BY DEF Fits
  <1>5. d \in [Vertices -> Int]
    BY <1>2 DEF Distances
  <1>6. p \in [vtx : Vertices, undo : Undos]
    <2>1. changed \in SUBSET Vertices
      OBVIOUS
    <2>2. \A u \in changed : old[u] \in Int
      BY <1>4, <2>1
    <2> HIDE DEF changed
    <2>3. [u \in changed |-> old[u]] \in [changed -> Int]
      BY <2>2
    <2>4. [u \in changed |-> old[u]] \in Undos
      BY <2>1, <2>3 DEF Undos
    <2>5. QED
      BY <2>4
  <1>7. Taken(p, d) = old
    <2>1. \A u \in Vertices : (IF u \in DOMAIN p.undo THEN p.undo[u] ELSE d[u]) = old[u]
      OBVIOUS
    <2>2. Taken(p, d) = [u \in Vertices |-> IF u \in DOMAIN p.undo THEN p.undo[u] ELSE d[u]]
      BY DEF Taken
    <2> HIDE DEF p
    <2>3. QED
      BY <1>4, <2>1, <2>2
  <1>8. p.vtx = v
    OBVIOUS
  <1> HIDE DEF p
  <1>9. QED
    BY <1>1, <1>2, <1>3, <1>6, <1>7, <1>8 DEF Pushed

\* The searches leave all but themselves alone.
Placid == UNCHANGED <<cut, choice, heapVars>>

\* Distances are those of the graph.
LEMMA DistancesStay ==
    ASSUME Same, depth_max' = depth_max
    PROVE  \A d, w, b : Distances(d, w, b) => Distances(d, w, b)'
  BY DEF Same, Distances

\* Nothing but the search goes on.
LEMMA SearchedKeeps ==
    ASSUME Asked, Answerable, Searched, UNCHANGED <<query, degree, cut, choice, heapVars, depth_max>>,
           result' \in [Vertices -> Int], is_done' \subseteq Vertices,
           \A v \in is_done' : result'[v] = LimitOf(v, depth_max)
    PROVE  Searched' /\ Asked' /\ Answerable' /\ Same
  <1>1. Begun /\ method \in SharedMethods \cup {"limit"} /\ Deep
    BY DEF Searched, Other
  <1>2. Begun' /\ Asked' /\ Answerable' /\ Same
    BY <1>1, BegunStays
  <1>3. Other'
    BY <1>1, <1>2 DEF Other, Same
  <1>4. Deep'
    BY <1>1 DEF Deep
  <1>5. \A v \in is_done' : result'[v] = LimitOf(v, depth_max)'
    BY <1>2 DEF Same
  <1>6. Searched'
    BY <1>3, <1>4, <1>5 DEF Searched
  <1>7. QED
    BY <1>2, <1>6

\* One more vertex has its bound.
LEMMA SearchedMore ==
    ASSUME Asked, Answerable, Searched, UNCHANGED <<query, degree, cut, choice, heapVars, depth_max>>,
           NEW v \in Vertices, is_done' = is_done \cup {v},
           result' = [result EXCEPT ![v] = LimitOf(v, depth_max)]
    PROVE  Searched' /\ Asked' /\ Answerable' /\ Same
  <1>1. result \in [Vertices -> Int] /\ is_done \subseteq Vertices /\ depth_max \in Nat
        /\ \A u \in is_done : result[u] = LimitOf(u, depth_max)
    BY DEF Searched, Other, Deep
  <1>2. LimitOf(v, depth_max) \in Int
    BY <1>1, LimitNext
  <1>3. result' \in [Vertices -> Int] /\ is_done' \subseteq Vertices
    BY <1>1, <1>2
  <1>4. \A u \in is_done' : result'[u] = LimitOf(u, depth_max)
    BY <1>1
  <1>5. QED
    BY <1>3, <1>4, SearchedKeeps

\* When all are done the bounds may go into the heap.
LEMMA AllSearched ==
    ASSUME Asked, Searched', Asked', Answerable', Same, pc' = "estimated", depth_max' = depth_max,
           Vertices \subseteq is_done'
    PROVE  Query4Inv'
  <1>1. /\ Begun' /\ depth_max' \in Nat /\ result' \in [Vertices -> Int]
        /\ \A v \in is_done' : result'[v] = LimitOf(v, depth_max)'
    BY DEF Searched, Other, Deep
  <1>2. \A v \in Vertices : result'[v] = LimitOf(v, depth_max)
    BY <1>1 DEF Same
  <1>3. result' = [v \in Vertices |-> LimitOf(v, depth_max)]
    BY <1>1, <1>2
  <1>4. depth_max \in Nat
    BY <1>1
  <1>5. QED
    BY <1>1, <1>3, <1>4, AllBounded

\* A vertex done is passed over.
LEMMA StepSkipRoot ==
    ASSUME Query4Inv, SkipRoot, Placid
    PROVE  Query4Inv'
  <1>1. pc = "delta" /\ Asked /\ Answerable /\ AtDelta /\ next \in is_done
    BY DEF Query4Inv, SkipRoot, Advance
  <1>2. Searched /\ method = "delta" /\ next \in 1 .. N /\ \A v \in Vertices : v < next => v \in is_done
    BY <1>1 DEF AtDelta
  <1>3. UNCHANGED <<query, degree, cut, choice, heapVars, depth_max, result>> /\ is_done' = is_done
    BY DEF SkipRoot, Placid, estimate, delta
  <1>4. result \in [Vertices -> Int] /\ is_done \subseteq Vertices
        /\ \A v \in is_done : result[v] = LimitOf(v, depth_max)
    BY <1>2 DEF Searched, Other
  <1>5. Searched' /\ Asked' /\ Answerable' /\ Same
    BY <1>1, <1>2, <1>3, <1>4, SearchedKeeps
  <1>6. N \in Nat /\ \A v \in Vertices : v \in 1 .. N
    BY SomeVertices DEF Vertices
  <1>7. CASE next < N
    <2>1. pc' = "delta" /\ next' = next + 1
      BY <1>1, <1>7 DEF SkipRoot, Advance
    <2>2. next' \in 1 .. N /\ \A v \in Vertices : v < next' => v \in is_done'
      BY <1>1, <1>2, <1>3, <1>6, <1>7, <2>1
    <2>3. AtDelta'
      BY <1>2, <1>5, <2>2 DEF AtDelta, Same
    <2>4. QED
      BY <1>5, <2>1, <2>3 DEF Query4Inv
  <1>8. CASE ~ next < N
    <2>1. pc' = "estimated"
      BY <1>1, <1>8 DEF SkipRoot, Advance
    <2>2. Vertices \subseteq is_done'
      BY <1>1, <1>2, <1>3, <1>6, <1>8
    <2>3. QED
      BY <1>1, <1>3, <1>5, <2>1, <2>2, AllSearched
  <1>9. QED
    BY <1>7, <1>8

\* A search of its own gives a vertex its sum, and dist its distances.
LEMMA StepSearchRoot ==
    ASSUME Query4Inv, SearchRoot, Placid
    PROVE  Query4Inv'
  <1>1. pc = "delta" /\ Asked /\ Answerable /\ AtDelta /\ pc' = "walk" /\ next' = next
    BY DEF Query4Inv, SearchRoot, Goto
  <1>2. Searched /\ method = "delta" /\ next \in 1 .. N /\ \A v \in Vertices : v < next => v \in is_done
    BY <1>1 DEF AtDelta
  <1>3. UNCHANGED <<query, degree, cut, choice, heapVars, depth_max>>
    BY DEF SearchRoot, Placid
  <1>4. Counted /\ depth_max \in Nat
    BY <1>2 DEF Searched, Other, Begun, Deep
  <1>5. next \in Vertices /\ N - 1 \in Int /\ N - 1 < N
    BY <1>2, SomeVertices DEF Vertices
  <1>6. Fits(Fresh, next, N - 1)
    BY <1>1, <1>4, <1>5, FitsFresh
  <1>7. Search(Fresh, next, N - 1, <<>>)
    BY DEF SearchRoot
  <1>8. /\ Distances(dist', next, N - 1) /\ base' = N - 1 /\ is_done' = is_done \cup {next}
        /\ result' = [result EXCEPT ![next] = LimitOf(next, depth_max)]
        /\ Pushed(next, Fresh, <<>>)
    BY <1>1, <1>4, <1>5, <1>6, <1>7, SearchIs
  <1>9. Searched' /\ Asked' /\ Answerable' /\ Same
    BY <1>1, <1>2, <1>3, <1>5, <1>8, SearchedMore
  <1>10. AtDelta'
    BY <1>1, <1>2, <1>8, <1>9 DEF AtDelta, Same
  <1>11. Len(path') = 1 /\ path'[1].vtx = next
    BY <1>8 DEF Pushed
  <1>13. AtWalk'
    <2>1. Distances(dist, path[1].vtx, base)'
      BY <1>1, <1>3, <1>8, <1>9, <1>11, DistancesStay
    <2>2. QED
      BY <1>5, <1>8, <1>10, <1>11, <2>1 DEF AtWalk
  <1>14. QED
    BY <1>1, <1>9, <1>13 DEF Query4Inv

\* From one friend to the next with the distances updated.
LEMMA StepWalk ==
    ASSUME Query4Inv, Walk, Placid
    PROVE  Query4Inv'
  <1>1. pc = "walk" /\ Asked /\ Answerable /\ AtWalk /\ pc' = "walk" /\ next' = next
    BY DEF Query4Inv, Walk, Goto
  <1>2. /\ Searched /\ method = "delta" /\ next \in 1 .. N /\ \A v \in Vertices : v < next => v \in is_done
        /\ base \in Int /\ Len(path) = 1 /\ path[1].vtx \in Vertices
        /\ Distances(dist, path[1].vtx, base)
    BY <1>1 DEF AtWalk, AtDelta
  <1>3. UNCHANGED <<query, degree, cut, choice, heapVars, depth_max>>
    BY DEF Walk, Placid
  <1>4. Counted /\ depth_max \in Nat
    BY <1>2 DEF Searched, Other, Begun, Deep
  <1>5. PICK v \in Near(path[1].vtx) : Search(dist, v, base - 1, <<>>)
    BY <1>2 DEF Walk, cur_vtx
  <1>6. v \in Vertices /\ base - 1 \in Int
    BY <1>1, <1>2, FriendsAre
  <1>7. Fits(dist, v, base - 1)
    BY <1>1, <1>2, <1>4, <1>5, <1>6, FitsFriend
  <1>8. /\ Distances(dist', v, base - 1) /\ base' = base - 1 /\ is_done' = is_done \cup {v}
        /\ result' = [result EXCEPT ![v] = LimitOf(v, depth_max)]
        /\ Pushed(v, dist, <<>>)
    BY <1>1, <1>4, <1>5, <1>6, <1>7, SearchIs
  <1>9. Searched' /\ Asked' /\ Answerable' /\ Same
    BY <1>1, <1>2, <1>3, <1>6, <1>8, SearchedMore
  <1>10. AtDelta'
    BY <1>1, <1>2, <1>8, <1>9 DEF AtDelta, Same
  <1>11. Len(path') = 1 /\ path'[1].vtx = v
    BY <1>8 DEF Pushed
  <1>12. AtWalk'
    <2>1. Distances(dist, path[1].vtx, base)'
      BY <1>3, <1>8, <1>9, <1>11, DistancesStay
    <2>2. QED
      BY <1>6, <1>8, <1>10, <1>11, <2>1 DEF AtWalk
  <1>13. QED
    BY <1>1, <1>9, <1>12 DEF Query4Inv

\* All friends are done: the loop goes on.
LEMMA StepWalkEnds ==
    ASSUME Query4Inv, WalkEnds, Placid
    PROVE  Query4Inv'
  <1>1. pc = "walk" /\ Asked /\ Answerable /\ AtWalk /\ pc' = "delta" /\ next' = next
    BY DEF Query4Inv, WalkEnds, Goto
  <1>2. Searched /\ method = "delta" /\ next \in 1 .. N /\ \A v \in Vertices : v < next => v \in is_done
    BY <1>1 DEF AtWalk, AtDelta
  <1>3. UNCHANGED <<query, degree, cut, choice, heapVars, depth_max, result>> /\ is_done' = is_done
    BY DEF WalkEnds, Placid, estimate, delta
  <1>4. result \in [Vertices -> Int] /\ is_done \subseteq Vertices
        /\ \A v \in is_done : result[v] = LimitOf(v, depth_max)
    BY <1>2 DEF Searched, Other
  <1>5. Searched' /\ Asked' /\ Answerable' /\ Same
    BY <1>1, <1>2, <1>3, <1>4, SearchedKeeps
  <1>6. AtDelta'
    BY <1>1, <1>2, <1>3, <1>5 DEF AtDelta, Same
  <1>7. QED
    BY <1>1, <1>5, <1>6 DEF Query4Inv

\* A vertex of path with what its search wrote over.
Searches == [vtx : Vertices, undo : Undos]

\* The friends one level further from the first vertex stay the same.
LEMMA BelowStays ==
    ASSUME Same
    PROVE  \A v : OneFurther(v)' = OneFurther(v)
  BY DEF Same, OneFurther

\* The scheduler begins at the first vertex.
LEMMA StepSearchTree ==
    ASSUME Query4Inv, SearchTree, Placid
    PROVE  Query4Inv'
  <1>1. pc = "schedule" /\ Asked /\ Answerable /\ AtSchedule /\ pc' = "tree" /\ next' = next
    BY DEF Query4Inv, SearchTree, Goto
  <1>2. Searched /\ method = "schedule" /\ is_done = {}
    BY <1>1 DEF AtSchedule
  <1>3. UNCHANGED <<query, degree, cut, choice, heapVars, depth_max>>
    BY DEF SearchTree, Placid
  <1>4. Counted /\ depth_max \in Nat
    BY <1>2 DEF Searched, Other, Begun, Deep
  <1>5. 1 \in Vertices /\ N - 2 \in Int /\ N - 2 < N
    BY SomeVertices
  <1>6. Fits(Fresh, 1, N - 2)
    BY <1>1, <1>4, <1>5, FitsFresh
  <1>7. Search(Fresh, 1, N - 2, <<>>)
    BY DEF SearchTree
  <1>8. /\ Distances(dist', 1, N - 2) /\ base' = N - 2 /\ is_done' = is_done \cup {1}
        /\ result' = [result EXCEPT ![1] = LimitOf(1, depth_max)]
        /\ Pushed(1, Fresh, <<>>)
    BY <1>1, <1>4, <1>5, <1>6, <1>7, SearchIs
  <1>9. Searched' /\ Asked' /\ Answerable' /\ Same
    BY <1>1, <1>2, <1>3, <1>5, <1>8, SearchedMore
  <1>10. PICK p \in Searches : path' = <<p>> /\ p.vtx = 1
    BY <1>8 DEF Pushed, Searches
  <1>11. Len(path') = 1 /\ path'[1] = p /\ path' \in Seq(Searches)
    BY <1>10
  <1>0. PICK d : d = dist'
    OBVIOUS
  <1> DEFINE ds == <<d>>
  <1>12. Stack(ds)'
    <2>1. dist' \in [Vertices -> Int]
      BY <1>8 DEF Distances
    <2>2. ds \in Seq([Vertices -> Int]) /\ Len(ds) = 1 /\ ds[1] = dist'
      BY <1>0, <2>1
    <2>3. Distances(dist', 1, N - 2) => Distances(ds[1], path[1].vtx, base + Len(path) - 1)'
      <3>1. base' + Len(path') - 1 = N - 2
        BY <1>5, <1>8, <1>11
      <3>2. path'[1].vtx = 1
        BY <1>10, <1>11
      <3>3. QED
        BY <1>3, <1>9, <2>2, <3>1, <3>2, DistancesStay
    <2>4. \A i \in 1 .. Len(path') : i = 1
      BY <1>11
    <2>5. path'[1].vtx \in is_done'
      BY <1>8, <1>10, <1>11
    <2> HIDE DEF ds
    <2>6. \A i \in 1 .. Len(path') :
             /\ path'[i].vtx \in is_done'
             /\ Distances(ds[i], path[i].vtx, base + Len(path) - i)'
             /\ i > 1 => ds[i - 1] = Taken(path'[i], ds[i])
      BY <1>8, <2>3, <2>4, <2>5
    <2>7. QED
      BY <1>11, <2>2, <2>6 DEF Stack, Searches, Taken, Undos
  <1>13. is_done' \ OnPath' = {}
    BY <1>2, <1>8, <1>10, <1>11 DEF OnPath
  <1>14. \E e : Stack(e)'
    BY <1>12
  <1>15. method' = "schedule" /\ base' \in Int /\ 1 \in is_done'
    BY <1>2, <1>5, <1>8, <1>9 DEF Same
  <1>16. AtTree'
    BY <1>9, <1>13, <1>14, <1>15 DEF AtTree
  <1>17. QED
    BY <1>1, <1>9, <1>16 DEF Query4Inv

\* A friend one level further is searched with the distances updated.
LEMMA StepDescend ==
    ASSUME Query4Inv, Descend, Placid
    PROVE  Query4Inv'
  <1>1. pc = "tree" /\ Asked /\ Answerable /\ AtTree /\ pc' = "tree"
    BY DEF Query4Inv, Descend, Goto
  <1>2. /\ Searched /\ method = "schedule" /\ 1 \in is_done /\ base \in Int
        /\ \A v \in is_done \ OnPath : OneFurther(v) \subseteq is_done
    BY <1>1 DEF AtTree
  <1>3. UNCHANGED <<query, degree, cut, choice, heapVars, depth_max>>
    BY DEF Descend, Placid
  <1>4. Counted /\ depth_max \in Nat
    BY <1>2 DEF Searched, Other, Begun, Deep
  <1>5. PICK ds : Stack(ds)
    BY <1>1 DEF AtTree
  <1>6. /\ path \in Seq(Searches) /\ ds \in Seq([Vertices -> Int]) /\ Len(ds) = Len(path)
        /\ path # <<>> /\ ds[Len(path)] = dist
        /\ \A i \in 1 .. Len(path) :
              /\ path[i].vtx \in is_done
              /\ Distances(ds[i], path[i].vtx, base + Len(path) - i)
              /\ i > 1 => ds[i - 1] = Taken(path[i], ds[i])
    BY <1>5 DEF Stack, Searches, Descend
  <1> DEFINE L == Len(path)
  <1>7. L \in Nat \ {0} /\ L \in 1 .. L
    <2>1. Len(path) \in Nat
      BY <1>6
    <2>2. Len(path) # 0
      BY <1>6
    <2>3. QED
      BY <2>1, <2>2
  <1>8. PICK v \in Children : Search(dist, v, base - 1, path)
    BY DEF Descend
  <1>9. path[L] \in Searches
    BY <1>6, <1>7
  <1>10. path[L].vtx \in Vertices
    BY <1>9 DEF Searches
  <1>11. v \in Near(path[L].vtx) /\ v \in Vertices /\ base - 1 \in Int
    <2>1. v \in Near(path[L].vtx)
      BY <1>8 DEF Children, cur_vtx
    <2>2. QED
      BY <1>1, <1>2, <1>10, <2>1, FriendsAre
  <1>12. Distances(dist, path[L].vtx, base)
    <2>1. Distances(ds[L], path[L].vtx, base + L - L)
      BY <1>6, <1>7
    <2>2. base + L - L = base /\ ds[L] = dist
      BY <1>2, <1>6, <1>7
    <2>3. QED
      BY <2>1, <2>2
  <1>13. Fits(dist, v, base - 1)
    BY <1>1, <1>2, <1>4, <1>10, <1>11, <1>12, FitsFriend
  <1>14. /\ Distances(dist', v, base - 1) /\ base' = base - 1 /\ is_done' = is_done \cup {v}
         /\ result' = [result EXCEPT ![v] = LimitOf(v, depth_max)]
         /\ Pushed(v, dist, path)
    BY <1>1, <1>4, <1>8, <1>11, <1>13, SearchIs
  <1>15. Searched' /\ Asked' /\ Answerable' /\ Same
    BY <1>1, <1>2, <1>3, <1>11, <1>14, SearchedMore
  <1>16. PICK p \in Searches : path' = Append(path, p) /\ p.vtx = v /\ Taken(p, dist') = dist
    BY <1>14 DEF Pushed, Searches
  <1>17. /\ path' \in Seq(Searches) /\ Len(path') = L + 1 /\ path'[L + 1] = p
         /\ \A i \in 1 .. L : path'[i] = path[i]
    BY <1>6, <1>16
  <1>0. PICK d : d = dist'
    OBVIOUS
  <1> DEFINE es == Append(ds, d)
  <1>18. dist' \in [Vertices -> Int]
    BY <1>14 DEF Distances
  <1>19. /\ es \in Seq([Vertices -> Int]) /\ Len(es) = L + 1 /\ es[L + 1] = dist'
         /\ \A i \in 1 .. L : es[i] = ds[i]
    BY <1>0, <1>6, <1>18
  <1> HIDE DEF es, L
  <1>20. ASSUME NEW i \in 1 .. L + 1
         PROVE  /\ path'[i].vtx \in is_done'
                /\ Distances(es[i], path'[i].vtx, base' + (L + 1) - i)
                /\ i > 1 => es[i - 1] = Taken(path'[i], es[i])
    <2>1. CASE i = L + 1
      <3>1. path'[i] = p /\ es[i] = dist'
        BY <1>17, <1>19, <2>1
      <3>2. base' + (L + 1) - i = base - 1
        BY <1>2, <1>7, <1>14, <2>1
      <3>3. i - 1 = L /\ es[L] = ds[L] /\ ds[L] = dist
        <4>1. i - 1 = L
          BY <1>7, <2>1
        <4>2. es[L] = ds[L]
          BY <1>7, <1>19
        <4>3. ds[L] = dist
          BY <1>6 DEF L
        <4>4. QED
          BY <4>1, <4>2, <4>3
      <3>4. QED
        BY <1>14, <1>16, <3>1, <3>2, <3>3
    <2>2. CASE i # L + 1
      <3>1. i \in 1 .. L
        BY <1>7, <2>2
      <3>2. path'[i] = path[i] /\ es[i] = ds[i]
        BY <1>17, <1>19, <3>1
      <3>3. base' + (L + 1) - i = base + L - i
        BY <1>2, <1>7, <1>14
      <3>4. /\ path[i].vtx \in is_done
            /\ Distances(ds[i], path[i].vtx, base + L - i)
            /\ i > 1 => ds[i - 1] = Taken(path[i], ds[i])
        BY <1>6, <3>1 DEF L
      <3>5. i > 1 => i - 1 \in 1 .. L
        BY <1>7, <3>1
      <3>6. i > 1 => es[i - 1] = ds[i - 1]
        BY <1>19, <3>5
      <3>7. QED
        BY <1>14, <3>2, <3>3, <3>4, <3>6
    <2>3. QED
      BY <2>1, <2>2
  <1>21. \A i \in 1 .. L + 1 : Distances(es[i], path[i].vtx, base + Len(path) - i)'
    <2>1. Len(path') = L + 1
      BY <1>17
    <2>2. QED
      BY <1>3, <1>15, <1>20, <2>1, DistancesStay
  <1>22. Stack(es)'
    <2>1. path' # <<>> => es[Len(path')] = dist'
      BY <1>17, <1>19
    <2>2. \A i \in 1 .. L + 1 : i > 1 => es[i - 1] = Taken(path'[i], es[i])
      BY <1>20
    <2>3. \A i \in 1 .. L + 1 : path'[i].vtx \in is_done'
      BY <1>20
    <2>4. Len(path') = L + 1 /\ Len(es) = L + 1
      BY <1>17, <1>19
    <2>5. path' \in Seq([vtx : Vertices, undo : Undos])
      BY <1>17 DEF Searches
    <2>6. es \in Seq([Vertices -> Int])
      BY <1>19
    <2>7. \A i \in 1 .. Len(path') :
             /\ path'[i].vtx \in is_done'
             /\ Distances(es[i], path[i].vtx, base + Len(path) - i)'
             /\ i > 1 => es[i - 1] = Taken(path'[i], es[i])
      BY <1>21, <2>2, <2>3, <2>4
    <2>8. QED
      BY <2>1, <2>4, <2>5, <2>6, <2>7 DEF Stack, Taken, Undos
  <1>23. OnPath' = OnPath \cup {v}
    <2>1. \A i \in 1 .. L + 1 : i \in 1 .. L \/ i = L + 1
      BY <1>7
    <2>2. L + 1 \in 1 .. L + 1 /\ \A i \in 1 .. L : i \in 1 .. L + 1
      BY <1>7
    <2>3. OnPath' = {path'[i].vtx : i \in 1 .. L + 1}
      BY <1>17 DEF OnPath
    <2>4. OnPath = {path[i].vtx : i \in 1 .. L}
      BY DEF OnPath, L
    <2>5. QED
      BY <1>16, <1>17, <2>1, <2>2, <2>3, <2>4
  <1>24. \A u \in is_done' \ OnPath' : OneFurther(u)' \subseteq is_done'
    <2>1. \A u : OneFurther(u)' = OneFurther(u)
      BY <1>15, BelowStays
    <2>2. QED
      BY <1>2, <1>14, <1>23, <2>1
  <1>25. \E e : Stack(e)'
    BY <1>22
  <1>26. method' = "schedule" /\ base' \in Int /\ 1 \in is_done'
    BY <1>2, <1>11, <1>14, <1>15 DEF Same
  <1>27. AtTree'
    BY <1>15, <1>24, <1>25, <1>26 DEF AtTree
  <1>28. QED
    BY <1>1, <1>15, <1>27 DEF Query4Inv

\* What is closed towards the vertices further from the first is everything.
LEMMA AllBelow ==
    ASSUME Asked, Answerable, method = "schedule", NEW D, 1 \in D,
           \A v \in Vertices : v \in D => OneFurther(v) \subseteq D
    PROVE  Vertices \subseteq D
  <1>1. 1 \in Vertices /\ N \in Nat
    BY SomeVertices
  <1>2. \A n \in Nat, u \in Vertices : u \in Ring(1, n) => u \in D
    <2> DEFINE B == {n \in Nat : \E u \in Vertices : u \in Ring(1, n) /\ u \notin D}
    <2>1. SUFFICES ASSUME B # {} PROVE FALSE
      OBVIOUS
    <2>2. PICK n \in B : \A m \in B : n <= m
      <3>1. B \in SUBSET Nat
        OBVIOUS
      <3> HIDE DEF B
      <3>2. QED
        BY <2>1, <3>1, LeastNumber
    <2>3. PICK u \in Vertices : u \in Ring(1, n) /\ u \notin D
      BY <2>2
    <2>4. n \in Nat /\ n # 0
      <3>1. Ring(1, 0) = {1}
        BY <1>1, RingsAre
      <3>2. n \in Nat
        BY <2>2
      <3>3. QED
        BY <2>3, <3>1, <3>2
    <2>5. n - 1 \in Nat /\ (n - 1) + 1 = n
      BY <2>4
    <2>6. PICK x \in Ring(1, n - 1) : u \in Near(x)
      <3>1. u \in Ring(1, (n - 1) + 1)
        BY <2>3, <2>5
      <3>2. QED
        BY <1>1, <2>5, <3>1, RingsAre
    <2>7. x \in Vertices
      BY <1>1, <2>5, <2>6, RingsAre
    <2>8. x \in D
      <3>1. n - 1 \notin B
        BY <2>2, <2>4
      <3>2. QED
        BY <2>5, <2>6, <2>7, <3>1
    <2>9. n \in 1 .. N
      <3>1. Ring(1, n) # {}
        BY <2>3
      <3>2. n <= N
        BY <1>1, <2>4, <3>1, RingNear
      <3>3. QED
        BY <1>1, <2>4, <3>2
    <2>10. u \in OneFurther(x)
      BY <2>3, <2>6, <2>9 DEF OneFurther
    <2>11. QED
      BY <2>3, <2>7, <2>8, <2>10
  <1>3. ASSUME NEW v \in Vertices PROVE v \in D
    <2>1. v \in Ball(1, N)
      <3>1. CASE N >= 2
        <4>1. v \in Ball(1, N - 2) /\ N - 2 \in Nat
          BY <1>1, <3>1 DEF Answerable
        <4>2. QED
          BY <1>1, <4>1, BallGrows
      <3>2. CASE ~ N >= 2
        <4>1. v = 1
          BY <1>1, <3>2 DEF Vertices
        <4>2. QED
          BY <1>1, <4>1, BallGrows
      <3>3. QED
        BY <3>1, <3>2
    <2>2. PICK m \in 0 .. N : v \in Ring(1, m)
      BY <1>1, <2>1, RingsAre
    <2>3. m \in Nat
      BY <1>1, <2>2
    <2>4. QED
      BY <1>2, <2>2, <2>3
  <1>4. QED
    BY <1>3

\* The search is undone: dist is again what it was for the one before.
LEMMA StepRollback ==
    ASSUME Query4Inv, Rollback, Placid
    PROVE  Query4Inv'
  <1>1. pc = "tree" /\ Asked /\ Answerable /\ AtTree
    BY DEF Query4Inv, Rollback
  <1>2. /\ Searched /\ method = "schedule" /\ 1 \in is_done /\ base \in Int
        /\ \A v \in is_done \ OnPath : OneFurther(v) \subseteq is_done
    BY <1>1 DEF AtTree
  <1>3. UNCHANGED <<query, degree, cut, choice, heapVars, depth_max, result, is_done>>
    BY DEF Rollback, Placid, estimate
  <1>4. result \in [Vertices -> Int] /\ is_done \subseteq Vertices
        /\ \A v \in is_done : result[v] = LimitOf(v, depth_max)
    BY <1>2 DEF Searched, Other
  <1>5. PICK ds : Stack(ds)
    BY <1>1 DEF AtTree
  <1>6. /\ path \in Seq(Searches) /\ ds \in Seq([Vertices -> Int]) /\ Len(ds) = Len(path)
        /\ path # <<>> /\ ds[Len(path)] = dist
        /\ \A i \in 1 .. Len(path) :
              /\ path[i].vtx \in is_done
              /\ Distances(ds[i], path[i].vtx, base + Len(path) - i)
              /\ i > 1 => ds[i - 1] = Taken(path[i], ds[i])
    BY <1>5 DEF Stack, Searches, Rollback
  <1> DEFINE L == Len(path)
  <1>7. L \in Nat \ {0} /\ L \in 1 .. L
    <2>1. Len(path) \in Nat
      BY <1>6
    <2>2. Len(path) # 0
      BY <1>6
    <2>3. QED
      BY <2>1, <2>2
  <1>8. Searched' /\ Asked' /\ Answerable' /\ Same
    BY <1>1, <1>2, <1>3, <1>4, SearchedKeeps
  <1>9. path' = SubSeq(path, 1, L - 1) /\ base' = base + 1 /\ dist' = Taken(path[L], dist)
    BY DEF Rollback, Taken
  <1>10. path' \in Seq(Searches) /\ Len(path') = L - 1 /\ \A i \in 1 .. L - 1 : path'[i] = path[i]
    BY <1>6, <1>7, <1>9
  <1>11. ASSUME NEW v \in is_done, v \notin OnPath \/ v = path[L].vtx
         PROVE  OneFurther(v) \subseteq is_done
    <2>1. CASE v \notin OnPath
      BY <1>2, <2>1
    <2>2. CASE v = path[L].vtx
      <3>1. Children = {}
        BY DEF Rollback
      <3>2. \A u : u \in Children <=> u \in OneFurther(v) \ is_done
        BY <2>2 DEF Children, OneFurther, cur_vtx
      <3>3. QED
        BY <3>1, <3>2
    <2>3. QED
      BY <1>11, <2>1, <2>2
  <1>12. OnPath = {path[i].vtx : i \in 1 .. L} /\ OnPath' = {path'[i].vtx : i \in 1 .. L - 1}
    BY <1>10 DEF OnPath
  <1>13. ASSUME NEW v \in is_done, v \notin OnPath'
         PROVE  OneFurther(v) \subseteq is_done
    <2>1. v \notin OnPath \/ v = path[L].vtx
      <3>1. \A i \in 1 .. L : i \in 1 .. L - 1 \/ i = L
        BY <1>7
      <3>2. QED
        BY <1>10, <1>12, <1>13, <3>1
    <2>2. QED
      BY <1>11, <2>1
  <1>14. CASE path' = <<>>
    <2>1. pc' = "estimated"
      BY <1>14 DEF Rollback
    <2>2. L - 1 = 0
      BY <1>10, <1>14
    <2>3. OnPath' = {}
      <3>1. \A i \in 1 .. 0 : FALSE
        OBVIOUS
      <3>2. 1 .. L - 1 = 1 .. 0
        BY <2>2, Zenon
      <3>3. QED
        BY <1>12, <3>1, <3>2
    <2>4. Vertices \subseteq is_done
      <3>1. \A v \in Vertices : v \in is_done => OneFurther(v) \subseteq is_done
        BY <1>13, <2>3
      <3>2. QED
        BY <1>1, <1>2, <3>1, AllBelow
    <2>5. Vertices \subseteq is_done' /\ depth_max' = depth_max
      BY <1>3, <2>4
    <2>6. QED
      BY <1>1, <1>8, <2>1, <2>5, AllSearched
  <1>15. CASE path' # <<>>
    <2>1. pc' = "tree"
      BY <1>15 DEF Rollback
    <2>2. L - 1 # 0 /\ L - 1 \in Nat /\ L - 1 \in 1 .. L - 1
      <3>1. Len(path') # 0
        BY <1>10, <1>15
      <3>2. QED
        BY <1>7, <1>10, <3>1
    <2>0. PICK es : es = SubSeq(ds, 1, L - 1)
      OBVIOUS
    <2>3. es \in Seq([Vertices -> Int]) /\ Len(es) = L - 1 /\ \A i \in 1 .. L - 1 : es[i] = ds[i]
      BY <1>6, <1>7, <2>0
    <2> HIDE DEF L
    <2>4. es[L - 1] = dist'
      <3>1. L > 1 /\ L \in 1 .. Len(path)
        BY <1>7, <2>2 DEF L
      <3>2. ds[L - 1] = Taken(path[L], ds[L])
        BY <1>6, <3>1
      <3>3. ds[L] = dist
        BY <1>6 DEF L
      <3>4. QED
        BY <1>9, <2>2, <2>3, <3>2, <3>3
    <2>5. ASSUME NEW i \in 1 .. L - 1
          PROVE  /\ path'[i].vtx \in is_done'
                 /\ Distances(es[i], path'[i].vtx, base' + (L - 1) - i)
                 /\ i > 1 => es[i - 1] = Taken(path'[i], es[i])
      <3>1. i \in 1 .. L
        BY <1>7
      <3>2. path'[i] = path[i] /\ es[i] = ds[i]
        BY <1>10, <2>3
      <3>3. base' + (L - 1) - i = base + L - i
        BY <1>2, <1>7, <1>9
      <3>4. /\ path[i].vtx \in is_done
            /\ Distances(ds[i], path[i].vtx, base + L - i)
            /\ i > 1 => ds[i - 1] = Taken(path[i], ds[i])
        BY <1>6, <3>1 DEF L
      <3>5. i > 1 => i - 1 \in 1 .. L - 1
        BY <1>7
      <3>6. i > 1 => es[i - 1] = ds[i - 1]
        BY <2>3, <3>5
      <3>7. QED
        BY <1>3, <3>2, <3>3, <3>4, <3>6
    <2>6. \A i \in 1 .. L - 1 : Distances(es[i], path[i].vtx, base + Len(path) - i)'
      <3>1. Len(path') = L - 1
        BY <1>10
      <3>2. QED
        BY <1>3, <1>8, <2>5, <3>1, DistancesStay
    <2>7. Stack(es)'
      <3>1. path' # <<>> => es[Len(path')] = dist'
        BY <1>10, <2>4
      <3>2. \A i \in 1 .. L - 1 : i > 1 => es[i - 1] = Taken(path'[i], es[i])
        BY <2>5
      <3>3. \A i \in 1 .. L - 1 : path'[i].vtx \in is_done'
        BY <2>5
      <3>4. Len(path') = L - 1 /\ Len(es) = L - 1
        BY <1>10, <2>3
      <3>5. path' \in Seq([vtx : Vertices, undo : Undos])
        BY <1>10 DEF Searches
      <3>6. es \in Seq([Vertices -> Int])
        BY <2>3
      <3>7. \A i \in 1 .. Len(path') :
               /\ path'[i].vtx \in is_done'
               /\ Distances(es[i], path[i].vtx, base + Len(path) - i)'
               /\ i > 1 => es[i - 1] = Taken(path'[i], es[i])
        BY <2>6, <3>2, <3>3, <3>4
      <3>8. QED
        BY <3>1, <3>4, <3>5, <3>6, <3>7 DEF Stack, Taken, Undos
    <2>8. \E e : Stack(e)'
      BY <2>7
    <2>9. \A u \in is_done' \ OnPath' : OneFurther(u)' \subseteq is_done'
      <3>1. \A u : OneFurther(u)' = OneFurther(u)
        BY <1>8, BelowStays
      <3>2. QED
        BY <1>3, <1>13, <3>1
    <2>10. method' = "schedule" /\ base' \in Int /\ 1 \in is_done'
      BY <1>2, <1>3, <1>8, <1>9 DEF Same
    <2>11. AtTree'
      BY <1>8, <2>8, <2>9, <2>10 DEF AtTree
    <2>12. QED
      BY <1>8, <2>1, <2>11 DEF Query4Inv
  <1>16. QED
    BY <1>14, <1>15

-----------------------------------------------------------------------------
(* The order of centralities.                                              *)

\* Multiplying keeps the order.
LEMMA TimesGrows ==
    ASSUME NEW a \in Nat, NEW r \in Nat, NEW t \in Nat, r <= t
    PROVE  a * r \in Nat /\ a * t \in Nat /\ a * r <= a * t
  <1>1. t - r \in Nat /\ r + (t - r) = t
    OBVIOUS
  <1>2. a * (r + (t - r)) = a * r + a * (t - r)
    BY <1>1, TimesSum
  <1>3. a * (t - r) \in Nat /\ a * r \in Nat
    BY <1>1
  <1>4. QED
    BY <1>1, <1>2, <1>3

\* What is given up does not come before what is large: p is the share of the
\* one, with h for its sum, and q that of the other, with x.
LEMMA FarFromTop ==
    ASSUME NEW p \in Nat, NEW q \in Nat \ {0}, NEW x \in Nat, NEW h \in Nat, NEW m \in Nat,
           p <= m, x <= 3 * q, 4 * m < h
    PROVE  p * x < q * h
  <1>1. p * x <= m * x
    <2>1. x * p <= x * m /\ x * p = p * x /\ x * m = m * x
      BY TimesGrows
    <2>2. QED
      BY <2>1
  <1>2. m * x <= m * (3 * q)
    BY TimesGrows
  <1>3. q * (4 * m + 1) <= q * h
    BY TimesGrows
  <1>4. q * (4 * m + 1) = 4 * (q * m) + q /\ m * (3 * q) = 3 * (q * m) /\ q * m \in Nat
    OBVIOUS
  <1>5. p * x \in Nat /\ m * x \in Nat /\ q * h \in Nat
    OBVIOUS
  <1>6. QED
    BY <1>1, <1>2, <1>3, <1>4, <1>5

\* The numerator of the centrality of v, when its sum is not 0.
Share(v) == (Size(v) - 1) * (Size(v) - 1)

\* (degree - 1) squared is positive but for a vertex alone, whose centrality is 0
\* as its sum is 0.
LEMMA SharesAre ==
    ASSUME Asked, Counted, NEW v \in Vertices
    PROVE  /\ Share(v) \in Nat /\ Share(v) <= N * N /\ N * N \in Nat
           /\ Size(v) # 1 => Share(v) >= 1
           /\ Size(v) = 1 => Share(v) = 0
           /\ \A s \in Nat : /\ s # 0 => Top(v, s) = Share(v) /\ Bottom(s) = s
                             /\ s = 0 => Top(v, s) = 0 /\ Bottom(s) = 1
           /\ \A s \in Nat : Top(v, s) \in Nat /\ Bottom(s) \in Nat \ {0}
  <1>1. Size(v) \in Nat \ {0} /\ N \in Nat
    <2>1. 0 \in Nat
      OBVIOUS
    <2>2. QED
      BY <2>1, LimitNext, SomeVertices
  <1>2. Size(v) <= N
    BY ThreeLevels
  <1> DEFINE z == Size(v) - 1
  <1>3. z \in Nat /\ z <= N /\ Share(v) = z * z
    BY <1>1, <1>2 DEF Share
  <1>4. z * z \in Nat /\ z * z <= N * N /\ N * N \in Nat
    <2> HIDE DEF z
    <2>1. z * z <= z * N
      BY <1>1, <1>3, TimesGrows
    <2>2. N * z <= N * N
      BY <1>1, <1>3, TimesGrows
    <2>3. N * z = z * N /\ N * z \in Nat /\ N * N \in Nat /\ z * z \in Nat
      BY <1>1, <1>3
    <2>4. QED
      BY <2>1, <2>2, <2>3
  <1>5. Size(v) # 1 => Share(v) >= 1
    <2>1. CASE Size(v) # 1
      <3>1. z >= 1
        BY <1>1, <2>1
      <3> HIDE DEF z
      <3>2. z * 1 <= z * z
        BY <1>3, <3>1, TimesGrows
      <3>3. QED
        BY <1>3, <1>4, <3>1, <3>2
    <2>2. QED
      BY <2>1
  <1>6. Size(v) = 1 => Share(v) = 0
    BY <1>1 DEF Share
  <1>7. degree[v] = Size(v)
    BY DEF Counted
  <1>8. \A s \in Nat : /\ s # 0 => Top(v, s) = Share(v) /\ Bottom(s) = s
                       /\ s = 0 => Top(v, s) = 0 /\ Bottom(s) = 1
    BY <1>7 DEF Top, Bottom, Share
  <1>9. \A s \in Nat : Top(v, s) \in Nat /\ Bottom(s) \in Nat \ {0}
    BY <1>3, <1>4, <1>8
  <1>10. QED
    BY <1>3, <1>4, <1>5, <1>6, <1>8, <1>9

\* A larger sum does not come earlier.
LEMMA LaterWhenFarther ==
    ASSUME Asked, Counted, NEW u \in Vertices, NEW v \in Vertices, NEW s \in Nat,
           NEW r \in Nat, NEW t \in Nat, r <= t, r = 0 => Size(u) = 1
    PROVE  /\ Precedes(v, s, u, r) => Precedes(v, s, u, t)
           /\ ~ MoreCentral(u, t, u, r)
  <1> DEFINE a == Top(v, s)
             b == Bottom(s)
  <1>1. a \in Nat /\ b \in Nat
    BY SharesAre
  <1>2. Top(u, r) = Top(u, t) /\ Top(u, r) \in Nat /\ Bottom(r) <= Bottom(t)
        /\ Bottom(r) \in Nat /\ Bottom(t) \in Nat
    <2>1. CASE r = 0
      <3>1. Size(u) = 1
        BY <2>1
      <3>2. Share(u) = 0
        BY <3>1, SharesAre
      <3>3. Top(u, r) = 0 /\ Bottom(r) = 1 /\ Bottom(t) \in Nat \ {0} /\ Top(u, t) = 0
        BY <2>1, <3>2, SharesAre
      <3>4. QED
        BY <3>3
    <2>2. CASE r # 0
      <3>1. t # 0
        BY <2>2
      <3>2. Top(u, r) = Share(u) /\ Top(u, t) = Share(u) /\ Bottom(r) = r /\ Bottom(t) = t /\ Share(u) \in Nat
        BY <2>2, <3>1, SharesAre
      <3>3. QED
        BY <3>2
    <2>3. QED
      BY <2>1, <2>2
  <1> DEFINE q == Top(u, r)
             y == Bottom(r)
             z == Bottom(t)
  <1>3. /\ MoreCentral(v, s, u, r) <=> a * y > q * b
        /\ AsCentral(v, s, u, r) <=> a * y = q * b
        /\ MoreCentral(v, s, u, t) <=> a * z > q * b
        /\ AsCentral(v, s, u, t) <=> a * z = q * b
        /\ MoreCentral(u, t, u, r) <=> q * y > q * z
    BY <1>2 DEF MoreCentral, AsCentral
  <1> HIDE DEF a, b, q, y, z
  <1>4. q \in Nat /\ y \in Nat /\ z \in Nat /\ y <= z
    BY <1>2 DEF q, y, z
  <1>5. a * y <= a * z /\ q * y <= q * z
    BY <1>1, <1>4, TimesGrows
  <1>6. a * y \in Nat /\ a * z \in Nat /\ q * y \in Nat /\ q * z \in Nat /\ q * b \in Nat
    BY <1>1, <1>4
  <1>7. QED
    BY <1>3, <1>5, <1>6 DEF Precedes

\* What comes before v in the heap is not less central.
LEMMA EarlierIsNotLess ==
    ASSUME Asked, Counted, NEW u \in Vertices, NEW v \in Vertices, NEW s \in Nat, NEW r \in Nat,
           Precedes(v, s, u, r)
    PROVE  ~ MoreCentral(u, r, v, s)
  <1>1. Top(v, s) \in Nat /\ Bottom(s) \in Nat /\ Top(u, r) \in Nat /\ Bottom(r) \in Nat
    BY SharesAre
  <1>2. Top(v, s) * Bottom(r) \in Nat /\ Top(u, r) * Bottom(s) \in Nat
    BY <1>1
  <1>3. QED
    BY <1>2 DEF Precedes, MoreCentral, AsCentral

-----------------------------------------------------------------------------
(* Steps: the heap.                                                        *)

\* The sums that count, and what exact_s has of those that are calculated.
LEMMA SumsThatCount ==
    ASSUME Asked, IF MayGiveUp THEN Narrowed ELSE Plain, NEW v \in Vertices
    PROVE  /\ SumOf(v) \in Nat /\ get_exact_s(v) \in Nat /\ get_exact_s(v) <= SumOf(v)
           /\ SumOf(v) <= Share(v) + 2
           /\ SumOf(v) = 0 <=> Size(v) = 1
           /\ get_exact_s(v) = 0 => Size(v) = 1
           /\ sampled[v] \in Nat
           /\ sampled[v] = 0 => SumOf(v) = get_exact_s(v)
           /\ v \in calculated => exact[v] = SumOf(v)
           /\ v \notin calculated => sampled[v] = 0
  <1>1. get_exact_s(v) \in Nat /\ get_exact_s(v) <= Share(v) /\ Size(v) \in Nat \ {0}
        /\ Size(v) - 1 <= get_exact_s(v)
    <2>1. get_exact_s(v) <= Share(v)
      BY ExactAtMost DEF Share
    <2>2. 0 \in Nat
      OBVIOUS
    <2>3. /\ get_exact_s(v) \in Nat /\ Size(v) - 1 <= LimitOf(v, 0) /\ LimitOf(v, 0) <= get_exact_s(v)
      BY <2>2, LimitBetween
    <2>4. LimitOf(v, 0) \in Nat /\ Size(v) \in Nat \ {0}
      BY <2>2, LimitNext
    <2>5. QED
      BY <2>1, <2>3, <2>4
  <1>2. Size(v) = 1 => Share(v) = 0
    BY DEF Share
  <1>3. Share(v) \in Nat
    BY <1>1 DEF Share
  <1>4. CASE MayGiveUp
    <2>1. Narrowed
      BY <1>4
    <2>2. /\ sampled[v] \in Nat /\ (sampled[v] > 0 => v \in calculated)
          /\ (v \in calculated => Recorded(v))
      BY <2>1 DEF Narrowed, Samples
    <2>3. Recorded(v) =>
             /\ exact[v] \in Nat /\ get_exact_s(v) <= exact[v] /\ exact[v] <= Share(v) + 2
             /\ (Size(v) = 1 => exact[v] = 0)
             /\ (sampled[v] = 0 => exact[v] = get_exact_s(v))
      BY DEF Recorded, SampleSum, Share
    <2>4. SumOf(v) = IF sampled[v] > 0 THEN exact[v] ELSE get_exact_s(v)
      BY DEF SumOf
    <2>5. QED
      BY <1>1, <1>2, <1>3, <2>2, <2>3, <2>4
  <1>5. CASE ~ MayGiveUp
    <2>1. sampled[v] = 0 /\ calculated = {}
      BY <1>5 DEF Plain
    <2>2. SumOf(v) = get_exact_s(v)
      BY <2>1 DEF SumOf
    <2>3. QED
      BY <1>1, <1>2, <1>3, <2>1, <2>2
  <1>6. QED
    BY <1>4, <1>5

\* The heap compares numbers; 0 is there for vertices alone only; nothing but
\* those given up is above its sum.
LEMMA HeapElements ==
    ASSUME Asked, AtHeap, NEW v \in DOMAIN heap
    PROVE  /\ v \in Vertices /\ heap[v] \in Nat
           /\ heap[v] = 0 => Size(v) = 1
           /\ heap[v] = SumOf(v) \/ (exact[v] = -1 /\ heap[v] = result[v])
           /\ heap[v] <= SumOf(v) \/ (MayGiveUp /\ heap[v] >= GivenUp)
           /\ exact[v] = -1 => SumOf(v) = get_exact_s(v)
  <1>1. v \in Vertices /\ InHeap(v) /\ (IF MayGiveUp THEN Narrowed ELSE Plain)
    BY DEF AtHeap
  <1>2. /\ SumOf(v) \in Nat /\ get_exact_s(v) \in Nat /\ get_exact_s(v) <= SumOf(v)
        /\ SumOf(v) = 0 => Size(v) = 1
        /\ v \in calculated => exact[v] = SumOf(v)
        /\ v \notin calculated => sampled[v] = 0
        /\ sampled[v] = 0 => SumOf(v) = get_exact_s(v)
    BY <1>1, SumsThatCount
  <1>3. Size(v) \in Nat \ {0}
    <2>1. 0 \in Nat
      OBVIOUS
    <2>2. QED
      BY <1>1, <2>1, LimitNext
  <1>4. GivenUp \in Nat /\ GivenUp # 0
    <2>1. 4 * N * N \in Nat /\ 4 * N \in Nat
      BY SomeVertices
    <2>2. FriendsOfAll(query) \in Nat
      BY FriendsAtMost
    <2>3. GivenUp \in Nat /\ GivenUp > IF query.estimating THEN 4 * N * N ELSE 4 * N + FriendsOfAll(query)
      BY GivenUpAssumption DEF Asked
    <2>4. GivenUp # 0
      <3>1. CASE query.estimating
        BY <2>1, <2>3, <3>1
      <3>2. CASE ~ query.estimating
        BY <2>1, <2>2, <2>3, <3>2
      <3>3. QED
        BY <3>1, <3>2
    <2>5. QED
      BY <2>3, <2>4
  <1>5. CASE heap[v] = SumOf(v)
    <2>1. heap[v] \in Nat /\ heap[v] <= SumOf(v) /\ (heap[v] = 0 => Size(v) = 1)
      BY <1>2, <1>5
    <2>2. exact[v] = -1 => SumOf(v) = get_exact_s(v)
      BY <1>2
    <2>3. QED
      BY <1>1, <1>5, <2>1, <2>2
  <1>6. CASE heap[v] = result[v] /\ exact[v] = -1 /\ Fine(v, result[v])
    <2>1. v \notin calculated
      BY <1>2, <1>6
    <2>2. SumOf(v) = get_exact_s(v)
      BY <1>2, <2>1
    <2>3. Between(v, heap[v]) \/ (MayGiveUp /\ heap[v] \in Nat /\ heap[v] >= GivenUp)
      <3>1. Fine(v, heap[v])
        BY <1>6
      <3>2. QED
        BY <3>1, Zenon DEF Fine
    <2>4. Between(v, heap[v]) => heap[v] \in Nat /\ Size(v) - 1 <= heap[v] /\ heap[v] <= get_exact_s(v)
      BY DEF Between
    <2>5. QED
      BY <1>1, <1>2, <1>3, <1>4, <1>6, <2>1, <2>2, <2>3, <2>4
  <1>7. QED
    BY <1>1, <1>2, <1>5, <1>6 DEF InHeap

\* As long as not all of the answer is found one of the large sums is in the heap.
LEMMA LargeInHeap ==
    ASSUME Asked, AtHeap, pc = "heap", MayGiveUp
    PROVE  \E c \in DOMAIN heap : c \in calculated /\ exact[c] >= SmallSum
  <1>1. Narrowed /\ ans \in Seq(Vertices) /\ Len(ans) < k /\ k \in Nat \ {0}
    BY FriendsAre DEF AtHeap
  <1>2. \A v \in Vertices : v \in DOMAIN heap \/ \E i \in 1 .. Len(ans) : ans[i] = v
    BY DEF AtHeap
  <1> DEFINE n == Len(ans)
             A == {ans[i] : i \in 1 .. n}
  <1>3. n \in Nat /\ n < k
    BY <1>1
  <1>4. IsFiniteSet(A) /\ Cardinality(A) <= n
    <2> DEFINE f == [i \in 1 .. n |-> ans[i]]
    <2>1. f \in Surjection(1 .. n, A)
      BY DEF Surjection
    <2>2. IsFiniteSet(1 .. n) /\ Cardinality(1 .. n) = n
      BY <1>3, FS_Interval
    <2> HIDE DEF f, A
    <2>3. QED
      BY <2>1, <2>2, FS_Surjection
  <1>5. ASSUME LargeKnown \subseteq A PROVE FALSE
    <2> HIDE DEF A, n
    <2>1. IsFiniteSet(LargeKnown) /\ Cardinality(LargeKnown) <= Cardinality(A)
      BY <1>4, <1>5, FS_Subset
    <2>2. Cardinality(LargeKnown) \in Nat /\ Cardinality(A) \in Nat
      BY <1>4, <2>1, FS_CardinalityType
    <2>3. Cardinality(LargeKnown) >= 2 * k
      BY <1>1 DEF Narrowed
    <2>4. QED
      BY <1>1, <1>3, <1>4, <2>1, <2>2, <2>3
  <1>6. PICK c \in LargeKnown : c \notin A
    BY <1>5
  <1>7. c \in calculated /\ exact[c] >= SmallSum /\ calculated \subseteq Vertices
    BY <1>1, <1>6 DEF LargeKnown, Narrowed
  <1>8. c \in DOMAIN heap
    BY <1>2, <1>6, <1>7
  <1>9. QED
    BY <1>7, <1>8

\* What comes to the top is never given up: its sum is not underestimated.
LEMMA TopIsBounded ==
    ASSUME Asked, AtHeap, pc = "heap", NEW v \in DOMAIN heap, IsTop(v)
    PROVE  heap[v] <= SumOf(v)
  <1>1. SUFFICES ASSUME MayGiveUp, heap[v] >= GivenUp PROVE heap[v] <= SumOf(v)
    BY HeapElements
  <1>2. PICK c \in DOMAIN heap : c \in calculated /\ exact[c] >= SmallSum
    BY <1>1, LargeInHeap
  <1>3. /\ v \in Vertices /\ heap[v] \in Nat /\ c \in Vertices /\ heap[c] \in Nat
        /\ heap[c] = SumOf(c) \/ exact[c] = -1
    BY HeapElements
  <1>4. Narrowed /\ Counted
    BY <1>1 DEF AtHeap
  <1>5. SumOf(c) \in Nat /\ SumOf(c) <= Share(c) + 2 /\ exact[c] = SumOf(c)
        /\ (SumOf(c) = 0 <=> Size(c) = 1) /\ SumOf(v) \in Nat
    BY <1>1, <1>2, <1>3, <1>4, SumsThatCount
  <1>6. SmallSum \in Nat \ {0} /\ GivenUp \in Nat /\ GivenUp > 4 * N * N /\ N \in Nat
    BY <1>1, RandomChoiceAssumption, GivenUpAssumption, GraphAssumption DEF Asked, MayGiveUp
  <1>7. heap[c] = SumOf(c) /\ SumOf(c) # 0 /\ Size(c) # 1
    BY <1>2, <1>3, <1>5, <1>6
  <1>8. CASE v = c
    BY <1>5, <1>7, <1>8
  <1>9. CASE v # c
    <2>1. Precedes(v, heap[v], c, heap[c])
      BY <1>9 DEF IsTop
    <2>2. /\ Share(v) \in Nat /\ Share(v) <= N * N /\ N * N \in Nat
          /\ Share(c) \in Nat /\ Share(c) >= 1
      BY <1>3, <1>4, <1>7, SharesAre
    <2>3. 4 * (N * N) < heap[v] /\ heap[v] # 0
      <3>1. 4 * N * N = 4 * (N * N) /\ N * N \in Nat
        BY <1>6
      <3>2. QED
        BY <1>1, <1>3, <1>6, <3>1
    <2>4. /\ Top(v, heap[v]) = Share(v) /\ Bottom(heap[v]) = heap[v]
          /\ Top(c, heap[c]) = Share(c) /\ Bottom(heap[c]) = heap[c]
      BY <1>3, <1>4, <1>7, <2>3, SharesAre
    <2>5. Share(v) * heap[c] < Share(c) * heap[v]
      <3>1. heap[c] <= 3 * Share(c) /\ Share(c) \in Nat \ {0}
        BY <1>3, <1>5, <1>7, <2>2
      <3>2. QED
        BY <1>3, <2>2, <2>3, <3>1, FarFromTop
    <2>6. Share(v) * heap[c] \in Nat /\ Share(c) * heap[v] \in Nat
      BY <1>3, <2>2
    <2>7. FALSE
      BY <2>1, <2>4, <2>5, <2>6 DEF Precedes, MoreCentral, AsCentral
    <2>8. QED
      BY <2>7
  <1>10. QED
    BY <1>8, <1>9

\* The bounds are put into the heap, the recorded sums among them.
LEMMA StepFillHeap ==
    ASSUME Query4Inv, FillHeap
    PROVE  Query4Inv'
  <1>1. pc = "estimated" /\ pc' = "heap" /\ Asked /\ Answerable /\ AtEstimated
    BY DEF Query4Inv, FillHeap, Goto
  <1>2. /\ Begun /\ DOMAIN result = Vertices
        /\ \A v \in Vertices \ Aside : Fine(v, result[v])
        /\ method \in SharedMethods => result = [v \in Vertices |-> LimitOf(v, depth_max)]
    BY <1>1 DEF AtEstimated
  <1>3. Counted /\ (IF MayGiveUp THEN Narrowed ELSE Plain) /\ Unknown /\ Unpopped
    BY <1>2 DEF Begun, Chosen
  <1>4. UNCHANGED <<query, degree, depth_max, cut, choice, last, ans>>
    BY DEF FillHeap
  <1>5. Asked' /\ Answerable' /\ Same /\ (MayGiveUp' <=> MayGiveUp)
    BY <1>1, <1>4, CallStays
  <1>6. Counted'
    BY <1>3, <1>4, <1>5, CountedStays
  <1>7. IF MayGiveUp' THEN Narrowed' ELSE Plain'
    <2>1. MayGiveUp => Narrowed'
      BY <1>3, <1>4, <1>5, NarrowedStays
    <2>2. ~ MayGiveUp => Plain'
      BY <1>3, <1>4, PlainStays
    <2>3. QED
      BY <1>5, <2>1, <2>2
  <1>8. exact \in [Vertices -> Int] /\ \A v \in Vertices \ calculated : exact[v] = -1
    BY <1>3 DEF Unknown
  <1>9. heap' = result' /\ exact' = exact /\ calculated' = calculated /\ sampled' = sampled
    BY DEF FillHeap, choice
  <1>10. ~ MayGiveUp => calculated = {} /\ given_up = {}
    BY <1>3 DEF Plain
  <1>11. GivenUp \in Nat
    BY GivenUpAssumption
  <1>12. /\ DOMAIN result' = Vertices
         /\ method \in SharedMethods => result' = result
         /\ \A v \in Vertices :
               IF v \in calculated THEN result'[v] = exact[v] ELSE Fine(v, result'[v])
    <2>1. CASE query.estimating
      <3>1. result' = [v \in Vertices |-> estimated_s(v)]
        BY <2>1 DEF FillHeap
      <3>2. DOMAIN result' = Vertices
        BY <3>1
      <3>3. method \in SharedMethods => ~ MayGiveUp
        BY DEF SharedMethods, MayGiveUp, HybridMethods
      <3>4. method \in SharedMethods => result' = result
        <4>1. CASE method \in SharedMethods
          <5>1. \A v \in Vertices : estimated_s(v) = result[v]
            BY <1>10, <3>3, <4>1 DEF estimated_s
          <5>2. result' = [v \in Vertices |-> result[v]]
            BY <3>1, <5>1
          <5>3. result = [v \in Vertices |-> LimitOf(v, depth_max)]
            BY <1>2, <4>1
          <5>4. QED
            BY <5>2, <5>3
        <4>2. QED
          BY <4>1
      <3>5. ASSUME NEW v \in Vertices, v \notin calculated PROVE Fine(v, result'[v])
        <4>1. result'[v] = IF v \in given_up THEN GivenUp ELSE result[v]
          BY <3>1, <3>5 DEF estimated_s
        <4>2. CASE v \in given_up
          <5>1. MayGiveUp
            BY <1>10, <4>2
          <5>2. GivenUp >= GivenUp
            BY <1>11
          <5>3. QED
            BY <1>11, <4>1, <4>2, <5>1, <5>2, GivenUpIsFine
        <4>3. CASE v \notin given_up
          BY <1>2, <3>5, <4>1, <4>3 DEF Aside
        <4>4. QED
          BY <4>2, <4>3
      <3>6. ASSUME NEW v \in Vertices, v \in calculated PROVE result'[v] = exact[v]
        BY <3>1, <3>6 DEF estimated_s
      <3>7. QED
        BY <3>2, <3>4, <3>5, <3>6
    <2>2. CASE ~ query.estimating
      <3>1. result' = result
        BY <2>2 DEF FillHeap
      <3>2. ~ MayGiveUp
        BY <2>2 DEF MayGiveUp
      <3>3. \A v \in Vertices : v \notin calculated /\ v \notin Aside
        BY <1>10, <3>2 DEF Aside
      <3>4. QED
        BY <1>2, <3>1, <3>3
    <2>3. QED
      BY <2>1, <2>2
  <1>13. \A v \in Vertices : v \in calculated => exact[v] = SumOf(v)
    BY <1>1, <1>3, SumsThatCount
  <1>14. \A v : SumOf(v)' = SumOf(v)
    BY <1>5, <1>9 DEF SumOf, Same
  <1>15. \A v, r : Fine(v, r)' <=> Fine(v, r)
    BY <1>5, Zenon DEF Fine, Between, Same
  <1>16. \A v \in DOMAIN heap' : InHeap(v)'
    <2>1. SUFFICES ASSUME NEW v \in Vertices PROVE InHeap(v)'
      BY <1>9, <1>12
    <2>2. CASE v \in calculated
      <3>1. heap'[v] = SumOf(v)
        BY <1>9, <1>12, <1>13, <2>2
      <3>2. heap'[v] = SumOf(v)'
        BY <1>14, <3>1
      <3>3. QED
        BY <3>2 DEF InHeap
    <2>3. CASE v \notin calculated
      <3>1. Fine(v, result'[v])
        BY <1>12, <2>3
      <3>2. Fine(v, result[v])'
        BY <1>15, <3>1
      <3>3. exact'[v] = -1 /\ heap'[v] = result'[v]
        BY <1>8, <1>9, <2>3
      <3>4. QED
        BY <3>2, <3>3 DEF InHeap
    <2>4. QED
      BY <2>2, <2>3
  <1>17. last' = <<0, -1>> /\ ans' = <<>> /\ last'[1] = 0
    BY <1>3, <1>4 DEF Unpopped
  <1>18. k' \in Nat \ {0}
    BY <1>1, <1>5, FriendsAre DEF Same
  <1>19. (method \in SharedMethods => result = [v \in Vertices |-> LimitOf(v, depth_max)])'
    <2>1. method' = method /\ depth_max' = depth_max /\ \A v, n : LimitOf(v, n)' = LimitOf(v, n)
      BY <1>4, <1>5 DEF Same
    <2>2. QED
      BY <1>2, <1>12, <2>1
  <1>20. \A v \in Vertices : v \notin calculated' => exact'[v] = -1
    BY <1>8, <1>9
  <1>21. DOMAIN heap' = Vertices
    BY <1>9, <1>12
  <1>22. ans' \in Seq(Vertices) /\ Len(ans') = 0 /\ Len(ans') < k' /\ Len(ans') <= k'
    BY <1>17, <1>18
  <1>23. InOrder'
    BY <1>22 DEF InOrder
  <1>24. NoneBefore'
    BY <1>17 DEF NoneBefore
  <1>25. last'[1] \notin DOMAIN heap'
    BY <1>17, <1>21 DEF Vertices
  <1>26. exact' \in [Vertices -> Int]
    BY <1>8, <1>9
  <1>27. AtHeap'
    BY <1>6, <1>7, <1>16, <1>17, <1>19, <1>20, <1>21, <1>22, <1>23, <1>24, <1>25, <1>26 DEF AtHeap
  <1>28. QED
    BY <1>1, <1>5, <1>27 DEF Query4Inv

\* What the heap does not touch.
Settled == UNCHANGED <<query, degree, depth_max, result, cut, sampled, calculated, given_up>>

\* What the heap does not touch stays: a sum made exact is the one that counts.
LEMMA SettledStays ==
    ASSUME Asked, Answerable, Counted, IF MayGiveUp THEN Narrowed ELSE Plain, Settled,
           method \in SharedMethods => result = [v \in Vertices |-> LimitOf(v, depth_max)],
           \A v \in Vertices : exact'[v] = IF exact[v] = -1 THEN exact'[v] ELSE exact[v],
           \A v \in Vertices : sampled[v] > 0 => exact[v] # -1
    PROVE  /\ Asked' /\ Answerable' /\ Same /\ (MayGiveUp' <=> MayGiveUp) /\ Counted'
           /\ \A v \in Vertices : SumOf(v)' = SumOf(v)
           /\ \A v, r : Fine(v, r)' <=> Fine(v, r)
           /\ (method \in SharedMethods => result = [v \in Vertices |-> LimitOf(v, depth_max)])'
           /\ ~ MayGiveUp => Plain'
  <1>1. Asked' /\ Answerable' /\ Same /\ (MayGiveUp' <=> MayGiveUp)
    BY CallStays DEF Settled
  <1>2. Counted'
    BY <1>1, CountedStays DEF Settled
  <1>3. \A v \in Vertices : SumOf(v)' = SumOf(v)
    <2>1. sampled' = sampled /\ \A v : get_exact_s(v)' = get_exact_s(v)
      BY <1>1 DEF Same, Settled
    <2>2. ASSUME NEW v \in Vertices PROVE SumOf(v)' = SumOf(v)
      <3>1. SumOf(v)' = IF sampled[v] > 0 THEN exact'[v] ELSE get_exact_s(v)
        BY <2>1 DEF SumOf
      <3>2. QED
        BY <3>1 DEF SumOf
    <2>3. QED
      BY <2>2
  <1>4. \A v, r : Fine(v, r)' <=> Fine(v, r)
    BY <1>1, Zenon DEF Fine, Between, Same
  <1>5. (method \in SharedMethods => result = [v \in Vertices |-> LimitOf(v, depth_max)])'
    BY <1>1 DEF Same, Settled
  <1>6. ~ MayGiveUp => Plain'
    BY DEF Plain, Settled, cut
  <1>7. QED
    BY <1>1, <1>2, <1>3, <1>4, <1>5, <1>6

\* Centralities do not change when the graph does not.
LEMMA OrderStays ==
    ASSUME UNCHANGED degree
    PROVE  \A v, s, u, r : /\ MoreCentral(v, s, u, r)' <=> MoreCentral(v, s, u, r)
                           /\ Precedes(v, s, u, r)' <=> Precedes(v, s, u, r)
  <1>1. \A v, s : Top(v, s)' = Top(v, s) /\ Bottom(s)' = Bottom(s)
    BY DEF Top, Bottom
  <1>2. \A v, s, u, r : /\ MoreCentral(v, s, u, r)' <=> MoreCentral(v, s, u, r)
                        /\ AsCentral(v, s, u, r)' <=> AsCentral(v, s, u, r)
    BY <1>1, Zenon DEF MoreCentral, AsCentral
  <1>3. QED
    BY <1>2, Zenon DEF Precedes

\* What the invariant says of the heap, in parts.
LEMMA HeapHolds ==
    ASSUME Asked, AtHeap
    PROVE  /\ Counted /\ (IF MayGiveUp THEN Narrowed ELSE Plain)
           /\ exact \in [Vertices -> Int]
           /\ \A v \in Vertices : v \notin calculated => exact[v] \in {-1, get_exact_s(v)}
           /\ method \in SharedMethods => result = [v \in Vertices |-> LimitOf(v, depth_max)]
           /\ DOMAIN heap \subseteq Vertices
           /\ \A v \in DOMAIN heap : InHeap(v)
           /\ \A v \in Vertices : sampled[v] > 0 => exact[v] # -1
           /\ \A v \in Vertices : exact[v] # -1 => exact[v] = SumOf(v)
           /\ \A v \in Vertices : v \in calculated => exact[v] # -1
           /\ \A v \in Vertices : SumOf(v) \in Nat
  <1>1. /\ Counted /\ (IF MayGiveUp THEN Narrowed ELSE Plain)
        /\ exact \in [Vertices -> Int]
        /\ \A v \in Vertices : v \notin calculated => exact[v] \in {-1, get_exact_s(v)}
        /\ method \in SharedMethods => result = [v \in Vertices |-> LimitOf(v, depth_max)]
        /\ DOMAIN heap \subseteq Vertices
        /\ \A v \in DOMAIN heap : InHeap(v)
    BY DEF AtHeap
  <1>2. \A v \in Vertices :
           /\ SumOf(v) \in Nat
           /\ sampled[v] \in Nat
           /\ sampled[v] = 0 => SumOf(v) = get_exact_s(v)
           /\ v \in calculated => exact[v] = SumOf(v)
           /\ v \notin calculated => sampled[v] = 0
    BY <1>1, SumsThatCount
  <1>3. ASSUME NEW v \in Vertices
        PROVE  /\ sampled[v] > 0 => exact[v] # -1
               /\ exact[v] # -1 => exact[v] = SumOf(v)
               /\ v \in calculated => exact[v] # -1
    BY <1>1, <1>2
  <1>4. QED
    BY <1>1, <1>2, <1>3, Zenon

\* Popped twice with one centrality, a vertex has its sum there, and all that are
\* left have bounds that come after it: it is the next of the answer.
LEMMA StepEmit ==
    ASSUME Query4Inv, NEW v \in Vertices, Emit(v)
    PROVE  Query4Inv'
  <1>1. pc = "heap" /\ v \in DOMAIN heap /\ IsTop(v) /\ Repeated(v)
    BY DEF Emit
  <1>2. Asked /\ Answerable /\ AtHeap
    BY <1>1 DEF Query4Inv
  <1>3. UNCHANGED <<query, degree, estimate, cut, choice>>
    BY DEF Emit
  <1>4. Settled /\ exact' = exact
    BY <1>3 DEF Settled, estimate, choice
  <1>5. /\ Counted /\ (IF MayGiveUp THEN Narrowed ELSE Plain)
        /\ exact \in [Vertices -> Int]
        /\ \A u \in Vertices : u \notin calculated => exact[u] \in {-1, get_exact_s(u)}
        /\ method \in SharedMethods => result = [u \in Vertices |-> LimitOf(u, depth_max)]
        /\ \A u \in Vertices : sampled[u] > 0 => exact[u] # -1
    BY <1>2, HeapHolds, Zenon
  <1>6. /\ Asked' /\ Answerable' /\ Same /\ (MayGiveUp' <=> MayGiveUp) /\ Counted'
        /\ \A u \in Vertices : SumOf(u)' = SumOf(u)
        /\ \A u, r : Fine(u, r)' <=> Fine(u, r)
        /\ (method \in SharedMethods => result = [u \in Vertices |-> LimitOf(u, depth_max)])'
        /\ ~ MayGiveUp => Plain'
    BY <1>2, <1>4, <1>5, SettledStays
  <1>7. IF MayGiveUp' THEN Narrowed' ELSE Plain'
    BY <1>3, <1>5, <1>6, NarrowedStays
  <1>8. /\ DOMAIN heap \subseteq Vertices /\ \A u \in DOMAIN heap : InHeap(u)
        /\ ans \in Seq(Vertices) /\ Len(ans) < k
        /\ \A u \in Vertices : u \in DOMAIN heap \/ \E i \in 1 .. Len(ans) : ans[i] = u
        /\ last[1] \in DOMAIN heap => heap[last[1]] = SumOf(last[1])
        /\ InOrder
    BY <1>1, <1>2 DEF AtHeap
  <1>9. heap[v] = SumOf(v)
    BY <1>1, <1>8 DEF Repeated
  <1>10. /\ ans' = Append(ans, v) /\ last' = <<v, heap[v]>>
         /\ heap' = [u \in DOMAIN heap \ {v} |-> heap[u]]
    BY DEF Emit
  <1>11. \A u \in DOMAIN heap' : u \in DOMAIN heap /\ u # v /\ heap'[u] = heap[u] /\ u \in Vertices
    BY <1>8, <1>10
  <1>12. /\ last'[1] = v /\ last'[2] = heap[v] /\ Len(ans') = Len(ans) + 1 /\ ans' \in Seq(Vertices)
         /\ \A i \in 1 .. Len(ans) : ans'[i] = ans[i]
         /\ ans'[Len(ans) + 1] = v /\ Len(ans) \in Nat
    BY <1>8, <1>10
  <1>13. k \in Nat \ {0} /\ k' = k
    BY <1>2, <1>6, FriendsAre DEF Same
  <1>14. ASSUME NEW u \in DOMAIN heap' PROVE InHeap(u)'
    <2>1. InHeap(u) /\ heap'[u] = heap[u] /\ SumOf(u)' = SumOf(u)
      BY <1>6, <1>8, <1>11
    <2>2. result' = result
      BY <1>4 DEF Settled
    <2>3. Fine(u, result[u])' <=> Fine(u, result[u])
      BY <1>6, <2>2
    <2>4. QED
      BY <1>4, <2>1, <2>2, <2>3 DEF InHeap
  <1>15. \A u \in Vertices : u \in DOMAIN heap' \/ \E i \in 1 .. Len(ans') : ans'[i] = u
    <2>1. SUFFICES ASSUME NEW u \in Vertices, u \notin DOMAIN heap'
                   PROVE  \E i \in 1 .. Len(ans') : ans'[i] = u
      OBVIOUS
    <2>2. CASE u = v
      <3>1. Len(ans) + 1 \in 1 .. Len(ans')
        BY <1>12
      <3>2. QED
        BY <1>12, <2>2, <3>1
    <2>3. CASE u # v
      <3>1. u \notin DOMAIN heap
        BY <1>10, <2>1, <2>3
      <3>2. PICK i \in 1 .. Len(ans) : ans[i] = u
        BY <1>8, <3>1
      <3>3. i \in 1 .. Len(ans') /\ ans'[i] = u
        BY <1>12, <3>2
      <3>4. QED
        BY <3>3
    <2>4. QED
      BY <2>2, <2>3
  <1>16. \A u \in DOMAIN heap \ {v} : Precedes(v, heap[v], u, heap[u])
    BY <1>1 DEF IsTop
  <1>17. \A u \in DOMAIN heap : heap[u] \in Nat
    BY <1>2, HeapElements
  <1>18. NoneBefore'
    <2>1. ASSUME NEW u \in DOMAIN heap' PROVE ~ MoreCentral(u, heap'[u], v, heap[v])
      <3>1. u \in DOMAIN heap \ {v} /\ u \in Vertices /\ heap'[u] = heap[u]
        BY <1>11
      <3>2. heap[u] \in Nat /\ heap[v] \in Nat
        BY <1>1, <1>17, <3>1
      <3>3. Precedes(v, heap[v], u, heap[u])
        BY <1>16, <3>1
      <3>4. ~ MoreCentral(u, heap[u], v, heap[v])
        BY <1>2, <1>5, <3>1, <3>2, <3>3, EarlierIsNotLess
      <3>5. QED
        BY <3>1, <3>4
    <2>2. \A a, s, b, r : MoreCentral(a, s, b, r)' <=> MoreCentral(a, s, b, r)
      BY <1>3, OrderStays
    <2>3. ASSUME NEW u \in DOMAIN heap' PROVE ~ MoreCentral(u, heap[u], last[1], last[2])'
      BY <1>12, <2>1, <2>2
    <2>4. QED
      BY <2>3 DEF NoneBefore
  <1>19. InOrder'
    <2>1. \A a, s, b, r : Precedes(a, s, b, r)' <=> Precedes(a, s, b, r)
      BY <1>3, OrderStays
    <2>2. result' = result
      BY <1>4 DEF Settled
    <2>3. ASSUME NEW i \in 1 .. Len(ans'),
                 NEW u \in {w \in Vertices : result[w] < GivenUp} \ {ans'[j] : j \in 1 .. i}
          PROVE  Precedes(ans'[i], SumOf(ans'[i]), u, SumOf(u))
      <3>1. CASE i \in 1 .. Len(ans)
        <4>1. \A j \in 1 .. i : j \in 1 .. Len(ans) /\ ans'[j] = ans[j]
          BY <1>12, <3>1
        <4>2. u \notin {ans[j] : j \in 1 .. i} /\ ans'[i] = ans[i]
          BY <1>12, <2>3, <3>1, <4>1
        <4>3. QED
          BY <1>8, <2>3, <3>1, <4>2 DEF InOrder
      <3>2. CASE i \notin 1 .. Len(ans)
        <4>1. i = Len(ans) + 1 /\ ans'[i] = v
          BY <1>12, <3>2
        <4>2. u \in Vertices /\ result[u] < GivenUp /\ u # v
          <5>1. i \in 1 .. i
            BY <1>12, <4>1
          <5>2. QED
            BY <4>1, <5>1
        <4>3. \A j \in 1 .. Len(ans) : j \in 1 .. i /\ ans'[j] = ans[j]
          BY <1>12, <4>1
        <4>4. \A j \in 1 .. Len(ans) : ans[j] # u
          BY <2>3, <4>3
        <4>5. u \in DOMAIN heap
          BY <1>8, <4>2, <4>4
        <4>6. Precedes(v, heap[v], u, heap[u]) /\ heap[u] \in Nat /\ heap[v] \in Nat
          BY <1>1, <1>16, <1>17, <4>2, <4>5
        <4>7. heap[u] <= SumOf(u) /\ (heap[u] = 0 => Size(u) = 1)
          <5>1. /\ heap[u] = 0 => Size(u) = 1
                /\ heap[u] = SumOf(u) \/ (exact[u] = -1 /\ heap[u] = result[u])
                /\ heap[u] <= SumOf(u) \/ (MayGiveUp /\ heap[u] >= GivenUp)
            BY <1>2, <4>5, HeapElements
          <5>2. GivenUp \in Nat
            BY GivenUpAssumption
          <5>3. QED
            BY <4>2, <4>6, <5>1, <5>2
        <4>8. SumOf(u) \in Nat
          BY <1>2, <4>2, HeapHolds
        <4>9. Precedes(v, heap[v], u, SumOf(u))
          BY <1>2, <1>5, <4>2, <4>6, <4>7, <4>8, LaterWhenFarther
        <4>10. QED
          BY <1>9, <4>1, <4>9
      <3>3. QED
        BY <3>1, <3>2
    <2>4. \A i \in 1 .. Len(ans') : ans'[i] \in Vertices
      BY <1>12
    <2>5. ASSUME NEW i \in 1 .. Len(ans'),
                 NEW u \in {w \in Vertices : result'[w] < GivenUp} \ {ans'[j] : j \in 1 .. i}
          PROVE  Precedes(ans[i], SumOf(ans[i]), u, SumOf(u))'
      <3>1. u \in Vertices /\ ans'[i] \in Vertices
        BY <2>4
      <3>2. Precedes(ans'[i], SumOf(ans'[i]), u, SumOf(u))
        BY <2>2, <2>3
      <3>3. SumOf(u)' = SumOf(u) /\ SumOf(ans[i])' = SumOf(ans'[i])
        BY <1>6, <3>1
      <3>4. QED
        BY <2>1, <3>2, <3>3
    <2>6. QED
      BY <2>5 DEF InOrder
  <1>20. last'[1] \notin DOMAIN heap' /\ last'[1] \in Vertices /\ last'[2] \in Nat
    BY <1>1, <1>11, <1>12, <1>17
  <1>21. /\ exact' \in [Vertices -> Int]
         /\ \A u \in Vertices : u \notin calculated' => exact'[u] \in {-1, get_exact_s(u)'}
    BY <1>4, <1>5, <1>6 DEF Same, Settled
  <1>22. Len(ans') <= k' /\ (Len(ans') = k' => pc' = "done") /\ (Len(ans') # k' => Len(ans') < k' /\ pc' = "heap")
    BY <1>1, <1>8, <1>12, <1>13 DEF Emit
  <1>23. DOMAIN heap' \subseteq Vertices /\ \A u \in DOMAIN heap' : InHeap(u)'
    BY <1>11, <1>14
  <1>24. pc' = "heap" => Len(ans') < k'
    BY <1>22
  <1>25. AtHeap'
    BY <1>6, <1>7, <1>12, <1>15, <1>18, <1>19, <1>20, <1>21, <1>22, <1>23, <1>24 DEF AtHeap
  <1>26. pc' \in {"heap", "done"}
    BY <1>22
  <1>27. QED
    BY <1>6, <1>25, <1>26 DEF Query4Inv

\* The vertex at the top goes back with the sum that counts.
LEMMA TopGoesBack ==
    ASSUME Query4Inv, pc = "heap", pc' = pc, Settled, NEW v \in Vertices,
           v \in DOMAIN heap, IsTop(v),
           heap' = [heap EXCEPT ![v] = SumOf(v)], last' = <<v, heap[v]>>, ans' = ans,
           exact' \in [Vertices -> Int],
           \A u \in Vertices : exact'[u] # exact[u] => u = v /\ exact[u] = -1 /\ exact'[u] = get_exact_s(u)
    PROVE  Query4Inv'
  <1>1. Asked /\ Answerable /\ AtHeap
    BY DEF Query4Inv
  <1>2. /\ Counted /\ (IF MayGiveUp THEN Narrowed ELSE Plain)
        /\ exact \in [Vertices -> Int]
        /\ \A u \in Vertices : u \notin calculated => exact[u] \in {-1, get_exact_s(u)}
        /\ method \in SharedMethods => result = [u \in Vertices |-> LimitOf(u, depth_max)]
        /\ \A u \in Vertices : sampled[u] > 0 => exact[u] # -1
    BY <1>1, HeapHolds, Zenon
  <1>3. /\ \A u \in Vertices : u \in calculated => exact[u] # -1
        /\ \A u \in Vertices : SumOf(u) \in Nat
    BY <1>1, HeapHolds, Zenon
  <1>4. \A u \in Vertices : exact'[u] = IF exact[u] = -1 THEN exact'[u] ELSE exact[u]
    OBVIOUS
  <1>5. /\ Asked' /\ Answerable' /\ Same /\ (MayGiveUp' <=> MayGiveUp) /\ Counted'
        /\ \A u \in Vertices : SumOf(u)' = SumOf(u)
        /\ \A u, r : Fine(u, r)' <=> Fine(u, r)
        /\ (method \in SharedMethods => result = [u \in Vertices |-> LimitOf(u, depth_max)])'
        /\ ~ MayGiveUp => Plain'
    BY <1>1, <1>2, <1>4, SettledStays
  <1>6. UNCHANGED <<query, degree, result, sampled, calculated, given_up>>
    BY DEF Settled
  <1>7. MayGiveUp => Narrowed'
    <2>1. SUFFICES ASSUME MayGiveUp PROVE Narrowed'
      OBVIOUS
    <2>2. Narrowed
      BY <1>2, <2>1
    <2>3. calculated \subseteq Vertices /\ Samples' = Samples
      BY <1>6, <2>2 DEF Narrowed, Samples
    <2>4. \A u \in calculated : exact'[u] = exact[u]
      BY <1>3, <1>4, <2>3
    <2>5. LargeKnown' = LargeKnown
      BY <1>6, <2>4 DEF LargeKnown
    <2>6. ASSUME NEW u \in calculated PROVE Recorded(u)'
      <3>1. Recorded(u) /\ exact'[u] = exact[u]
        BY <2>2, <2>4 DEF Narrowed
      <3>2. get_exact_s(u)' = get_exact_s(u) /\ Size(u)' = Size(u)
        BY <1>5 DEF Same
      <3>3. QED
        BY <1>6, <3>1, <3>2 DEF Recorded, SampleSum
    <2>7. k' = k
      BY <1>5 DEF Same
    <2>8. QED
      BY <1>6, <2>2, <2>3, <2>5, <2>6, <2>7 DEF Narrowed
  <1>8. /\ \A u \in DOMAIN heap : InHeap(u)
        /\ DOMAIN heap \subseteq Vertices
        /\ ans \in Seq(Vertices) /\ Len(ans) < k /\ Len(ans) <= k
        /\ \A u \in Vertices : u \in DOMAIN heap \/ \E i \in 1 .. Len(ans) : ans[i] = u
        /\ InOrder
    BY <1>1 DEF AtHeap
  <1>9. /\ DOMAIN heap' = DOMAIN heap /\ heap'[v] = SumOf(v)
        /\ \A u \in DOMAIN heap : u # v => heap'[u] = heap[u]
        /\ last'[1] = v /\ last'[2] = heap[v]
    OBVIOUS
  <1>10. ASSUME NEW u \in DOMAIN heap PROVE InHeap(u)'
    <2>1. u \in Vertices
      BY <1>8
    <2>2. SumOf(u)' = SumOf(u)
      BY <1>5, <2>1
    <2>3. CASE u = v
      <3>1. heap'[u] = SumOf(u)'
        BY <1>9, <2>2, <2>3
      <3>2. QED
        BY <3>1 DEF InHeap
    <2>4. CASE u # v
      <3>1. heap'[u] = heap[u] /\ exact'[u] = exact[u] /\ result' = result /\ InHeap(u)
        BY <1>6, <1>8, <1>9, <2>1, <2>4
      <3>2. Fine(u, result[u])' <=> Fine(u, result[u])
        BY <1>5, <3>1
      <3>3. QED
        BY <2>2, <3>1, <3>2 DEF InHeap
    <2>5. QED
      BY <2>3, <2>4
  <1>11. \A u \in DOMAIN heap : heap[u] \in Nat
    BY <1>1, HeapElements
  <1>12. heap[v] <= SumOf(v) /\ (heap[v] = 0 => Size(v) = 1)
    BY <1>1, TopIsBounded, HeapElements
  <1>13. ASSUME NEW u \in DOMAIN heap PROVE ~ MoreCentral(u, heap'[u], v, heap[v])
    <2>1. u \in Vertices /\ heap[u] \in Nat /\ heap[v] \in Nat /\ SumOf(v) \in Nat
      BY <1>3, <1>8, <1>11
    <2>2. CASE u = v
      <3>1. ~ MoreCentral(v, SumOf(v), v, heap[v])
        BY <1>1, <1>2, <1>12, <2>1, LaterWhenFarther
      <3>2. QED
        BY <1>9, <2>2, <3>1
    <2>3. CASE u # v
      <3>1. Precedes(v, heap[v], u, heap[u])
        BY <2>3 DEF IsTop
      <3>2. ~ MoreCentral(u, heap[u], v, heap[v])
        BY <1>1, <1>2, <2>1, <3>1, EarlierIsNotLess
      <3>3. QED
        BY <1>9, <2>3, <3>2
    <2>4. QED
      BY <2>2, <2>3
  <1>14. NoneBefore'
    <2>1. \A a, s, b, r : MoreCentral(a, s, b, r)' <=> MoreCentral(a, s, b, r)
      BY <1>6, OrderStays
    <2>2. ASSUME NEW u \in DOMAIN heap' PROVE ~ MoreCentral(u, heap[u], last[1], last[2])'
      BY <1>9, <1>13, <2>1
    <2>3. QED
      BY <2>2 DEF NoneBefore
  <1>15. InOrder'
    <2>1. \A a, s, b, r : Precedes(a, s, b, r)' <=> Precedes(a, s, b, r)
      BY <1>6, OrderStays
    <2>2. \A i \in 1 .. Len(ans) : ans[i] \in Vertices
      BY <1>8
    <2>3. ASSUME NEW i \in 1 .. Len(ans'),
                 NEW u \in {w \in Vertices : result'[w] < GivenUp} \ {ans'[j] : j \in 1 .. i}
          PROVE  Precedes(ans[i], SumOf(ans[i]), u, SumOf(u))'
      <3>1. u \in Vertices /\ ans[i] \in Vertices /\ ans' = ans
        BY <2>2
      <3>2. Precedes(ans[i], SumOf(ans[i]), u, SumOf(u))
        <4>1. u \in {w \in Vertices : result[w] < GivenUp} /\ u \notin {ans[j] : j \in 1 .. i} /\ i \in 1 .. Len(ans)
          BY <1>6, <2>3, <3>1
        <4>2. QED
          BY <1>8, <4>1 DEF InOrder
      <3>3. SumOf(u)' = SumOf(u) /\ SumOf(ans[i])' = SumOf(ans[i])
        BY <1>5, <3>1
      <3>4. QED
        BY <2>1, <3>1, <3>2, <3>3
    <2>4. QED
      BY <2>3 DEF InOrder
  <1>16. \A u \in Vertices : u \notin calculated' => exact'[u] \in {-1, get_exact_s(u)'}
    <2>1. \A u : get_exact_s(u)' = get_exact_s(u)
      BY <1>5 DEF Same
    <2>2. QED
      BY <1>2, <1>6, <2>1
  <1>17. last'[1] \in DOMAIN heap' => heap'[last'[1]] = SumOf(last[1])'
    BY <1>5, <1>9
  <1>18. k' = k
    BY <1>5 DEF Same
  <1>19. last'[1] \in Vertices /\ last'[2] \in Nat
    BY <1>9, <1>11
  <1>20. IF MayGiveUp' THEN Narrowed' ELSE Plain'
    BY <1>5, <1>7
  <1>21. \A u \in DOMAIN heap' : InHeap(u)'
    BY <1>9, <1>10
  <1>22. AtHeap'
    BY <1>5, <1>8, <1>9, <1>14, <1>15, <1>16, <1>17, <1>18, <1>19, <1>20, <1>21 DEF AtHeap
  <1>23. QED
    BY <1>5, <1>22 DEF Query4Inv

\* The top goes back with its sum, which is not below its bound.
LEMMA StepMakeExact ==
    ASSUME Query4Inv, NEW v \in Vertices, MakeExact(v)
    PROVE  Query4Inv'
  <1>1. pc = "heap" /\ pc' = pc /\ v \in DOMAIN heap /\ IsTop(v)
    BY DEF MakeExact
  <1>2. Asked /\ AtHeap
    BY <1>1 DEF Query4Inv
  <1>3. Settled
    BY DEF MakeExact, Settled, estimate
  <1>4. /\ exact \in [Vertices -> Int] /\ SumOf(v) \in Nat
        /\ exact[v] # -1 => exact[v] = SumOf(v)
    BY <1>2, HeapHolds
  <1>5. exact[v] = -1 => SumOf(v) = get_exact_s(v)
    BY <1>1, <1>2, HeapElements
  <1>6. exact' = [exact EXCEPT ![v] = IF exact[v] # -1 THEN exact[v] ELSE get_exact_s(v)]
    BY DEF MakeExact
  <1>7. exact'[v] = SumOf(v) /\ exact' \in [Vertices -> Int]
    BY <1>4, <1>5, <1>6
  <1>8. \A u \in Vertices : exact'[u] # exact[u] => u = v /\ exact[u] = -1 /\ exact'[u] = get_exact_s(u)
    BY <1>4, <1>6
  <1>9. heap' = [heap EXCEPT ![v] = SumOf(v)] /\ last' = <<v, heap[v]>> /\ ans' = ans
    BY <1>7 DEF MakeExact
  <1>10. QED
    BY <1>1, <1>3, <1>7, <1>8, <1>9, TopGoesBack

\* As deep as there are vertices the estimate is the sum.
LEMMA StepEstimateAgain ==
    ASSUME Query4Inv, NEW v \in Vertices, EstimateAgain(v)
    PROVE  Query4Inv'
  <1>1. pc = "heap" /\ pc' = pc /\ v \in DOMAIN heap /\ IsTop(v) /\ method = "v2"
    BY DEF EstimateAgain
  <1>2. Asked /\ AtHeap
    BY <1>1 DEF Query4Inv
  <1>3. Settled /\ exact' = exact
    BY DEF EstimateAgain, Settled, estimate, choice
  <1>4. Counted /\ exact \in [Vertices -> Int] /\ (IF MayGiveUp THEN Narrowed ELSE Plain)
    BY <1>2, HeapHolds
  <1>5. ~ MayGiveUp
    BY <1>1 DEF MayGiveUp, HybridMethods
  <1>6. SumOf(v) = get_exact_s(v)
    BY <1>4, <1>5 DEF Plain, SumOf
  <1>7. LimitDepth(v, N) = get_exact_s(v)
    <2>1. N \in Nat /\ N >= N
      BY SomeVertices
    <2>2. LimitOf(v, N) = get_exact_s(v)
      BY <1>2, <2>1, LimitBetween
    <2>3. QED
      BY <1>4, <2>2, LimitDepthIs
  <1>8. heap' = [heap EXCEPT ![v] = SumOf(v)] /\ last' = <<v, heap[v]>> /\ ans' = ans
    BY <1>6, <1>7 DEF EstimateAgain
  <1>9. exact' \in [Vertices -> Int]
        /\ \A u \in Vertices : exact'[u] # exact[u] => u = v /\ exact[u] = -1 /\ exact'[u] = get_exact_s(u)
    BY <1>3, <1>4
  <1>10. QED
    BY <1>1, <1>3, <1>8, <1>9, TopGoesBack

\* At the start nothing is known.
LEMMA InvariantBegins ==
    ASSUME Init
    PROVE  Query4Inv
  <1>1. /\ query \in Queries /\ pc = "degree" /\ next = 1
        /\ degree = [v \in Vertices |-> -1] /\ result = [v \in Vertices |-> 0]
    BY DEF Init, ChoiceInit, HybridInit, GraphInit
  <1>2. /\ noneed = [v \in Vertices |-> FALSE] /\ sum_bound = GivenUp
        /\ exact = [v \in Vertices |-> -1] /\ sampled = [v \in Vertices |-> 0]
        /\ calculated = {} /\ given_up = {}
    BY DEF Init, ChoiceInit, HybridInit
  <1>3. is_done = {} /\ Answerable /\ last = <<0, -1>> /\ ans = <<>>
    BY DEF Init, DeltaInit
  <1>4. Plain /\ Unknown /\ Unpopped
    BY <1>2, <1>3 DEF Plain, Unknown, Unpopped
  <1>5. next \in 1 .. N /\ \A v \in Vertices : ~ v < next
    BY <1>1, SomeVertices DEF Vertices
  <1>6. /\ degree \in [Vertices -> Int] /\ \A v \in Vertices : degree[v] \in {-1, Size(v)}
        /\ result \in [Vertices -> Int]
    BY <1>1
  <1>7. AtDegree
    BY <1>3, <1>4, <1>5, <1>6 DEF AtDegree
  <1>8. Asked
    BY <1>1 DEF Asked
  <1>9. QED
    BY <1>1, <1>3, <1>7, <1>8 DEF Query4Inv

\* Nothing but the phase changes.
Resting == UNCHANGED <<query, next, degree, depth_max, s_prev, result, left, noneed, sum_bound, approx_result,
                       exact, sampled, calculated, given_up, dist, base, is_done, path, heap, last, ans>>

\* The parts of the invariant stay if only the phase changes.
LEMMA PiecesStay ==
    ASSUME Asked, Answerable, Resting
    PROVE  /\ Asked' /\ Answerable' /\ Same /\ (MayGiveUp' <=> MayGiveUp)
           /\ Counted => Counted'
           /\ Plain => Plain'
           /\ Narrowed => Narrowed'
           /\ Unknown => Unknown'
           /\ Unpopped => Unpopped'
           /\ Begun => Begun'
           /\ Samples' = Samples /\ Aside' = Aside
           /\ \A v, r : SampleSum(v, r)' <=> SampleSum(v, r)
           /\ \A v, r : Fine(v, r)' <=> Fine(v, r)
           /\ \A v : SumOf(v)' = SumOf(v)
  <1>1. Asked' /\ Answerable' /\ Same /\ (MayGiveUp' <=> MayGiveUp)
    BY CallStays DEF Resting
  <1>2. Counted => Counted'
    BY <1>1, CountedStays DEF Resting
  <1>3. Plain => Plain'
    BY DEF Plain, Resting
  <1>4. UNCHANGED choice
    BY DEF Resting, choice
  <1>5. Narrowed => Narrowed'
    BY <1>1, <1>4, NarrowedStays
  <1>6. (Unknown => Unknown') /\ (Unpopped => Unpopped')
    BY DEF Unknown, Unpopped, Resting
  <1>7. Begun => Begun'
    BY <1>1, <1>2, <1>3, <1>5, <1>6 DEF Begun, Chosen
  <1>8. Samples' = Samples /\ Aside' = Aside
    BY DEF Resting, Samples, Aside
  <1>9. \A v, r : SampleSum(v, r)' <=> SampleSum(v, r)
    BY <1>1, Zenon DEF SampleSum, Same
  <1>10. \A v, r : Fine(v, r)' <=> Fine(v, r)
    BY <1>1, Zenon DEF Fine, Between, Same
  <1>11. \A v : SumOf(v)' = SumOf(v)
    BY <1>1 DEF SumOf, Same, Resting
  <1>12. QED
    BY <1>1, <1>2, <1>3, <1>5, <1>6, <1>7, <1>8, <1>9, <1>10, <1>11

\* So do the phases of the samples and of the HybridEstimator.
LEMMA FirstPhasesStay ==
    ASSUME Asked, Answerable, Resting
    PROVE  /\ AtDegree => AtDegree'
           /\ AtSample => AtSample'
           /\ AtApproximate => AtApproximate'
           /\ AtNarrow => AtNarrow'
           /\ AtNear => AtNear'
           /\ AtUnion => AtUnion'
           /\ AtUnion4 => AtUnion4'
           /\ AtV2 => AtV2'
  <1>1. /\ Same /\ (MayGiveUp' <=> MayGiveUp)
        /\ Counted => Counted'
        /\ Plain => Plain'
        /\ Unknown => Unknown'
        /\ Unpopped => Unpopped'
        /\ Begun => Begun'
        /\ Samples' = Samples /\ Aside' = Aside
        /\ \A v, r : SampleSum(v, r)' <=> SampleSum(v, r)
    BY PiecesStay
  <1>2. method' = method /\ \A v : Size(v)' = Size(v)
    BY <1>1 DEF Same
  <1>3. AtDegree => AtDegree'
    BY <1>1, <1>2 DEF AtDegree, Resting
  <1>4. AtSample => AtSample'
    BY <1>1 DEF AtSample
  <1>5. AtApproximate => AtApproximate'
    BY <1>1 DEF AtApproximate, Resting
  <1>6. AtNarrow => AtNarrow'
    BY <1>1 DEF AtNarrow, Resting
  <1>7. AtNear => AtNear'
    BY <1>1, <1>2 DEF AtNear, Needed, Resting
  <1>8. \A n : Hybrid(n) => Hybrid(n)'
    BY <1>1 DEF Hybrid, FoundTo, Same, Resting
  <1>9. \A n : /\ [v \in Vertices |-> BitsOf(Ball(v, n))]' = [v \in Vertices |-> BitsOf(Ball(v, n))]
               /\ [v \in Vertices |-> BitsOf(Ring(v, n))]' = [v \in Vertices |-> BitsOf(Ring(v, n))]
    BY <1>1 DEF Same
  <1>10. s_prev' = s_prev
    BY DEF Resting
  <1>11. AtUnion => AtUnion'
    BY <1>1, <1>2, <1>8, <1>9, <1>10 DEF AtUnion
  <1>12. AtUnion4 => AtUnion4'
    BY <1>1, <1>2, <1>8, <1>9, <1>10 DEF AtUnion4
  <1>13. AtV2 => AtV2'
    BY <1>1, <1>2 DEF AtV2
  <1>14. QED
    BY <1>3, <1>4, <1>5, <1>6, <1>7, <1>11, <1>12, <1>13

\* And those of query4_v3.cc.
LEMMA SharedPhasesStay ==
    ASSUME Asked, Answerable, Resting
    PROVE  /\ AtDiameter => AtDiameter'
           /\ AtLimit => AtLimit'
           /\ AtSse => AtSse'
           /\ AtLevel => AtLevel'
           /\ AtDelta => AtDelta'
           /\ AtWalk => AtWalk'
           /\ AtSchedule => AtSchedule'
           /\ AtTree => AtTree'
  <1>1. Same /\ (Begun => Begun')
    BY PiecesStay
  <1>2. method' = method /\ \A v, n : LimitOf(v, n)' = LimitOf(v, n)
    BY <1>1 DEF Same
  <1>3. (Other => Other') /\ (Deep => Deep')
    BY <1>1, <1>2 DEF Other, Deep, Resting
  <1>4. AtDiameter => AtDiameter'
    BY <1>3 DEF AtDiameter, Resting
  <1>5. (AtLimit => AtLimit') /\ (AtSse => AtSse')
    BY <1>2, <1>3 DEF AtLimit, AtSse, Resting
  <1>6. AtLevel => AtLevel'
    <2>1. /\ [v \in Vertices |-> BitsOf(Ball(v, next))]' = [v \in Vertices |-> BitsOf(Ball(v, next))]
          /\ [v \in Vertices |-> SumWithin(v, next)]' = [v \in Vertices |-> SumWithin(v, next)]
          /\ [v \in Vertices |-> Size(v) - Cardinality(Ball(v, next))]'
                = [v \in Vertices |-> Size(v) - Cardinality(Ball(v, next))]
      BY <1>1 DEF Same, Resting
    <2>2. UNCHANGED <<next, depth_max, s_prev, result, left>>
      BY DEF Resting
    <2>3. QED
      BY <1>2, <1>3, <2>1, <2>2 DEF AtLevel
  <1>7. Searched => Searched'
    BY <1>2, <1>3 DEF Searched, Resting
  <1>8. AtDelta => AtDelta'
    BY <1>2, <1>7 DEF AtDelta, Resting
  <1>9. \A d, w, b : Distances(d, w, b) => Distances(d, w, b)'
    BY <1>1, DistancesStay DEF Resting
  <1>10. UNCHANGED <<base, path, dist, is_done>>
    BY DEF Resting
  <1>11. AtWalk => AtWalk'
    BY <1>8, <1>9, <1>10 DEF AtWalk
  <1>12. AtSchedule => AtSchedule'
    BY <1>2, <1>7, <1>10 DEF AtSchedule
  <1>13. ASSUME AtTree PROVE AtTree'
    <2>1. PICK ds : Stack(ds)
      BY <1>13 DEF AtTree
    <2>2. Stack(ds)'
      BY <1>9, <1>10, <2>1 DEF Stack, Taken, Undos
    <2>3. \E e : Stack(e)'
      BY <2>2
    <2>4. \A v : OneFurther(v)' = OneFurther(v)
      BY <1>1, BelowStays
    <2>5. OnPath' = OnPath
      BY <1>10 DEF OnPath
    <2>6. QED
      BY <1>2, <1>7, <1>10, <1>13, <2>3, <2>4, <2>5 DEF AtTree
  <1>14. QED
    BY <1>4, <1>5, <1>6, <1>8, <1>11, <1>12, <1>13

\* And the bounds and the heap.
LEMMA LastPhasesStay ==
    ASSUME Asked, Answerable, Resting, pc' = pc \/ pc' = "done"
    PROVE  /\ AtEstimated => AtEstimated'
           /\ AtHeap => AtHeap'
  <1>1. /\ Same /\ (MayGiveUp' <=> MayGiveUp)
        /\ Counted => Counted'
        /\ Plain => Plain'
        /\ Narrowed => Narrowed'
        /\ Begun => Begun'
        /\ Aside' = Aside
        /\ \A v, r : Fine(v, r)' <=> Fine(v, r)
        /\ \A v : SumOf(v)' = SumOf(v)
    BY PiecesStay
  <1>2. method' = method /\ k' = k /\ \A v : get_exact_s(v)' = get_exact_s(v)
    BY <1>1 DEF Same
  <1>3. UNCHANGED <<result, depth_max, exact, calculated, heap, last, ans, degree>>
    BY DEF Resting
  <1>4. [v \in Vertices |-> LimitOf(v, depth_max)]' = [v \in Vertices |-> LimitOf(v, depth_max)]
    BY <1>1, <1>3 DEF Same
  <1>5. AtEstimated => AtEstimated'
    BY <1>1, <1>2, <1>3, <1>4 DEF AtEstimated
  <1>6. \A v : InHeap(v) => InHeap(v)'
    BY <1>1, <1>3 DEF InHeap
  <1>7. \A v, s, u, r : /\ MoreCentral(v, s, u, r)' <=> MoreCentral(v, s, u, r)
                        /\ Precedes(v, s, u, r)' <=> Precedes(v, s, u, r)
    BY <1>3, OrderStays
  <1>8. NoneBefore => NoneBefore'
    BY <1>3, <1>7 DEF NoneBefore
  <1>9. InOrder => InOrder'
    BY <1>1, <1>3, <1>7 DEF InOrder
  <1>10. AtHeap => AtHeap'
    <2> SUFFICES ASSUME AtHeap PROVE AtHeap'
      OBVIOUS
    <2>1. /\ Counted' /\ (IF MayGiveUp' THEN Narrowed' ELSE Plain')
          /\ exact' \in [Vertices -> Int]
          /\ \A v \in Vertices : v \notin calculated' => exact'[v] \in {-1, get_exact_s(v)'}
          /\ (method \in SharedMethods => result = [v \in Vertices |-> LimitOf(v, depth_max)])'
      BY <1>1, <1>2, <1>3, <1>4 DEF AtHeap
    <2>2. /\ DOMAIN heap' \subseteq Vertices
          /\ \A v \in DOMAIN heap' : InHeap(v)'
          /\ ans' \in Seq(Vertices) /\ Len(ans') <= k'
          /\ pc' = "heap" => Len(ans') < k'
          /\ \A v \in Vertices : v \in DOMAIN heap' \/ \E i \in 1 .. Len(ans') : ans'[i] = v
      BY <1>2, <1>3, <1>6 DEF AtHeap
    <2>3. /\ last'[1] \in DOMAIN heap' => heap'[last'[1]] = SumOf(last[1])'
          /\ last'[1] # 0 => last'[1] \in Vertices /\ last'[2] \in Nat
      BY <1>1, <1>3 DEF AtHeap
    <2>4. NoneBefore' /\ InOrder'
      BY <1>8, <1>9 DEF AtHeap
    <2>5. QED
      BY <2>1, <2>2, <2>3, <2>4 DEF AtHeap
  <1>11. QED
    BY <1>5, <1>10

\* With fewer than k vertices the answer is all of them.
LEMMA StepRunDry ==
    ASSUME Query4Inv, RunDry
    PROVE  Query4Inv'
  <1>1. pc = "heap" /\ pc' = "done" /\ Asked /\ Answerable /\ AtHeap
    BY DEF Query4Inv, RunDry
  <1>2. Resting
    BY DEF RunDry, Resting, estimate, cut, choice, delta
  <1>3. AtHeap'
    BY <1>1, <1>2, LastPhasesStay
  <1>4. Asked' /\ Answerable'
    BY <1>1, <1>2, PiecesStay
  <1>5. QED
    BY <1>1, <1>3, <1>4 DEF Query4Inv

\* A step of nothing.
LEMMA StepNothing ==
    ASSUME Query4Inv, UNCHANGED vars
    PROVE  Query4Inv'
  <1>1. Resting /\ pc' = pc
    BY DEF vars, choiceVars, hybridVars, graphVars, Resting, estimate, cut, choice, delta, heapVars
  <1>2. Asked /\ Answerable
    BY DEF Query4Inv
  <1>3. Asked' /\ Answerable'
    BY <1>1, <1>2, PiecesStay
  <1>4. QED
    BY <1>1, <1>2, <1>3, FirstPhasesStay, SharedPhasesStay, LastPhasesStay DEF Query4Inv

-----------------------------------------------------------------------------
(* The theorems.                                                           *)

\* Every step of the call keeps the invariant.
LEMMA StepNext ==
    ASSUME Query4Inv, Next
    PROVE  Query4Inv'
  <1>1. CASE EstimatorNext /\ Quiet
    BY <1>1, StepComputeDegree, StepDoubleSweep, StepLimitDepthAll, StepEstimateV2, StepUnionInit, StepUnionLevel
       DEF EstimatorNext
  <1>2. CASE HybridNext /\ Calm
    BY <1>2, Step_bfs_depth, StepSearchTwo, StepSearchThree, StepUnionNear, StepUnionMore, StepUnionFour
       DEF HybridNext
  <1>3. CASE ChoiceNext /\ Steady
    BY <1>3, StepSample, StepApproximate, StepNarrow DEF ChoiceNext
  <1>4. CASE DeltaNext /\ Placid
    BY <1>4, StepSkipRoot, StepSearchRoot, StepWalk, StepWalkEnds, StepSearchTree, StepDescend, StepRollback
       DEF DeltaNext
  <1>5. CASE FillHeap
    BY <1>5, StepFillHeap
  <1>6. CASE RunDry
    BY <1>6, StepRunDry
  <1>7. CASE \E v \in Vertices : Emit(v) \/ MakeExact(v) \/ EstimateAgain(v)
    BY <1>7, StepEmit, StepMakeExact, StepEstimateAgain
  <1>8. QED
    BY <1>1, <1>2, <1>3, <1>4, <1>5, <1>6, <1>7 DEF Next, Quiet, Calm, Steady, Placid

\* The inductive invariant holds: each estimator of query 4 leaves bounds behind
\* that are right when the heap takes them.
THEOREM Query4Inductive == Spec => []Query4Inv
  <1>1. Init => Query4Inv
    BY InvariantBegins
  <1>2. Query4Inv /\ [Next]_vars => Query4Inv'
    BY StepNext, StepNothing
  <1>3. QED
    BY <1>1, <1>2, PTL DEF Spec

\* With every estimator, for every graph and all sizes of words, bytes and chunks,
\* no bound in the heap is above the sum of the distances, but for samples and
\* those given up; and what the heap has as exact is the sum (query4_wyx.cc and
\* the estimators it calls).
THEOREM BoundsAlwaysHold == Spec => []BoundsHold
  <1>1. ASSUME Query4Inv PROVE BoundsHold
    <2>1. SUFFICES ASSUME pc \in {"heap", "done"}, NEW v \in DOMAIN heap \ Samples, heap[v] < GivenUp
                   PROVE  heap[v] <= get_exact_s(v) /\ (exact[v] # -1 => heap[v] = get_exact_s(v))
      BY DEF BoundsHold
    <2>2. Asked /\ AtHeap
      BY <1>1, <2>1 DEF Query4Inv
    <2>3. /\ v \in Vertices /\ heap[v] \in Nat
          /\ heap[v] = SumOf(v) \/ (exact[v] = -1 /\ heap[v] = result[v])
          /\ heap[v] <= SumOf(v) \/ (MayGiveUp /\ heap[v] >= GivenUp)
      BY <2>1, <2>2, HeapElements
    <2>4. GivenUp \in Nat
      BY GivenUpAssumption
    <2>5. heap[v] <= SumOf(v)
      BY <2>1, <2>3, <2>4
    <2>6. SumOf(v) = get_exact_s(v)
      BY <2>1, <2>3 DEF SumOf, Samples
    <2>7. exact[v] # -1 => heap[v] = SumOf(v)
      BY <2>3
    <2>8. QED
      BY <2>5, <2>6, <2>7
  <1>2. QED
    BY <1>1, Query4Inductive, PTL

\* DeltaEstimator, Q4Scheduler and SSEUnionSetEstimator find for every vertex
\* exactly what LimitDepthEstimator finds: the check of query4_v3.cc:427-429
\* never fails.
THEOREM SharedSearchesAreExact == Spec => []LimitDepthExact
  <1>1. ASSUME Query4Inv PROVE LimitDepthExact
    <2>1. SUFFICES ASSUME pc = "heap", method \in SharedMethods, NEW v \in Vertices
                   PROVE  result[v] = LimitDepth(v, depth_max)
      BY DEF LimitDepthExact, SharedMethods
    <2>2. Asked /\ AtHeap
      BY <1>1, <2>1 DEF Query4Inv
    <2>3. Counted /\ result = [u \in Vertices |-> LimitOf(u, depth_max)]
      BY <2>1, <2>2 DEF AtHeap
    <2>4. LimitDepth(v, depth_max) = LimitOf(v, depth_max)
      BY <2>3, LimitDepthIs
    <2>5. QED
      BY <2>3, <2>4
  <1>2. QED
    BY <1>1, Query4Inductive, PTL

\* The loop over the heap answers with the most central vertices in order, ties
\* by number, though most vertices are never made exact: with lower bounds that
\* are right, a vertex that comes out twice beats all that are left.  Samples
\* count by their recorded sums, and those given up do not count.
THEOREM AnswersAreMostCentral == Spec => []MostCentral
  <1>1. ASSUME Query4Inv PROVE MostCentral
    <2>1. SUFFICES ASSUME pc = "done" PROVE MostCentral
      BY DEF MostCentral
    <2>2. InOrder /\ ans \in Seq(Vertices)
      BY <1>1, <2>1 DEF Query4Inv, AtHeap
    <2> DEFINE s == [v \in Vertices |-> IF sampled[v] > 0 THEN exact[v] ELSE get_exact_s(v)]
               kept == {v \in Vertices : result[v] < GivenUp}
    <2>3. \A v \in Vertices : s[v] = SumOf(v)
      BY DEF SumOf
    <2>4. ASSUME NEW i \in 1 .. Len(ans), NEW v \in kept \ {ans[j] : j \in 1 .. i}
          PROVE  Precedes(ans[i], s[ans[i]], v, s[v])
      <3>1. v \in Vertices /\ ans[i] \in Vertices
        BY <2>2
      <3>2. Precedes(ans[i], SumOf(ans[i]), v, SumOf(v))
        BY <2>2, <2>4 DEF InOrder
      <3>3. s[v] = SumOf(v) /\ s[ans[i]] = SumOf(ans[i])
        BY <2>3, <3>1
      <3> HIDE DEF s
      <3>4. QED
        BY <3>2, <3>3
    <2>5. QED
      BY <2>4 DEF MostCentral
  <1>2. QED
    BY <1>1, Query4Inductive, PTL

\* The assertion of query4_wyx.cc:181: whatever is popped is not more central
\* than what was popped before it, put back or not.
THEOREM HeapYieldsInOrder == Spec => CentralityFalls
  <1> DEFINE Falls == last'[1] # 0 /\ last[1] # 0 => ~ MoreCentral(last'[1], last'[2], last[1], last[2])
  <1>1. ASSUME Query4Inv, [Next]_vars PROVE [Falls]_last
    <2>1. SUFFICES ASSUME last' # last, last[1] # 0 PROVE ~ MoreCentral(last'[1], last'[2], last[1], last[2])
      OBVIOUS
    <2>2. PICK v \in Vertices : Emit(v) \/ MakeExact(v) \/ EstimateAgain(v)
      BY <1>1, <2>1
         DEF Next, vars, heapVars, FillHeap, RunDry
    <2>3. pc = "heap" /\ v \in DOMAIN heap /\ last' = <<v, heap[v]>>
      BY <2>2 DEF Emit, MakeExact, EstimateAgain
    <2>4. NoneBefore
      BY <1>1, <2>3 DEF Query4Inv, AtHeap
    <2>5. QED
      BY <2>1, <2>3, <2>4 DEF NoneBefore
  <1>2. QED
    BY <1>1, Query4Inductive, PTL DEF CentralityFalls, Spec
=============================================================================

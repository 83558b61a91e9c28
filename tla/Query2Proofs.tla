---------------------------- MODULE Query2Proofs ----------------------------
(***************************************************************************)
(* What the union-finds of query 2 compute, for every set of persons, tags *)
(* and friendships: the sets of a tag are the components of the friends    *)
(* with that interest, and a query's answer is the k tags of the largest   *)
(* sets.  Then that its heap is a heap at every step, and that find_ans    *)
(* implements TagRanking.                                                  *)
(***************************************************************************)
EXTENDS Query2, MyHeap, Counting, SequenceTheorems, FiniteSetTheorems, WellFoundedInduction, TLAPS

-----------------------------------------------------------------------------
(* The union-find of one tag.                                              *)

\* The parents p of n elements: the parent of an element is not before it.
Forest(p, n) ==
    /\ n \in Nat
    /\ DOMAIN p = 1 .. n
    /\ \A x \in 1 .. n : p[x] \in x .. n

\* A set of numbers up to n that has a larger one for each of its own is empty:
\* what follows from it for the parent of x holds for x.
LEMMA NoneIsLargest ==
    ASSUME NEW n \in Nat, NEW S \in SUBSET (1 .. n), \A x \in S : \E y \in S : y > x
    PROVE  S = {}
  <1>1. SUFFICES ASSUME S # {} PROVE FALSE
    OBVIOUS
  <1> DEFINE D == {d \in Nat : \E x \in S : d = n - x}
  <1>2. D # {} /\ D \in SUBSET Nat
    <2>1. PICK x \in S : TRUE
      BY <1>1
    <2>2. n - x \in Nat
      OBVIOUS
    <2>3. n - x \in D
      BY <2>2
    <2>4. QED
      BY <2>3
  <1>3. PICK d \in D : \A e \in D : d <= e
    <2> HIDE DEF D
    <2>1. QED
      BY <1>2, LeastNumber
  <1>4. PICK x \in S : d = n - x
    BY <1>3
  <1>5. PICK y \in S : y > x
    BY <1>4
  <1>6. n - y \in D /\ n - y < d
    <2>1. x \in 1 .. n /\ y \in 1 .. n
      OBVIOUS
    <2>2. n - y \in Nat /\ n - y < d
      BY <1>4, <1>5, <2>1
    <2>3. QED
      BY <2>2
  <1>7. QED
    BY <1>3, <1>6

\* The elements that the parents lead to from x.
Steps(p, x) ==
    {y \in DOMAIN p : \A C \in SUBSET DOMAIN p : x \in C /\ (\A z \in C : p[z] \in C) => y \in C}

\* They are x and those from its parent.
LEMMA StepsFrom ==
    ASSUME NEW n, NEW p, Forest(p, n), NEW x \in 1 .. n
    PROVE  /\ p[x] \in 1 .. n
           /\ Steps(p, x) = IF p[x] = x THEN {x} ELSE {x} \cup Steps(p, p[x])
  <1>1. DOMAIN p = 1 .. n /\ \A y \in 1 .. n : p[y] \in 1 .. n
    BY DEF Forest
  <1>2. x \in Steps(p, x) /\ Steps(p, x) \subseteq 1 .. n
    BY <1>1 DEF Steps
  <1>3. CASE p[x] = x
    <2>1. {x} \in SUBSET DOMAIN p /\ \A z \in {x} : p[z] \in {x}
      BY <1>1, <1>3
    <2>2. Steps(p, x) \subseteq {x}
      BY <2>1 DEF Steps
    <2>3. QED
      BY <1>1, <1>2, <1>3, <2>2
  <1>4. CASE p[x] # x
    <2>1. ASSUME NEW y \in Steps(p, x), y # x PROVE y \in Steps(p, p[x])
      <3>1. ASSUME NEW C \in SUBSET DOMAIN p, p[x] \in C, \A z \in C : p[z] \in C
            PROVE  y \in C
        <4>1. C \cup {x} \in SUBSET DOMAIN p
          BY <1>1
        <4>2. \A z \in C \cup {x} : p[z] \in C \cup {x}
          BY <3>1
        <4>3. y \in C \cup {x}
          BY <2>1, <4>1, <4>2 DEF Steps
        <4>4. QED
          BY <2>1, <4>3
      <3>2. QED
        BY <2>1, <3>1 DEF Steps
    <2>2. ASSUME NEW y \in Steps(p, p[x]) PROVE y \in Steps(p, x)
      <3>1. ASSUME NEW C \in SUBSET DOMAIN p, x \in C, \A z \in C : p[z] \in C
            PROVE  y \in C
        BY <2>2, <3>1 DEF Steps
      <3>2. QED
        BY <2>2, <3>1 DEF Steps
    <2>3. QED
      BY <1>1, <1>2, <1>4, <2>1, <2>2
  <1>5. QED
    BY <1>3, <1>4

\* So the recursion of Path is well defined, ...
LEMMA PathIs ==
    ASSUME NEW n, NEW p, Forest(p, n), NEW x \in 1 .. n
    PROVE  Path(p, x) = IF p[x] = x THEN {x} ELSE {x} \cup Path(p, p[x])
  <1> DEFINE R(s) == [y \in DOMAIN p |-> IF p[y] = y THEN {y} ELSE {y} \cup s[p[y]]]
             s0 == [y \in DOMAIN p |-> Steps(p, y)]
             c == CHOOSE s : s = R(s)
  <1>1. DOMAIN p = 1 .. n /\ \A y \in 1 .. n : p[y] \in 1 .. n
    BY DEF Forest
  <1>2. s0 = R(s0)
    <2>1. ASSUME NEW y \in DOMAIN p
          PROVE  Steps(p, y) = IF p[y] = y THEN {y} ELSE {y} \cup s0[p[y]]
      <3>1. p[y] \in DOMAIN p /\ y \in 1 .. n
        BY <1>1
      <3>2. s0[p[y]] = Steps(p, p[y])
        BY <3>1
      <3> HIDE DEF s0
      <3>3. QED
        BY <3>1, <3>2, StepsFrom
    <2>2. QED
      BY <2>1
  <1>3. c = R(c)
    <2>1. \E s : s = R(s)
      <3> HIDE DEF R, s0
      <3>1. QED
        BY <1>2
    <2> HIDE DEF R
    <2>2. QED
      BY <2>1, Zenon
  <1>4. Path(p, x) = c[x] /\ Path(p, p[x]) = c[p[x]]
    BY DEF Path
  <1> HIDE DEF c
  <1>5. c[x] = IF p[x] = x THEN {x} ELSE {x} \cup c[p[x]]
    BY <1>1, <1>3
  <1>6. QED
    BY <1>4, <1>5

\* ... and that of Root.
LEMMA RootIs ==
    ASSUME NEW n, NEW p, Forest(p, n), NEW x \in 1 .. n
    PROVE  Root(p, x) = IF p[x] = x THEN x ELSE Root(p, p[x])
  <1> DEFINE R(r) == [y \in DOMAIN p |-> IF p[y] = y THEN y ELSE r[p[y]]]
             Ends(y) == {z \in Steps(p, y) : p[z] = z}
             r0 == [y \in DOMAIN p |-> CHOOSE z : z \in Ends(y)]
             c == CHOOSE r : r = R(r)
  <1>1. DOMAIN p = 1 .. n /\ \A y \in 1 .. n : p[y] \in 1 .. n
    BY DEF Forest
  <1>2. r0 = R(r0)
    <2>1. ASSUME NEW y \in DOMAIN p
          PROVE  (CHOOSE z : z \in Ends(y)) = IF p[y] = y THEN y ELSE r0[p[y]]
      <3>1. p[y] \in DOMAIN p /\ y \in 1 .. n
        BY <1>1
      <3>2. r0[p[y]] = CHOOSE z : z \in Ends(p[y])
        BY <3>1
      <3>3. Steps(p, y) = IF p[y] = y THEN {y} ELSE {y} \cup Steps(p, p[y])
        BY <3>1, StepsFrom
      <3>4. CASE p[y] = y
        <4>1. Ends(y) = {y}
          BY <3>3, <3>4
        <4>2. (CHOOSE z : z \in {y}) = y
          OBVIOUS
        <4>3. QED
          BY <3>4, <4>1, <4>2
      <3>5. CASE p[y] # y
        <4>1. Ends(y) = Ends(p[y])
          BY <3>3, <3>5
        <4> HIDE DEF Ends, r0
        <4>2. QED
          BY <3>2, <3>5, <4>1
      <3>6. QED
        BY <3>4, <3>5
    <2>2. QED
      BY <2>1
  <1>3. c = R(c)
    <2>1. \E r : r = R(r)
      <3> HIDE DEF R, r0
      <3>1. QED
        BY <1>2
    <2> HIDE DEF R
    <2>2. QED
      BY <2>1, Zenon
  <1>4. Root(p, x) = c[x] /\ Root(p, p[x]) = c[p[x]]
    BY DEF Root
  <1> HIDE DEF c
  <1>5. c[x] = IF p[x] = x THEN x ELSE c[p[x]]
    BY <1>1, <1>3
  <1>6. QED
    BY <1>4, <1>5

\* The root of x is its own parent; all on the path from x have it as root.
LEMMA RootAndPath ==
    ASSUME NEW n, NEW p, Forest(p, n), NEW x \in 1 .. n
    PROVE  /\ Root(p, x) \in x .. n
           /\ p[Root(p, x)] = Root(p, x)
           /\ p[x] = x => Root(p, x) = x
           /\ Root(p, x) \in Path(p, x)
           /\ \A y \in Path(p, x) : y \in 1 .. n /\ Root(p, y) = Root(p, x)
  <1> DEFINE Right(y) == /\ Root(p, y) \in y .. n
                         /\ p[Root(p, y)] = Root(p, y)
                         /\ Root(p, y) \in Path(p, y)
                         /\ \A z \in Path(p, y) : z \in 1 .. n /\ Root(p, z) = Root(p, y)
             wrong == {y \in 1 .. n : ~ Right(y)}
  <1>1. n \in Nat /\ \A y \in 1 .. n : p[y] \in y .. n /\ p[y] \in 1 .. n
    BY DEF Forest
  <1>2. ASSUME NEW y \in 1 .. n, p[y] = y PROVE Right(y)
    <2>1. Root(p, y) = y /\ Path(p, y) = {y}
      BY <1>2, RootIs, PathIs
    <2>2. QED
      BY <1>1, <1>2, <2>1
  <1>3. ASSUME NEW y \in 1 .. n, p[y] # y, Right(p[y]) PROVE Right(y)
    <2>1. Root(p, y) = Root(p, p[y]) /\ Path(p, y) = {y} \cup Path(p, p[y])
      BY <1>3, RootIs, PathIs
    <2>2. p[y] \in y .. n /\ Root(p, p[y]) \in p[y] .. n
      BY <1>1, <1>3
    <2>3. Root(p, p[y]) \in y .. n
      BY <1>1, <2>2
    <2>4. QED
      BY <1>3, <2>1, <2>3
  <1> HIDE DEF Right
  <1>4. \A y \in wrong : \E z \in wrong : z > y
    <2>1. ASSUME NEW y \in wrong PROVE p[y] \in wrong /\ p[y] > y
      <3>1. y \in 1 .. n /\ ~ Right(y)
        OBVIOUS
      <3>2. p[y] # y /\ ~ Right(p[y])
        BY <1>2, <1>3, <3>1
      <3>3. p[y] \in 1 .. n /\ p[y] > y
        BY <1>1, <3>1, <3>2
      <3>4. QED
        BY <3>2, <3>3
    <2>2. QED
      BY <2>1
  <1>5. wrong = {}
    <2>1. wrong \in SUBSET (1 .. n)
      OBVIOUS
    <2> HIDE DEF wrong
    <2>2. QED
      BY <1>1, <1>4, <2>1, NoneIsLargest
  <1>6. Right(x)
    BY <1>5
  <1>7. QED
    BY <1>6, RootIs DEF Right

\* What is the same for an element and its parent, and for a root the root
\* itself, is the root.
LEMMA SameRoots ==
    ASSUME NEW n, NEW g, Forest(g, n), NEW r,
           \A x \in 1 .. n : IF g[x] = x THEN r[x] = x ELSE r[x] = r[g[x]]
    PROVE  \A x \in 1 .. n : Root(g, x) = r[x]
  <1> DEFINE wrong == {x \in 1 .. n : Root(g, x) # r[x]}
  <1>1. n \in Nat /\ \A y \in 1 .. n : g[y] \in y .. n /\ g[y] \in 1 .. n
    BY DEF Forest
  <1>2. ASSUME NEW x \in wrong PROVE g[x] \in wrong /\ g[x] > x
    <2>1. x \in 1 .. n /\ Root(g, x) # r[x]
      OBVIOUS
    <2>2. Root(g, x) = IF g[x] = x THEN x ELSE Root(g, g[x])
      BY <2>1, RootIs
    <2>3. g[x] # x /\ Root(g, g[x]) # r[g[x]]
      BY <2>1, <2>2
    <2>4. g[x] \in 1 .. n /\ g[x] > x
      BY <1>1, <2>1, <2>3
    <2>5. QED
      BY <2>3, <2>4
  <1>3. wrong = {}
    <2>1. wrong \in SUBSET (1 .. n)
      OBVIOUS
    <2> HIDE DEF wrong
    <2>2. QED
      BY <1>1, <1>2, <2>1, NoneIsLargest
  <1>4. QED
    BY <1>3

\* getf compresses the path and leaves the roots.
LEMMA CompressedRoots ==
    ASSUME NEW n, NEW p, Forest(p, n), NEW w \in 1 .. n
    PROVE  /\ Forest(Compressed(p, w), n)
           /\ \A x \in 1 .. n : Root(Compressed(p, w), x) = Root(p, x)
           /\ Compressed(p, w)[Root(p, w)] = Root(p, w)
  <1> DEFINE g == Compressed(p, w)
             r == [x \in 1 .. n |-> Root(p, x)]
  <1>1. n \in Nat /\ DOMAIN p = 1 .. n /\ \A y \in 1 .. n : p[y] \in y .. n /\ p[y] \in 1 .. n
    BY DEF Forest
  <1>2. g = [y \in 1 .. n |-> IF y \in Path(p, w) THEN Root(p, w) ELSE p[y]]
    BY <1>1 DEF Compressed
  <1>3. \A y \in 1 .. n : /\ Root(p, y) \in y .. n /\ p[Root(p, y)] = Root(p, y)
                          /\ p[y] = y => Root(p, y) = y
                          /\ p[y] # y => Root(p, y) = Root(p, p[y])
    BY RootAndPath, RootIs
  <1>4. /\ Root(p, w) \in Path(p, w) /\ Root(p, w) \in 1 .. n
        /\ \A y \in Path(p, w) : y \in 1 .. n /\ Root(p, y) = Root(p, w)
    BY RootAndPath
  <1> HIDE DEF g
  <1>5. \A y \in 1 .. n : g[y] = IF y \in Path(p, w) THEN Root(p, y) ELSE p[y]
    BY <1>2, <1>4
  <1>6. Forest(g, n)
    BY <1>1, <1>2, <1>3, <1>5 DEF Forest
  <1>7. ASSUME NEW x \in 1 .. n PROVE IF g[x] = x THEN r[x] = x ELSE r[x] = r[g[x]]
    <2>1. Root(p, x) \in 1 .. n /\ Root(p, Root(p, x)) = Root(p, x)
      <3>1. Root(p, x) \in 1 .. n
        BY <1>1, <1>3
      <3>2. QED
        BY <1>3, <3>1
    <2>2. CASE x \in Path(p, w)
      <3>1. g[x] = Root(p, x)
        BY <1>5, <2>2
      <3>2. QED
        BY <2>1, <3>1
    <2>3. CASE x \notin Path(p, w)
      <3>1. g[x] = p[x]
        BY <1>5, <2>3
      <3>2. QED
        BY <1>1, <1>3, <3>1
    <2>4. QED
      BY <2>2, <2>3
  <1> HIDE DEF r
  <1>8. \A x \in 1 .. n : Root(g, x) = r[x]
    BY <1>6, <1>7, SameRoots
  <1>9. g[Root(p, w)] = Root(p, w)
    BY <1>2, <1>4
  <1>10. QED
    BY <1>6, <1>8, <1>9 DEF g, r

\* In g the last element is the parent of a, and all is else as in p.
Linked(g, p, n, a) == DOMAIN g = 1 .. n /\ \A y \in 1 .. n : g[y] = IF y = a THEN n ELSE p[y]

\* A root that gets the last element as parent takes its set along.
LEMMA LinkedRoots ==
    ASSUME NEW n, NEW p, Forest(p, n), NEW a \in 1 .. n, p[a] = a,
           NEW g, Linked(g, p, n, a)
    PROVE  /\ Forest(g, n)
           /\ \A x \in 1 .. n : Root(g, x) = IF Root(p, x) = a THEN n ELSE Root(p, x)
  <1> DEFINE r == [x \in 1 .. n |-> IF Root(p, x) = a THEN n ELSE Root(p, x)]
  <1>1. n \in Nat /\ DOMAIN p = 1 .. n /\ \A y \in 1 .. n : p[y] \in y .. n /\ p[y] \in 1 .. n
    BY DEF Forest
  <1>2. n \in 1 .. n
    BY <1>1
  <1>3. Forest(g, n)
    BY <1>1, <1>2 DEF Forest, Linked
  <1>4. \A y \in 1 .. n : /\ Root(p, y) \in 1 .. n
                          /\ p[y] = y => Root(p, y) = y
                          /\ p[y] # y => Root(p, y) = Root(p, p[y])
    <2>1. \A y \in 1 .. n : Root(p, y) \in y .. n /\ (p[y] = y => Root(p, y) = y)
      BY RootAndPath
    <2>2. \A y \in 1 .. n : p[y] # y => Root(p, y) = Root(p, p[y])
      BY RootIs
    <2>3. QED
      BY <1>1, <2>1, <2>2
  <1>5. Root(p, n) = n
    <2>1. p[n] = n
      BY <1>1, <1>2
    <2>2. QED
      BY <1>2, <1>4, <2>1
  <1>6. r[n] = n
    BY <1>2, <1>5
  <1>7. ASSUME NEW x \in 1 .. n PROVE IF g[x] = x THEN r[x] = x ELSE r[x] = r[g[x]]
    <2>1. CASE x = a
      <3>1. g[x] = n /\ Root(p, x) = a /\ r[x] = n
        BY <1>2, <1>4, <2>1 DEF Linked
      <3>2. QED
        BY <1>6, <3>1
    <2>2. CASE x # a
      <3>1. g[x] = p[x]
        BY <1>2, <2>2 DEF Linked
      <3>2. CASE p[x] = x
        BY <1>4, <2>2, <3>1, <3>2
      <3>3. CASE p[x] # x
        BY <1>1, <1>4, <3>1, <3>3
      <3>4. QED
        BY <3>2, <3>3
    <2>3. QED
      BY <2>1, <2>2
  <1> HIDE DEF r
  <1>8. \A x \in 1 .. n : Root(g, x) = r[x]
    BY <1>3, <1>7, SameRoots
  <1>9. QED
    BY <1>3, <1>8 DEF r

\* One more element, of its own.
LEMMA AppendedRoots ==
    ASSUME NEW n, NEW p \in Seq(Nat), Forest(p, n)
    PROVE  LET g == Append(p, n + 1)
           IN /\ Forest(g, n + 1) /\ g \in Seq(Nat) /\ Len(p) = n
              /\ \A x \in 1 .. n : Root(g, x) = Root(p, x)
              /\ Root(g, n + 1) = n + 1
  <1> DEFINE g == Append(p, n + 1)
             r == [x \in 1 .. n + 1 |-> IF x \in 1 .. n THEN Root(p, x) ELSE x]
  <1>1. n \in Nat /\ DOMAIN p = 1 .. n /\ \A y \in 1 .. n : p[y] \in y .. n /\ p[y] \in 1 .. n
    BY DEF Forest
  <1>2. Len(p) = n
    BY <1>1
  <1>3. /\ g \in Seq(Nat) /\ DOMAIN g = 1 .. n + 1
        /\ \A y \in 1 .. n : g[y] = p[y]
        /\ g[n + 1] = n + 1
    BY <1>1, <1>2
  <1> HIDE DEF g
  <1>4. \A x \in 1 .. n + 1 : x \in 1 .. n \/ x = n + 1
    BY <1>1
  <1>5. Forest(g, n + 1)
    <2>1. ASSUME NEW x \in 1 .. n + 1 PROVE g[x] \in x .. n + 1
      <3>1. CASE x \in 1 .. n
        <4>1. g[x] \in x .. n
          BY <1>1, <1>3, <3>1
        <4>2. QED
          BY <1>1, <4>1
      <3>2. CASE x = n + 1
        BY <1>1, <1>3, <3>2
      <3>3. QED
        BY <1>4, <3>1, <3>2
    <2>2. QED
      BY <1>1, <1>3, <2>1 DEF Forest
  <1>6. \A y \in 1 .. n : /\ p[y] = y => Root(p, y) = y
                          /\ p[y] # y => Root(p, y) = Root(p, p[y])
    BY RootIs
  <1>7. ASSUME NEW x \in 1 .. n + 1 PROVE IF g[x] = x THEN r[x] = x ELSE r[x] = r[g[x]]
    <2>1. CASE x \in 1 .. n
      <3>1. g[x] = p[x] /\ p[x] \in 1 .. n /\ p[x] \in 1 .. n + 1
        BY <1>1, <1>3, <2>1
      <3>2. QED
        BY <1>6, <2>1, <3>1
    <2>2. CASE x = n + 1
      <3>1. x \notin 1 .. n
        BY <1>1, <2>2
      <3>2. QED
        BY <1>3, <2>2, <3>1
    <2>3. QED
      BY <1>4, <2>1, <2>2
  <1>8. r[n + 1] = n + 1 /\ \A x \in 1 .. n : r[x] = Root(p, x)
    BY <1>1
  <1> HIDE DEF r
  <1>9. \A x \in 1 .. n + 1 : Root(g, x) = r[x]
    BY <1>5, <1>7, SameRoots
  <1>10. n + 1 \in 1 .. n + 1 /\ \A x \in 1 .. n : x \in 1 .. n + 1
    BY <1>1
  <1>11. QED
    BY <1>2, <1>3, <1>5, <1>8, <1>9, <1>10 DEF g

-----------------------------------------------------------------------------
(* The sets of a tag: sizes, and what an edge connects.                    *)

\* The set of each root, and its size in s.
SetOf(p, n, z) == {y \in 1 .. n : Root(p, y) = z}
Sizes(p, n, s) == \A x \in 1 .. n : s[Root(p, x)] = Cardinality(SetOf(p, n, Root(p, x)))

\* m is the largest of the sizes.
LargestSet(p, n, s, m) ==
    /\ m \in Nat
    /\ \A x \in 1 .. n : s[Root(p, x)] <= m
    /\ n = 0 => m = 0
    /\ n > 0 => \E x \in 1 .. n : s[Root(p, x)] = m

\* The union-find of a tag with n persons.
Tree(p, n, s, m) ==
    /\ Forest(p, n) /\ p \in Seq(Nat) /\ Len(p) = n
    /\ s \in Seq(Nat) /\ Len(s) = n
    /\ Sizes(p, n, s)
    /\ LargestSet(p, n, s, m)

\* A vector stays one when an element is replaced, or all are.
LEMMA Vector ==
    ASSUME NEW n \in Nat, NEW g, g \in [1 .. n -> Nat]
    PROVE  g \in Seq(Nat) /\ Len(g) = n /\ DOMAIN g = 1 .. n
  OBVIOUS

\* The sets are finite, and those of different roots have no element in common.
LEMMA SetsOf ==
    ASSUME NEW n \in Nat, NEW p, NEW z
    PROVE  /\ IsFiniteSet(SetOf(p, n, z)) /\ Cardinality(SetOf(p, n, z)) \in Nat
           /\ Cardinality(SetOf(p, n, z)) <= n
           /\ \A y : y # z => SetOf(p, n, z) \cap SetOf(p, n, y) = {}
  <1>1. IsFiniteSet(1 .. n) /\ Cardinality(1 .. n) = n
    <2>1. 1 \in Int /\ n \in Int
      OBVIOUS
    <2>2. IsFiniteSet(1 .. n) /\ Cardinality(1 .. n) = IF 1 > n THEN 0 ELSE n - 1 + 1
      BY <2>1, FS_Interval
    <2>3. QED
      BY <2>2
  <1>2. SetOf(p, n, z) \subseteq 1 .. n
    BY DEF SetOf
  <1>3. IsFiniteSet(SetOf(p, n, z)) /\ Cardinality(SetOf(p, n, z)) <= n
    BY <1>1, <1>2, FS_Subset
  <1>4. QED
    BY <1>3, FS_CardinalityType DEF SetOf

\* g and u are p and s after the set of w is merged into that of n.
Unites(g, u, p, n, s, w) ==
    /\ g = IF Root(p, w) = n THEN Compressed(p, w) ELSE [Compressed(p, w) EXCEPT ![Root(p, w)] = n]
    /\ u = IF Root(p, w) = n THEN s ELSE [s EXCEPT ![n] = @ + s[Root(p, w)]]

\* Two sets become one.
LEMMA MergedTree ==
    ASSUME NEW n \in Nat, NEW p, NEW s, NEW m, Tree(p, n, s, m), NEW w \in 1 .. n,
           NEW g, NEW u, Unites(g, u, p, n, s, w)
    PROVE  /\ Tree(g, n, u, Larger(m, u[n]))
           /\ \A x \in 1 .. n : Root(g, x) = IF Root(p, x) = Root(p, w) THEN n ELSE Root(p, x)
  <1> DEFINE a == Root(p, w)
             c == Compressed(p, w)
  <1>1. /\ Forest(p, n) /\ s \in Seq(Nat) /\ Len(s) = n /\ Sizes(p, n, s) /\ LargestSet(p, n, s, m)
    BY DEF Tree
  <1>2. n \in 1 .. n /\ s \in [1 .. n -> Nat]
    <2>1. n \in 1 .. n
      OBVIOUS
    <2>2. QED
      BY <1>1, <2>1
  <1>3. \A x \in 1 .. n : Root(p, x) \in x .. n /\ p[Root(p, x)] = Root(p, x) /\ (p[x] = x => Root(p, x) = x)
    BY <1>1, RootAndPath
  <1>4. /\ Forest(c, n) /\ c[a] = a
        /\ \A x \in 1 .. n : Root(c, x) = Root(p, x)
    BY <1>1, CompressedRoots
  <1>5. a \in 1 .. n /\ Root(p, n) = n /\ Root(p, a) = a
    <2>1. a \in w .. n
      BY <1>3
    <2>2. a \in 1 .. n
      BY <2>1
    <2>3. Root(p, n) \in n .. n
      BY <1>2, <1>3
    <2>4. Root(p, a) = a
      BY <1>3, <2>2
    <2>5. QED
      BY <2>2, <2>3, <2>4
  <1>6. \A x \in 1 .. n : Root(p, x) \in 1 .. n
    BY <1>3
  <1>7. /\ g = IF a = n THEN c ELSE [c EXCEPT ![a] = n]
        /\ u = IF a = n THEN s ELSE [s EXCEPT ![n] = @ + s[a]]
    BY DEF Unites
  <1> HIDE DEF a, c
  <1>8. /\ Forest(g, n)
        /\ \A x \in 1 .. n : Root(g, x) = IF Root(p, x) = a THEN n ELSE Root(p, x)
    <2>1. CASE a = n
      BY <1>4, <1>7, <2>1
    <2>2. CASE a # n
      <3>1. Linked(g, c, n, a)
        <4>1. g = [c EXCEPT ![a] = n] /\ DOMAIN c = 1 .. n
          BY <1>4, <1>7, <2>2 DEF Forest
        <4>2. QED
          BY <4>1 DEF Linked
      <3>2. /\ Forest(g, n)
            /\ \A x \in 1 .. n : Root(g, x) = IF Root(c, x) = a THEN n ELSE Root(c, x)
        BY <1>4, <1>5, <3>1, LinkedRoots
      <3>3. QED
        BY <1>4, <3>2
    <2>3. QED
      BY <2>1, <2>2
  <1>9. g \in [1 .. n -> Nat]
    <2>1. DOMAIN g = 1 .. n /\ \A x \in 1 .. n : g[x] \in Nat
      BY <1>8 DEF Forest
    <2>2. DOMAIN c = 1 .. n /\ c = [x \in DOMAIN c |-> c[x]]
      BY <1>1, <1>4 DEF c, Compressed, Forest
    <2>3. g = [x \in 1 .. n |-> g[x]]
      BY <1>7, <2>2
    <2>4. QED
      BY <2>1, <2>3
  <1>10. u \in [1 .. n -> Nat] /\ u[n] \in Nat
    <2>1. s[n] \in Nat /\ s[a] \in Nat
      BY <1>2, <1>5
    <2>2. QED
      BY <1>2, <1>7, <2>1
  <1>11. \A z : /\ z # n /\ z # a => SetOf(g, n, z) = SetOf(p, n, z)
                /\ z = n => SetOf(g, n, z) = SetOf(p, n, n) \cup SetOf(p, n, a)
    BY <1>8 DEF SetOf
  <1>12. u[n] = Cardinality(SetOf(p, n, n) \cup SetOf(p, n, a))
    <2>1. s[n] = Cardinality(SetOf(p, n, n)) /\ s[a] = Cardinality(SetOf(p, n, a))
      BY <1>1, <1>2, <1>5 DEF Sizes
    <2>2. CASE a = n
      BY <1>7, <2>1, <2>2
    <2>3. CASE a # n
      <3>1. IsFiniteSet(SetOf(p, n, n)) /\ IsFiniteSet(SetOf(p, n, a)) /\ SetOf(p, n, n) \cap SetOf(p, n, a) = {}
        BY <2>3, SetsOf
      <3>2. Cardinality(SetOf(p, n, n) \cup SetOf(p, n, a)) =
               Cardinality(SetOf(p, n, n)) + Cardinality(SetOf(p, n, a))
        <4>1. Cardinality(SetOf(p, n, n) \cup SetOf(p, n, a)) =
                 Cardinality(SetOf(p, n, n)) + Cardinality(SetOf(p, n, a)) - Cardinality({})
          BY <3>1, FS_Union
        <4>2. Cardinality({}) = 0
          BY FS_EmptySet
        <4>3. Cardinality(SetOf(p, n, n)) \in Nat /\ Cardinality(SetOf(p, n, a)) \in Nat
          BY SetsOf
        <4>4. QED
          BY <4>1, <4>2, <4>3
      <3>3. u[n] = s[n] + s[a]
        BY <1>2, <1>7, <2>3
      <3>4. QED
        BY <2>1, <3>2, <3>3
    <2>4. QED
      BY <2>2, <2>3
  <1>13. Sizes(g, n, u)
    <2>1. ASSUME NEW x \in 1 .. n PROVE u[Root(g, x)] = Cardinality(SetOf(g, n, Root(g, x)))
      <3>1. CASE Root(g, x) = n
        BY <1>11, <1>12, <3>1
      <3>2. CASE Root(g, x) # n
        <4>1. Root(g, x) = Root(p, x) /\ Root(p, x) # a
          BY <1>8, <3>2
        <4>2. u[Root(p, x)] = s[Root(p, x)]
          BY <1>2, <1>6, <1>7, <3>2, <4>1
        <4>3. s[Root(p, x)] = Cardinality(SetOf(p, n, Root(p, x)))
          BY <1>1 DEF Sizes
        <4>4. QED
          BY <1>11, <3>2, <4>1, <4>2, <4>3
      <3>3. QED
        BY <3>1, <3>2
    <2>2. QED
      BY <2>1 DEF Sizes
  <1>14. LargestSet(g, n, u, Larger(m, u[n]))
    <2> DEFINE M == Larger(m, u[n])
    <2>1. m \in Nat /\ (\A x \in 1 .. n : s[Root(p, x)] <= m) /\ \E x \in 1 .. n : s[Root(p, x)] = m
      BY <1>1, <1>2 DEF LargestSet
    <2>2. M = IF m >= u[n] THEN m ELSE u[n]
      BY DEF Larger
    <2> HIDE DEF M
    <2>3. M \in Nat /\ m <= M /\ u[n] <= M
      BY <1>10, <2>1, <2>2
    <2>4. \A x \in 1 .. n : s[Root(p, x)] \in Nat
      BY <1>2, <1>6
    <2>5. ASSUME NEW x \in 1 .. n PROVE u[Root(g, x)] <= M
      <3>1. CASE Root(g, x) = n
        BY <2>3, <3>1
      <3>2. CASE Root(g, x) # n
        <4>1. Root(g, x) = Root(p, x)
          BY <1>8, <3>2
        <4>2. u[Root(p, x)] = s[Root(p, x)]
          BY <1>2, <1>6, <1>7, <3>2, <4>1
        <4>3. QED
          BY <2>1, <2>3, <2>4, <4>1, <4>2
      <3>3. QED
        BY <3>1, <3>2
    <2>6. \E x \in 1 .. n : u[Root(g, x)] = M
      <3>1. Root(g, n) = n
        BY <1>2, <1>5, <1>8
      <3>2. CASE M = u[n]
        BY <1>2, <3>1, <3>2
      <3>3. CASE M # u[n]
        <4>1. M = m /\ u[n] < m
          BY <1>10, <2>1, <2>2, <3>3
        <4>2. PICK x \in 1 .. n : s[Root(p, x)] = m
          BY <2>1
        <4>3. s[n] \in Nat /\ s[a] \in Nat /\ u[n] = IF a = n THEN s[n] ELSE s[n] + s[a]
          BY <1>2, <1>5, <1>7
        <4>4. s[n] <= u[n] /\ s[a] <= u[n]
          BY <4>3
        <4>5. Root(p, x) # n /\ Root(p, x) # a
          BY <1>10, <2>1, <4>1, <4>2, <4>3, <4>4
        <4>6. Root(g, x) = Root(p, x) /\ u[Root(p, x)] = s[Root(p, x)]
          BY <1>2, <1>6, <1>7, <1>8, <4>5
        <4>7. QED
          BY <4>1, <4>2, <4>6
      <3>4. QED
        BY <3>2, <3>3
    <2>7. n # 0
      BY <1>2
    <2>8. QED
      BY <2>3, <2>5, <2>6, <2>7 DEF LargestSet, M
  <1>15. Tree(g, n, u, Larger(m, u[n]))
    BY <1>8, <1>9, <1>10, <1>13, <1>14, Vector DEF Tree
  <1>16. QED
    BY <1>8, <1>15 DEF a

\* One more person, of its own.
LEMMA GrownTree ==
    ASSUME NEW n \in Nat, NEW p, NEW s, NEW m, Tree(p, n, s, m)
    PROVE  /\ Tree(Append(p, n + 1), n + 1, Append(s, 1), Larger(m, 1))
           /\ \A x \in 1 .. n : Root(Append(p, n + 1), x) = Root(p, x) /\ Root(p, x) \in 1 .. n
           /\ Root(Append(p, n + 1), n + 1) = n + 1
  <1> DEFINE g == Append(p, n + 1)
             u == Append(s, 1)
  <1>1. /\ Forest(p, n) /\ p \in Seq(Nat) /\ Len(p) = n
        /\ s \in Seq(Nat) /\ Len(s) = n /\ Sizes(p, n, s) /\ LargestSet(p, n, s, m)
    BY DEF Tree
  <1>2. /\ Forest(g, n + 1) /\ g \in Seq(Nat)
        /\ \A x \in 1 .. n : Root(g, x) = Root(p, x)
        /\ Root(g, n + 1) = n + 1
    BY <1>1, AppendedRoots
  <1>3. \A x \in 1 .. n : Root(p, x) \in 1 .. n
    <2>1. \A x \in 1 .. n : Root(p, x) \in x .. n
      BY <1>1, RootAndPath
    <2>2. QED
      BY <2>1
  <1>4. /\ u \in Seq(Nat) /\ Len(u) = n + 1 /\ Len(g) = n + 1
        /\ (\A x \in 1 .. n : u[x] = s[x]) /\ u[n + 1] = 1
    BY <1>1
  <1> HIDE DEF g, u
  <1>5. \A x \in 1 .. n + 1 : x \in 1 .. n \/ x = n + 1
    OBVIOUS
  <1>6. n + 1 \notin 1 .. n /\ n + 1 \in 1 .. n + 1 /\ \A x \in 1 .. n : x \in 1 .. n + 1
    OBVIOUS
  <1>7. Sizes(g, n + 1, u)
    <2>1. ASSUME NEW x \in 1 .. n + 1 PROVE u[Root(g, x)] = Cardinality(SetOf(g, n + 1, Root(g, x)))
      <3>1. CASE x \in 1 .. n
        <4>1. Root(g, x) = Root(p, x) /\ Root(p, x) \in 1 .. n
          BY <1>2, <1>3, <3>1
        <4>2. SetOf(g, n + 1, Root(p, x)) = SetOf(p, n, Root(p, x))
          BY <1>2, <1>5, <1>6, <4>1 DEF SetOf
        <4>3. s[Root(p, x)] = Cardinality(SetOf(p, n, Root(p, x)))
          BY <1>1, <3>1 DEF Sizes
        <4>4. QED
          BY <1>4, <4>1, <4>2, <4>3
      <3>2. CASE x = n + 1
        <4>1. SetOf(g, n + 1, n + 1) = {n + 1}
          BY <1>2, <1>3, <1>5, <1>6 DEF SetOf
        <4>2. Cardinality({n + 1}) = 1
          BY FS_Singleton
        <4>3. QED
          BY <1>2, <1>4, <3>2, <4>1, <4>2
      <3>3. QED
        BY <1>5, <3>1, <3>2
    <2>2. QED
      BY <2>1 DEF Sizes
  <1>8. LargestSet(g, n + 1, u, Larger(m, 1))
    <2> DEFINE M == Larger(m, 1)
    <2>1. /\ m \in Nat /\ (\A x \in 1 .. n : s[Root(p, x)] <= m)
          /\ n = 0 => m = 0
          /\ n > 0 => \E x \in 1 .. n : s[Root(p, x)] = m
      BY <1>1 DEF LargestSet
    <2>2. M = (IF m >= 1 THEN m ELSE 1) /\ M \in Nat /\ m <= M /\ 1 <= M
      BY <2>1 DEF Larger
    <2> HIDE DEF M
    <2>3. \A x \in 1 .. n : s[Root(p, x)] \in Nat /\ u[Root(g, x)] = s[Root(p, x)]
      <3>1. \A x \in 1 .. n : s[x] \in Nat
        BY <1>1
      <3>2. QED
        BY <1>2, <1>3, <1>4, <3>1
    <2>4. ASSUME NEW x \in 1 .. n + 1 PROVE u[Root(g, x)] <= M
      <3>1. CASE x \in 1 .. n
        BY <2>1, <2>2, <2>3, <3>1
      <3>2. CASE x = n + 1
        BY <1>2, <1>4, <2>2, <3>2
      <3>3. QED
        BY <1>5, <3>1, <3>2
    <2>5. \E x \in 1 .. n + 1 : u[Root(g, x)] = M
      <3>1. CASE m >= 1
        <4>1. n > 0
          BY <2>1, <3>1
        <4>2. PICK x \in 1 .. n : s[Root(p, x)] = m
          BY <2>1, <4>1
        <4>3. QED
          BY <1>6, <2>2, <2>3, <3>1, <4>2
      <3>2. CASE ~ (m >= 1)
        BY <1>2, <1>4, <1>6, <2>2, <3>2
      <3>3. QED
        BY <3>1, <3>2
    <2>6. n + 1 # 0
      OBVIOUS
    <2>7. QED
      BY <2>2, <2>4, <2>5, <2>6 DEF LargestSet, M
  <1>9. Tree(g, n + 1, u, Larger(m, 1))
    BY <1>2, <1>4, <1>7, <1>8 DEF Tree
  <1>10. QED
    BY <1>2, <1>3, <1>9 DEF g, u

-----------------------------------------------------------------------------
(* Who is connected.                                                       *)

\* The edges E between members of S do not lead out of C; no such set parts x
\* from y.
ClosedBy(C, S, E) == \A a \in C, b \in S : {a, b} \in E => b \in C
Connected(S, E, x, y) == \A C \in SUBSET S : x \in C /\ ClosedBy(C, S, E) => y \in C

\* Two of S have one root in R exactly if they are connected.
RootsMean(R, S, E) == \A x, y \in S : R[x] = R[y] <=> Connected(S, E, x, y)

\* Within S the edges D are E, with one more, from a to b; or without it.
OneMore(D, E, S, a, b) == \A x, y \in S : {x, y} \in D <=> {x, y} \in E \/ {x, y} = {a, b}
SameWithin(D, E, S) == \A x, y \in S : {x, y} \in D <=> {x, y} \in E

\* In Q the set of a has the root of b; or p, that has no edge, its own.
Redirected(Q, R, S, a, b) == \A x \in S : Q[x] = IF R[x] = R[a] THEN R[b] ELSE R[x]
Alone(p, Q, R, S, D) == \A x \in S : Q[x] = R[x] /\ Q[p] # R[x] /\ {x, p} \notin D

\* The ends of an edge are connected.
LEMMA EdgeConnects ==
    ASSUME NEW S, NEW E, NEW x \in S, NEW y \in S, {x, y} \in E
    PROVE  Connected(S, E, x, y)
  BY DEF Connected, ClosedBy

\* Two pairs are equal in two ways.
LEMMA PairsEqual ==
    ASSUME NEW a, NEW b, NEW c, NEW d, {c, d} = {a, b}
    PROVE  (c = a /\ d = b) \/ (c = b /\ d = a)
  <1>1. c \in {a, b} /\ d \in {a, b} /\ a \in {c, d} /\ b \in {c, d}
    BY Zenon
  <1>2. QED
    BY <1>1

\* One more edge, and the root of a becomes that of b.
LEMMA JoinedConnected ==
    ASSUME NEW S, NEW E, NEW D, NEW a \in S, NEW b \in S, NEW R, NEW Q,
           RootsMean(R, S, E), Redirected(Q, R, S, a, b), OneMore(D, E, S, a, b)
    PROVE  RootsMean(Q, S, D)
  <1> USE DEF RootsMean, Redirected, OneMore
  <1>1. ASSUME NEW x \in S, NEW y \in S, Connected(S, D, x, y) PROVE Q[x] = Q[y]
    <2> DEFINE C == {z \in S : Q[z] = Q[x]}
    <2>1. ASSUME NEW c \in C, NEW d \in S, {c, d} \in D PROVE d \in C
      <3>1. CASE {c, d} \in E
        <4>1. R[c] = R[d]
          BY <3>1, EdgeConnects
        <4>2. QED
          BY <4>1
      <3>2. CASE {c, d} = {a, b}
        <4>1. (c = a /\ d = b) \/ (c = b /\ d = a)
          BY <3>2, PairsEqual
        <4>2. QED
          BY <4>1
      <3>3. QED
        BY <2>1, <3>1, <3>2
    <2>2. C \in SUBSET S /\ x \in C /\ ClosedBy(C, S, D)
      BY <2>1 DEF ClosedBy
    <2>3. y \in C
      BY <1>1, <2>2 DEF Connected
    <2>4. QED
      BY <2>3
  <1>2. ASSUME NEW x \in S, NEW y \in S, Q[x] = Q[y] PROVE Connected(S, D, x, y)
    <2>1. SUFFICES ASSUME NEW C \in SUBSET S, x \in C, ClosedBy(C, S, D) PROVE y \in C
      BY DEF Connected
    <2>2. ClosedBy(C, S, E)
      BY <2>1 DEF ClosedBy
    <2>3. \A c \in C, d \in S : R[c] = R[d] => d \in C
      BY <2>2 DEF Connected
    <2>4. a \in C <=> b \in C
      <3>1. {a, b} \in D /\ {b, a} \in D
        OBVIOUS
      <3>2. QED
        BY <2>1, <3>1 DEF ClosedBy
    <2>5. CASE R[x] = R[y]
      BY <2>1, <2>3, <2>5
    <2>6. CASE R[x] # R[y] /\ R[x] = R[a]
      <3>1. R[y] = R[b] /\ a \in C
        BY <1>2, <2>1, <2>3, <2>6
      <3>2. QED
        BY <2>3, <2>4, <3>1
    <2>7. CASE R[x] # R[y] /\ R[x] # R[a]
      <3>1. R[y] = R[a] /\ R[x] = R[b]
        BY <1>2, <2>7
      <3>2. QED
        BY <2>1, <2>3, <2>4, <3>1
    <2>8. QED
      BY <2>5, <2>6, <2>7
  <1>3. QED
    BY <1>1, <1>2

\* One more person, without edges.
LEMMA GrownConnected ==
    ASSUME NEW S, NEW E, NEW D, NEW p, p \notin S, NEW R, NEW Q,
           RootsMean(R, S, E), Alone(p, Q, R, S, D), SameWithin(D, E, S)
    PROVE  RootsMean(Q, S \cup {p}, D)
  <1> USE DEF RootsMean, Alone, SameWithin
  <1> DEFINE T == S \cup {p}
  <1>1. ASSUME NEW x \in S, NEW y \in T, Connected(T, D, x, y) PROVE y \in S /\ Q[x] = Q[y]
    <2> DEFINE C == {z \in S : R[z] = R[x]}
    <2>1. ASSUME NEW c \in C, NEW d \in T, {c, d} \in D PROVE d \in C
      <3>1. d \in S
        BY <2>1
      <3>2. R[c] = R[d]
        BY <2>1, <3>1, EdgeConnects
      <3>3. QED
        BY <3>1, <3>2
    <2>2. C \in SUBSET T /\ x \in C /\ ClosedBy(C, T, D)
      BY <2>1 DEF ClosedBy
    <2>3. y \in C
      BY <1>1, <2>2 DEF Connected
    <2>4. QED
      BY <2>3
  <1>2. ASSUME NEW y \in S, Connected(T, D, p, y) PROVE FALSE
    <2>1. ASSUME NEW d \in T, {p, d} \in D PROVE d = p
      <3>1. {p, d} = {d, p}
        OBVIOUS
      <3>2. QED
        BY <2>1, <3>1
    <2>2. {p} \in SUBSET T /\ ClosedBy({p}, T, D)
      BY <2>1 DEF ClosedBy
    <2>3. y \in {p}
      BY <1>2, <2>2 DEF Connected
    <2>4. QED
      BY <2>3
  <1>3. ASSUME NEW x \in S, NEW y \in S, R[x] = R[y] PROVE Connected(T, D, x, y)
    <2>1. SUFFICES ASSUME NEW C \in SUBSET T, x \in C, ClosedBy(C, T, D) PROVE y \in C
      BY DEF Connected
    <2>2. C \cap S \in SUBSET S /\ x \in C \cap S /\ ClosedBy(C \cap S, S, E)
      BY <2>1 DEF ClosedBy
    <2>3. y \in C \cap S
      BY <1>3, <2>2 DEF Connected
    <2>4. QED
      BY <2>3
  <1>4. Connected(T, D, p, p)
    BY DEF Connected
  <1>5. ASSUME NEW x \in T, NEW y \in T PROVE Q[x] = Q[y] <=> Connected(T, D, x, y)
    <2>1. CASE x \in S /\ y \in S
      BY <1>1, <1>3, <2>1
    <2>2. CASE x \in S /\ y = p
      BY <1>1, <2>2
    <2>3. CASE x = p /\ y \in S
      BY <1>2, <2>3
    <2>4. CASE x = p /\ y = p
      BY <1>4, <2>4
    <2>5. QED
      BY <2>1, <2>2, <2>3, <2>4
  <1>6. QED
    BY <1>5

-----------------------------------------------------------------------------
(* The invariant.                                                          *)

\* The friendships that the union-finds have so far.
Joined == {e \in friends : e \subseteq Placed /\ \A r \in toJoin : e # {Last, r}}

InputInv ==
    /\ birthday \in [Persons -> Int]
    /\ tags \in [Persons -> SUBSET Tags]
    /\ friends \in SUBSET Pairs

\* The persons are inserted in order, and only friends of the last are to join.
OrderInv ==
    /\ inserted \in Seq(Persons)
    /\ \A p \in Placed, q \in Waits : Earlier(p, q)
    /\ Placed # {} => Last \in Placed /\ \A p \in Placed \ {Last} : Earlier(p, Last)
    /\ \A r \in toJoin : r \in Placed /\ r # Last /\ {Last, r} \in friends

Number(t) == Cardinality(With(t, Placed))

TreeInv ==
    /\ f = [t \in Tags |-> f[t]] /\ sum = [t \in Tags |-> sum[t]] /\ range = [t \in Tags |-> range[t]]
    /\ \A t \in Tags : Tree(f[t], Number(t), sum[t], range[t])

\* Two persons are in one set exactly if what is joined so far connects them.
ConnectedInv ==
    \A t \in Tags : \A p, q \in With(t, Placed) :
       Root(f[t], Rank(p, t)) = Root(f[t], Rank(q, t)) <=> Connected(With(t, Placed), Joined, p, q)

\* The persons inserted are born on the day of each open query or later.
QueryInv ==
    /\ ans = [q \in DOMAIN Queries |-> ans[q]]
    /\ \A q \in Open, p \in Placed : birthday[p] >= Queries[q].d

Query2Inv == InputInv /\ OrderInv /\ TreeInv /\ ConnectedInv /\ QueryInv

-----------------------------------------------------------------------------
(* The order of persons.                                                   *)

InsertedBefore == {e \in Persons \X Persons : Earlier(e[1], e[2])}

\* Those born later come first.
LEMMA PersonsOrdered ==
    ASSUME birthday \in [Persons -> Int]
    PROVE  /\ Orders(InsertedBefore, Persons)
           /\ \A p, q \in Persons : <<p, q>> \in InsertedBefore <=> Earlier(p, q)
           /\ \A p, q \in Persons : ~ (Earlier(p, q) /\ (Earlier(q, p) \/ p = q))
           /\ IsFiniteSet(Persons) /\ Cardinality(Persons) = NPerson
  <1>1. Persons \subseteq Int /\ \A p \in Persons : p \in Int /\ birthday[p] \in Int
    BY DEF Persons
  <1>2. \A p, q \in Persons : <<p, q>> \in InsertedBefore <=> Earlier(p, q)
    BY DEF InsertedBefore
  <1>3. \A p, q \in Persons : ~ (Earlier(p, q) /\ (Earlier(q, p) \/ p = q))
    BY <1>1 DEF Earlier
  <1>4. \A p, q \in Persons : p # q => Earlier(p, q) \/ Earlier(q, p)
    BY <1>1 DEF Earlier
  <1>5. \A p, q, r \in Persons : Earlier(p, q) /\ Earlier(q, r) => Earlier(p, r)
    BY <1>1 DEF Earlier
  <1>6. Orders(InsertedBefore, Persons)
    BY <1>2, <1>3, <1>4, <1>5 DEF Orders
  <1>7. IsFiniteSet(Persons) /\ Cardinality(Persons) = NPerson
    <2>1. 1 \in Int /\ NPerson \in Int /\ NPerson \in Nat
      BY Query2Assumption
    <2>2. IsFiniteSet(Persons) /\ Cardinality(Persons) = IF 1 > NPerson THEN 0 ELSE NPerson - 1 + 1
      BY <2>1, FS_Interval DEF Persons
    <2>3. QED
      BY <2>1, <2>2
  <1>8. QED
    BY <1>2, <1>3, <1>6, <1>7

\* When those of P are inserted before the others, myhash numbers those with a
\* tag from 1 up, the last of them last.
LEMMA Ranks ==
    ASSUME birthday \in [Persons -> Int], NEW P \in SUBSET Persons,
           \A p \in P, q \in Persons \ P : Earlier(p, q), NEW t
    PROVE  LET S == With(t, P)
               n == Cardinality(S)
           IN /\ IsFiniteSet(S) /\ n \in Nat /\ n <= NPerson
              /\ \A p \in S : Rank(p, t) \in 1 .. n
              /\ \A p, q \in S : Rank(p, t) = Rank(q, t) => p = q
              /\ \A x \in 1 .. n : \E p \in S : Rank(p, t) = x
              /\ \A z \in S : (\A p \in S \ {z} : Earlier(p, z)) => Rank(z, t) = n
  <1> DEFINE S == With(t, P)
             n == Cardinality(S)
             R == InsertedBefore
  <1>1. S \subseteq P /\ P \subseteq Persons /\ \A q \in P : q \in S <=> t \in tags[q]
    BY DEF With
  <1> HIDE DEF S
  <1>2. /\ Orders(R, Persons) /\ IsFiniteSet(Persons) /\ Cardinality(Persons) = NPerson
        /\ \A p, q \in Persons : <<p, q>> \in R <=> Earlier(p, q)
        /\ \A p, q \in Persons : ~ (Earlier(p, q) /\ (Earlier(q, p) \/ p = q))
    BY PersonsOrdered
  <1>3. IsFiniteSet(S) /\ n \in Nat /\ n <= NPerson
    <2>1. S \subseteq Persons
      BY <1>1
    <2>2. QED
      BY <1>2, <2>1, FS_Subset, FS_CardinalityType
  <1>4. Orders(R, S)
    BY <1>1, <1>2 DEF Orders
  <1>5. ASSUME NEW p \in S PROVE Rank(p, t) = RankIn(R, S, p) + 1
    <2> DEFINE A == {q \in Persons : t \in tags[q] /\ (Earlier(q, p) \/ q = p)}
               B == Below(R, S, p)
    <2>1. ASSUME NEW q \in Persons, Earlier(q, p) PROVE q \in P
      BY <1>1, <1>2, <1>5, <2>1
    <2>2. \A q \in S : q \in B <=> Earlier(q, p)
      BY <1>1, <1>2, <1>5 DEF Below
    <2>3. B \subseteq S
      BY DEF Below
    <2>4. A = B \cup {p}
      <3>1. ASSUME NEW q \in A PROVE q \in B \cup {p}
        <4>1. q = p \/ (q \in S /\ Earlier(q, p))
          BY <1>1, <2>1
        <4>2. QED
          BY <2>2, <4>1
      <3>2. ASSUME NEW q \in B \cup {p} PROVE q \in A
        <4>1. q \in S /\ (q = p \/ Earlier(q, p))
          BY <1>5, <2>2, <2>3
        <4>2. QED
          BY <1>1, <4>1
      <3> HIDE DEF A, B
      <3>3. QED
        BY <3>1, <3>2
    <2>5. p \notin B
      BY <1>1, <1>2, <1>5, <2>2
    <2> HIDE DEF B
    <2>6. IsFiniteSet(B)
      BY <1>3, <1>4, RankIsNat DEF B
    <2>7. Cardinality(B \cup {p}) = Cardinality(B) + 1
      BY <2>5, <2>6, FS_AddElement
    <2>8. Rank(p, t) = Cardinality(A)
      BY DEF Rank
    <2>9. QED
      BY <2>4, <2>7, <2>8 DEF RankIn, B
  <1>6. ASSUME NEW p \in S PROVE Rank(p, t) \in 1 .. n /\ RankIn(R, S, p) \in Nat
    <2>1. RankIn(R, S, p) \in Nat /\ RankIn(R, S, p) < n
      BY <1>3, <1>4, RankIsNat
    <2>2. QED
      BY <1>3, <1>5, <2>1
  <1>7. ASSUME NEW p \in S, NEW q \in S, Rank(p, t) = Rank(q, t) PROVE p = q
    <2>1. RankIn(R, S, p) = RankIn(R, S, q)
      BY <1>5, <1>6, <1>7
    <2>2. QED
      BY <1>3, <1>4, <2>1, RankOrders
  <1>8. ASSUME NEW x \in 1 .. n PROVE \E p \in S : Rank(p, t) = x
    <2>1. x - 1 \in Nat /\ x - 1 < n
      BY <1>3
    <2>2. PICK p \in S : RankIn(R, S, p) = x - 1
      BY <1>3, <1>4, <2>1, RankCovers
    <2>3. Rank(p, t) = x
      BY <1>3, <1>5, <2>2
    <2>4. QED
      BY <2>3
  <1>9. ASSUME NEW z \in S, \A p \in S \ {z} : Earlier(p, z) PROVE Rank(z, t) = n
    <2>1. Below(R, S, z) = S \ {z}
      BY <1>1, <1>2, <1>9 DEF Below
    <2>2. Cardinality(S \ {z}) = n - 1
      BY <1>3, FS_RemoveElement
    <2>3. QED
      BY <1>3, <1>5, <2>1, <2>2 DEF RankIn
  <1>10. QED
    BY <1>3, <1>6, <1>7, <1>8, <1>9 DEF S

\* The persons inserted.
LEMMA PlacedRanks ==
    ASSUME InputInv, OrderInv, NEW t
    PROVE  LET S == With(t, Placed)
               n == Number(t)
           IN /\ S \subseteq Placed /\ Placed \subseteq Persons
              /\ IsFiniteSet(S) /\ n \in Nat /\ n <= NPerson
              /\ \A p \in S : Rank(p, t) \in 1 .. n
              /\ \A p, q \in S : Rank(p, t) = Rank(q, t) => p = q
              /\ \A x \in 1 .. n : \E p \in S : Rank(p, t) = x
              /\ Last \in S => Rank(Last, t) = n
  <1>1. /\ Placed \in SUBSET Persons /\ Persons \ Placed = Waits
        /\ \A p \in Placed, q \in Waits : Earlier(p, q)
    BY DEF OrderInv, Placed, Waits
  <1>2. With(t, Placed) \subseteq Placed
    BY DEF With
  <1>3. Last \in With(t, Placed) => \A p \in With(t, Placed) \ {Last} : Earlier(p, Last)
    BY <1>2 DEF OrderInv
  <1>4. LET S == With(t, Placed)
            n == Cardinality(S)
        IN /\ IsFiniteSet(S) /\ n \in Nat /\ n <= NPerson
           /\ \A p \in S : Rank(p, t) \in 1 .. n
           /\ \A p, q \in S : Rank(p, t) = Rank(q, t) => p = q
           /\ \A x \in 1 .. n : \E p \in S : Rank(p, t) = x
           /\ \A z \in S : (\A p \in S \ {z} : Earlier(p, z)) => Rank(z, t) = n
    BY <1>1, Ranks DEF InputInv
  <1>5. QED
    BY <1>1, <1>2, <1>3, <1>4 DEF Number

\* What connects within S is only in the edges between members of S.
LEMMA ConnectedSame ==
    ASSUME NEW S, NEW E, NEW D, \A x, y \in S : {x, y} \in E <=> {x, y} \in D
    PROVE  \A x, y \in S : Connected(S, E, x, y) <=> Connected(S, D, x, y)
  <1>1. \A C \in SUBSET S : ClosedBy(C, S, E) <=> ClosedBy(C, S, D)
    BY DEF ClosedBy
  <1>2. QED
    BY <1>1 DEF Connected

-----------------------------------------------------------------------------
(* The steps.                                                              *)

\* Nobody is inserted.
LEMMA Query2Init == Init => Query2Inv
  <1> SUFFICES ASSUME Init PROVE Query2Inv
    OBVIOUS
  <1> USE DEF Init
  <1>1. InputInv
    BY Query2Assumption DEF InputInv
  <1>2. Placed = {} /\ inserted \in Seq(Persons)
    BY DEF Placed, Waits
  <1>3. OrderInv
    BY <1>2 DEF OrderInv
  <1>4. \A t : With(t, Placed) = {} /\ Number(t) = 0
    BY <1>2, FS_EmptySet DEF With, Number
  <1>5. TreeInv
    <2>1. ASSUME NEW t \in Tags PROVE Tree(f[t], Number(t), sum[t], range[t])
      <3>1. f[t] = <<>> /\ sum[t] = <<>> /\ range[t] = 0 /\ Number(t) = 0
        BY <1>4
      <3>2. Forest(<<>>, 0) /\ <<>> \in Seq(Nat) /\ Len(<<>>) = 0
        BY DEF Forest
      <3>3. Sizes(<<>>, 0, <<>>) /\ LargestSet(<<>>, 0, <<>>, 0)
        <4>1. 1 .. 0 = {}
          OBVIOUS
        <4>2. QED
          BY <4>1 DEF Sizes, LargestSet
      <3>4. QED
        BY <3>1, <3>2, <3>3 DEF Tree
    <2>2. QED
      BY <2>1 DEF TreeInv
  <1>6. ConnectedInv
    BY <1>4 DEF ConnectedInv
  <1>7. QueryInv
    BY <1>2 DEF QueryInv
  <1>8. QED
    BY <1>1, <1>3, <1>5, <1>6, <1>7 DEF Query2Inv

\* The union-finds as they are.
LEMMA TreesStay ==
    ASSUME Query2Inv, UNCHANGED <<input, inserted, toJoin, f, sum, range>>
    PROVE  InputInv' /\ OrderInv' /\ TreeInv' /\ ConnectedInv' /\ Placed' = Placed
  <1> USE DEF input
  <1>1. Placed' = Placed /\ Waits' = Waits /\ Last' = Last
    BY DEF Placed, Waits, Last
  <1>2. \A p, q : Earlier(p, q)' = Earlier(p, q)
    BY DEF Earlier
  <1>3. \A t : With(t, Placed)' = With(t, Placed) /\ Number(t)' = Number(t)
    BY <1>1 DEF With, Number
  <1>4. \A p, t : Rank(p, t)' = Rank(p, t)
    BY <1>2 DEF Rank
  <1>5. Joined' = Joined
    BY <1>1 DEF Joined
  <1>6. InputInv' /\ OrderInv'
    BY <1>1, <1>2 DEF Query2Inv, InputInv, OrderInv
  <1>7. TreeInv'
    BY <1>3 DEF Query2Inv, TreeInv
  <1>8. ConnectedInv'
    BY <1>3, <1>4, <1>5 DEF Query2Inv, ConnectedInv
  <1>9. QED
    BY <1>1, <1>6, <1>7, <1>8

\* A query is answered.
LEMMA AnswerStep ==
    ASSUME Query2Inv, NEW q \in DOMAIN Queries, Answer(q)
    PROVE  Query2Inv'
  <1>1. PICK s \in Best(Queries[q].k) :
           /\ ans' = [ans EXCEPT ![q] = s] /\ q \in Open
           /\ UNCHANGED <<input, inserted, toJoin, f, sum, range>>
    BY DEF Answer
  <1>2. InputInv' /\ OrderInv' /\ TreeInv' /\ ConnectedInv' /\ Placed' = Placed
    BY <1>1, TreesStay
  <1>3. Open' \subseteq Open
    BY <1>1 DEF Query2Inv, QueryInv, Open
  <1>4. QueryInv'
    BY <1>1, <1>2, <1>3 DEF Query2Inv, QueryInv, input
  <1>5. QED
    BY <1>2, <1>4 DEF Query2Inv

\* Nothing happens.
LEMMA Query2Stutter ==
    ASSUME Query2Inv, UNCHANGED vars
    PROVE  Query2Inv'
  <1> USE DEF vars
  <1>1. InputInv' /\ OrderInv' /\ TreeInv' /\ ConnectedInv' /\ Placed' = Placed
    BY TreesStay
  <1>2. QueryInv'
    BY <1>1 DEF Query2Inv, QueryInv, Open, input
  <1>3. QED
    BY <1>1, <1>2 DEF Query2Inv

\* The next person comes after all that are inserted and before all others.
LEMMA NextIsFirst ==
    ASSUME Query2Inv, Waits # {}
    PROVE  /\ NextPerson \in Waits /\ NextPerson \in Persons /\ NextPerson \notin Placed
           /\ \A q \in Waits \ {NextPerson} : Earlier(NextPerson, q)
           /\ \A q \in Placed : Earlier(q, NextPerson)
  <1>1. birthday \in [Persons -> Int]
    BY DEF Query2Inv, InputInv
  <1>2. Waits \subseteq Persons /\ \A p \in Waits : p \notin Placed
    BY DEF Waits, Placed
  <1>3. /\ Orders(InsertedBefore, Persons) /\ IsFiniteSet(Persons)
        /\ \A p, q \in Persons : <<p, q>> \in InsertedBefore <=> Earlier(p, q)
    BY <1>1, PersonsOrdered
  <1>4. Orders(InsertedBefore, Waits) /\ IsFiniteSet(Waits)
    BY <1>2, <1>3, FS_Subset DEF Orders
  <1>5. \E p \in Waits : \A q \in Waits \ {p} : <<p, q>> \in InsertedBefore
    BY <1>4, FirstAndLast
  <1>6. \E p \in Waits : \A q \in Waits \ {p} : Earlier(p, q)
    BY <1>2, <1>3, <1>5
  <1>7. NextPerson \in Waits /\ \A q \in Waits \ {NextPerson} : Earlier(NextPerson, q)
    BY <1>6, Zenon DEF NextPerson
  <1>8. QED
    BY <1>2, <1>7 DEF Query2Inv, OrderInv

-----------------------------------------------------------------------------
(* The steps keep the invariant.                                           *)

\* The friends of p who were born before p in the order of persons.
FriendsBefore(p) == {q \in Persons : {p, q} \in friends /\ Earlier(q, p)}

\* The list of p is in the order of persons: the loop breaks after all friends
\* before p, and before any other.
LEMMA BreakIsRight ==
    ASSUME InputInv, NEW p \in Persons
    PROVE  BeforeBreak(p) = FriendsBefore(p)
  <1> DEFINE listed == {q \in Persons : {p, q} \in friends}
  <1>1. /\ \A q, r \in Persons : ~ (Earlier(q, r) /\ (Earlier(r, q) \/ q = r))
        /\ \A q, r \in Persons : q # r => Earlier(q, r) \/ Earlier(r, q)
        /\ \A q, r, s \in Persons : Earlier(q, r) /\ Earlier(r, s) => Earlier(q, s)
    <2>1. \A q \in Persons : q \in Int /\ birthday[q] \in Int
      BY DEF InputInv, Persons
    <2>2. QED
      BY <2>1 DEF Earlier
  <1>2. p \notin listed
    <2>1. {p, p} = {p} /\ Cardinality({p}) = 1
      BY FS_Singleton
    <2>2. {p, p} \notin Pairs
      BY <2>1 DEF Pairs
    <2>3. QED
      BY <2>2 DEF InputInv
  <1>3. ASSUME NEW q \in listed, \A r \in listed : r = q \/ Earlier(r, q) => ~ Earlier(p, r)
        PROVE  Earlier(q, p)
    BY <1>1, <1>2, <1>3
  <1>4. ASSUME NEW q \in listed, NEW r \in listed, Earlier(q, p), r = q \/ Earlier(r, q)
        PROVE  ~ Earlier(p, r)
    BY <1>1, <1>4
  <1>5. \A q \in listed : (\A r \in listed : r = q \/ Earlier(r, q) => ~ Earlier(p, r)) <=> Earlier(q, p)
    BY <1>3, <1>4
  <1>6. BeforeBreak(p) = {q \in listed : \A r \in listed : r = q \/ Earlier(r, q) => ~ Earlier(p, r)}
    BY DEF BeforeBreak, ListedBefore
  <1>7. QED
    BY <1>5, <1>6 DEF FriendsBefore

\* The next person is inserted: a set of its own for each of its tags.
LEMMA InsertStep ==
    ASSUME Query2Inv, NEW p \in Persons, Insert(p)
    PROVE  Query2Inv'
  <1>1. /\ toJoin = {} /\ (\A q \in Open : ~ Due(q)) /\ Waits # {} /\ p = NextPerson
        /\ inserted' = Append(inserted, p)
        /\ toJoin' = FriendsBefore(p)
        /\ f' = [t \in Tags |-> IF t \in tags[p] THEN Append(f[t], Len(f[t]) + 1) ELSE f[t]]
        /\ sum' = [t \in Tags |-> IF t \in tags[p] THEN Append(sum[t], 1) ELSE sum[t]]
        /\ range' = [t \in Tags |-> IF t \in tags[p] THEN Larger(range[t], 1) ELSE range[t]]
        /\ UNCHANGED <<input, ans>>
    BY BreakIsRight DEF Insert, Query2Inv
  <1>2. InputInv /\ OrderInv /\ TreeInv /\ ConnectedInv /\ QueryInv
    BY DEF Query2Inv
  <1>3. /\ p \in Waits /\ p \notin Placed
        /\ \A q \in Waits \ {p} : Earlier(p, q)
        /\ \A q \in Placed : Earlier(q, p)
    BY <1>1, NextIsFirst
  <1>4. Placed \subseteq Persons /\ Waits = Persons \ Placed /\ inserted \in Seq(Persons)
    BY <1>2 DEF Placed, Waits, OrderInv
  <1>5. Placed' = Placed \cup {p} /\ Waits' = Waits \ {p} /\ Last' = p /\ inserted' \in Seq(Persons)
    <2>1. /\ inserted' \in Seq(Persons) /\ Len(inserted') = Len(inserted) + 1 /\ Len(inserted) \in Nat
          /\ inserted'[Len(inserted) + 1] = p
          /\ \A i \in 1 .. Len(inserted) : inserted'[i] = inserted[i]
      BY <1>1, <1>4
    <2>2. {inserted'[i] : i \in 1 .. Len(inserted')} = {inserted[i] : i \in 1 .. Len(inserted)} \cup {p}
      <3>1. \A i : i \in 1 .. Len(inserted') <=> i \in 1 .. Len(inserted) \/ i = Len(inserted) + 1
        BY <2>1
      <3>2. QED
        BY <2>1, <3>1
    <2>3. Waits' = Waits \ {p}
      BY <2>2 DEF Waits
    <2>4. QED
      BY <1>3, <1>4, <2>1, <2>3 DEF Placed, Last
  <1>6. /\ birthday' = birthday /\ tags' = tags /\ friends' = friends /\ ans' = ans
        /\ \A q, r : Earlier(q, r)' = Earlier(q, r)
        /\ \A q, t : Rank(q, t)' = Rank(q, t)
    BY <1>1 DEF input, Earlier, Rank
  <1>7. /\ \A q, r \in Persons : ~ (Earlier(q, r) /\ (Earlier(r, q) \/ q = r))
        /\ birthday \in [Persons -> Int]
    BY <1>2, PersonsOrdered DEF InputInv
  <1>8. \A r \in toJoin' : r \in Placed /\ r # p /\ {p, r} \in friends
    BY <1>1, <1>3, <1>4, <1>7 DEF FriendsBefore
  <1>9. InputInv'
    BY <1>2, <1>6 DEF InputInv
  <1>10. OrderInv'
    <2>1. \A q \in Placed', r \in Waits' : Earlier(q, r)'
      BY <1>2, <1>3, <1>5, <1>6 DEF OrderInv
    <2>2. Last' \in Placed' /\ \A q \in Placed' \ {Last'} : Earlier(q, Last)'
      <3>1. \A q : Earlier(q, Last)' <=> Earlier(q, p)
        BY <1>5, <1>6 DEF Earlier
      <3>2. QED
        BY <1>3, <1>5, <3>1
    <2>3. \A r \in toJoin' : r \in Placed' /\ r # Last' /\ {Last', r} \in friends'
      BY <1>5, <1>6, <1>8
    <2>4. QED
      BY <1>5, <2>1, <2>2, <2>3 DEF OrderInv
  <1>11. ASSUME NEW t
         PROVE  /\ t \in tags[p] => /\ With(t, Placed)' = With(t, Placed) \cup {p}
                                    /\ Number(t)' = Number(t) + 1
                                    /\ Rank(p, t) = Number(t) + 1
                /\ t \notin tags[p] => With(t, Placed)' = With(t, Placed) /\ Number(t)' = Number(t)
    <2> DEFINE S == With(t, Placed)
    <2>1. /\ t \in tags[p] => With(t, Placed)' = S \cup {p}
          /\ t \notin tags[p] => With(t, Placed)' = S
      BY <1>5, <1>6 DEF With
    <2>2. IsFiniteSet(S) /\ Number(t) = Cardinality(S) /\ p \notin S /\ Number(t) \in Nat
      <3>1. IsFiniteSet(S) /\ S \subseteq Placed /\ Number(t) \in Nat
        BY <1>2, PlacedRanks
      <3>2. QED
        BY <1>3, <3>1 DEF Number
    <2> HIDE DEF S
    <2>3. Cardinality(S \cup {p}) = Number(t) + 1
      BY <2>2, FS_AddElement
    <2>4. Number(t)' = Cardinality(With(t, Placed)')
      BY DEF Number
    <2>5. ASSUME t \in tags[p] PROVE Rank(p, t) = Number(t) + 1
      <3> DEFINE P == Placed \cup {p}
      <3>1. P \in SUBSET Persons /\ \A q \in P, r \in Persons \ P : Earlier(q, r)
        BY <1>2, <1>3, <1>4 DEF OrderInv
      <3>2. With(t, P) = S \cup {p}
        BY <2>5 DEF With, S
      <3>3. \A q \in With(t, P) \ {p} : Earlier(q, p)
        BY <1>3, <3>2 DEF With, S
      <3> HIDE DEF P
      <3>4. \A z \in With(t, P) : (\A q \in With(t, P) \ {z} : Earlier(q, z)) => Rank(z, t) = Cardinality(With(t, P))
        BY <1>7, <3>1, Ranks
      <3>5. Rank(p, t) = Cardinality(With(t, P))
        BY <3>2, <3>3, <3>4
      <3>6. QED
        BY <2>3, <3>2, <3>5
    <2>6. QED
      BY <2>1, <2>2, <2>3, <2>4, <2>5 DEF S
  <1>12. ASSUME NEW t \in Tags
         PROVE  /\ Tree(f[t], Number(t), sum[t], range[t])
                /\ Number(t) \in Nat /\ Len(f[t]) = Number(t)
                /\ t \in tags[p] => /\ f'[t] = Append(f[t], Number(t) + 1)
                                    /\ sum'[t] = Append(sum[t], 1)
                                    /\ range'[t] = Larger(range[t], 1)
                /\ t \notin tags[p] => f'[t] = f[t] /\ sum'[t] = sum[t] /\ range'[t] = range[t]
    <2>1. Tree(f[t], Number(t), sum[t], range[t]) /\ Number(t) \in Nat
      BY <1>2, PlacedRanks DEF TreeInv
    <2>2. Len(f[t]) = Number(t)
      BY <2>1 DEF Tree
    <2>3. QED
      BY <1>1, <2>1, <2>2
  <1>13. TreeInv'
    <2>1. ASSUME NEW t \in Tags PROVE Tree(f'[t], Number(t)', sum'[t], range'[t])
      <3>1. CASE t \in tags[p]
        <4>1. Tree(Append(f[t], Number(t) + 1), Number(t) + 1, Append(sum[t], 1), Larger(range[t], 1))
          BY <1>12, GrownTree
        <4>2. QED
          BY <1>11, <1>12, <3>1, <4>1
      <3>2. CASE t \notin tags[p]
        BY <1>11, <1>12, <3>2
      <3>3. QED
        BY <3>1, <3>2
    <2>2. /\ f' = [t \in Tags |-> f'[t]] /\ sum' = [t \in Tags |-> sum'[t]]
          /\ range' = [t \in Tags |-> range'[t]]
      BY <1>1
    <2>3. QED
      BY <2>1, <2>2 DEF TreeInv
  <1>14. ConnectedInv'
    <2>1. ASSUME NEW x \in Placed, NEW y \in Placed
          PROVE  {x, y} \in Joined' <=> {x, y} \in Joined
      <3>1. {x, y} \in Joined <=> {x, y} \in friends
        BY <1>1, <2>1 DEF Joined
      <3>2. {x, y} \subseteq Placed' /\ \A r : {x, y} # {p, r}
        BY <1>3, <1>5, <2>1
      <3>3. {x, y} \in Joined' <=> {x, y} \in friends
        BY <1>5, <1>6, <3>2 DEF Joined
      <3>4. QED
        BY <3>1, <3>3
    <2>2. ASSUME NEW x \in Placed PROVE {x, p} \notin Joined'
      <3>1. SUFFICES ASSUME {x, p} \in Joined' PROVE FALSE
        OBVIOUS
      <3>2. {x, p} \in friends /\ \A r \in toJoin' : {x, p} # {p, r}
        BY <1>5, <1>6, <3>1 DEF Joined
      <3>3. {p, x} \in friends /\ {x, p} = {p, x}
        BY <3>2
      <3>4. x \in toJoin'
        BY <1>1, <1>3, <1>4, <3>3 DEF FriendsBefore
      <3>5. QED
        BY <3>2, <3>3, <3>4
    <2>3. ASSUME NEW t \in Tags
          PROVE  \A x, y \in With(t, Placed)' : Root(f'[t], Rank(x, t)') = Root(f'[t], Rank(y, t)')
                                                <=> Connected(With(t, Placed)', Joined', x, y)
      <3> DEFINE S == With(t, Placed)
                 n == Number(t)
                 R == [x \in S |-> Root(f[t], Rank(x, t))]
                 Q == [x \in S \cup {p} |-> Root(f'[t], Rank(x, t))]
      <3>1. /\ S \subseteq Placed /\ n \in Nat
            /\ \A x \in S : Rank(x, t) \in 1 .. n
        BY <1>2, PlacedRanks
      <3>2. \A x, y \in S : Root(f[t], Rank(x, t)) = Root(f[t], Rank(y, t)) <=> Connected(S, Joined, x, y)
        BY <1>2 DEF ConnectedInv
      <3>3. \A x, y \in S : {x, y} \in Joined' <=> {x, y} \in Joined
        BY <2>1, <3>1
      <3>4. CASE t \in tags[p]
        <4>1. With(t, Placed)' = S \cup {p} /\ Rank(p, t) = n + 1 /\ f'[t] = Append(f[t], n + 1)
          BY <1>11, <1>12, <3>4
        <4>2. /\ \A x \in 1 .. n : Root(f'[t], x) = Root(f[t], x) /\ Root(f[t], x) \in 1 .. n
              /\ Root(f'[t], n + 1) = n + 1
          BY <1>12, <4>1, GrownTree
        <4>3. \A x \in S : Q[x] = R[x] /\ Q[p] # R[x] /\ {x, p} \notin Joined'
          <5>1. Q[p] = n + 1 /\ n + 1 \notin 1 .. n
            BY <3>1, <4>1, <4>2
          <5>2. \A x \in S : Q[x] = Root(f'[t], Rank(x, t)) /\ R[x] = Root(f[t], Rank(x, t))
            OBVIOUS
          <5> HIDE DEF S, n, R, Q
          <5>3. \A x \in S : Q[x] = R[x] /\ R[x] \in 1 .. n
            BY <3>1, <4>2, <5>2
          <5>4. QED
            BY <2>2, <3>1, <5>1, <5>3
        <4>4. \A x, y \in S : R[x] = R[y] <=> Connected(S, Joined, x, y)
          BY <3>2
        <4>5. p \notin S
          BY <1>3, <3>1
        <4> HIDE DEF R
        <4>6. \A x \in S \cup {p} : Q[x] = Root(f'[t], Rank(x, t))
          OBVIOUS
        <4> DEFINE E == Joined
                   D == Joined'
                   T == S \cup {p}
        <4> HIDE DEF Q, S, E, D
        <4>7. \A x, y \in T : Q[x] = Q[y] <=> Connected(T, D, x, y)
          <5>1. RootsMean(R, S, E) /\ Alone(p, Q, R, S, D) /\ SameWithin(D, E, S)
            BY <3>3, <4>3, <4>4 DEF E, D, RootsMean, Alone, SameWithin
          <5>2. RootsMean(Q, T, D)
            BY <4>5, <5>1, GrownConnected
          <5>3. QED
            BY <5>2 DEF RootsMean
        <4>8. QED
          <5>1. With(t, Placed)' = T /\ Joined' = D
            BY <4>1 DEF D
          <5>2. \A x \in T : Rank(x, t)' = Rank(x, t) /\ Q[x] = Root(f'[t], Rank(x, t))
            BY <1>6, <4>6
          <5> HIDE DEF T, D
          <5>3. QED
            BY <4>7, <5>1, <5>2
      <3>5. CASE t \notin tags[p]
        <4>1. With(t, Placed)' = S /\ f'[t] = f[t]
          BY <1>11, <1>12, <3>5
        <4> HIDE DEF S
        <4>2. \A x, y \in S : Connected(S, Joined', x, y) <=> Connected(S, Joined, x, y)
          BY <3>3, ConnectedSame
        <4>3. QED
          BY <1>6, <3>2, <4>1, <4>2
      <3>6. QED
        BY <3>4, <3>5
    <2>4. QED
      BY <2>3 DEF ConnectedInv
  <1>15. QueryInv'
    <2>1. Open' = Open
      BY <1>6 DEF Open
    <2>2. ASSUME NEW q \in Open PROVE birthday[p] >= Queries[q].d
      <3>1. ~ (Queries[q].d > birthday[p])
        BY <1>1 DEF Due
      <3>2. q \in DOMAIN Queries /\ Queries[q].d \in Int
        BY Query2Assumption DEF Open
      <3>3. birthday[p] \in Int
        BY <1>7
      <3>4. QED
        BY <3>1, <3>2, <3>3
    <2>3. QED
      BY <1>2, <1>5, <1>6, <2>1, <2>2 DEF QueryInv
  <1>16. QED
    BY <1>9, <1>10, <1>13, <1>14, <1>15 DEF Query2Inv

\* The next friend is joined: the two sets of each common tag become one.
LEMMA JoinStep ==
    ASSUME Query2Inv, NEW q \in Persons, Join(q)
    PROVE  Query2Inv'
  <1> DEFINE common == tags[q] \cap tags[Last]
  <1>1. /\ q \in toJoin /\ toJoin' = toJoin \ {q}
        /\ f' = [t \in Tags |-> IF t \in common THEN Merged(t, q).parent ELSE f[t]]
        /\ sum' = [t \in Tags |-> IF t \in common THEN Merged(t, q).size ELSE sum[t]]
        /\ range' = [t \in Tags |->
              IF t \in common THEN Larger(range[t], sum'[t][Len(f[t])]) ELSE range[t]]
        /\ UNCHANGED <<input, inserted, ans>>
    BY DEF Join
  <1>2. InputInv /\ OrderInv /\ TreeInv /\ ConnectedInv /\ QueryInv
    BY DEF Query2Inv
  <1>3. /\ q \in Placed /\ q # Last /\ {Last, q} \in friends /\ Last \in Placed
    BY <1>1, <1>2 DEF OrderInv
  <1>4. /\ birthday' = birthday /\ tags' = tags /\ friends' = friends /\ ans' = ans
        /\ \A x, y : Earlier(x, y)' = Earlier(x, y)
        /\ \A x, t : Rank(x, t)' = Rank(x, t)
        /\ Placed' = Placed /\ Waits' = Waits /\ Last' = Last
        /\ \A t : With(t, Placed)' = With(t, Placed) /\ Number(t)' = Number(t)
    <2>1. Placed' = Placed /\ Waits' = Waits /\ Last' = Last
      BY <1>1 DEF Placed, Waits, Last
    <2>2. \A x, y : Earlier(x, y)' = Earlier(x, y)
      BY <1>1 DEF Earlier, input
    <2>3. \A x, t : Rank(x, t)' = Rank(x, t)
      BY <1>1, <2>2 DEF Rank, input
    <2>4. \A t : With(t, Placed)' = With(t, Placed)
      BY <1>1, <2>1 DEF With, input
    <2>5. QED
      BY <1>1, <2>1, <2>2, <2>3, <2>4 DEF input, Number
  <1> HIDE DEF common
  <1>5. InputInv' /\ OrderInv'
    BY <1>1, <1>2, <1>4 DEF InputInv, OrderInv
  <1>6. QueryInv'
    BY <1>2, <1>4 DEF QueryInv, Open
  <1>7. ASSUME NEW t \in common
        PROVE  q \in With(t, Placed) /\ Last \in With(t, Placed) /\ t \in Tags
    BY <1>2, <1>3 DEF With, common, InputInv
  <1>8. ASSUME NEW t \in common
        PROVE  /\ Number(t) \in Nat /\ Rank(q, t) \in 1 .. Number(t) /\ Rank(Last, t) = Number(t)
               /\ Number(t) \in 1 .. Number(t)
               /\ Tree(f[t], Number(t), sum[t], range[t])
               /\ Unites(f'[t], sum'[t], f[t], Number(t), sum[t], Rank(q, t))
               /\ range'[t] = Larger(range[t], sum'[t][Number(t)])
    <2> DEFINE n == Number(t)
    <2>1. n \in Nat /\ Rank(q, t) \in 1 .. n /\ Rank(Last, t) = n /\ n \in 1 .. n
      BY <1>2, <1>7, PlacedRanks
    <2>2. Tree(f[t], n, sum[t], range[t])
      BY <1>2, <1>7 DEF TreeInv
    <2>3. Len(f[t]) = n
      BY <2>2 DEF Tree
    <2> HIDE DEF n
    <2>4. f'[t] = Merged(t, q).parent /\ sum'[t] = Merged(t, q).size
          /\ range'[t] = Larger(range[t], sum'[t][n])
      BY <1>1, <1>7, <2>3
    <2>5. Unites(f'[t], sum'[t], f[t], n, sum[t], Rank(q, t))
      BY <2>3, <2>4 DEF Merged, Unites
    <2>6. QED
      BY <2>1, <2>2, <2>4, <2>5 DEF n
  <1>9. ASSUME NEW t \in Tags, t \notin common
        PROVE  f'[t] = f[t] /\ sum'[t] = sum[t] /\ range'[t] = range[t]
    BY <1>1, <1>9
  <1>10. TreeInv'
    <2>1. ASSUME NEW t \in Tags PROVE Tree(f'[t], Number(t)', sum'[t], range'[t])
      <3>1. CASE t \in common
        <4>1. Tree(f'[t], Number(t), sum'[t], Larger(range[t], sum'[t][Number(t)]))
          BY <1>8, <3>1, MergedTree
        <4>2. QED
          BY <1>4, <1>8, <3>1, <4>1
      <3>2. CASE t \notin common
        BY <1>2, <1>4, <1>9, <3>2 DEF TreeInv
      <3>3. QED
        BY <3>1, <3>2
    <2>2. /\ f' = [t \in Tags |-> f'[t]] /\ sum' = [t \in Tags |-> sum'[t]]
          /\ range' = [t \in Tags |-> range'[t]]
      BY <1>1
    <2>3. QED
      BY <2>1, <2>2 DEF TreeInv
  <1>11. ConnectedInv'
    <2>1. ASSUME NEW x \in Placed, NEW y \in Placed
          PROVE  {x, y} \in Joined' <=> {x, y} \in Joined \/ {x, y} = {q, Last}
      <3>1. {q, Last} = {Last, q} /\ \A r : {Last, q} = {Last, r} => r = q
        <4>1. ASSUME NEW r, {Last, q} = {Last, r} PROVE r = q
          BY <1>3, <4>1, PairsEqual
        <4>2. QED
          BY <4>1
      <3>2. {x, y} \subseteq Placed
        BY <2>1
      <3>3. {x, y} \in Joined <=> {x, y} \in friends /\ \A r \in toJoin : {x, y} # {Last, r}
        BY <3>2 DEF Joined
      <3>4. {x, y} \in Joined' <=> {x, y} \in friends /\ \A r \in toJoin \ {q} : {x, y} # {Last, r}
        BY <1>1, <1>4, <3>2 DEF Joined
      <3>5. CASE {x, y} = {q, Last}
        BY <1>3, <3>1, <3>4, <3>5
      <3>6. CASE {x, y} # {q, Last}
        BY <1>1, <3>1, <3>3, <3>4, <3>6
      <3>7. QED
        BY <3>5, <3>6
    <2>2. ASSUME NEW t \in Tags
          PROVE  \A x, y \in With(t, Placed)' : Root(f'[t], Rank(x, t)') = Root(f'[t], Rank(y, t)')
                                                <=> Connected(With(t, Placed)', Joined', x, y)
      <3> DEFINE S == With(t, Placed)
                 n == Number(t)
                 R == [x \in S |-> Root(f[t], Rank(x, t))]
                 Q == [x \in S |-> Root(f'[t], Rank(x, t))]
      <3>1. /\ S \subseteq Placed /\ n \in Nat
            /\ \A x \in S : Rank(x, t) \in 1 .. n
        BY <1>2, PlacedRanks
      <3>2. \A x, y \in S : Root(f[t], Rank(x, t)) = Root(f[t], Rank(y, t)) <=> Connected(S, Joined, x, y)
        BY <1>2 DEF ConnectedInv
      <3>3. \A x, y \in S : {x, y} \in Joined' <=> {x, y} \in Joined \/ {x, y} = {q, Last}
        BY <2>1, <3>1
      <3>4. With(t, Placed)' = S
        BY <1>4
      <3>5. CASE t \in common
        <4>1. q \in S /\ Last \in S /\ Rank(Last, t) = n /\ n \in 1 .. n
          BY <1>7, <1>8, <3>5
        <4>2. \A x \in 1 .. n : Root(f'[t], x) = IF Root(f[t], x) = Root(f[t], Rank(q, t)) THEN n ELSE Root(f[t], x)
          BY <1>8, <3>5, MergedTree
        <4>3. Root(f[t], n) = n
          <5>1. Forest(f[t], n)
            BY <1>8, <3>5 DEF Tree
          <5>2. Root(f[t], n) \in n .. n
            BY <4>1, <5>1, RootAndPath
          <5>3. QED
            BY <3>1, <5>2
        <4>4. \A x \in S : Q[x] = Root(f'[t], Rank(x, t)) /\ R[x] = Root(f[t], Rank(x, t))
          OBVIOUS
        <4> HIDE DEF S, n, R, Q
        <4>5. R[Last] = n /\ \A x \in S : Q[x] = IF R[x] = R[q] THEN R[Last] ELSE R[x]
          BY <3>1, <4>1, <4>2, <4>3, <4>4
        <4>6. \A x, y \in S : R[x] = R[y] <=> Connected(S, Joined, x, y)
          BY <3>2, <4>4
        <4> DEFINE E == Joined
                   D == Joined'
                   b == Last
        <4> HIDE DEF E, D, b
        <4>7. \A x, y \in S : Q[x] = Q[y] <=> Connected(S, D, x, y)
          <5>1. q \in S /\ b \in S
            BY <4>1 DEF b
          <5>2. RootsMean(R, S, E) /\ Redirected(Q, R, S, q, b) /\ OneMore(D, E, S, q, b)
            BY <3>3, <4>5, <4>6 DEF E, D, b, RootsMean, Redirected, OneMore
          <5>3. RootsMean(Q, S, D)
            BY <5>1, <5>2, JoinedConnected
          <5>4. QED
            BY <5>3 DEF RootsMean
        <4>8. QED
          BY <1>4, <3>4, <4>4, <4>7 DEF D
      <3>6. CASE t \notin common
        <4>1. f'[t] = f[t]
          BY <1>9, <3>6
        <4>2. ASSUME NEW x \in S, NEW y \in S PROVE {x, y} # {q, Last}
          <5>1. SUFFICES ASSUME {x, y} = {q, Last} PROVE FALSE
            OBVIOUS
          <5>2. q \in S /\ Last \in S
            BY <4>2, <5>1, PairsEqual
          <5>3. t \in tags[q] /\ t \in tags[Last]
            BY <5>2 DEF With
          <5>4. QED
            BY <3>6, <5>3 DEF common
        <4> HIDE DEF S
        <4>3. \A x, y \in S : {x, y} \in Joined' <=> {x, y} \in Joined
          BY <3>3, <4>2
        <4>4. \A x, y \in S : Connected(S, Joined', x, y) <=> Connected(S, Joined, x, y)
          BY <4>3, ConnectedSame
        <4>5. QED
          BY <1>4, <3>2, <3>4, <4>1, <4>4
      <3>7. QED
        BY <3>5, <3>6
    <2>3. QED
      BY <2>2 DEF ConnectedInv
  <1>12. QED
    BY <1>5, <1>6, <1>10, <1>11 DEF Query2Inv

\* Each step keeps the invariant.
LEMMA Query2Next ==
    ASSUME Query2Inv, [Next]_vars
    PROVE  Query2Inv'
  <1>1. CASE \E q \in DOMAIN Queries : Answer(q)
    BY <1>1, AnswerStep
  <1>2. CASE \E p \in Persons : Insert(p)
    BY <1>2, InsertStep
  <1>3. CASE \E p \in Persons : Join(p)
    BY <1>3, JoinStep
  <1>4. CASE UNCHANGED vars
    BY <1>4, Query2Stutter
  <1>5. QED
    BY <1>1, <1>2, <1>3, <1>4 DEF Next

-----------------------------------------------------------------------------
(* What the invariant says between two persons.                            *)

\* The variables are of their types: each union-find has an element for each
\* person inserted with the tag, and a parent is never before its child.
THEOREM Query2Types == Spec => []TypeOK
  <1>1. ASSUME Query2Inv PROVE TypeOK
    <2>1. InputInv /\ OrderInv /\ TreeInv
      BY <1>1 DEF Query2Inv
    <2>2. toJoin \subseteq Placed
      BY <2>1 DEF OrderInv
    <2>3. ASSUME NEW t \in Tags
          PROVE  /\ Len(f[t]) = Cardinality(With(t, Placed))
                 /\ DOMAIN sum[t] = DOMAIN f[t]
                 /\ \A x \in DOMAIN f[t] : f[t][x] \in x .. Len(f[t])
                 /\ range[t] \in 0 .. NPerson
      <3> DEFINE n == Number(t)
      <3>1. n \in Nat /\ n <= NPerson /\ NPerson \in Nat
        BY <2>1, PlacedRanks, Query2Assumption
      <3>2. Tree(f[t], n, sum[t], range[t])
        BY <2>1 DEF TreeInv
      <3>3. n = Cardinality(With(t, Placed))
        BY DEF Number
      <3> HIDE DEF n
      <3>4. /\ Forest(f[t], n) /\ Len(f[t]) = n /\ sum[t] \in Seq(Nat) /\ Len(sum[t]) = n
            /\ Sizes(f[t], n, sum[t]) /\ LargestSet(f[t], n, sum[t], range[t])
        BY <3>2 DEF Tree
      <3>5. DOMAIN f[t] = 1 .. n /\ DOMAIN sum[t] = 1 .. n
        BY <3>4 DEF Forest
      <3>6. range[t] \in Nat /\ range[t] <= n
        <4>1. CASE n = 0
          BY <3>4, <4>1 DEF LargestSet
        <4>2. CASE n > 0
          <5>1. PICK x \in 1 .. n : sum[t][Root(f[t], x)] = range[t]
            BY <3>4, <4>2 DEF LargestSet
          <5>2. range[t] = Cardinality(SetOf(f[t], n, Root(f[t], x)))
            BY <3>4, <5>1 DEF Sizes
          <5>3. QED
            BY <3>1, <5>2, SetsOf
        <4>3. QED
          BY <3>1, <4>1, <4>2
      <3>7. QED
        BY <3>1, <3>3, <3>4, <3>5, <3>6 DEF Forest
    <2>4. QED
      BY <2>2, <2>3 DEF TypeOK
  <1>2. QED
    BY <1>1, Query2Init, Query2Next, PTL DEF Spec

-----------------------------------------------------------------------------
(* The sets are the components, and the answers are right.                *)

\* Nothing is left to join: the components are what the union-find has.
LEMMA ComponentsExact ==
    ASSUME InputInv, OrderInv, ConnectedInv, toJoin = {}, NEW t \in Tags,
           NEW p \in With(t, Placed), NEW q \in With(t, Placed)
    PROVE  q \in Component(With(t, Placed), p) <=> Root(f[t], Rank(p, t)) = Root(f[t], Rank(q, t))
  <1> DEFINE S == With(t, Placed)
  <1>1. S \subseteq Placed /\ \A x, y \in S : {x, y} \in Joined <=> {x, y} \in friends
    BY DEF With, Joined
  <1>2. Root(f[t], Rank(p, t)) = Root(f[t], Rank(q, t)) <=> Connected(S, Joined, p, q)
    BY DEF ConnectedInv
  <1> HIDE DEF S
  <1>3. \A C \in SUBSET S : Closed(C, S) <=> ClosedBy(C, S, Joined)
    BY <1>1 DEF Closed, ClosedBy
  <1>4. q \in Component(S, p) <=> Connected(S, Joined, p, q)
    BY <1>3 DEF Component, Connected, S
  <1>5. QED
    BY <1>2, <1>4 DEF S

\* So the set of a root has as many elements as the component has persons.
LEMMA ComponentSize ==
    ASSUME Query2Inv, toJoin = {}, NEW t \in Tags, NEW p \in With(t, Placed)
    PROVE  /\ Rank(p, t) \in 1 .. Number(t)
           /\ Cardinality(Component(With(t, Placed), p)) = sum[t][Root(f[t], Rank(p, t))]
  <1> DEFINE S == With(t, Placed)
             n == Number(t)
             z == Root(f[t], Rank(p, t))
             A == Component(S, p)
             B == SetOf(f[t], n, z)
             g == [q \in A |-> Rank(q, t)]
  <1>1. InputInv /\ OrderInv /\ TreeInv /\ ConnectedInv
    BY DEF Query2Inv
  <1>2. /\ IsFiniteSet(S) /\ n \in Nat
        /\ \A q \in S : Rank(q, t) \in 1 .. n
        /\ \A q, r \in S : Rank(q, t) = Rank(r, t) => q = r
        /\ \A x \in 1 .. n : \E q \in S : Rank(q, t) = x
    BY <1>1, PlacedRanks
  <1>3. A \subseteq S /\ \A q \in S : q \in A <=> z = Root(f[t], Rank(q, t))
    BY <1>1, ComponentsExact DEF Component
  <1>4. \A x : x \in B <=> x \in 1 .. n /\ Root(f[t], x) = z
    BY DEF SetOf
  <1> HIDE DEF S, n, z, A, B
  <1>5. g \in Bijection(A, B)
    <2>1. \A q \in A : Rank(q, t) \in B
      BY <1>2, <1>3, <1>4
    <2>2. \A q, r \in A : Rank(q, t) = Rank(r, t) => q = r
      BY <1>2, <1>3
    <2>3. \A x \in B : \E q \in A : Rank(q, t) = x
      <3>1. ASSUME NEW x \in B PROVE \E q \in A : Rank(q, t) = x
        <4>1. PICK q \in S : Rank(q, t) = x
          BY <1>2, <1>4
        <4>2. q \in A
          BY <1>3, <1>4, <4>1
        <4>3. QED
          BY <4>1, <4>2
      <3>2. QED
        BY <3>1
    <2>4. g \in [A -> B] /\ \A q \in A : g[q] = Rank(q, t)
      BY <2>1
    <2> HIDE DEF g
    <2>5. g \in Injection(A, B)
      BY <2>2, <2>4 DEF Injection, IsInjective
    <2>6. g \in Surjection(A, B)
      BY <2>3, <2>4 DEF Surjection
    <2>7. QED
      BY <2>5, <2>6 DEF Bijection
  <1>6. IsFiniteSet(A)
    BY <1>2, <1>3, FS_Subset
  <1>7. Cardinality(B) = Cardinality(A)
    <2>1. ExistsBijection(A, B)
      BY <1>5 DEF ExistsBijection
    <2>2. QED
      BY <1>6, <2>1, FS_Bijection
  <1>8. sum[t][z] = Cardinality(B)
    <2>1. Sizes(f[t], n, sum[t])
      BY <1>1 DEF TreeInv, Tree, n
    <2>2. Rank(p, t) \in 1 .. n
      BY <1>2 DEF S
    <2>3. QED
      BY <2>1, <2>2 DEF Sizes, z, B
  <1>9. Rank(p, t) \in 1 .. n
    BY <1>2 DEF S
  <1>10. QED
    BY <1>7, <1>8, <1>9 DEF S, n, z, A

\* And the heap has the largest size.
LEMMA RangeIsLargest ==
    ASSUME Query2Inv, toJoin = {}, NEW t \in Tags
    PROVE  range[t] = LargestIn(With(t, Placed))
  <1> DEFINE S == With(t, Placed)
             n == Number(t)
             size(p) == Cardinality(Component(S, p))
             sizes == {size(p) : p \in S}
  <1>1. InputInv /\ OrderInv /\ TreeInv
    BY DEF Query2Inv
  <1>2. /\ n \in Nat /\ (S = {} => n = 0) /\ (S # {} => n > 0)
        /\ \A x \in 1 .. n : \E p \in S : Rank(p, t) = x
    <2>1. /\ IsFiniteSet(S) /\ n \in Nat
          /\ \A x \in 1 .. n : \E p \in S : Rank(p, t) = x
      BY <1>1, PlacedRanks
    <2>2. n = Cardinality(S)
      BY DEF Number
    <2> HIDE DEF S, n
    <2>3. QED
      BY <2>1, <2>2, FS_EmptySet
  <1>3. \A p \in S : Rank(p, t) \in 1 .. n /\ size(p) = sum[t][Root(f[t], Rank(p, t))]
    BY ComponentSize
  <1>4. LargestSet(f[t], n, sum[t], range[t])
    BY <1>1 DEF TreeInv, Tree
  <1>5. LargestIn(S) = IF S = {} THEN 0 ELSE CHOOSE m \in sizes : \A k \in sizes : k <= m
    BY DEF LargestIn
  <1> HIDE DEF S, n, size
  <1>6. CASE S = {}
    BY <1>2, <1>4, <1>5, <1>6 DEF LargestSet, S
  <1>7. CASE S # {}
    <2>1. \A p \in S : size(p) <= range[t]
      BY <1>3, <1>4 DEF LargestSet
    <2>2. \E p \in S : size(p) = range[t]
      <3>1. PICK x \in 1 .. n : sum[t][Root(f[t], x)] = range[t]
        BY <1>2, <1>4, <1>7 DEF LargestSet
      <3>2. PICK p \in S : Rank(p, t) = x
        BY <1>2
      <3>3. QED
        BY <1>3, <3>1, <3>2
    <2>3. range[t] \in Nat
      BY <1>4 DEF LargestSet
    <2>4. range[t] \in sizes /\ \A k \in sizes : k <= range[t]
      BY <2>1, <2>2
    <2>5. \A m \in sizes : (\A k \in sizes : k <= m) => m = range[t]
      <3>1. ASSUME NEW m \in sizes, \A k \in sizes : k <= m PROVE m = range[t]
        <4>1. range[t] <= m /\ m <= range[t]
          BY <2>4, <3>1
        <4>2. m \in Nat
          <5>1. PICK p \in S : m = size(p)
            BY <3>1
          <5>2. m = sum[t][Root(f[t], Rank(p, t))] /\ Rank(p, t) \in 1 .. n
            BY <1>3, <5>1
          <5>3. Sizes(f[t], n, sum[t]) /\ n \in Nat
            BY <1>1, <1>2 DEF TreeInv, Tree, n
          <5>4. m = Cardinality(SetOf(f[t], n, Root(f[t], Rank(p, t))))
            BY <5>2, <5>3 DEF Sizes
          <5>5. QED
            BY <5>3, <5>4, SetsOf
        <4>3. QED
          BY <2>3, <4>1, <4>2
      <3>2. QED
        BY <3>1
    <2> HIDE DEF sizes
    <2>6. (CHOOSE m \in sizes : \A k \in sizes : k <= m) = range[t]
      BY <2>4, <2>5
    <2>7. QED
      BY <1>5, <1>7, <2>6 DEF S
  <1>8. QED
    BY <1>6, <1>7

\* Between two persons each union-find is exact, for any friendships, birthdays
\* and interests: two persons are in one set exactly if they are connected by
\* persons with the tag, the sum at the root is the size of their component, and
\* the heap has the largest, however the paths were compressed.
THEOREM UnionFindExact == Spec => []SetsExact
  <1>1. ASSUME Query2Inv PROVE SetsExact
    <2>1. SUFFICES ASSUME toJoin = {}, NEW t \in Tags
                   PROVE  LET S == With(t, Placed)
                              root == [p \in S |-> Root(f[t], Rank(p, t))]
                              component == [p \in S |-> Component(S, p)]
                          IN /\ \A p, q \in S : root[p] = root[q] <=> q \in component[p]
                             /\ \A p \in S : sum[t][root[p]] = Cardinality(component[p])
                             /\ range[t] = LargestIn(S)
      BY DEF SetsExact
    <2> DEFINE S == With(t, Placed)
    <2>2. \A p, q \in S : Root(f[t], Rank(p, t)) = Root(f[t], Rank(q, t)) <=> q \in Component(S, p)
      BY <1>1, <2>1, ComponentsExact DEF Query2Inv
    <2>3. \A p \in S : sum[t][Root(f[t], Rank(p, t))] = Cardinality(Component(S, p))
      BY <1>1, <2>1, ComponentSize
    <2>4. range[t] = LargestIn(S)
      BY <1>1, <2>1, RangeIsLargest
    <2> HIDE DEF S
    <2>5. QED
      BY <2>2, <2>3, <2>4 DEF S
  <1>2. QED
    BY <1>1, Query2Init, Query2Next, PTL DEF Spec

-----------------------------------------------------------------------------
(* The answers.                                                            *)

\* The size of tag t for the day of query q.
SizeFor(q, t) == LargestIn(With(t, {p \in Persons : birthday[p] >= Queries[q].d}))

\* s is the answer to query q.
IsAnswer(s, q) ==
    LET size == [t \in Tags |-> SizeFor(q, t)]
        Before(a, b) == size[a] > size[b] \/ (size[a] = size[b] /\ Name[a] < Name[b])
    IN /\ Len(s) = Queries[q].k
       /\ \A i, j \in DOMAIN s : i # j => s[i] # s[j]
       /\ \A i \in DOMAIN s :
             \A t \in Tags \ {s[j] : j \in 1 .. i - 1} : ~ Before(t, s[i])

\* A query is due: the persons inserted are those it asks for.
LEMMA AnswerIsRight ==
    ASSUME Query2Inv, NEW q \in DOMAIN Queries, Answer(q), NEW b \in Best(Queries[q].k)
    PROVE  IsAnswer(b, q)
  <1> DEFINE k == Queries[q].k
             d == Queries[q].d
             size == [t \in Tags |-> SizeFor(q, t)]
  <1>1. toJoin = {} /\ q \in Open /\ Due(q)
    BY DEF Answer
  <1>2. InputInv /\ OrderInv /\ TreeInv /\ QueryInv
    BY DEF Query2Inv
  <1>3. k \in 1 .. NTag /\ d \in Int
    BY Query2Assumption
  <1>4. {p \in Persons : birthday[p] >= d} = Placed
    <2>1. Placed \subseteq Persons /\ \A p \in Persons : p \in Placed \/ p \in Waits
      BY DEF Placed
    <2>2. \A p \in Persons : birthday[p] \in Int
      BY <1>2 DEF InputInv
    <2>3. \A p \in Placed : birthday[p] >= d
      BY <1>1, <1>2 DEF QueryInv
    <2>4. ASSUME NEW p \in Waits, p \in Persons PROVE ~ (birthday[p] >= d)
      <3>1. d > birthday[NextPerson]
        BY <1>1, <2>4 DEF Due
      <3>2. NextPerson \in Persons /\ (p = NextPerson \/ Earlier(NextPerson, p))
        BY <2>4, NextIsFirst
      <3>3. birthday[NextPerson] >= birthday[p]
        BY <2>2, <2>4, <3>2 DEF Earlier
      <3>4. QED
        BY <1>3, <2>2, <2>4, <3>1, <3>2, <3>3
    <2> HIDE DEF d
    <2>5. QED
      BY <2>1, <2>3, <2>4
  <1>5. \A t \in Tags : size[t] = range[t]
    BY <1>1, <1>4, RangeIsLargest DEF SizeFor
  <1>6. range \in [Tags -> Nat]
    BY <1>2 DEF TreeInv, Tree, LargestSet
  <1> HIDE DEF k
  <1>7. /\ b \in [1 .. k -> Tags]
        /\ \A i, j \in 1 .. k : i # j => b[i] # b[j]
        /\ \A i \in 1 .. k : \A t \in Tags \ {b[j] : j \in 1 .. i - 1} : ~ Ahead(t, b[i])
    BY DEF Best, k
  <1> HIDE DEF size
  <1>8. Len(b) = k /\ DOMAIN b = 1 .. k
    <2>1. k \in Nat
      BY <1>3
    <2>2. QED
      BY <1>7, <2>1
  <1>9. ASSUME NEW i \in 1 .. k, NEW t \in Tags \ {b[j] : j \in 1 .. i - 1}
        PROVE  ~ (size[t] > size[b[i]] \/ (size[t] = size[b[i]] /\ Name[t] < Name[b[i]]))
    <2>1. b[i] \in Tags /\ t \in Tags /\ ~ Ahead(t, b[i])
      BY <1>7
    <2>2. QED
      BY <1>5, <2>1 DEF Ahead
  <1>10. QED
    BY <1>7, <1>8, <1>9 DEF IsAnswer, k, size

\* An answer stays right while the input does not change.
LEMMA AnswersStay ==
    ASSUME UNCHANGED input
    PROVE  \A s, q : IsAnswer(s, q)' <=> IsAnswer(s, q)
  <1>1. \A S : LargestIn(S)' = LargestIn(S)
    BY DEF input, LargestIn, Component, Closed
  <1>2. \A q, t : SizeFor(q, t)' = SizeFor(q, t)
    BY <1>1 DEF input, SizeFor, With
  <1>3. ASSUME NEW s, NEW q PROVE IsAnswer(s, q)' <=> IsAnswer(s, q)
    <2>1. [t \in Tags |-> SizeFor(q, t)]' = [t \in Tags |-> SizeFor(q, t)]
      BY <1>2
    <2>2. QED
      BY <2>1, Zenon DEF IsAnswer
  <1>4. QED
    BY <1>3

\* Each answer names the k tags with the largest connected sets among the
\* persons born on the day of the query or later, best first and ties by name.
THEOREM AnswersAreRight == Spec => []AnswersRight
  <1> DEFINE AllRight == \A q \in DOMAIN Queries : ans[q] # <<>> => IsAnswer(ans[q], q)
  <1>1. Init => AllRight
    BY DEF Init
  <1>2. ASSUME Query2Inv, AllRight, [Next]_vars PROVE AllRight'
    <2>1. UNCHANGED input
      BY <1>2 DEF Next, Answer, Insert, Join, vars
    <2>2. \A s, q : IsAnswer(s, q)' <=> IsAnswer(s, q)
      BY <2>1, AnswersStay
    <2>3. CASE UNCHANGED ans
      BY <1>2, <2>2, <2>3
    <2>4. CASE \E q \in DOMAIN Queries : Answer(q)
      <3>1. PICK q \in DOMAIN Queries : Answer(q)
        BY <2>4
      <3>2. PICK b \in Best(Queries[q].k) : ans' = [ans EXCEPT ![q] = b]
        BY <3>1 DEF Answer
      <3>3. IsAnswer(b, q) /\ DOMAIN ans = DOMAIN Queries
        BY <1>2, <3>1, AnswerIsRight DEF Query2Inv, QueryInv
      <3>4. ASSUME NEW r \in DOMAIN Queries, ans'[r] # <<>> PROVE IsAnswer(ans'[r], r)
        <4>1. ans'[r] = IF r = q THEN b ELSE ans[r]
          BY <3>2, <3>3
        <4>2. QED
          BY <1>2, <3>3, <3>4, <4>1
      <3>5. QED
        BY <2>2, <3>4
    <2>5. UNCHANGED ans \/ \E q \in DOMAIN Queries : Answer(q)
      BY <1>2 DEF Next, Insert, Join, vars
    <2>6. QED
      BY <2>3, <2>4, <2>5
  <1>3. AllRight => AnswersRight
    BY DEF AnswersRight, IsAnswer, SizeFor
  <1> HIDE DEF AllRight
  <1>4. QED
    BY <1>1, <1>2, <1>3, Query2Init, Query2Next, PTL DEF Spec

-----------------------------------------------------------------------------
(* The heap of tags, for any number of tags, any names and any ranges: the *)
(* order of elements, and sequences.                                       *)

\* "Not better than" is a total preorder.
LEMMA BetterOrder ==
    ASSUME NEW a \in Elements, NEW b \in Elements, NEW c \in Elements
    PROVE  /\ ~ Better(a, a)
           /\ Better(a, b) => ~ Better(b, a)
           /\ ~ Better(a, b) /\ ~ Better(b, c) => ~ Better(a, c)
  <1>1. /\ a.range \in Int /\ b.range \in Int /\ c.range \in Int
        /\ Name[a.tag] \in Int /\ Name[b.tag] \in Int /\ Name[c.tag] \in Int
    BY HeapAssumption DEF Elements, Tags
  <1>2. QED
    BY <1>1 DEF Better

\* Raising the range of an element makes nothing better than it.
LEMMA BetterRaised ==
    ASSUME NEW a \in Elements, NEW b \in Elements, NEW r \in 0 .. MaxRange,
           b.range < r, ~ Better(a, b)
    PROVE  ~ Better(a, [b EXCEPT !.range = r])
  <1>1. /\ a.range \in Int /\ b.range \in Int /\ r \in Int
        /\ Name[a.tag] \in Int /\ Name[b.tag] \in Int
    BY HeapAssumption DEF Elements, Tags
  <1>2. [b EXCEPT !.range = r].range = r /\ [b EXCEPT !.range = r].tag = b.tag
    BY DEF Elements
  <1>3. QED
    BY <1>1, <1>2 DEF Better

\* Two elements swapped.
LEMMA SwapSeq ==
    ASSUME NEW S, NEW s \in Seq(S), NEW i \in 1 .. Len(s), NEW j \in 1 .. Len(s), i # j
    PROVE  LET t == [s EXCEPT ![i] = s[j], ![j] = s[i]] IN
           /\ t \in Seq(S)
           /\ Len(t) = Len(s)
           /\ t[i] = s[j] /\ t[j] = s[i]
           /\ \A m \in 1 .. Len(s) : m # i /\ m # j => t[m] = s[m]
  <1> DEFINE u == [s EXCEPT ![i] = s[j]]
             t == [u EXCEPT ![j] = s[i]]
  <1>1. s[i] \in S /\ s[j] \in S
    BY ElementOfSeq
  <1>2. u \in Seq(S) /\ Len(u) = Len(s) /\ \A m \in 1 .. Len(s) : u[m] = IF m = i THEN s[j] ELSE s[m]
    BY <1>1, ExceptSeq
  <1>3. t \in Seq(S) /\ Len(t) = Len(u) /\ \A m \in 1 .. Len(u) : t[m] = IF m = j THEN s[i] ELSE u[m]
    <2> HIDE DEF u
    <2>1. j \in 1 .. Len(u)
      BY <1>2
    <2>2. QED
      BY <1>1, <1>2, <2>1, ExceptSeq
  <1>4. t = [s EXCEPT ![i] = s[j], ![j] = s[i]]
    OBVIOUS
  <1>5. QED
    BY <1>2, <1>3, <1>4

\* One element more.
LEMMA AppendSeq ==
    ASSUME NEW S, NEW s \in Seq(S), NEW e \in S
    PROVE  /\ Append(s, e) \in Seq(S)
           /\ Len(Append(s, e)) = Len(s) + 1
           /\ Append(s, e)[Len(s) + 1] = e
           /\ \A m \in 1 .. Len(s) : Append(s, e)[m] = s[m]
  OBVIOUS

\* The types that the steps below use.
LEMMA HeapTypes ==
    ASSUME HeapTypeOK
    PROVE  /\ Len(heap) \in Nat /\ Len(tmp) \in Nat
           /\ \A i \in 1 .. Len(heap) : heap[i] \in Elements /\ heap[i].tag \in Tags
           /\ \A i \in 1 .. Len(tmp) : tmp[i] \in Elements /\ tmp[i].tag \in Tags
           /\ NTag \in Nat \ {0} /\ Tags = 1 .. NTag
           /\ back \in Nat /\ back <= Len(tmp) /\ want \in Nat /\ filled \in Nat
  <1>1. heap \in Seq(Elements) /\ tmp \in Seq(Elements)
    BY DEF HeapTypeOK
  <1>2. Len(heap) \in Nat /\ Len(tmp) \in Nat
    BY <1>1, LenProperties
  <1>3. \A i \in 1 .. Len(heap) : heap[i] \in Elements
    BY <1>1, ElementOfSeq
  <1>4. \A i \in 1 .. Len(tmp) : tmp[i] \in Elements
    BY <1>1, ElementOfSeq
  <1>5. \A e \in Elements : e.tag \in Tags
    BY DEF Elements
  <1>6. NTag \in Nat \ {0} /\ Tags = 1 .. NTag
    BY HeapAssumption DEF Tags
  <1>7. back \in 0 .. Len(tmp) /\ want \in 0 .. NTag /\ filled \in 0 .. NTag
    BY DEF HeapTypeOK
  <1>8. back \in Nat /\ back <= Len(tmp) /\ want \in Nat /\ filled \in Nat
    BY <1>2, <1>6, <1>7
  <1>9. QED
    BY <1>2, <1>3, <1>4, <1>5, <1>6, <1>8

-----------------------------------------------------------------------------
(* The moves: swaps along one path of the heap.                            *)

\* What a swap of cursor and q does.
LEMMA SwapState ==
    ASSUME HeapTypeOK, PlaceExact, NEW q \in 1 .. Len(heap), q # cursor,
           cursor \in 1 .. Len(heap), SwapWith(q)
    PROVE  /\ heap' \in Seq(Elements)
           /\ Len(heap') = Len(heap)
           /\ heap'[cursor] = heap[q] /\ heap'[q] = heap[cursor]
           /\ \A i \in 1 .. Len(heap) : i # cursor /\ i # q => heap'[i] = heap[i]
           /\ place' \in [Tags -> Nat]
           /\ PlaceExact'
  <1>1. heap \in Seq(Elements) /\ place \in [Tags -> Nat]
    BY DEF HeapTypeOK
  <1>2. /\ heap' \in Seq(Elements)
        /\ Len(heap') = Len(heap)
        /\ heap'[cursor] = heap[q] /\ heap'[q] = heap[cursor]
        /\ \A i \in 1 .. Len(heap) : i # cursor /\ i # q => heap'[i] = heap[i]
    BY <1>1, SwapSeq DEF SwapWith
  <1>3. \A i \in 1 .. Len(heap) : heap[i].tag \in Tags /\ place[heap[i].tag] = i
    BY HeapTypes DEF PlaceExact
  <1>4. cursor \in Nat /\ q \in Nat
    BY HeapTypes
  <1> DEFINE a == heap[cursor].tag
             b == heap[q].tag
  <1>5. place' = [place EXCEPT ![b] = cursor, ![a] = q] /\ a \in Tags /\ b \in Tags /\ a # b
    BY <1>3 DEF SwapWith
  <1>6. place' \in [Tags -> Nat]
    BY <1>1, <1>4, <1>5
  <1>7. place'[a] = q /\ place'[b] = cursor /\ \A t \in Tags : t # a /\ t # b => place'[t] = place[t]
    BY <1>1, <1>5
  <1>8. ASSUME NEW i \in 1 .. Len(heap)
        PROVE  place'[heap'[i].tag] = i
    <2>1. CASE i = cursor
      BY <1>2, <1>7, <2>1
    <2>2. CASE i = q
      BY <1>2, <1>7, <2>2
    <2>3. CASE i # cursor /\ i # q
      <3>1. heap'[i] = heap[i] /\ heap[i].tag # a /\ heap[i].tag # b
        BY <1>2, <1>3, <2>3
      <3>2. QED
        BY <1>3, <1>7, <3>1
    <2>4. QED
      BY <2>1, <2>2, <2>3
  <1>9. PlaceExact'
    BY <1>2, <1>8 DEF PlaceExact
  <1>10. QED
    BY <1>2, <1>6, <1>9

\* The heap holds the same elements in another order.
Permuted ==
    /\ Len(heap') = Len(heap)
    /\ \A i \in 1 .. Len(heap) : \E j \in 1 .. Len(heap) : heap'[i] = heap[j]
    /\ \A i \in 1 .. Len(heap) : \E j \in 1 .. Len(heap) : heap[i] = heap'[j]

\* Neither Parted nor TakenBest depends on the order in the heap.
LEMMA PermutedData ==
    ASSUME Parted, TakenBest, Permuted, UNCHANGED <<filled, want, tmp, back>>
    PROVE  Parted' /\ TakenBest'
  <1>0. Len(heap') = Len(heap)
    BY DEF Permuted
  <1>1. {heap'[i] : i \in 1 .. Len(heap')} = {heap[i] : i \in 1 .. Len(heap)}
    <2>1. ASSUME NEW i \in 1 .. Len(heap)
          PROVE  heap'[i] \in {heap[j] : j \in 1 .. Len(heap)}
      <3>1. PICK j \in 1 .. Len(heap) : heap'[i] = heap[j]
        BY DEF Permuted
      <3>2. QED
        BY <3>1
    <2>2. ASSUME NEW i \in 1 .. Len(heap)
          PROVE  heap[i] \in {heap'[j] : j \in 1 .. Len(heap)}
      <3>1. PICK j \in 1 .. Len(heap) : heap[i] = heap'[j]
        BY DEF Permuted
      <3>2. QED
        BY <3>1
    <2>3. QED
      BY <1>0, <2>1, <2>2
  <1>2. Out' = Out
    BY DEF Out
  <1>3. Held' = Held
    BY <1>1, <1>2 DEF Held
  <1>4. Parted'
    <2>1. {e.tag : e \in Held'} = 1 .. filled'
      BY <1>3 DEF Parted
    <2>2. ASSUME NEW i \in 1 .. Len(heap'), NEW j \in back' + 1 .. Len(tmp')
          PROVE  heap'[i].tag # tmp'[j].tag
      <3>1. PICK m \in 1 .. Len(heap) : heap'[i] = heap[m]
        BY <1>0 DEF Permuted
      <3>2. heap[m].tag # tmp[j].tag
        BY DEF Parted
      <3>3. QED
        BY <3>1, <3>2
    <2>3. QED
      BY <2>1, <2>2 DEF Parted
  <1>5. TakenBest'
    <2>1. /\ want' = 0 => back' = Len(tmp')
          /\ Len(tmp') < want' => back' = 0
          /\ want' > 0 => filled' = NTag /\ Len(tmp') <= want'
          /\ filled' < NTag => want' = 0 /\ tmp' = <<>>
      BY DEF TakenBest
    <2>2. ASSUME want > 0
          PROVE  \A i, j \in 1 .. Len(tmp) : i < j => tmp[i].tag # tmp[j].tag /\ ~ Better(tmp[j], tmp[i])
      BY <2>2 DEF TakenBest
    <2>3. ASSUME want > 0, NEW n \in 1 .. back
          PROVE  \E j \in 1 .. Len(heap') : heap'[j] = tmp[n]
      <3>1. PICK m \in 1 .. Len(heap) : heap[m] = tmp[n]
        BY <2>3 DEF TakenBest
      <3>2. PICK j \in 1 .. Len(heap) : heap[m] = heap'[j]
        BY DEF Permuted
      <3>3. QED
        BY <1>0, <3>1, <3>2
    <2>4. ASSUME want > 0, NEW i \in 1 .. Len(tmp), NEW j \in 1 .. Len(heap'),
                 \A n \in 1 .. back : heap'[j] # tmp[n]
          PROVE  ~ Better(heap'[j], tmp[i])
      <3>1. PICK m \in 1 .. Len(heap) : heap'[j] = heap[m]
        BY <1>0 DEF Permuted
      <3>2. QED
        BY <2>4, <3>1 DEF TakenBest
    <2>5. QED
      BY <2>1, <2>2, <2>3, <2>4 DEF TakenBest, Better
  <1>6. QED
    BY <1>4, <1>5

\* A swap permutes the elements.
LEMMA SwapPermuted ==
    ASSUME NEW q \in 1 .. Len(heap), cursor \in 1 .. Len(heap),
           Len(heap') = Len(heap),
           heap'[cursor] = heap[q], heap'[q] = heap[cursor],
           \A i \in 1 .. Len(heap) : i # cursor /\ i # q => heap'[i] = heap[i]
    PROVE  Permuted
  <1>1. ASSUME NEW i \in 1 .. Len(heap)
        PROVE  \E j \in 1 .. Len(heap) : heap'[i] = heap[j] /\ heap[i] = heap'[j]
    <2>1. CASE i = cursor
      BY <2>1
    <2>2. CASE i = q
      BY <2>2
    <2>3. CASE i # cursor /\ i # q
      BY <2>3
    <2>4. QED
      BY <2>1, <2>2, <2>3
  <1>2. QED
    BY <1>1 DEF Permuted

\* Halves and doubles of positions.
LEMMA Halves ==
    \A i \in Nat :
                  /\ i \div 2 \in Nat /\ 2 * (i \div 2) <= i /\ i <= 2 * (i \div 2) + 1
                  /\ (2 * i) \div 2 = i /\ (2 * i + 1) \div 2 = i
                  /\ i >= 1 => i \div 2 < i
                  /\ i >= 2 => i \div 2 >= 1
  OBVIOUS

\* Where move_down goes from p: to a child better than p and than any other,
\* or nowhere when no child is better than p.
LEMMA LowestFacts ==
    ASSUME HeapTypeOK, NEW p \in Nat, p >= 1
    PROVE  /\ Lowest(p) # p => (/\ p \in 1 .. Len(heap)
                                /\ Lowest(p) \in 2 .. Len(heap)
                                /\ Lowest(p) \div 2 = p
                                /\ Better(heap[Lowest(p)], heap[p]))
           /\ \A i \in 2 .. Len(heap) : i \div 2 = p => ~ Better(heap[i], heap[Lowest(p)])
           /\ (\A i \in 2 .. Len(heap) : i \div 2 = p => ~ Better(heap[i], heap[p]))
              => Lowest(p) = p
  <1> DEFINE left == 2 * p
             right == left + 1
             q == IF left <= Len(heap) /\ Better(heap[left], heap[p]) THEN left ELSE p
  <1>1. Lowest(p) = IF right <= Len(heap) /\ Better(heap[right], heap[q]) THEN right ELSE q
    BY DEF Lowest
  <1>2. Len(heap) \in Nat /\ \A i \in 1 .. Len(heap) : heap[i] \in Elements
    BY HeapTypes
  <1>3. left \div 2 = p /\ right \div 2 = p
    BY Halves
  <1>4. \A i \in 2 .. Len(heap) : i \div 2 = p => i = left \/ i = right
    <2>1. ASSUME NEW i \in 2 .. Len(heap), i \div 2 = p
          PROVE  i = left \/ i = right
      <3>1. i \in Nat
        BY <1>2
      <3>2. 2 * p <= i /\ i <= 2 * p + 1
        BY <2>1, <3>1, Halves
      <3>3. QED
        BY <3>1, <3>2
    <2>2. QED
      BY <2>1
  <1>5. \A a, b, c \in Elements : /\ ~ Better(a, a)
                                  /\ Better(a, b) => ~ Better(b, a)
                                  /\ ~ Better(a, b) /\ ~ Better(b, c) => ~ Better(a, c)
    BY BetterOrder
  <1>6. CASE left > Len(heap)
    <2>1. q = p /\ Lowest(p) = p
      BY <1>1, <1>2, <1>6
    <2>2. \A i \in 2 .. Len(heap) : i \div 2 # p
      BY <1>2, <1>4, <1>6
    <2>3. QED
      BY <2>1, <2>2
  <1>7. CASE left <= Len(heap)
    <2>1. p \in 1 .. Len(heap) /\ left \in 2 .. Len(heap) /\ left # p /\ right # p /\ left # right
      BY <1>2, <1>7
    <2>2. heap[p] \in Elements /\ heap[left] \in Elements
      BY <1>2, <2>1
    <2>3. CASE right > Len(heap)
      <3>1. Lowest(p) = q
        BY <1>1, <1>2, <2>3
      <3>2. \A i \in 2 .. Len(heap) : i \div 2 = p => i = left
        BY <1>2, <1>4, <2>3
      <3>3. CASE Better(heap[left], heap[p])
        <4>1. q = left
          BY <1>7, <3>3
        <4>2. QED
          BY <1>3, <1>5, <2>1, <2>2, <3>1, <3>2, <3>3, <4>1
      <3>4. CASE ~ Better(heap[left], heap[p])
        <4>1. q = p
          BY <3>4
        <4>2. QED
          BY <3>1, <3>2, <3>4, <4>1
      <3>5. QED
        BY <3>3, <3>4
    <2>4. CASE right <= Len(heap)
      <3>1. right \in 2 .. Len(heap) /\ heap[right] \in Elements
        BY <1>2, <2>1, <2>4
      <3>2. CASE Better(heap[left], heap[p])
        <4>1. q = left
          BY <1>7, <3>2
        <4>2. Lowest(p) = IF Better(heap[right], heap[left]) THEN right ELSE left
          BY <1>1, <2>4, <4>1
        <4>3. CASE Better(heap[right], heap[left])
          <5>1. Lowest(p) = right /\ Better(heap[right], heap[p])
            BY <1>5, <2>2, <3>1, <3>2, <4>2, <4>3
          <5>2. ~ Better(heap[left], heap[right]) /\ ~ Better(heap[right], heap[right])
            BY <1>5, <2>2, <3>1, <4>3
          <5>3. QED
            BY <1>3, <1>4, <2>1, <3>1, <5>1, <5>2
        <4>4. CASE ~ Better(heap[right], heap[left])
          <5>1. ~ Better(heap[left], heap[left]) /\ Lowest(p) = left
            BY <1>5, <2>2, <4>2, <4>4
          <5>2. QED
            BY <1>3, <1>4, <2>1, <3>2, <4>4, <5>1
        <4>5. QED
          BY <4>3, <4>4
      <3>3. CASE ~ Better(heap[left], heap[p])
        <4>1. q = p
          BY <3>3
        <4>2. Lowest(p) = IF Better(heap[right], heap[p]) THEN right ELSE p
          BY <1>1, <2>4, <4>1
        <4>3. CASE Better(heap[right], heap[p])
          <5>1. Lowest(p) = right
            BY <4>2, <4>3
          <5>2. ~ Better(heap[left], heap[right]) /\ ~ Better(heap[right], heap[right])
            BY <1>5, <2>2, <3>1, <3>3, <4>3
          <5>3. QED
            BY <1>3, <1>4, <2>1, <3>1, <4>3, <5>1, <5>2
        <4>4. CASE ~ Better(heap[right], heap[p])
          BY <1>4, <3>3, <4>2, <4>4
        <4>5. QED
          BY <4>3, <4>4
      <3>4. QED
        BY <3>2, <3>3
    <2>5. QED
      BY <1>2, <2>1, <2>3, <2>4
  <1>8. QED
    BY <1>2, <1>6, <1>7

\* move_down: the element sinks below its best child.
LEMMA MoveDownStep ==
    ASSUME IInv, MoveDown
    PROVE  IInv'
  <1> DEFINE q == Lowest(cursor)
  <1>1. HeapTypeOK /\ PlaceExact /\ Parted /\ HeapOrder /\ TakenBest
    BY DEF IInv
  <1>2. cursor \in Nat /\ cursor >= 1 /\ q # cursor /\ SwapWith(q) /\ cursor' = q
    BY <1>1 DEF MoveDown, HeapTypeOK
  <1>3. /\ cursor \in 1 .. Len(heap) /\ q \in 2 .. Len(heap) /\ q \div 2 = cursor
        /\ Better(heap[q], heap[cursor])
        /\ \A i \in 2 .. Len(heap) : i \div 2 = cursor => ~ Better(heap[i], heap[q])
        /\ ~ (\A i \in 2 .. Len(heap) : i \div 2 = cursor => ~ Better(heap[i], heap[cursor]))
    BY <1>1, <1>2, LowestFacts
  <1>4. Len(heap) \in Nat /\ q \in 1 .. Len(heap) /\ \A i \in 1 .. Len(heap) : heap[i] \in Elements
    BY <1>1, <1>3, HeapTypes
  <1>5. /\ heap' \in Seq(Elements)
        /\ Len(heap') = Len(heap)
        /\ heap'[cursor] = heap[q] /\ heap'[q] = heap[cursor]
        /\ \A i \in 1 .. Len(heap) : i # cursor /\ i # q => heap'[i] = heap[i]
        /\ place' \in [Tags -> Nat]
        /\ PlaceExact'
    BY <1>1, <1>2, <1>3, <1>4, SwapState
  <1>6. mode = "down" /\ mode' = "down"
    <2>1. mode \in {"down", "change"} /\ mode' = mode
      BY DEF MoveDown
    <2>2. ASSUME mode = "change"
          PROVE  FALSE
      <3>1. ASSUME NEW i \in 2 .. Len(heap), i \div 2 = cursor
            PROVE  ~ Better(heap[i], heap[cursor])
        <4>1. i # cursor
          BY <1>2, <3>1, <1>4, Halves
        <4>2. QED
          BY <1>1, <2>2, <3>1, <4>1 DEF HeapOrder, InOrder
      <3>2. QED
        BY <1>3, <3>1
    <2>3. QED
      BY <2>1, <2>2
  <1>7. Parted' /\ TakenBest'
    <2>1. Permuted
      BY <1>3, <1>4, <1>5, SwapPermuted
    <2>2. QED
      BY <1>1, <2>1, PermutedData DEF MoveDown
  <1>8. HeapTypeOK'
    <2>1. cursor' \in Nat \ {0}
      BY <1>2, <1>4
    <2>2. QED
      BY <1>1, <1>5, <2>1 DEF HeapTypeOK, MoveDown
  <1>9. \A i \in 2 .. Len(heap) : i \div 2 # cursor => ~ Better(heap[i], heap[i \div 2])
    BY <1>1, <1>6 DEF HeapOrder, InOrder
  <1>10. ASSUME NEW i \in 2 .. Len(heap), i \div 2 # q
         PROVE  ~ Better(heap'[i], heap'[i \div 2])
    <2>1. i \in Nat /\ i \in 1 .. Len(heap) /\ i \div 2 \in 1 .. Len(heap) /\ i \div 2 < i
      BY <1>4, Halves
    <2>2. CASE i = q
      BY <1>3, <1>4, <1>5, <2>2, BetterOrder
    <2>3. CASE i # q /\ i \div 2 = cursor
      <3>1. heap'[i] = heap[i] /\ heap'[i \div 2] = heap[q]
        BY <1>5, <2>1, <2>3
      <3>2. QED
        BY <1>3, <2>3, <3>1
    <2>4. CASE i = cursor
      <3>1. heap'[i] = heap[q] /\ heap'[i \div 2] = heap[i \div 2]
        BY <1>5, <1>10, <2>1, <2>4
      <3>2. cursor > 1 /\ ~ Better(heap[q], heap[cursor \div 2])
        BY <1>1, <1>3, <1>6, <2>1, <2>4 DEF HeapOrder, Bridged
      <3>3. QED
        BY <2>4, <3>1, <3>2
    <2>5. CASE i # q /\ i # cursor /\ i \div 2 # cursor
      <3>1. heap'[i] = heap[i] /\ heap'[i \div 2] = heap[i \div 2]
        BY <1>5, <1>10, <2>1, <2>5
      <3>2. QED
        BY <1>9, <2>5, <3>1
    <2>6. QED
      BY <2>2, <2>3, <2>4, <2>5
  <1>11. Bridged'
    <2>1. ASSUME NEW i \in 2 .. Len(heap), i \div 2 = q
          PROVE  ~ Better(heap'[i], heap'[q \div 2])
      <3>1. i \in Nat /\ q \in Nat /\ i \in 1 .. Len(heap) /\ i \div 2 < i
        BY <1>4, Halves
      <3>2. i # q /\ i # cursor /\ i \div 2 # cursor
        <4>1. q \div 2 < q
          BY <1>4, <3>1, Halves
        <4>2. QED
          BY <1>2, <1>3, <2>1, <3>1, <4>1
      <3>3. heap'[i] = heap[i] /\ heap'[q \div 2] = heap[q]
        BY <1>3, <1>5, <3>1, <3>2
      <3>4. QED
        BY <1>9, <2>1, <3>2, <3>3
    <2>2. QED
      BY <1>2, <1>5, <2>1 DEF Bridged
  <1>12. HeapOrder'
    BY <1>2, <1>5, <1>6, <1>10, <1>11 DEF HeapOrder, InOrder
  <1>13. QED
    BY <1>5, <1>7, <1>8, <1>12 DEF IInv

\* move_up: the element changes places with its parent.
LEMMA MoveUpStep ==
    ASSUME IInv, MoveUp
    PROVE  IInv'
  <1> DEFINE p == cursor \div 2
  <1>1. HeapTypeOK /\ PlaceExact /\ Parted /\ HeapOrder /\ TakenBest
    BY DEF IInv
  <1>2. mode = "up" /\ mode' = "up" /\ cursor > 1 /\ Better(heap[cursor], heap[p]) /\ SwapWith(p) /\ cursor' = p
    BY DEF MoveUp, Rises
  <1>3. /\ cursor \in 1 .. Len(heap)
        /\ \A i \in 2 .. Len(heap) : i # cursor => ~ Better(heap[i], heap[i \div 2])
        /\ \A i \in 2 .. Len(heap) : i \div 2 = cursor => ~ Better(heap[i], heap[p])
    BY <1>1, <1>2 DEF HeapOrder, Bridged, InOrder
  <1>4. Len(heap) \in Nat /\ \A i \in 1 .. Len(heap) : heap[i] \in Elements
    BY <1>1, HeapTypes
  <1>5. cursor \in Nat /\ cursor \in 2 .. Len(heap) /\ p \in 1 .. Len(heap) /\ p < cursor /\ p # cursor
    BY <1>2, <1>3, <1>4, Halves
  <1>6. /\ heap' \in Seq(Elements)
        /\ Len(heap') = Len(heap)
        /\ heap'[cursor] = heap[p] /\ heap'[p] = heap[cursor]
        /\ \A i \in 1 .. Len(heap) : i # cursor /\ i # p => heap'[i] = heap[i]
        /\ place' \in [Tags -> Nat]
        /\ PlaceExact'
    BY <1>1, <1>2, <1>3, <1>5, SwapState
  <1>7. Parted' /\ TakenBest'
    <2>1. Permuted
      BY <1>3, <1>5, <1>6, SwapPermuted
    <2>2. QED
      BY <1>1, <2>1, PermutedData DEF MoveUp
  <1>8. HeapTypeOK'
    <2>1. cursor' \in Nat \ {0}
      BY <1>2, <1>5
    <2>2. QED
      BY <1>1, <1>6, <2>1 DEF HeapTypeOK, MoveUp
  <1>9. heap[cursor] \in Elements /\ heap[p] \in Elements /\ ~ Better(heap[p], heap[cursor])
    BY <1>2, <1>4, <1>5, BetterOrder
  <1>10. ASSUME NEW i \in 2 .. Len(heap), i # p
         PROVE  ~ Better(heap'[i], heap'[i \div 2])
    <2>1. i \in Nat /\ i \in 1 .. Len(heap) /\ i \div 2 \in 1 .. Len(heap) /\ i \div 2 < i
      BY <1>4, Halves
    <2>2. CASE i = cursor
      BY <1>6, <1>9, <2>2
    <2>3. CASE i # cursor /\ i \div 2 = p
      <3>1. heap'[i] = heap[i] /\ heap'[i \div 2] = heap[cursor]
        BY <1>6, <1>10, <2>1, <2>3
      <3>2. ~ Better(heap[i], heap[p])
        BY <1>3, <2>3
      <3>3. QED
        BY <1>4, <1>9, <2>1, <3>1, <3>2, BetterOrder
    <2>4. CASE i # cursor /\ i \div 2 = cursor
      <3>1. heap'[i] = heap[i] /\ heap'[i \div 2] = heap[p]
        BY <1>6, <1>10, <2>1, <2>4
      <3>2. QED
        BY <1>3, <2>4, <3>1
    <2>5. CASE i # cursor /\ i \div 2 # p /\ i \div 2 # cursor
      <3>1. heap'[i] = heap[i] /\ heap'[i \div 2] = heap[i \div 2]
        BY <1>6, <1>10, <2>1, <2>5
      <3>2. QED
        BY <1>3, <2>5, <3>1
    <2>6. QED
      BY <2>2, <2>3, <2>4, <2>5
  <1>11. Bridged'
    <2>1. ASSUME NEW i \in 2 .. Len(heap), i \div 2 = p, p > 1
          PROVE  ~ Better(heap'[i], heap'[p \div 2])
      <3>1. /\ i \in Nat /\ i \in 1 .. Len(heap) /\ p \in 2 .. Len(heap)
            /\ p \div 2 \in 1 .. Len(heap) /\ p \div 2 < p /\ p < i
        BY <1>4, <1>5, <2>1, Halves
      <3>2. ~ Better(heap[p], heap[p \div 2]) /\ heap'[p \div 2] = heap[p \div 2] /\ heap[p \div 2] \in Elements
        BY <1>3, <1>4, <1>5, <1>6, <3>1
      <3>3. CASE i = cursor
        BY <1>6, <3>2, <3>3
      <3>4. CASE i # cursor
        <4>1. heap'[i] = heap[i] /\ heap[i] \in Elements /\ ~ Better(heap[i], heap[p])
          BY <1>3, <1>4, <1>6, <2>1, <3>1, <3>4
        <4>2. QED
          BY <1>9, <3>2, <4>1, BetterOrder
      <3>5. QED
        BY <3>3, <3>4
    <2>2. QED
      BY <1>2, <1>6, <2>1 DEF Bridged
  <1>12. HeapOrder'
    BY <1>2, <1>5, <1>6, <1>10, <1>11 DEF HeapOrder, InOrder
  <1>13. QED
    BY <1>6, <1>7, <1>8, <1>12 DEF IInv

\* A step that leaves the elements alone.
LEMMA SameElements ==
    ASSUME IInv, UNCHANGED <<heap, place, id, filled, want, tmp, back, answer>>,
           mode' \in {"idle", "up", "down", "change"}, cursor' \in Nat \ {0}
    PROVE  HeapTypeOK' /\ PlaceExact' /\ Parted' /\ TakenBest'
  <1>1. HeapTypeOK'
    BY DEF IInv, HeapTypeOK
  <1>2. PlaceExact'
    BY DEF IInv, PlaceExact
  <1>3. Permuted
    BY DEF Permuted
  <1>4. Parted' /\ TakenBest'
    BY <1>3, PermutedData DEF IInv
  <1>5. QED
    BY <1>1, <1>2, <1>4

\* move_down stops: no child is better; in change, move_up begins where it is.
LEMMA StopDownStep ==
    ASSUME IInv, StopDown
    PROVE  IInv'
  <1>1. HeapTypeOK /\ PlaceExact /\ HeapOrder
    BY DEF IInv
  <1>2. /\ cursor \in Nat /\ cursor >= 1 /\ Lowest(cursor) = cursor
        /\ heap' = heap /\ place' = place /\ id' = id
    BY <1>1 DEF StopDown, HeapTypeOK
  <1>3. CASE mode = "change"
    <2>1. cursor \in 1 .. Len(heap) /\ heap[cursor].tag = id
      BY <1>1, <1>3 DEF HeapOrder
    <2>2. mode' = "up" /\ cursor' = cursor
      BY <1>1, <1>3, <2>1 DEF StopDown, PlaceExact
    <2>3. HeapOrder'
      BY <1>1, <1>2, <1>3, <2>2 DEF HeapOrder, InOrder, Bridged
    <2>4. QED
      BY <1>2, <2>2, <2>3, SameElements DEF IInv, StopDown
  <1>4. CASE mode = "down"
    <2>1. mode' = "idle" /\ cursor' = cursor
      BY <1>4 DEF StopDown
    <2>2. ASSUME NEW i \in 2 .. Len(heap)
          PROVE  ~ Better(heap[i], heap[i \div 2])
      <3>1. CASE i \div 2 = cursor
        BY <1>1, <1>2, <3>1, LowestFacts
      <3>2. CASE i \div 2 # cursor
        BY <1>1, <1>4, <3>2 DEF HeapOrder, InOrder
      <3>3. QED
        BY <3>1, <3>2
    <2>3. HeapOrder'
      BY <1>2, <2>1, <2>2 DEF HeapOrder, InOrder
    <2>4. QED
      BY <1>2, <2>1, <2>3, SameElements DEF IInv, StopDown
  <1>5. QED
    BY <1>3, <1>4 DEF StopDown

\* move_up stops: the element is not better than its parent.
LEMMA StopUpStep ==
    ASSUME IInv, StopUp
    PROVE  IInv'
  <1>1. HeapTypeOK /\ HeapOrder
    BY DEF IInv
  <1>2. /\ cursor \in Nat \ {0} /\ mode = "up" /\ mode' = "idle" /\ heap' = heap /\ cursor' = cursor
        /\ cursor > 1 => ~ Better(heap[cursor], heap[cursor \div 2])
    BY <1>1 DEF StopUp, HeapTypeOK, Rises
  <1>3. ASSUME NEW i \in 2 .. Len(heap)
        PROVE  ~ Better(heap[i], heap[i \div 2])
    <2>1. CASE i = cursor
      <3>1. cursor > 1
        BY <1>1, <2>1, HeapTypes
      <3>2. QED
        BY <1>2, <2>1, <3>1
    <2>2. CASE i # cursor
      BY <1>1, <1>2, <2>2 DEF HeapOrder, InOrder
    <2>3. QED
      BY <2>1, <2>2
  <1>4. HeapOrder'
    BY <1>2, <1>3 DEF HeapOrder, InOrder
  <1>5. QED
    BY <1>2, <1>4, SameElements DEF IInv, StopUp

-----------------------------------------------------------------------------
(* The calls of Query2Handler::work.                                       *)

\* insert, for an element whose tag is not in the heap.
LEMMA PutState ==
    ASSUME IInv, mode = "idle", NEW e \in Elements, Put(e),
           \A i \in 1 .. Len(heap) : heap[i].tag # e.tag
    PROVE  /\ heap' \in Seq(Elements)
           /\ Len(heap') = Len(heap) + 1
           /\ heap'[Len(heap) + 1] = e
           /\ \A i \in 1 .. Len(heap) : heap'[i] = heap[i]
           /\ place' \in [Tags -> Nat] /\ mode' = "up" /\ cursor' \in Nat \ {0}
           /\ PlaceExact' /\ HeapOrder'
  <1>1. HeapTypeOK /\ PlaceExact /\ HeapOrder
    BY DEF IInv
  <1>2. heap \in Seq(Elements) /\ place \in [Tags -> Nat] /\ e.tag \in Tags
    BY <1>1 DEF HeapTypeOK, Elements
  <1>3. Len(heap) \in Nat /\ \A i \in 1 .. Len(heap) : heap[i].tag \in Tags
    BY <1>1, HeapTypes
  <1>4. /\ heap' \in Seq(Elements)
        /\ Len(heap') = Len(heap) + 1
        /\ heap'[Len(heap) + 1] = e
        /\ \A i \in 1 .. Len(heap) : heap'[i] = heap[i]
    BY <1>2, AppendSeq DEF Put
  <1>5. /\ place' = [place EXCEPT ![e.tag] = Len(heap) + 1]
        /\ mode' = "up" /\ cursor' = Len(heap) + 1
    BY DEF Put
  <1>6. place' \in [Tags -> Nat] /\ cursor' \in Nat \ {0}
    BY <1>2, <1>3, <1>5
  <1>7. ASSUME NEW i \in 1 .. Len(heap')
        PROVE  place'[heap'[i].tag] = i
    <2>1. CASE i = Len(heap) + 1
      BY <1>2, <1>4, <1>5, <2>1
    <2>2. CASE i # Len(heap) + 1
      <3>1. i \in 1 .. Len(heap)
        BY <1>3, <1>4, <2>2
      <3>2. heap'[i] = heap[i] /\ place[heap[i].tag] = i /\ heap[i].tag # e.tag /\ heap[i].tag \in Tags
        BY <1>1, <1>3, <1>4, <3>1 DEF PlaceExact
      <3>3. QED
        BY <1>2, <1>5, <3>2
    <2>3. QED
      BY <2>1, <2>2
  <1>8. ASSUME NEW i \in 2 .. Len(heap'), i # cursor'
        PROVE  ~ Better(heap'[i], heap'[i \div 2])
    <2>1. i \in 2 .. Len(heap) /\ i \in 1 .. Len(heap) /\ i \in Nat
      BY <1>3, <1>4, <1>5, <1>8
    <2>2. i \div 2 \in 1 .. Len(heap)
      BY <1>3, <2>1, Halves
    <2>3. ~ Better(heap[i], heap[i \div 2])
      BY <1>1, <2>1 DEF HeapOrder, InOrder
    <2>4. QED
      BY <1>4, <2>1, <2>2, <2>3
  <1>9. ASSUME NEW i \in 2 .. Len(heap'), i \div 2 = cursor'
        PROVE  FALSE
    <2>1. i \in Nat /\ i >= 1 /\ i <= Len(heap) + 1
      BY <1>3, <1>4
    <2>2. i \div 2 < i
      BY <2>1, Halves
    <2>3. QED
      BY <1>3, <1>5, <1>9, <2>1, <2>2
  <1>10. cursor' \in 1 .. Len(heap')
    BY <1>3, <1>4, <1>5
  <1>11. HeapOrder'
    BY <1>5, <1>8, <1>9, <1>10 DEF HeapOrder, InOrder, Bridged
  <1>12. PlaceExact'
    BY <1>7 DEF PlaceExact
  <1>13. QED
    BY <1>4, <1>5, <1>6, <1>11, <1>12

\* The tags in the heap and among the elements taken, position by position.
LEMMA HeldTags ==
    ASSUME HeapTypeOK, Parted
    PROVE  /\ \A i \in 1 .. Len(heap) : heap[i].tag \in 1 .. filled
           /\ \A i \in back + 1 .. Len(tmp) : tmp[i].tag \in 1 .. filled
           /\ \A t \in 1 .. filled : \/ \E i \in 1 .. Len(heap) : heap[i].tag = t
                                    \/ \E i \in back + 1 .. Len(tmp) : tmp[i].tag = t
  <1>1. {e.tag : e \in Held} = 1 .. filled
    BY DEF Parted
  <1>2. \A e \in Held : e.tag \in 1 .. filled
    BY <1>1
  <1>3. ASSUME NEW i \in 1 .. Len(heap)
        PROVE  heap[i] \in Held
    BY DEF Held
  <1>4. ASSUME NEW i \in back + 1 .. Len(tmp)
        PROVE  tmp[i] \in Held
    BY DEF Held, Out
  <1>5. ASSUME NEW t \in 1 .. filled
        PROVE  \/ \E i \in 1 .. Len(heap) : heap[i].tag = t
               \/ \E i \in back + 1 .. Len(tmp) : tmp[i].tag = t
    <2>1. PICK e \in Held : e.tag = t
      BY <1>1
    <2>2. QED
      BY <2>1 DEF Held, Out
  <1>6. QED
    BY <1>2, <1>3, <1>4, <1>5

\* And back: what is held has the tags 1 to n.
LEMMA HeldIs ==
    ASSUME NEW n,
           \A i \in 1 .. Len(heap)' : heap'[i].tag \in 1 .. n,
           \A i \in back' + 1 .. Len(tmp)' : tmp'[i].tag \in 1 .. n,
           \A t \in 1 .. n : \/ \E i \in 1 .. Len(heap)' : heap'[i].tag = t
                             \/ \E i \in back' + 1 .. Len(tmp)' : tmp'[i].tag = t
    PROVE  {e.tag : e \in Held'} = 1 .. n
  <1>1. ASSUME NEW e \in Held'
        PROVE  e.tag \in 1 .. n
    BY DEF Held, Out
  <1>2. ASSUME NEW t \in 1 .. n
        PROVE  \E e \in Held' : e.tag = t
    <2>1. CASE \E i \in 1 .. Len(heap)' : heap'[i].tag = t
      BY <2>1 DEF Held
    <2>2. CASE \E i \in back' + 1 .. Len(tmp)' : tmp'[i].tag = t
      BY <2>2 DEF Held, Out
    <2>3. QED
      BY <2>1, <2>2
  <1>3. QED
    BY <1>1, <1>2

\* The loop that inserts every tag with range 0.
LEMMA FillStep ==
    ASSUME IInv, Fill
    PROVE  IInv'
  <1> DEFINE e == [range |-> 0, tag |-> filled + 1]
  <1>1. HeapTypeOK /\ Parted /\ TakenBest
    BY DEF IInv
  <1>2. /\ mode = "idle" /\ filled < NTag /\ Put(e) /\ filled' = filled + 1
        /\ UNCHANGED <<id, want, tmp, back, answer>>
    BY DEF Fill
  <1>3. filled \in Nat /\ Len(heap) \in Nat /\ NTag \in Nat /\ Tags = 1 .. NTag /\ 0 \in 0 .. MaxRange
    BY <1>1, HeapTypes, HeapAssumption
  <1>4. e \in Elements /\ e.tag = filled + 1
    BY <1>2, <1>3 DEF Elements
  <1>5. want = 0 /\ tmp = <<>> /\ Len(tmp) = 0 /\ back = 0
    BY <1>1, <1>2 DEF TakenBest
  <1>6. \A i \in 1 .. Len(heap) : heap[i].tag \in 1 .. filled
    BY <1>1, HeldTags
  <1>7. \A t \in 1 .. filled : \E i \in 1 .. Len(heap) : heap[i].tag = t
    BY <1>1, <1>5, HeldTags
  <1>8. \A i \in 1 .. Len(heap) : heap[i].tag # e.tag
    BY <1>3, <1>4, <1>6
  <1>9. /\ heap' \in Seq(Elements)
        /\ Len(heap') = Len(heap) + 1
        /\ heap'[Len(heap) + 1] = e
        /\ \A i \in 1 .. Len(heap) : heap'[i] = heap[i]
        /\ place' \in [Tags -> Nat] /\ mode' = "up" /\ cursor' \in Nat \ {0}
        /\ PlaceExact' /\ HeapOrder'
    BY <1>2, <1>4, <1>8, PutState
  <1>10. HeapTypeOK'
    <2>1. filled' \in 0 .. NTag
      BY <1>2, <1>3
    <2>2. QED
      BY <1>1, <1>2, <1>9, <2>1 DEF HeapTypeOK
  <1>11. Parted'
    <2>1. ASSUME NEW i \in 1 .. Len(heap)'
          PROVE  heap'[i].tag \in 1 .. filled + 1
      <3>1. CASE i = Len(heap) + 1
        BY <1>3, <1>4, <1>9, <3>1
      <3>2. CASE i # Len(heap) + 1
        <4>1. i \in 1 .. Len(heap)
          BY <1>3, <1>9, <3>2
        <4>2. heap'[i].tag \in 1 .. filled
          BY <1>6, <1>9, <4>1
        <4>3. QED
          BY <1>3, <4>2
      <3>3. QED
        BY <3>1, <3>2
    <2>2. ASSUME NEW t \in 1 .. filled + 1
          PROVE  \E i \in 1 .. Len(heap)' : heap'[i].tag = t
      <3>1. CASE t = filled + 1
        <4>1. Len(heap) + 1 \in 1 .. Len(heap)'
          BY <1>3, <1>9
        <4>2. QED
          BY <1>4, <1>9, <3>1, <4>1
      <3>2. CASE t # filled + 1
        <4>1. t \in 1 .. filled
          BY <1>3, <3>2
        <4>2. PICK i \in 1 .. Len(heap) : heap[i].tag = t
          BY <1>7, <4>1
        <4>3. i \in 1 .. Len(heap)' /\ heap'[i].tag = t
          BY <1>3, <1>9, <4>2
        <4>4. QED
          BY <4>3
      <3>3. QED
        BY <3>1, <3>2
    <2>3. back' + 1 .. Len(tmp)' = {}
      BY <1>2, <1>5
    <2>4. {x.tag : x \in Held'} = 1 .. filled + 1
      BY <2>1, <2>2, <2>3, HeldIs
    <2>5. QED
      BY <1>2, <2>3, <2>4 DEF Parted
  <1>12. TakenBest'
    BY <1>2, <1>5 DEF TakenBest
  <1>13. QED
    BY <1>9, <1>10, <1>11, <1>12 DEF IInv

\* When every tag is inserted and no find_ans runs, place leads to each tag.
LEMMA PlaceFinds ==
    ASSUME HeapTypeOK, PlaceExact, Parted, TakenBest, filled = NTag, want = 0
    PROVE  \A t \in Tags : place[t] \in 1 .. Len(heap) /\ heap[place[t]].tag = t
  <1>1. back = Len(tmp) /\ Len(tmp) \in Nat /\ Tags = 1 .. filled
    BY HeapTypes DEF TakenBest
  <1>2. ASSUME NEW t \in Tags
        PROVE  \E i \in 1 .. Len(heap) : heap[i].tag = t
    <2>1. back + 1 .. Len(tmp) = {}
      BY <1>1
    <2>2. QED
      BY <1>1, <2>1, HeldTags
  <1>3. QED
    BY <1>2 DEF PlaceExact

\* change: the element may have to rise, and its children stay in order.
LEMMA ChangeStep ==
    ASSUME IInv, NEW t \in Tags, NEW r \in 1 .. MaxRange, Change(t, r)
    PROVE  IInv'
  <1> DEFINE c == place[t]
             e == [heap[c] EXCEPT !.range = r]
  <1>1. HeapTypeOK /\ PlaceExact /\ Parted /\ HeapOrder /\ TakenBest
    BY DEF IInv
  <1>2. /\ mode = "idle" /\ filled = NTag /\ want = 0 /\ heap[c].range < r
        /\ heap' = [heap EXCEPT ![c].range = r]
        /\ mode' = "change" /\ cursor' = c /\ id' = t
        /\ UNCHANGED <<place, filled, want, tmp, back, answer>>
    BY DEF Change
  <1>3. c \in 1 .. Len(heap) /\ heap[c].tag = t
    BY <1>1, <1>2, PlaceFinds
  <1>4. Len(heap) \in Nat /\ c \in Nat /\ \A i \in 1 .. Len(heap) : heap[i] \in Elements
    BY <1>1, <1>3, HeapTypes
  <1>5. r \in 0 .. MaxRange /\ heap[c] \in Elements
    BY <1>3, <1>4, HeapAssumption
  <1>6. e \in Elements /\ e.tag = t
    BY <1>3, <1>5 DEF Elements
  <1>7. heap \in Seq(Elements)
    BY <1>1 DEF HeapTypeOK
  <1>8. heap' = [heap EXCEPT ![c] = e]
    BY <1>2
  <1>9. /\ heap' \in Seq(Elements) /\ Len(heap') = Len(heap)
        /\ \A i \in 1 .. Len(heap) : heap'[i] = IF i = c THEN e ELSE heap[i]
    <2> HIDE DEF e, c
    <2>1. QED
      BY <1>3, <1>6, <1>7, <1>8, ExceptSeq
  <1>10. \A i \in 1 .. Len(heap) : heap'[i].tag = heap[i].tag
    BY <1>3, <1>6, <1>9
  <1>11. HeapTypeOK'
    BY <1>1, <1>2, <1>4, <1>3, <1>9 DEF HeapTypeOK
  <1>12. PlaceExact'
    BY <1>1, <1>2, <1>9, <1>10 DEF PlaceExact
  <1>13. Parted'
    <2>1. {x.tag : x \in Held'} = 1 .. filled
      <3>1. \A i \in 1 .. Len(heap)' : heap'[i].tag \in 1 .. filled
        BY <1>1, <1>9, <1>10, HeldTags
      <3>2. \A i \in back' + 1 .. Len(tmp)' : tmp'[i].tag \in 1 .. filled
        BY <1>1, <1>2, HeldTags
      <3>3. \A u \in 1 .. filled : \/ \E i \in 1 .. Len(heap)' : heap'[i].tag = u
                                  \/ \E i \in back' + 1 .. Len(tmp)' : tmp'[i].tag = u
        BY <1>1, <1>2, <1>9, <1>10, HeldTags
      <3>4. QED
        BY <3>1, <3>2, <3>3, HeldIs
    <2>2. QED
      BY <1>1, <1>2, <1>9, <1>10, <2>1 DEF Parted
  <1>14. HeapOrder'
    <2>1. \A i \in 2 .. Len(heap) : ~ Better(heap[i], heap[i \div 2])
      BY <1>1, <1>2 DEF HeapOrder, InOrder
    <2>2. ASSUME NEW i \in 2 .. Len(heap), i # c
          PROVE  ~ Better(heap'[i], heap'[i \div 2])
      <3>1. i \in Nat /\ i \in 1 .. Len(heap) /\ i \div 2 \in 1 .. Len(heap)
        BY <1>4, Halves
      <3>2. heap'[i] = heap[i] /\ heap[i] \in Elements
        BY <1>4, <1>9, <2>2, <3>1
      <3>3. CASE i \div 2 = c
        <4>1. heap'[i \div 2] = e /\ ~ Better(heap[i], heap[c])
          BY <1>9, <2>1, <3>1, <3>3
        <4>2. ~ Better(heap[i], e)
          <5> HIDE DEF c
          <5>1. QED
            BY <1>2, <1>5, <3>2, <4>1, BetterRaised
        <4>3. QED
          BY <3>2, <4>1, <4>2
      <3>4. CASE i \div 2 # c
        BY <1>9, <2>1, <3>1, <3>2, <3>4
      <3>5. QED
        BY <3>3, <3>4
    <2>3. ASSUME NEW i \in 2 .. Len(heap), i \div 2 = c, c > 1
          PROVE  ~ Better(heap'[i], heap'[c \div 2])
      <3>1. /\ i \in Nat /\ i \in 1 .. Len(heap) /\ i # c /\ c \in 2 .. Len(heap)
            /\ c \div 2 \in 1 .. Len(heap) /\ c \div 2 # c
        BY <1>3, <1>4, <2>3, Halves
      <3>2. heap'[i] = heap[i] /\ heap'[c \div 2] = heap[c \div 2]
        BY <1>9, <3>1
      <3>3. ~ Better(heap[i], heap[c]) /\ ~ Better(heap[c], heap[c \div 2])
        BY <2>1, <2>3, <3>1
      <3>4. heap[i] \in Elements /\ heap[c \div 2] \in Elements
        BY <1>4, <3>1
      <3>5. ~ Better(heap[i], heap[c \div 2])
        BY <1>5, <3>3, <3>4, BetterOrder
      <3>6. QED
        BY <3>2, <3>5
    <2>4. heap'[c].tag = t
      BY <1>3, <1>10
    <2>5. QED
      <3> HIDE DEF c
      <3>1. QED
        BY <1>2, <1>3, <1>9, <2>2, <2>3, <2>4 DEF HeapOrder, InOrder, Bridged
  <1>15. TakenBest'
    BY <1>1, <1>2 DEF TakenBest
  <1>16. QED
    BY <1>11, <1>12, <1>13, <1>14, <1>15 DEF IInv

-----------------------------------------------------------------------------
(* find_ans.                                                               *)

\* find_ans begins with nothing taken.
LEMMA AskStep ==
    ASSUME IInv, NEW k \in Tags, Ask(k)
    PROVE  IInv'
  <1>1. HeapTypeOK /\ PlaceExact /\ Parted /\ HeapOrder /\ TakenBest
    BY DEF IInv
  <1>2. /\ mode = "idle" /\ filled = NTag /\ want = 0 /\ want' = k /\ tmp' = <<>> /\ back' = 0
        /\ UNCHANGED <<heap, place, mode, cursor, id, filled, answer>>
    BY DEF Ask
  <1>3. k \in 1 .. NTag /\ NTag \in Nat /\ back = Len(tmp) /\ Len(tmp) \in Nat
    BY <1>1, <1>2, HeapTypes DEF TakenBest, Tags
  <1>4. tmp' \in Seq(Elements) /\ Len(tmp') = 0
    BY <1>2
  <1>5. HeapTypeOK'
    BY <1>1, <1>2, <1>3, <1>4 DEF HeapTypeOK
  <1>6. Out = {} /\ Out' = {} /\ 1 .. Len(tmp') = {} /\ back' + 1 .. Len(tmp') = {}
    BY <1>2, <1>3, <1>4 DEF Out
  <1>7. Held' = Held
    BY <1>2, <1>6 DEF Held
  <1>8. Parted'
    BY <1>1, <1>2, <1>6, <1>7 DEF Parted
  <1>9. TakenBest'
    BY <1>2, <1>3, <1>4, <1>6 DEF TakenBest
  <1>10. HeapOrder' /\ PlaceExact'
    BY <1>1, <1>2 DEF HeapOrder, PlaceExact, InOrder, Bridged
  <1>11. QED
    BY <1>5, <1>8, <1>9, <1>10 DEF IInv

\* find_ans ends when all it took is back.
LEMMA ReturnStep ==
    ASSUME IInv, Return
    PROVE  IInv'
  <1>1. HeapTypeOK /\ PlaceExact /\ Parted /\ HeapOrder /\ TakenBest
    BY DEF IInv
  <1>2. /\ mode = "idle" /\ want > 0 /\ back = want /\ want' = 0
        /\ answer' = [i \in 1 .. want |-> tmp[i].tag]
        /\ UNCHANGED <<heap, place, mode, cursor, id, filled, tmp, back>>
    BY DEF Return
  <1>3. Len(tmp) = want /\ filled = NTag /\ want \in Nat /\ NTag \in Nat
    BY <1>1, <1>2, HeapTypes DEF TakenBest
  <1>4. answer' \in Seq(Tags)
    <2>1. \A i \in 1 .. want : tmp[i].tag \in Tags
      BY <1>1, <1>3, HeapTypes
    <2>2. QED
      BY <1>2, <1>3, <2>1
  <1>5. HeapTypeOK'
    BY <1>1, <1>2, <1>3, <1>4 DEF HeapTypeOK
  <1>6. PlaceExact' /\ HeapOrder'
    BY <1>1, <1>2 DEF PlaceExact, HeapOrder, InOrder, Bridged
  <1>7. Parted'
    BY <1>1, <1>2 DEF Parted, Held, Out
  <1>8. TakenBest'
    BY <1>2, <1>3 DEF TakenBest
  <1>9. QED
    BY <1>5, <1>6, <1>7, <1>8 DEF IInv

\* A set of naturals that is not empty has a least member.
LEMMA LeastNat ==
    ASSUME NEW T, T \subseteq Nat, T # {}
    PROVE  \E x \in T : \A y \in T : ~ (y < x)
  <1>1. \E x \in T : \A y \in T : ~ (<<y, x>> \in OpToRel(<, Nat))
    BY NatLessThanWellFounded, WFMin, Zenon
  <1>2. \A x, y \in Nat : y < x => <<y, x>> \in OpToRel(<, Nat)
    BY Zenon DEF OpToRel
  <1>3. QED
    BY <1>1, <1>2, Zenon

\* No element of a heap in order is better than its root.
LEMMA RootBest ==
    ASSUME HeapTypeOK, HeapOrder, mode = "idle"
    PROVE  \A i \in 1 .. Len(heap) : ~ Better(heap[i], heap[1])
  <1> DEFINE T == {i \in 1 .. Len(heap) : Better(heap[i], heap[1])}
  <1>1. Len(heap) \in Nat /\ \A i \in 1 .. Len(heap) : heap[i] \in Elements
    BY HeapTypes
  <1>2. T \subseteq Nat
    BY <1>1
  <1>3. ASSUME T # {}
        PROVE  FALSE
    <2>1. PICK x \in T : \A y \in T : ~ (y < x)
      <3> HIDE DEF T
      <3>1. QED
        BY <1>2, <1>3, LeastNat
    <2>2. x \in 1 .. Len(heap) /\ x \in Nat /\ Better(heap[x], heap[1])
      BY <1>1
    <2>3. CASE x = 1
      BY <1>1, <2>2, <2>3, BetterOrder
    <2>4. CASE x # 1
      <3>1. x \in 2 .. Len(heap) /\ x \div 2 \in 1 .. Len(heap) /\ x \div 2 < x
        BY <1>1, <2>2, <2>4, Halves
      <3>2. ~ Better(heap[x], heap[x \div 2])
        BY <3>1 DEF HeapOrder, InOrder
      <3>3. ~ Better(heap[x \div 2], heap[1])
        BY <2>1, <3>1
      <3>4. 1 \in 1 .. Len(heap)
        BY <1>1, <2>2
      <3>5. QED
        BY <1>1, <2>2, <3>1, <3>2, <3>3, <3>4, BetterOrder
    <2>5. QED
      BY <2>3, <2>4
  <1>4. QED
    BY <1>3

\* While find_ans still takes elements, there are some in the heap.
LEMMA HeapNotEmpty ==
    ASSUME HeapTypeOK, Parted, TakenBest, Len(tmp) < want
    PROVE  Len(heap) >= 1
  <1>1. /\ Len(heap) \in Nat /\ Len(tmp) \in Nat /\ NTag \in Nat /\ want \in 0 .. NTag
        /\ back = 0 /\ filled = NTag
    BY HeapTypes DEF TakenBest, HeapTypeOK
  <1>2. ASSUME Len(heap) = 0
        PROVE  FALSE
    <2> DEFINE seat == [t \in 1 .. NTag |-> CHOOSE i \in 1 .. Len(tmp) : tmp[i].tag = t]
    <2>1. \A t \in 1 .. NTag : \E i \in 1 .. Len(tmp) : tmp[i].tag = t
      BY <1>1, <1>2, HeldTags
    <2>2. \A t \in 1 .. NTag : seat[t] \in 1 .. Len(tmp) /\ tmp[seat[t]].tag = t
      BY <2>1
    <2>3. seat \in [1 .. NTag -> 1 .. Len(tmp)]
      BY <2>2
    <2>4. /\ IsFiniteSet(1 .. NTag) /\ IsFiniteSet(1 .. Len(tmp))
          /\ Cardinality(1 .. Len(tmp)) < Cardinality(1 .. NTag)
      <3>1. \A n \in Nat : IsFiniteSet(1 .. n) /\ Cardinality(1 .. n) = n
        <4>1. \A n \in Nat : IsFiniteSet(1 .. n) /\ Cardinality(1 .. n) = IF 1 > n THEN 0 ELSE n - 1 + 1
          BY FS_Interval
        <4>2. QED
          BY <4>1
      <3>2. QED
        BY <1>1, <3>1
    <2>5. PICK t \in 1 .. NTag, u \in 1 .. NTag : t # u /\ seat[t] = seat[u]
      <3> HIDE DEF seat
      <3>1. QED
        BY <2>3, <2>4, FS_PigeonHole
    <2>6. QED
      <3> HIDE DEF seat
      <3>1. QED
        BY <2>2, <2>5
  <1>3. QED
    BY <1>1, <1>2

\* What get does: the root goes to tmp, the last element takes its place.
LEMMA GetState ==
    ASSUME IInv, Get
    PROVE  /\ Len(heap) \in Nat /\ Len(heap) >= 1 /\ Len(tmp) \in Nat /\ Len(tmp) < want
           /\ back = 0 /\ filled = NTag
           /\ heap' \in Seq(Elements) /\ Len(heap') = Len(heap) - 1
           /\ Len(heap) >= 2 => heap'[1] = heap[Len(heap)]
           /\ \A i \in 2 .. Len(heap) - 1 : heap'[i] = heap[i]
           /\ tmp' \in Seq(Elements) /\ Len(tmp') = Len(tmp) + 1
           /\ tmp'[Len(tmp) + 1] = heap[1]
           /\ \A i \in 1 .. Len(tmp) : tmp'[i] = tmp[i]
  <1> DEFINE n == Len(heap)
             u == [heap EXCEPT ![1] = heap[n]]
  <1>1. HeapTypeOK /\ Parted /\ TakenBest /\ Len(tmp) < want
    BY DEF IInv, Get
  <1>2. n \in Nat /\ n >= 1 /\ Len(tmp) \in Nat /\ 1 \in 1 .. n /\ n \in 1 .. n
    BY <1>1, HeapTypes, HeapNotEmpty
  <1>3. back = 0 /\ filled = NTag
    BY <1>1, HeapTypes DEF TakenBest
  <1>4. heap \in Seq(Elements) /\ tmp \in Seq(Elements) /\ heap[1] \in Elements /\ heap[n] \in Elements
    BY <1>1, <1>2, HeapTypes DEF HeapTypeOK
  <1>5. u \in Seq(Elements) /\ Len(u) = n /\ \A i \in 1 .. n : u[i] = IF i = 1 THEN heap[n] ELSE heap[i]
    BY <1>2, <1>4, ExceptSeq
  <1>6. heap' = SubSeq(u, 1, n - 1) /\ tmp' = Append(tmp, heap[1])
    BY DEF Get
  <1>7. \A i \in 1 .. n - 1 : u[i] \in Elements
    <2> HIDE DEF u
    <2>1. \A i \in 1 .. n : u[i] \in Elements
      BY <1>5, ElementOfSeq
    <2>2. QED
      BY <1>2, <2>1
  <1>8. /\ heap' \in Seq(Elements)
        /\ Len(heap') = IF 1 <= n - 1 THEN (n - 1) - 1 + 1 ELSE 0
        /\ \A i \in 1 .. (n - 1) - 1 + 1 : heap'[i] = u[1 + i - 1]
    <2> HIDE DEF u
    <2>1. 1 \in Int /\ n - 1 \in Int
      BY <1>2
    <2>2. QED
      BY <1>6, <1>7, <2>1, SubSeqProperties
  <1>9. Len(heap') = n - 1 /\ \A i \in 1 .. n - 1 : heap'[i] = u[i]
    <2> HIDE DEF u, n
    <2>1. Len(heap') = n - 1
      BY <1>2, <1>8
    <2>2. ASSUME NEW i \in 1 .. n - 1
          PROVE  heap'[i] = u[i]
      <3>1. i \in 1 .. (n - 1) - 1 + 1 /\ 1 + i - 1 = i
        BY <1>2
      <3>2. heap'[i] = u[1 + i - 1]
        BY <1>8, <3>1
      <3>3. QED
        BY <3>1, <3>2
    <2>3. QED
      BY <2>1, <2>2
  <1>10. n >= 2 => heap'[1] = heap[n]
    <2> HIDE DEF u
    <2>1. QED
      BY <1>2, <1>5, <1>9
  <1>11. \A i \in 2 .. n - 1 : heap'[i] = heap[i]
    <2> HIDE DEF u
    <2>1. QED
      BY <1>2, <1>5, <1>9
  <1>12. /\ tmp' \in Seq(Elements) /\ Len(tmp') = Len(tmp) + 1
         /\ tmp'[Len(tmp) + 1] = heap[1]
         /\ \A i \in 1 .. Len(tmp) : tmp'[i] = tmp[i]
    BY <1>4, <1>6, AppendSeq
  <1>13. QED
    BY <1>1, <1>2, <1>3, <1>8, <1>9, <1>10, <1>11, <1>12

\* get: the best element is taken, and what replaces the root may have to sink.
LEMMA GetStep ==
    ASSUME IInv, Get
    PROVE  IInv'
  <1> DEFINE n == Len(heap)
  <1>1. HeapTypeOK /\ PlaceExact /\ Parted /\ HeapOrder /\ TakenBest
    BY DEF IInv
  <1>2. /\ n \in Nat /\ n >= 1 /\ Len(tmp) \in Nat /\ Len(tmp) < want
        /\ back = 0 /\ filled = NTag
        /\ heap' \in Seq(Elements) /\ Len(heap') = n - 1
        /\ n >= 2 => heap'[1] = heap[n]
        /\ \A i \in 2 .. n - 1 : heap'[i] = heap[i]
        /\ tmp' \in Seq(Elements) /\ Len(tmp') = Len(tmp) + 1
        /\ tmp'[Len(tmp) + 1] = heap[1]
        /\ \A i \in 1 .. Len(tmp) : tmp'[i] = tmp[i]
    BY GetState
  <1>3. /\ mode = "idle" /\ mode' = "down" /\ cursor' = 1
        /\ place' = [place EXCEPT ![heap[n].tag] = 1]
        /\ UNCHANGED <<id, filled, want, back, answer>>
    BY DEF Get
  <1>4. \A i \in 1 .. n : heap[i] \in Elements /\ heap[i].tag \in Tags /\ place[heap[i].tag] = i
    BY <1>1, HeapTypes DEF PlaceExact
  <1>5. place \in [Tags -> Nat] /\ want \in 0 .. NTag /\ NTag \in Nat
    BY <1>1, HeapTypes DEF HeapTypeOK
  <1>6. ASSUME NEW i \in 1 .. n - 1
        PROVE  \E j \in 2 .. n : heap'[i] = heap[j] /\ (i = 1 => j = n) /\ (i # 1 => j = i)
    <2>1. CASE i = 1
      BY <1>2, <2>1
    <2>2. CASE i # 1
      BY <1>2, <2>2
    <2>3. QED
      BY <2>1, <2>2
  <1>7. HeapTypeOK'
    <2>1. place' \in [Tags -> Nat]
      BY <1>2, <1>3, <1>4, <1>5
    <2>2. back' \in 0 .. Len(tmp')
      BY <1>2, <1>3
    <2>3. QED
      BY <1>1, <1>2, <1>3, <2>1, <2>2 DEF HeapTypeOK
  <1>8. PlaceExact'
    <2>1. ASSUME NEW i \in 1 .. n - 1
          PROVE  place'[heap'[i].tag] = i
      <3>1. PICK j \in 2 .. n : heap'[i] = heap[j] /\ (i = 1 => j = n) /\ (i # 1 => j = i)
        BY <1>6
      <3>2. j \in 1 .. n /\ n \in 1 .. n
        BY <1>2, <3>1
      <3>3. CASE j = n
        <4>1. i = 1
          BY <1>2, <3>1, <3>3
        <4>2. QED
          BY <1>3, <1>4, <1>5, <3>1, <3>2, <3>3, <4>1
      <3>4. CASE j # n
        <4>1. i # 1 /\ j = i /\ heap[j].tag # heap[n].tag
          BY <1>4, <3>1, <3>2, <3>4
        <4>2. QED
          BY <1>3, <1>4, <1>5, <3>1, <3>2, <4>1
      <3>5. QED
        BY <3>3, <3>4
    <2>2. QED
      BY <1>2, <2>1 DEF PlaceExact
  <1>9. \A i \in 1 .. Len(tmp) : \A j \in 1 .. n : heap[j].tag # tmp[i].tag
    BY <1>1, <1>2 DEF Parted
  <1>10. Parted'
    <2>1. ASSUME NEW i \in 1 .. Len(heap)'
          PROVE  heap'[i].tag \in 1 .. NTag
      <3>1. PICK j \in 2 .. n : heap'[i] = heap[j]
        BY <1>2, <1>6
      <3>2. QED
        BY <1>2, <1>4, <3>1 DEF Tags
    <2>2. ASSUME NEW i \in back' + 1 .. Len(tmp)'
          PROVE  tmp'[i].tag \in 1 .. NTag
      <3>1. CASE i = Len(tmp) + 1
        BY <1>2, <1>4, <3>1 DEF Tags
      <3>2. CASE i # Len(tmp) + 1
        <4>1. i \in 1 .. Len(tmp)
          BY <1>2, <1>3, <3>2
        <4>2. QED
          BY <1>1, <1>2, <4>1, HeapTypes
      <3>3. QED
        BY <3>1, <3>2
    <2>3. ASSUME NEW t \in 1 .. NTag
          PROVE  \/ \E i \in 1 .. Len(heap)' : heap'[i].tag = t
                 \/ \E i \in back' + 1 .. Len(tmp)' : tmp'[i].tag = t
      <3>1. CASE \E i \in 1 .. n : heap[i].tag = t
        <4>1. PICK i \in 1 .. n : heap[i].tag = t
          BY <3>1
        <4>2. CASE i = 1
          <5>1. Len(tmp) + 1 \in back' + 1 .. Len(tmp)'
            BY <1>2, <1>3
          <5>2. QED
            BY <1>2, <4>1, <4>2, <5>1
        <4>3. CASE i # 1 /\ i = n
          <5>1. 1 \in 1 .. Len(heap)' /\ heap'[1] = heap[n]
            BY <1>2, <4>3
          <5>2. QED
            BY <4>1, <4>3, <5>1
        <4>4. CASE i # 1 /\ i # n
          <5>1. i \in 1 .. Len(heap)' /\ heap'[i] = heap[i]
            BY <1>2, <4>4
          <5>2. QED
            BY <4>1, <5>1
        <4>5. QED
          BY <4>2, <4>3, <4>4
      <3>2. CASE \E i \in back + 1 .. Len(tmp) : tmp[i].tag = t
        <4>1. PICK i \in back + 1 .. Len(tmp) : tmp[i].tag = t
          BY <3>2
        <4>2. i \in back' + 1 .. Len(tmp)' /\ tmp'[i] = tmp[i]
          BY <1>2, <1>3
        <4>3. QED
          BY <4>1, <4>2
      <3>3. QED
        BY <1>1, <1>2, <3>1, <3>2, HeldTags
    <2>4. {x.tag : x \in Held'} = 1 .. filled'
      BY <1>2, <1>3, <2>1, <2>2, <2>3, HeldIs
    <2>5. ASSUME NEW i \in 1 .. Len(heap)', NEW j \in back' + 1 .. Len(tmp)'
          PROVE  heap'[i].tag # tmp'[j].tag
      <3>1. PICK m \in 2 .. n : heap'[i] = heap[m]
        BY <1>2, <1>6
      <3>2. m \in 1 .. n /\ 1 \in 1 .. n /\ m # 1
        BY <1>2, <3>1
      <3>3. CASE j = Len(tmp) + 1
        BY <1>2, <1>4, <3>1, <3>2, <3>3
      <3>4. CASE j # Len(tmp) + 1
        <4>1. j \in 1 .. Len(tmp)
          BY <1>2, <1>3, <3>4
        <4>2. QED
          BY <1>2, <1>9, <3>1, <3>2, <4>1
      <3>5. QED
        BY <3>3, <3>4
    <2>6. QED
      BY <2>4, <2>5 DEF Parted
  <1>11. HeapOrder'
    <2>1. ASSUME NEW i \in 2 .. Len(heap)', i \div 2 # 1
          PROVE  ~ Better(heap'[i], heap'[i \div 2])
      <3>1. i \in 2 .. n - 1 /\ i \in Nat /\ i >= 2 /\ i <= n - 1 /\ i \in 2 .. n
        BY <1>2
      <3>2. i \div 2 \in Nat /\ i \div 2 < i /\ i \div 2 >= 1
        BY <3>1, Halves
      <3>3. i \div 2 \in 2 .. n - 1
        BY <1>2, <2>1, <3>1, <3>2
      <3>4. ~ Better(heap[i], heap[i \div 2])
        BY <1>1, <1>3, <3>1 DEF HeapOrder, InOrder
      <3>5. QED
        BY <1>2, <3>1, <3>3, <3>4
    <2>2. QED
      BY <1>3, <2>1 DEF HeapOrder, InOrder, Bridged
  <1>12. TakenBest'
    <2>1. \A i \in 1 .. n : ~ Better(heap[i], heap[1])
      BY <1>1, <1>3, RootBest
    <2>2. want > 0 /\ 1 \in 1 .. n /\ 1 .. back = {}
      BY <1>2, <1>5
    <2>3. \A i \in 1 .. Len(tmp), j \in 1 .. n : ~ Better(heap[j], tmp[i])
      BY <1>1, <2>2 DEF TakenBest
    <2>4. \A i, j \in 1 .. Len(tmp) : i < j => tmp[i].tag # tmp[j].tag /\ ~ Better(tmp[j], tmp[i])
      BY <1>1, <2>2 DEF TakenBest
    <2>5. ASSUME NEW i \in 1 .. Len(tmp'), NEW j \in 1 .. Len(tmp'), i < j
          PROVE  tmp'[i].tag # tmp'[j].tag /\ ~ Better(tmp'[j], tmp'[i])
      <3>1. i \in 1 .. Len(tmp)
        BY <1>2, <2>5
      <3>2. CASE j = Len(tmp) + 1
        BY <1>2, <1>9, <2>3, <2>2, <3>1, <3>2
      <3>3. CASE j # Len(tmp) + 1
        <4>1. j \in 1 .. Len(tmp)
          BY <1>2, <3>3
        <4>2. QED
          BY <1>2, <2>4, <2>5, <3>1, <4>1
      <3>4. QED
        BY <3>2, <3>3
    <2>6. ASSUME NEW i \in 1 .. Len(tmp'), NEW j \in 1 .. Len(heap')
          PROVE  ~ Better(heap'[j], tmp'[i])
      <3>1. PICK m \in 2 .. n : heap'[j] = heap[m]
        BY <1>2, <1>6
      <3>2. m \in 1 .. n
        BY <1>2, <3>1
      <3>3. CASE i = Len(tmp) + 1
        BY <1>2, <2>1, <3>1, <3>2, <3>3
      <3>4. CASE i # Len(tmp) + 1
        <4>1. i \in 1 .. Len(tmp)
          BY <1>2, <3>4
        <4>2. QED
          BY <1>2, <2>3, <3>1, <3>2, <4>1
      <3>5. QED
        BY <3>3, <3>4
    <2>7. want' = want /\ back' = 0 /\ filled' = NTag /\ Len(tmp') <= want /\ 1 .. back' = {}
      BY <1>2, <1>3, <1>5
    <2>8. QED
      BY <1>5, <2>2, <2>5, <2>6, <2>7 DEF TakenBest
  <1>13. QED
    BY <1>7, <1>8, <1>10, <1>11, <1>12 DEF IInv

\* An element taken is inserted again, the best one first.
LEMMA PutBackStep ==
    ASSUME IInv, PutBack
    PROVE  IInv'
  <1> DEFINE n == Len(heap)
             e == tmp[back + 1]
  <1>1. HeapTypeOK /\ PlaceExact /\ Parted /\ TakenBest
    BY DEF IInv
  <1>2. /\ mode = "idle" /\ want > 0 /\ Len(tmp) = want /\ back < want /\ Put(e) /\ back' = back + 1
        /\ UNCHANGED <<id, filled, want, tmp, answer>>
    BY DEF PutBack
  <1>3. n \in Nat /\ want \in Nat /\ back \in Nat /\ NTag \in Nat
    BY <1>1, HeapTypes
  <1>4. back + 1 \in 1 .. Len(tmp) /\ back + 1 \in back + 1 .. Len(tmp) /\ filled = NTag
    BY <1>1, <1>2, <1>3 DEF TakenBest
  <1>5. e \in Elements /\ e.tag \in 1 .. NTag
    <2> HIDE DEF e
    <2>1. e = tmp[back + 1]
      BY DEF e
    <2>2. QED
      BY <1>1, <1>4, <2>1, HeapTypes
  <1>6. \A i \in 1 .. n : heap[i].tag # e.tag
    BY <1>1, <1>4 DEF Parted
  <1>7. /\ heap' \in Seq(Elements)
        /\ Len(heap') = n + 1
        /\ heap'[n + 1] = e
        /\ \A i \in 1 .. n : heap'[i] = heap[i]
        /\ place' \in [Tags -> Nat] /\ mode' = "up" /\ cursor' \in Nat \ {0}
        /\ PlaceExact' /\ HeapOrder'
    <2> HIDE DEF e
    <2>1. QED
      BY <1>2, <1>5, <1>6, PutState
  <1>8. HeapTypeOK'
    <2>1. back' \in 0 .. Len(tmp')
      BY <1>2, <1>3
    <2>2. QED
      BY <1>1, <1>2, <1>7, <2>1 DEF HeapTypeOK
  <1>9. \A i, j \in 1 .. Len(tmp) : i < j => tmp[i].tag # tmp[j].tag /\ ~ Better(tmp[j], tmp[i])
    BY <1>1, <1>2 DEF TakenBest
  <1>10. ASSUME NEW i \in 1 .. n + 1
         PROVE  (i \in 1 .. n /\ heap'[i] = heap[i]) \/ (i = n + 1 /\ heap'[i] = e)
    BY <1>3, <1>7
  <1>11. Parted'
    <2>1. ASSUME NEW i \in 1 .. Len(heap)'
          PROVE  heap'[i].tag \in 1 .. filled'
      BY <1>1, <1>2, <1>4, <1>5, <1>7, <1>10, HeldTags
    <2>2. ASSUME NEW i \in back' + 1 .. Len(tmp)'
          PROVE  i \in back + 1 .. Len(tmp) /\ tmp'[i].tag \in 1 .. filled'
      <3>1. i \in back + 1 .. Len(tmp)
        BY <1>2, <1>3
      <3>2. QED
        BY <1>1, <1>2, <3>1, HeldTags
    <2>3. ASSUME NEW t \in 1 .. filled'
          PROVE  \/ \E i \in 1 .. Len(heap)' : heap'[i].tag = t
                 \/ \E i \in back' + 1 .. Len(tmp)' : tmp'[i].tag = t
      <3>1. CASE \E i \in 1 .. n : heap[i].tag = t
        <4>1. PICK i \in 1 .. n : heap[i].tag = t
          BY <3>1
        <4>2. i \in 1 .. Len(heap)'
          BY <1>3, <1>7
        <4>3. QED
          BY <1>7, <4>1, <4>2
      <3>2. CASE \E i \in back + 1 .. Len(tmp) : tmp[i].tag = t
        <4>1. PICK i \in back + 1 .. Len(tmp) : tmp[i].tag = t
          BY <3>2
        <4>2. CASE i = back + 1
          <5>1. n + 1 \in 1 .. Len(heap)'
            BY <1>3, <1>7
          <5>2. QED
            BY <1>7, <4>1, <4>2, <5>1
        <4>3. CASE i # back + 1
          <5>1. i \in back' + 1 .. Len(tmp)'
            BY <1>2, <1>3, <4>3
          <5>2. QED
            BY <1>2, <4>1, <5>1
        <4>4. QED
          BY <4>2, <4>3
      <3>3. QED
        BY <1>1, <1>2, <3>1, <3>2, HeldTags
    <2>4. {x.tag : x \in Held'} = 1 .. filled'
      BY <2>1, <2>2, <2>3, HeldIs
    <2>5. ASSUME NEW i \in 1 .. Len(heap)', NEW j \in back' + 1 .. Len(tmp)'
          PROVE  heap'[i].tag # tmp'[j].tag
      <3>1. j \in 1 .. Len(tmp) /\ back + 1 < j /\ j \in back + 1 .. Len(tmp)
        BY <1>2, <1>3
      <3>2. e.tag # tmp[j].tag
        BY <1>4, <1>9, <3>1
      <3>3. i \in 1 .. n => heap[i].tag # tmp[j].tag
        BY <1>1, <3>1 DEF Parted
      <3>4. QED
        BY <1>2, <1>7, <1>10, <3>2, <3>3
    <2>6. QED
      BY <2>4, <2>5 DEF Parted
  <1>12. TakenBest'
    <2>1. ASSUME NEW m \in 1 .. back + 1
          PROVE  \E j \in 1 .. n + 1 : heap'[j] = tmp[m]
      <3>1. CASE m = back + 1
        <4>1. n + 1 \in 1 .. n + 1
          BY <1>3
        <4>2. QED
          BY <1>7, <3>1, <4>1
      <3>2. CASE m # back + 1
        <4>1. m \in 1 .. back
          BY <1>3, <3>2
        <4>2. PICK j \in 1 .. n : heap[j] = tmp[m]
          BY <1>1, <1>2, <4>1 DEF TakenBest
        <4>3. j \in 1 .. n + 1
          BY <1>3
        <4>4. QED
          BY <1>7, <4>2, <4>3
      <3>3. QED
        BY <3>1, <3>2
    <2>2. ASSUME NEW i \in 1 .. Len(tmp), NEW j \in 1 .. n + 1,
                 \A m \in 1 .. back + 1 : heap'[j] # tmp[m]
          PROVE  ~ Better(heap'[j], tmp[i])
      <3>1. back + 1 \in 1 .. back + 1 /\ \A m \in 1 .. back : m \in 1 .. back + 1
        BY <1>3
      <3>2. j # n + 1
        BY <1>7, <2>2, <3>1
      <3>3. j \in 1 .. n /\ heap'[j] = heap[j]
        BY <1>10, <3>2
      <3>4. \A m \in 1 .. back : heap[j] # tmp[m]
        BY <2>2, <3>1, <3>3
      <3>5. ~ Better(heap[j], tmp[i])
        BY <1>1, <1>2, <3>3, <3>4 DEF TakenBest
      <3>6. QED
        BY <3>3, <3>5
    <2>3. want' = want /\ tmp' = tmp /\ back' = back + 1 /\ filled' = NTag /\ Len(heap') = n + 1
      BY <1>2, <1>4, <1>7
    <2>4. /\ \A i, j \in 1 .. Len(tmp') :
                i < j => tmp'[i].tag # tmp'[j].tag /\ ~ Better(tmp'[j], tmp'[i])
          /\ \A m \in 1 .. back' : \E j \in 1 .. Len(heap') : heap'[j] = tmp'[m]
          /\ \A i \in 1 .. Len(tmp'), j \in 1 .. Len(heap') :
                (\A m \in 1 .. back' : heap'[j] # tmp'[m]) => ~ Better(heap'[j], tmp'[i])
      BY <1>9, <2>1, <2>2, <2>3, Zenon
    <2>5. /\ want' = 0 => back' = Len(tmp')
          /\ Len(tmp') < want' => back' = 0
          /\ want' > 0 => filled' = NTag /\ Len(tmp') <= want'
          /\ filled' < NTag => want' = 0 /\ tmp' = <<>>
      BY <1>2, <1>3, <2>3
    <2>6. QED
      BY <2>4, <2>5 DEF TakenBest
  <1>13. QED
    BY <1>7, <1>8, <1>11, <1>12 DEF IInv

-----------------------------------------------------------------------------
(* The invariant.                                                          *)

\* The empty heap satisfies the invariant.
LEMMA IInvInit == HeapInit => IInv
  <1> SUFFICES ASSUME HeapInit PROVE IInv
    OBVIOUS
  <1>1. /\ heap = <<>> /\ tmp = <<>> /\ Len(heap) = 0 /\ Len(tmp) = 0 /\ back = 0 /\ filled = 0 /\ want = 0
        /\ place = [t \in Tags |-> 0] /\ mode = "idle" /\ cursor = 1 /\ id = 1 /\ answer = <<>>
    BY DEF HeapInit
  <1>2. NTag \in Nat \ {0} /\ 1 \in Tags
    BY HeapAssumption DEF Tags
  <1>3. HeapTypeOK
    BY <1>1, <1>2 DEF HeapTypeOK
  <1>4. 1 .. Len(heap) = {} /\ 2 .. Len(heap) = {} /\ back + 1 .. Len(tmp) = {} /\ 1 .. filled = {}
    BY <1>1
  <1>5. Held = {}
    BY <1>4 DEF Held, Out
  <1>6. Parted
    BY <1>4, <1>5 DEF Parted
  <1>7. PlaceExact /\ HeapOrder /\ TakenBest
    <2>1. PlaceExact
      BY <1>4 DEF PlaceExact
    <2>2. HeapOrder
      BY <1>1, <1>4 DEF HeapOrder
    <2>3. TakenBest
      BY <1>1, <1>2 DEF TakenBest
    <2>4. QED
      BY <2>1, <2>2, <2>3
  <1>8. QED
    BY <1>3, <1>6, <1>7 DEF IInv

\* Every step keeps the invariant.
LEMMA IInvNext == IInv /\ [HeapNext]_heapVars => IInv'
  <1> SUFFICES ASSUME IInv, [HeapNext]_heapVars PROVE IInv'
    OBVIOUS
  <1>1. CASE MoveDown
    BY <1>1, MoveDownStep
  <1>2. CASE StopDown
    BY <1>2, StopDownStep
  <1>3. CASE MoveUp
    BY <1>3, MoveUpStep
  <1>4. CASE StopUp
    BY <1>4, StopUpStep
  <1>5. CASE Fill
    BY <1>5, FillStep
  <1>6. CASE Get
    BY <1>6, GetStep
  <1>7. CASE PutBack
    BY <1>7, PutBackStep
  <1>8. CASE Return
    BY <1>8, ReturnStep
  <1>9. ASSUME NEW t \in Tags, NEW r \in 1 .. MaxRange, Change(t, r)
        PROVE  IInv'
    BY <1>9, ChangeStep
  <1>10. ASSUME NEW k \in Tags, Ask(k)
         PROVE  IInv'
    BY <1>10, AskStep
  <1>11. CASE UNCHANGED heapVars
    <2>1. /\ UNCHANGED <<heap, place, id, filled, want, tmp, back, answer>>
          /\ mode' = mode /\ cursor' = cursor
      BY <1>11 DEF heapVars
    <2>2. mode' \in {"idle", "up", "down", "change"} /\ cursor' \in Nat \ {0}
      BY <2>1 DEF IInv, HeapTypeOK
    <2>3. HeapOrder'
      BY <2>1 DEF IInv, HeapOrder, InOrder, Bridged
    <2>4. QED
      BY <2>1, <2>2, <2>3, SameElements DEF IInv
  <1>12. QED
    BY <1>1, <1>2, <1>3, <1>4, <1>5, <1>6, <1>7, <1>8, <1>9, <1>10, <1>11 DEF HeapNext

\* The back pointers are exact and the heap is in order but for the element
\* that moves, whatever sequence of insert, change and find_ans is called.
THEOREM HeapInductive == HeapSpec => []IInv
  BY IInvInit, IInvNext, PTL DEF HeapSpec

-----------------------------------------------------------------------------
(* The heap implements TagRanking.                                         *)

\* No two elements held have one tag.
LEMMA HeldUnique ==
    ASSUME IInv
    PROVE  \A d, e \in Held : d.tag = e.tag => d = e
  <1>1. HeapTypeOK /\ PlaceExact /\ Parted /\ TakenBest
    BY DEF IInv
  <1>2. Len(tmp) \in Nat /\ back \in Nat /\ back <= Len(tmp) /\ want \in Nat
    BY <1>1, HeapTypes
  <1>3. \A i, j \in 1 .. Len(heap) : heap[i].tag = heap[j].tag => i = j
    BY <1>1 DEF PlaceExact
  <1>4. \A i, j \in back + 1 .. Len(tmp) : tmp[i].tag = tmp[j].tag => i = j
    <2>1. CASE want = 0
      <3>1. back + 1 .. Len(tmp) = {}
        BY <1>1, <1>2, <2>1 DEF TakenBest
      <3>2. QED
        BY <3>1
    <2>2. CASE want > 0
      <3>1. \A i, j \in 1 .. Len(tmp) : i < j => tmp[i].tag # tmp[j].tag
        BY <1>1, <2>2 DEF TakenBest
      <3>2. \A i \in back + 1 .. Len(tmp) : i \in 1 .. Len(tmp) /\ i \in Int
        BY <1>2
      <3>3. QED
        BY <3>1, <3>2
    <2>3. QED
      BY <1>2, <2>1, <2>2
  <1>5. \A i \in 1 .. Len(heap), j \in back + 1 .. Len(tmp) : heap[i].tag # tmp[j].tag
    BY <1>1 DEF Parted
  <1>6. SUFFICES ASSUME NEW d \in Held, NEW e \in Held, d.tag = e.tag
                 PROVE  d = e
    OBVIOUS
  <1>7. /\ (\E i \in 1 .. Len(heap) : d = heap[i]) \/ (\E i \in back + 1 .. Len(tmp) : d = tmp[i])
        /\ (\E i \in 1 .. Len(heap) : e = heap[i]) \/ (\E i \in back + 1 .. Len(tmp) : e = tmp[i])
    BY DEF Held, Out
  <1>8. QED
    BY <1>3, <1>4, <1>5, <1>6, <1>7

\* The range of a tag is that of its element.
LEMMA RangeOfHeld == IInv => \A e \in Held : e.tag \in Tags => RangeOf[e.tag] = e.range
  <1> SUFFICES ASSUME IInv, NEW e \in Held, e.tag \in Tags
               PROVE  RangeOf[e.tag] = e.range
    OBVIOUS
  <1>1. (CHOOSE d \in Held : d.tag = e.tag) = e
    BY HeldUnique
  <1>2. QED
    BY <1>1 DEF RangeOf

\* The same after a step.
LEMMA RangeOfHeldNext == IInv' => (\A e \in Held : e.tag \in Tags => RangeOf[e.tag] = e.range)'
  BY RangeOfHeld, PTL

\* The ranges depend on the elements held only.
LEMMA SameRanges ==
    ASSUME Held' = Held
    PROVE  RangeOf' = RangeOf
  BY DEF RangeOf

\* Before the first insertion every range is 0.
LEMMA RefineInit == HeapInit => Ranking!Init
  <1> SUFFICES ASSUME HeapInit PROVE Ranking!Init
    OBVIOUS
  <1>1. heap = <<>> /\ tmp = <<>> /\ back = 0 /\ answer = <<>>
    BY DEF HeapInit
  <1>2. 1 .. Len(heap) = {} /\ back + 1 .. Len(tmp) = {}
    BY <1>1
  <1>3. Held = {}
    BY <1>2 DEF Held, Out
  <1>4. RangeOf = [t \in Tags |-> 0]
    BY <1>3 DEF RangeOf
  <1>5. QED
    BY <1>1, <1>4 DEF Ranking!Init, Ranking!Tags, Tags

\* Moves, stops and the beginning of a query keep what is held.
LEMMA RefinePermuted ==
    ASSUME Permuted, Out' = Out, answer' = answer
    PROVE  UNCHANGED Ranking!vars
  <1>1. {heap'[i] : i \in 1 .. Len(heap')} = {heap[i] : i \in 1 .. Len(heap)}
    <2>1. Len(heap') = Len(heap)
      BY DEF Permuted
    <2>2. ASSUME NEW i \in 1 .. Len(heap)
          PROVE  /\ heap'[i] \in {heap[j] : j \in 1 .. Len(heap)}
                 /\ heap[i] \in {heap'[j] : j \in 1 .. Len(heap)}
      <3>1. PICK j \in 1 .. Len(heap) : heap'[i] = heap[j]
        BY DEF Permuted
      <3>2. PICK m \in 1 .. Len(heap) : heap[i] = heap'[m]
        BY DEF Permuted
      <3>3. QED
        BY <3>1, <3>2
    <2>3. QED
      BY <2>1, <2>2
  <1>2. Held' = Held
    BY <1>1 DEF Held
  <1>3. QED
    BY <1>2, SameRanges DEF Ranking!vars

\* A swap moves elements within the heap only.
LEMMA RefineMove ==
    ASSUME IInv, MoveDown \/ MoveUp
    PROVE  UNCHANGED Ranking!vars
  <1>1. HeapTypeOK /\ PlaceExact /\ HeapOrder
    BY DEF IInv
  <1>2. Len(heap) \in Nat
    BY <1>1, HeapTypes
  <1>3. PICK q \in 1 .. Len(heap) : q # cursor /\ cursor \in 1 .. Len(heap) /\ SwapWith(q)
    <2>1. CASE MoveDown
      <3>1. cursor \in Nat /\ cursor >= 1 /\ Lowest(cursor) # cursor /\ SwapWith(Lowest(cursor))
        BY <1>1, <2>1 DEF MoveDown, HeapTypeOK
      <3>2. cursor \in 1 .. Len(heap) /\ Lowest(cursor) \in 2 .. Len(heap)
        BY <1>1, <3>1, LowestFacts
      <3>3. Lowest(cursor) \in 1 .. Len(heap)
        BY <1>2, <3>2
      <3>4. QED
        BY <3>1, <3>2, <3>3
    <2>2. CASE MoveUp
      <3>1. cursor > 1 /\ SwapWith(cursor \div 2) /\ cursor \in 1 .. Len(heap)
        BY <1>1, <2>2 DEF MoveUp, Rises, HeapOrder
      <3>2. cursor \div 2 \in 1 .. Len(heap) /\ cursor \div 2 # cursor
        BY <1>2, <3>1, Halves
      <3>3. QED
        BY <3>1, <3>2
    <2>3. QED
      BY <2>1, <2>2
  <1>4. Permuted
    <2>1. /\ Len(heap') = Len(heap) /\ heap'[cursor] = heap[q] /\ heap'[q] = heap[cursor]
          /\ \A i \in 1 .. Len(heap) : i # cursor /\ i # q => heap'[i] = heap[i]
      BY <1>1, <1>3, SwapState
    <2>2. QED
      BY <1>3, <2>1, SwapPermuted
  <1>5. Out' = Out /\ answer' = answer
    BY DEF MoveDown, MoveUp, Out
  <1>6. QED
    BY <1>4, <1>5, RefinePermuted

\* The ends of the loops and the beginning of find_ans touch no element.
LEMMA RefineQuiet ==
    ASSUME IInv, StopDown \/ StopUp \/ (\E k \in Tags : Ask(k)) \/ UNCHANGED heapVars
    PROVE  UNCHANGED Ranking!vars
  <1>1. heap' = heap /\ answer' = answer
    BY DEF StopDown, StopUp, Ask, heapVars
  <1>2. Permuted
    BY <1>1 DEF Permuted
  <1>3. Out' = Out
    <2>1. CASE \E k \in Tags : Ask(k)
      <3>1. want = 0 /\ tmp' = <<>> /\ back' = 0
        BY <2>1 DEF Ask
      <3>2. Len(tmp) \in Nat /\ back = Len(tmp)
        BY <3>1, HeapTypes DEF IInv, TakenBest
      <3>3. back + 1 .. Len(tmp) = {} /\ back' + 1 .. Len(tmp') = {}
        BY <3>1, <3>2
      <3>4. QED
        BY <3>3 DEF Out
    <2>2. CASE StopDown \/ StopUp \/ UNCHANGED heapVars
      BY <2>2 DEF StopDown, StopUp, heapVars, Out
    <2>3. QED
      BY <2>1, <2>2
  <1>4. QED
    BY <1>1, <1>2, <1>3, RefinePermuted

\* A tag enters with the range it has in TagRanking from the start.
LEMMA RefineFill ==
    ASSUME IInv, Fill
    PROVE  UNCHANGED Ranking!vars
  <1> DEFINE e == [range |-> 0, tag |-> filled + 1]
  <1>1. HeapTypeOK /\ Parted /\ TakenBest
    BY DEF IInv
  <1>2. Len(heap) \in Nat /\ filled \in Nat /\ NTag \in Nat /\ Tags = 1 .. NTag
    BY <1>1, HeapTypes
  <1>3. /\ heap' = Append(heap, e) /\ filled < NTag
        /\ UNCHANGED <<tmp, back, answer>>
    BY DEF Fill, Put
  <1>4. e \in Elements
    BY <1>2, <1>3, HeapAssumption DEF Elements
  <1>5. /\ Len(heap') = Len(heap) + 1 /\ heap'[Len(heap) + 1] = e
        /\ \A i \in 1 .. Len(heap) : heap'[i] = heap[i]
    BY <1>1, <1>3, <1>4, AppendSeq DEF HeapTypeOK
  <1>6. Held' = Held \cup {e}
    <2>1. {heap'[i] : i \in 1 .. Len(heap')} = {heap[i] : i \in 1 .. Len(heap)} \cup {e}
      <3> HIDE DEF e
      <3>1. 1 .. Len(heap') = (1 .. Len(heap)) \cup {Len(heap) + 1}
        BY <1>2, <1>5
      <3>2. QED
        BY <1>5, <3>1
    <2>2. Out' = Out
      BY <1>3 DEF Out
    <2>3. QED
      BY <2>1, <2>2 DEF Held
  <1>7. \A d \in Held : d.tag \in 1 .. filled
    BY <1>1 DEF Parted
  <1>8. \A d \in Held : d.tag # filled + 1
    BY <1>2, <1>7
  <1>9. e.tag = filled + 1 /\ e.range = 0
    OBVIOUS
  <1>10. ASSUME NEW t \in Tags
         PROVE  RangeOf[t] = RangeOf'[t]
    <2> HIDE DEF e
    <2>1. RangeOf[t] = IF \E d \in Held : d.tag = t THEN (CHOOSE d \in Held : d.tag = t).range ELSE 0
      BY DEF RangeOf
    <2>2. RangeOf'[t] = IF \E d \in Held' : d.tag = t THEN (CHOOSE d \in Held' : d.tag = t).range ELSE 0
      BY DEF RangeOf
    <2>3. CASE t = filled + 1
      <3>1. RangeOf[t] = 0
        BY <1>8, <2>1, <2>3
      <3>2. (CHOOSE d \in Held' : d.tag = t) = e /\ e \in Held'
        BY <1>6, <1>8, <1>9, <2>3
      <3>3. QED
        BY <1>9, <2>2, <2>3, <3>1, <3>2
    <2>4. CASE t # filled + 1
      <3>1. \A d : (d \in Held' /\ d.tag = t) <=> (d \in Held /\ d.tag = t)
        BY <1>6, <1>9, <2>4
      <3>2. (CHOOSE d \in Held' : d.tag = t) = (CHOOSE d \in Held : d.tag = t)
        BY <3>1
      <3>3. QED
        BY <2>1, <2>2, <3>1, <3>2
    <2>5. QED
      BY <2>3, <2>4
  <1>11. RangeOf' = RangeOf
    BY <1>10 DEF RangeOf
  <1>12. QED
    BY <1>3, <1>11 DEF Ranking!vars

\* get and insert move elements between the heap and tmp.
LEMMA RefineGet ==
    ASSUME IInv, Get
    PROVE  UNCHANGED Ranking!vars
  <1> DEFINE n == Len(heap)
  <1>1. /\ n \in Nat /\ n >= 1 /\ Len(tmp) \in Nat /\ back = 0
        /\ Len(heap') = n - 1
        /\ n >= 2 => heap'[1] = heap[n]
        /\ \A i \in 2 .. n - 1 : heap'[i] = heap[i]
        /\ Len(tmp') = Len(tmp) + 1
        /\ tmp'[Len(tmp) + 1] = heap[1]
        /\ \A i \in 1 .. Len(tmp) : tmp'[i] = tmp[i]
    BY GetState
  <1>2. back' = 0 /\ answer' = answer
    BY <1>1 DEF Get
  <1>3. ASSUME NEW e \in Held
        PROVE  e \in Held'
    <2>1. CASE \E i \in 1 .. n : e = heap[i]
      <3>1. PICK i \in 1 .. n : e = heap[i]
        BY <2>1
      <3>2. CASE i = 1
        <4>1. Len(tmp) + 1 \in back' + 1 .. Len(tmp')
          BY <1>1, <1>2
        <4>2. QED
          BY <1>1, <3>1, <3>2, <4>1 DEF Held, Out
      <3>3. CASE i # 1 /\ i = n
        <4>1. 1 \in 1 .. Len(heap') /\ e = heap'[1]
          BY <1>1, <3>1, <3>3
        <4>2. QED
          BY <4>1 DEF Held
      <3>4. CASE i # 1 /\ i # n
        <4>1. i \in 1 .. Len(heap') /\ e = heap'[i]
          BY <1>1, <3>1, <3>4
        <4>2. QED
          BY <4>1 DEF Held
      <3>5. QED
        BY <3>2, <3>3, <3>4
    <2>2. CASE \E i \in back + 1 .. Len(tmp) : e = tmp[i]
      <3>1. PICK i \in back + 1 .. Len(tmp) : e = tmp[i]
        BY <2>2
      <3>2. i \in back' + 1 .. Len(tmp') /\ e = tmp'[i]
        BY <1>1, <1>2, <3>1
      <3>3. QED
        BY <3>2 DEF Held, Out
    <2>3. QED
      BY <2>1, <2>2 DEF Held, Out
  <1>4. ASSUME NEW e \in Held'
        PROVE  e \in Held
    <2>1. CASE \E i \in 1 .. n - 1 : e = heap'[i]
      <3>1. PICK i \in 1 .. n - 1 : e = heap'[i]
        BY <2>1
      <3>2. \E j \in 1 .. n : e = heap[j]
        <4>1. CASE i = 1
          BY <1>1, <3>1, <4>1
        <4>2. CASE i # 1
          BY <1>1, <3>1, <4>2
        <4>3. QED
          BY <4>1, <4>2
      <3>3. QED
        BY <3>2 DEF Held
    <2>2. CASE \E i \in 1 .. Len(tmp) + 1 : e = tmp'[i]
      <3>1. PICK i \in 1 .. Len(tmp) + 1 : e = tmp'[i]
        BY <2>2
      <3>2. CASE i = Len(tmp) + 1
        <4>1. 1 \in 1 .. n /\ e = heap[1]
          BY <1>1, <3>1, <3>2
        <4>2. QED
          BY <4>1 DEF Held
      <3>3. CASE i # Len(tmp) + 1
        <4>1. i \in back + 1 .. Len(tmp) /\ e = tmp[i]
          BY <1>1, <3>1, <3>3
        <4>2. QED
          BY <4>1 DEF Held, Out
      <3>4. QED
        BY <3>2, <3>3
    <2>3. back' + 1 .. Len(tmp') = 1 .. Len(tmp) + 1
      BY <1>1, <1>2
    <2>4. QED
      BY <1>1, <2>1, <2>2, <2>3 DEF Held, Out
  <1>5. Held' = Held
    BY <1>3, <1>4
  <1>6. QED
    BY <1>2, <1>5, SameRanges DEF Ranking!vars

\* insert moves the element from tmp to the heap.
LEMMA RefinePutBack ==
    ASSUME IInv, PutBack
    PROVE  UNCHANGED Ranking!vars
  <1> DEFINE n == Len(heap)
             e == tmp[back + 1]
  <1>1. HeapTypeOK
    BY DEF IInv
  <1>2. /\ heap' = Append(heap, e) /\ back' = back + 1 /\ tmp' = tmp /\ answer' = answer
        /\ Len(tmp) = want /\ back < want
    BY DEF PutBack, Put
  <1>3. n \in Nat /\ want \in Nat /\ back \in Nat /\ back + 1 \in 1 .. Len(tmp)
    BY <1>1, <1>2, HeapTypes
  <1>4. e \in Elements
    <2> HIDE DEF e
    <2>1. e = tmp[back + 1]
      BY DEF e
    <2>2. QED
      BY <1>1, <1>3, <2>1, HeapTypes
  <1>5. /\ Len(heap') = n + 1 /\ heap'[n + 1] = e
        /\ \A i \in 1 .. n : heap'[i] = heap[i]
    <2> HIDE DEF e
    <2>1. QED
      BY <1>1, <1>2, <1>4, AppendSeq DEF HeapTypeOK
  <1>6. {heap'[i] : i \in 1 .. Len(heap')} = {heap[i] : i \in 1 .. n} \cup {e}
    <2> HIDE DEF e
    <2>1. 1 .. Len(heap') = (1 .. n) \cup {n + 1}
      BY <1>3, <1>5
    <2>2. QED
      BY <1>5, <2>1
  <1>7. Out = Out' \cup {e}
    <2>1. back + 1 .. Len(tmp) = (back' + 1 .. Len(tmp')) \cup {back + 1}
      BY <1>2, <1>3
    <2>2. QED
      BY <1>2, <2>1 DEF Out
  <1>8. Held' = Held
    BY <1>6, <1>7 DEF Held
  <1>9. QED
    BY <1>2, <1>8, SameRanges DEF Ranking!vars

\* change raises the range of one tag.
LEMMA RefineChange ==
    ASSUME IInv, IInv', NEW t \in Tags, NEW r \in 1 .. MaxRange, Change(t, r)
    PROVE  Ranking!Raise(t)
  <1> DEFINE c == place[t]
             e == [heap[c] EXCEPT !.range = r]
  <1>1. HeapTypeOK /\ PlaceExact /\ Parted /\ TakenBest
    BY DEF IInv
  <1>2. /\ filled = NTag /\ want = 0 /\ heap[c].range < r
        /\ heap' = [heap EXCEPT ![c].range = r]
        /\ UNCHANGED <<place, filled, want, tmp, back, answer>>
    BY DEF Change
  <1>3. \A u \in Tags : place[u] \in 1 .. Len(heap) /\ heap[place[u]].tag = u
    BY <1>1, <1>2, PlaceFinds
  <1>4. Len(heap) \in Nat /\ \A i \in 1 .. Len(heap) : heap[i] \in Elements /\ heap[i].tag \in Tags
    BY <1>1, HeapTypes
  <1>5. heap \in [1 .. Len(heap) -> Elements]
    BY <1>1, LenProperties DEF HeapTypeOK
  <1>6. e.range = r /\ e.tag = t
    BY <1>3, <1>4 DEF Elements
  <1>7. \A i \in 1 .. Len(heap) : heap'[i] = IF i = c THEN e ELSE heap[i]
    <2> HIDE DEF c
    <2>1. QED
      BY <1>2, <1>5
  <1>8. Len(heap') = Len(heap)
    <2>1. heap' = [heap EXCEPT ![c] = e]
      BY <1>2
    <2>2. heap \in Seq(Elements) /\ c \in 1 .. Len(heap) /\ heap[c] \in Elements /\ r \in 0 .. MaxRange
      BY <1>1, <1>3, <1>4, HeapAssumption DEF HeapTypeOK
    <2>3. e \in Elements
      BY <2>2 DEF Elements
    <2>4. QED
      <3> HIDE DEF c, e
      <3>1. QED
        BY <2>1, <2>2, <2>3, ExceptSeq
  <1>9. ASSUME NEW u \in Tags
        PROVE  RangeOf[u] = heap[place[u]].range /\ RangeOf'[u] = heap'[place[u]].range
    <2>1. heap[place[u]] \in Held /\ heap'[place[u]] \in Held'
      BY <1>3, <1>8 DEF Held
    <2>2. heap[place[u]].tag = u /\ heap'[place[u]].tag = u
      BY <1>3, <1>6, <1>7
    <2>3. \A d \in Held' : d.tag \in Tags => RangeOf'[d.tag] = d.range
      BY RangeOfHeldNext
    <2>4. QED
      BY <2>1, <2>2, <2>3, RangeOfHeld
  <1>10. RangeOf'[t] = r /\ RangeOf[t] < r
    BY <1>2, <1>3, <1>6, <1>7, <1>9
  <1>11. ASSUME NEW u \in Tags, u # t
         PROVE  RangeOf'[u] = RangeOf[u]
    <2>1. place[u] # c
      BY <1>3, <1>11
    <2>2. QED
      BY <1>3, <1>7, <1>9, <2>1
  <1>12. RangeOf' = [RangeOf EXCEPT ![t] = RangeOf'[t]]
    <2>1. \E g : RangeOf = [u \in Tags |-> g[u]]
      <3>1. RangeOf = [u \in Tags |-> RangeOf[u]]
        BY DEF RangeOf
      <3>2. QED
        BY <3>1
    <2>2. RangeOf' = [u \in Tags |-> RangeOf'[u]]
      BY DEF RangeOf
    <2>3. QED
      BY <1>11, <2>1, <2>2
  <1>13. RangeOf'[t] > RangeOf[t]
    <2>1. \A d \in Elements : d.range \in Int
      BY DEF Elements
    <2>2. RangeOf[t] \in Int /\ r \in Int
      BY <1>3, <1>4, <1>9, <2>1
    <2>3. QED
      BY <1>10, <2>2
  <1>14. QED
    BY <1>2, <1>12, <1>13 DEF Ranking!Raise

\* find_ans returns the tags of tmp: the best ones, in order.
LEMMA RefineReturn ==
    ASSUME IInv, Return
    PROVE  Ranking!Ask(want)
  <1>1. HeapTypeOK /\ PlaceExact /\ Parted /\ TakenBest
    BY DEF IInv
  <1>2. /\ want > 0 /\ back = want /\ filled = NTag
        /\ answer' = [i \in 1 .. want |-> tmp[i].tag]
        /\ UNCHANGED <<heap, tmp, back>>
    BY <1>1 DEF Return, TakenBest
  <1>3. Len(tmp) = want /\ want \in Nat /\ Tags = 1 .. NTag
    BY <1>1, <1>2, HeapTypes DEF TakenBest
  <1>4. /\ \A i \in 1 .. Len(heap) : heap[i] \in Elements /\ heap[i].tag \in Tags
        /\ \A i \in 1 .. want : tmp[i] \in Elements /\ tmp[i].tag \in Tags
    BY <1>1, <1>3, HeapTypes
  <1>5. /\ \A i, j \in 1 .. want : i < j => tmp[i].tag # tmp[j].tag /\ ~ Better(tmp[j], tmp[i])
        /\ \A n \in 1 .. want : \E j \in 1 .. Len(heap) : heap[j] = tmp[n]
        /\ \A i \in 1 .. want, j \in 1 .. Len(heap) :
              (\A n \in 1 .. want : heap[j] # tmp[n]) => ~ Better(heap[j], tmp[i])
    BY <1>1, <1>2, <1>3 DEF TakenBest
  <1>6. \A t \in Tags : \E j \in 1 .. Len(heap) : heap[j].tag = t
    <2>1. back + 1 .. Len(tmp) = {}
      BY <1>2, <1>3
    <2>2. QED
      BY <1>1, <1>2, <1>3, <2>1, HeldTags
  <1>7. \A j \in 1 .. Len(heap) : RangeOf[heap[j].tag] = heap[j].range
    <2>1. ASSUME NEW j \in 1 .. Len(heap)
          PROVE  heap[j] \in Held
      BY DEF Held
    <2>2. QED
      BY <1>4, <2>1, RangeOfHeld
  <1>8. \A i, j \in 1 .. Len(heap) : Ranking!Ahead(heap[i].tag, heap[j].tag) <=> Better(heap[i], heap[j])
    BY <1>7 DEF Ranking!Ahead, Better
  <1>9. answer' \in [1 .. want -> Ranking!Tags]
    BY <1>2, <1>4 DEF Ranking!Tags, Tags
  <1>10. \A i, j \in 1 .. want : i # j => answer'[i] # answer'[j]
    <2>1. \A i, j \in 1 .. want : i # j => tmp[i].tag # tmp[j].tag
      <3>1. \A i, j \in 1 .. want : i # j => i < j \/ j < i
        BY <1>3
      <3>2. QED
        BY <1>5, <3>1
    <2>2. QED
      BY <1>2, <2>1
  <1>11. ASSUME NEW i \in 1 .. want, NEW t \in Tags \ {answer'[j] : j \in 1 .. i - 1}
         PROVE  ~ Ranking!Ahead(t, answer'[i])
    <2>1. PICK j \in 1 .. Len(heap) : heap[j].tag = t
      BY <1>6
    <2>2. PICK m \in 1 .. Len(heap) : heap[m] = tmp[i]
      BY <1>5
    <2>3. ~ Better(heap[j], tmp[i])
      <3>1. CASE \A n \in 1 .. want : heap[j] # tmp[n]
        BY <1>5, <3>1
      <3>2. CASE \E n \in 1 .. want : heap[j] = tmp[n]
        <4>1. PICK n \in 1 .. want : heap[j] = tmp[n]
          BY <3>2
        <4>2. n \notin 1 .. i - 1
          <5>1. ASSUME n \in 1 .. i - 1
                PROVE  FALSE
            <6>1. answer'[n] = t
              BY <1>2, <2>1, <4>1
            <6>2. answer'[n] \in {answer'[l] : l \in 1 .. i - 1}
              BY <5>1
            <6>3. QED
              BY <6>1, <6>2
          <5>2. QED
            BY <5>1
        <4>3. n = i \/ i < n
          BY <1>3, <4>2
        <4>4. QED
          BY <1>4, <1>5, <4>1, <4>3, BetterOrder
      <3>3. QED
        BY <3>1, <3>2
    <2>4. answer'[i] = heap[m].tag
      BY <1>2, <2>2
    <2>5. QED
      BY <1>8, <2>1, <2>2, <2>3, <2>4
  <1>12. Len(answer') = want
    BY <1>2, <1>3
  <1>13. RangeOf' = RangeOf
    BY <1>2, SameRanges DEF Held, Out
  <1>14. QED
    BY <1>9, <1>10, <1>11, <1>12, <1>13 DEF Ranking!Ask, Ranking!BestFirst, Ranking!Tags, Tags, Ranking!Ahead

\* Every step of the heap is a step of TagRanking or none.
LEMMA RefineNext == IInv /\ [HeapNext]_heapVars => [Ranking!Next]_(Ranking!vars)
  <1> SUFFICES ASSUME IInv, [HeapNext]_heapVars
               PROVE  Ranking!Next \/ UNCHANGED Ranking!vars
    OBVIOUS
  <1>1. IInv'
    BY IInvNext
  <1>2. Ranking!Tags = Tags
    BY DEF Ranking!Tags, Tags
  <1>3. CASE MoveDown \/ MoveUp
    BY <1>3, RefineMove
  <1>4. CASE StopDown \/ StopUp \/ (\E k \in Tags : Ask(k)) \/ UNCHANGED heapVars
    BY <1>4, RefineQuiet
  <1>5. CASE Fill
    BY <1>5, RefineFill
  <1>6. CASE Get
    BY <1>6, RefineGet
  <1>7. CASE PutBack
    BY <1>7, RefinePutBack
  <1>8. CASE \E t \in Tags, r \in 1 .. MaxRange : Change(t, r)
    BY <1>1, <1>2, <1>8, RefineChange DEF Ranking!Next
  <1>9. CASE Return
    <2>1. want \in Tags
      <3>1. want > 0 /\ want \in 0 .. NTag /\ NTag \in Nat
        BY <1>9, HeapAssumption DEF Return, IInv, HeapTypeOK
      <3>2. QED
        BY <3>1 DEF Tags
    <2>2. QED
      BY <1>2, <1>9, <2>1, RefineReturn DEF Ranking!Next
  <1>10. QED
    BY <1>3, <1>4, <1>5, <1>6, <1>7, <1>8, <1>9 DEF HeapNext

\* find_ans(k) returns the k best tags, best first, and the heap keeps all of
\* them: the heap implements TagRanking for any number of tags.
THEOREM HeapImplementsRanking == HeapSpec => RankingSpec
  BY RefineInit, RefineNext, HeapInductive, PTL DEF HeapSpec, RankingSpec, Ranking!Spec
=============================================================================

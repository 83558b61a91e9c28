---------------------------- MODULE SearchProofs ----------------------------
(***************************************************************************)
(* Distances in the network of friends: the search of query 1 from both    *)
(* ends finds a shortest path, and each version of query 3 gives the k     *)
(* first of the close pairs of a place.  Both rest on the same lemmas      *)
(* about walks.                                                            *)
(***************************************************************************)
EXTENDS Query1, Query3Versions, Counting, TLAPS

-----------------------------------------------------------------------------
(* Walks.                                                                  *)

\* Everybody is at distance 0 of himself.
LEMMA JoinedZero ==
    ASSUME NEW E, NEW p \in Persons
    PROVE  Joined(E, p, p, 0)
  <1> DEFINE w == [j \in 0 .. 0 |-> p]
  <1>1. w \in [0 .. 0 -> Persons] /\ w[0] = p
    OBVIOUS
  <1>2. Walk(E, w, p, p, 0)
    BY <1>1 DEF Walk
  <1>3. QED
    BY <1>1, <1>2 DEF Joined

\* A walk reversed is a walk.
LEMMA JoinedBack ==
    ASSUME NEW E, NEW p, NEW q, NEW n \in Nat, Joined(E, p, q, n)
    PROVE  Joined(E, q, p, n)
  <1>1. PICK w \in [0 .. n -> Persons] : Walk(E, w, p, q, n)
    BY DEF Joined
  <1> DEFINE v == [j \in 0 .. n |-> w[n - j]]
  <1>2. v \in [0 .. n -> Persons]
    OBVIOUS
  <1>3. v[0] = q /\ v[n] = p
    BY <1>1 DEF Walk
  <1>4. ASSUME NEW j \in 0 .. n - 1
        PROVE  {v[j], v[j + 1]} \in E
    <2>1. n - j - 1 \in 0 .. n - 1 /\ (n - j - 1) + 1 = n - j /\ n - (j + 1) = n - j - 1
      OBVIOUS
    <2>2. {w[n - j - 1], w[n - j]} \in E
      BY <1>1, <2>1 DEF Walk
    <2>3. v[j] = w[n - j] /\ v[j + 1] = w[n - j - 1]
      BY <2>1
    <2>4. QED
      BY <2>2, <2>3
  <1>5. Walk(E, v, q, p, n)
    BY <1>3, <1>4 DEF Walk
  <1>6. QED
    BY <1>2, <1>5 DEF Joined

\* Two walks that meet make one.
LEMMA JoinedConcat ==
    ASSUME NEW E, NEW p, NEW q, NEW r, NEW m \in Nat, NEW n \in Nat,
           Joined(E, p, q, m), Joined(E, q, r, n)
    PROVE  Joined(E, p, r, m + n)
  <1>1. PICK v \in [0 .. m -> Persons] : Walk(E, v, p, q, m)
    BY DEF Joined
  <1>2. PICK w \in [0 .. n -> Persons] : Walk(E, w, q, r, n)
    BY DEF Joined
  <1> DEFINE u == [j \in 0 .. m + n |-> IF j <= m THEN v[j] ELSE w[j - m]]
  <1>3. u \in [0 .. m + n -> Persons]
    OBVIOUS
  <1>4. v[0] = p /\ v[m] = q /\ w[0] = q /\ w[n] = r
    BY <1>1, <1>2 DEF Walk
  <1>5. u[0] = p /\ u[m + n] = r
    BY <1>4
  <1>6. ASSUME NEW j \in 0 .. m + n - 1
        PROVE  {u[j], u[j + 1]} \in E
    <2>1. CASE j < m
      <3>1. j \in 0 .. m - 1 /\ u[j] = v[j] /\ u[j + 1] = v[j + 1]
        BY <2>1
      <3>2. QED
        BY <3>1, <1>1 DEF Walk
    <2>2. CASE j >= m
      <3>1. j - m \in 0 .. n - 1 /\ (j - m) + 1 = j + 1 - m
        BY <2>2
      <3>2. u[j] = w[j - m]
        BY <2>2, <1>4
      <3>3. u[j + 1] = w[(j - m) + 1]
        BY <2>2, <3>1
      <3>4. QED
        BY <3>1, <3>2, <3>3, <1>2 DEF Walk
    <2>3. QED
      BY <2>1, <2>2
  <1> HIDE DEF u
  <1>7. Walk(E, u, p, r, m + n)
    BY <1>5, <1>6 DEF Walk
  <1>8. QED
    BY <1>3, <1>7 DEF Joined

\* A walk can be cut anywhere.
LEMMA JoinedSplit ==
    ASSUME NEW E, NEW p, NEW r, NEW n \in Nat, NEW m \in 0 .. n, Joined(E, p, r, n)
    PROVE  \E q \in Persons : Joined(E, p, q, m) /\ Joined(E, q, r, n - m)
  <1>1. PICK w \in [0 .. n -> Persons] : Walk(E, w, p, r, n)
    BY DEF Joined
  <1> DEFINE u == [j \in 0 .. m |-> w[j]]
             v == [j \in 0 .. n - m |-> w[j + m]]
  <1>2. w[m] \in Persons
    OBVIOUS
  <1>3. Joined(E, p, w[m], m)
    <2>1. u \in [0 .. m -> Persons] /\ u[0] = p /\ u[m] = w[m]
      BY <1>1 DEF Walk
    <2>2. ASSUME NEW j \in 0 .. m - 1
          PROVE  {u[j], u[j + 1]} \in E
      <3>1. u[j] = w[j] /\ u[j + 1] = w[j + 1] /\ j \in 0 .. n - 1
        OBVIOUS
      <3>2. QED
        BY <1>1, <3>1 DEF Walk
    <2>3. QED
      BY <2>1, <2>2 DEF Walk, Joined
  <1>4. Joined(E, w[m], r, n - m)
    <2>1. v \in [0 .. n - m -> Persons] /\ v[0] = w[m] /\ v[n - m] = r
      BY <1>1 DEF Walk
    <2>2. ASSUME NEW j \in 0 .. n - m - 1
          PROVE  {v[j], v[j + 1]} \in E
      <3>1. j + m \in 0 .. n - 1 /\ (j + m) + 1 = (j + 1) + m
        OBVIOUS
      <3>2. {w[j + m], w[(j + m) + 1]} \in E
        BY <1>1, <3>1 DEF Walk
      <3>3. v[j] = w[j + m] /\ v[j + 1] = w[(j + m) + 1]
        BY <3>1
      <3>4. QED
        BY <3>2, <3>3
    <2>3. QED
      BY <2>1, <2>2 DEF Walk, Joined
  <1>5. QED
    BY <1>2, <1>3, <1>4

\* A friend of the end of a walk is one edge further.
LEMMA JoinedEdge ==
    ASSUME NEW E, NEW p, NEW q \in Persons, NEW r \in Persons, NEW n \in Nat,
           Joined(E, p, q, n), {q, r} \in E
    PROVE  Joined(E, p, r, n + 1)
  <1> DEFINE w == [j \in 0 .. 1 |-> IF j = 0 THEN q ELSE r]
  <1>1. w \in [0 .. 1 -> Persons] /\ w[0] = q /\ w[1] = r
    OBVIOUS
  <1>2. Walk(E, w, q, r, 1)
    BY <1>1 DEF Walk
  <1>3. Joined(E, q, r, 1)
    BY <1>1, <1>2 DEF Joined
  <1>4. QED
    BY <1>3, JoinedConcat

-----------------------------------------------------------------------------
(* Query 1: what stays.                                                    *)

\* The network and the query do not change, and so neither do the walks.
LEMMA SameWalks ==
    ASSUME UNCHANGED <<ncmts, query>>
    PROVE  /\ Edges' = Edges
           /\ \A p, q, n : Joined(Edges, p, q, n)' = Joined(Edges, p, q, n)
           /\ \A p : Near(p)' = Near(p)
  <1>1. Edges' = Edges
    BY DEF Edges
  <1>2. QED
    BY <1>1 DEF Joined, Walk, Near

-----------------------------------------------------------------------------
(* The invariant.                                                          *)

\* The ends of a query are persons.
LEMMA QueryEnds ==
    ASSUME query \in Queries
    PROVE  query[1] \in Persons /\ query[2] \in Persons
  BY Query1Assumption

\* What the searches know, and what they answered.
Query1Inv == SearchInv /\ Shortest /\ NotFoundMeansApart

\* Nothing is visited yet but the two ends.
LEMMA Query1Start == Query1Init => Query1Inv
  <1> SUFFICES ASSUME Query1Init PROVE Query1Inv
    OBVIOUS
  <1> USE DEF Query1Init, Sides, Searching, NotFound
  <1>1. query \in Queries /\ query[1] \in Persons /\ query[2] \in Persons
    BY QueryEnds
  <1>2. Query1Types
    <2>1. PICK E \in SUBSET Friendships :
             ncmts \in {v \in [E -> UNION {Counts[e] : e \in E}] : \A e \in E : v[e] \in Counts[e]}
      OBVIOUS
    <2>2. DOMAIN ncmts \subseteq Friendships /\ \A e \in DOMAIN ncmts : ncmts[e] \in Nat
      BY <2>1, Query1Assumption
    <2>3. QED
      BY <1>1, <2>2 DEF Query1Types
  <1>3. VisitInv
    BY DEF VisitInv, Pending
  <1>4. Apart
    BY DEF Apart
  <1>5. Reached
    <2>1. Joined(Edges, query[1], query[1], 0) /\ Joined(Edges, query[2], query[2], 0)
      BY <1>1, JoinedZero
    <2>2. QED
      BY <2>1 DEF Reached
  <1>6. Covered
    <2>1. ASSUME NEW p, NEW q, Joined(Edges, p, q, 0)
          PROVE  p = q
      BY <2>1 DEF Joined, Walk
    <2>2. QED
      BY <2>1 DEF Covered
  <1>7. Shortest
    <2>1. CASE query[1] = query[2]
      BY <2>1, <1>1, JoinedZero DEF Shortest
    <2>2. CASE query[1] # query[2]
      BY <2>2 DEF Shortest
    <2>3. QED
      BY <2>1, <2>2
  <1>8. QED
    BY <1>2, <1>3, <1>4, <1>5, <1>6, <1>7 DEF Query1Inv, SearchInv, TurnInv, NotFoundMeansApart

\* Beginning a level: what was queued is now to be taken.
LEMMA BeginStep ==
    ASSUME Query1Inv, answer = Searching, level = {}, NEW s \in Sides, s # side,
           queue[s] # {}, BeginLevel(s), s = 1 => queue[2] # {}
    PROVE  Query1Inv'
  <1> USE DEF Sides, Searching, NotFound
  <1>1. Query1Types /\ VisitInv /\ Apart /\ Reached /\ Covered
    BY DEF Query1Inv, SearchInv
  <1>2. Query1Types'
    BY <1>1, SameWalks DEF BeginLevel, Query1Types
  <1>3. VisitInv'
    BY <1>1, SameWalks DEF BeginLevel, VisitInv, Pending, Query1Types
  <1>4. Apart'
    BY <1>1, SameWalks DEF BeginLevel, Apart
  <1>5. Reached'
    BY <1>1, SameWalks DEF BeginLevel, Reached, Query1Types, VisitInv, Pending
  <1>6. Covered'
    BY <1>1, SameWalks DEF BeginLevel, Covered, Query1Types
  <1>7. TurnInv' /\ Shortest' /\ NotFoundMeansApart'
    BY <1>1, SameWalks DEF BeginLevel, TurnInv, Shortest, NotFoundMeansApart, Query1Types
  <1>8. QED
    BY <1>2, <1>3, <1>4, <1>5, <1>6, <1>7 DEF Query1Inv, SearchInv

\* A search that has nobody left to take has visited an enclosed set.
LEMMA GiveUpStep == Query1Inv /\ GiveUp => Query1Inv'
  <1> SUFFICES ASSUME Query1Inv, GiveUp PROVE Query1Inv'
    OBVIOUS
  <1> USE DEF Sides, Searching, NotFound
  <1>1. Query1Types /\ VisitInv /\ Apart /\ Reached /\ Covered
    BY DEF Query1Inv, SearchInv
  <1>2. /\ Edges' = Edges
        /\ \A p, q, n : Joined(Edges, p, q, n)' = Joined(Edges, p, q, n)
        /\ \A p : Near(p)' = Near(p)
    BY SameWalks DEF GiveUp
  <1>3. Query1Types' /\ VisitInv' /\ Apart' /\ TurnInv'
    BY <1>1, <1>2 DEF Query1Types, VisitInv, Apart, TurnInv, Pending, GiveUp
  <1>4. Reached' /\ Covered'
    BY <1>1, <1>2 DEF Reached, Covered, GiveUp
  <1>5. Shortest'
    BY DEF Shortest, GiveUp
  <1>6. PICK s \in Sides : queue[s] = {}
    BY DEF GiveUp
  <1>7. Enclosed(vst[s]) /\ vst[s] \in SUBSET Persons
    BY <1>1, <1>6 DEF VisitInv, Pending, Enclosed, Query1Types, GiveUp
  <1>8. CASE s = 1
    BY <1>1, <1>3, <1>2, <1>4, <1>5, <1>7, <1>8
       DEF Query1Inv, SearchInv, NotFoundMeansApart, Enclosed, VisitInv, Apart, GiveUp
  <1>9. CASE s = 2
    <2> DEFINE S == Persons \ vst[2]
    <2>1. query[1] \in S /\ query[2] \notin S
      BY <1>1, QueryEnds DEF VisitInv, Apart, Query1Types, GiveUp
    <2>2. Enclosed(S)
      BY <1>7, <1>9 DEF Enclosed, Near
    <2>3. NotFoundMeansApart'
      BY <2>1, <2>2, <1>2 DEF NotFoundMeansApart, Enclosed, GiveUp
    <2>4. QED
      BY <1>3, <1>4, <1>5, <2>3 DEF Query1Inv, SearchInv
  <1>10. QED
    BY <1>8, <1>9

\* The two searches meet: the walks to both ends make one of the length that
\* is returned, and a shorter one would have been met in an earlier level.
LEMMA MeetStep ==
    ASSUME Query1Inv, NEW p \in Persons, Meet(p)
    PROVE  Query1Inv'
  <1> USE DEF Sides, Searching, NotFound
  <1>1. Query1Types /\ VisitInv /\ Apart /\ Reached /\ Covered
    BY DEF Query1Inv, SearchInv
  <1>2. /\ Edges' = Edges
        /\ \A q, r, n : Joined(Edges, q, r, n)' = Joined(Edges, q, r, n)
        /\ \A q : Near(q)' = Near(q)
    BY SameWalks DEF Meet
  <1>3. Query1Types' /\ VisitInv' /\ Apart' /\ TurnInv' /\ NotFoundMeansApart'
    <2>1. answer' \in Nat
      BY <1>1 DEF Meet, Query1Types
    <2>2. QED
      BY <1>1, <1>2, <2>1 DEF Query1Types, VisitInv, Apart, TurnInv, NotFoundMeansApart, Pending, Meet
  <1>4. Reached' /\ Covered'
    BY <1>1, <1>2 DEF Reached, Covered, Meet
  <1> DEFINE d == depth[1] + depth[2]
             o == Other
  <1>5. /\ side \in Sides /\ o \in Sides /\ o # side
        /\ depth[side] \in Nat /\ depth[o] \in Nat
        /\ d \in Nat /\ d = depth[side] + depth[o]
        /\ query[1] \in Persons /\ query[2] \in Persons
    BY <1>1, QueryEnds DEF Query1Types, Other
  <1>6. PICK r \in Persons : {p, r} \in Edges /\ r \in vst[o]
    BY DEF Meet, Found, Near
  <1>7. PICK m \in 0 .. depth[side] - 1 : Joined(Edges, query[side], p, m)
    BY <1>1 DEF Reached, Meet
  <1>8. PICK n \in 0 .. depth[o] : Joined(Edges, query[o], r, n)
    BY <1>1, <1>5, <1>6 DEF Reached
  <1> HIDE DEF d, o
  <1>9. \A l \in 0 .. d - 1 : ~ Joined(Edges, query[side], query[o], l)
    <2> SUFFICES ASSUME NEW l \in 0 .. d - 1, Joined(Edges, query[side], query[o], l)
                 PROVE  FALSE
      OBVIOUS
    <2>1. PICK a \in 0 .. l : a <= depth[side] - 1 /\ l - a <= depth[o]
      <3>1. CASE l <= depth[side] - 1
        <4>1. l \in 0 .. l /\ l - l <= depth[o]
          BY <1>5
        <4>2. QED
          BY <3>1, <4>1
      <3>2. CASE l > depth[side] - 1
        <4>1. depth[side] - 1 \in 0 .. l /\ l - (depth[side] - 1) <= depth[o]
          BY <1>5, <1>7, <3>2
        <4>2. QED
          BY <4>1, <1>5
      <3>3. QED
        BY <3>1, <3>2, <1>5
    <2>2. PICK q \in Persons : Joined(Edges, query[side], q, a) /\ Joined(Edges, q, query[o], l - a)
      BY JoinedSplit
    <2>3. Joined(Edges, query[o], q, l - a) /\ l - a \in 0 .. depth[o]
      BY <2>1, <2>2, JoinedBack
    <2>4. q \in vst[side]
      BY <1>1, <1>5, <2>1, <2>2 DEF Covered
    <2>5. q \in vst[o]
      <3>1. CASE l - a = depth[o]
        BY <1>1, <1>5, <2>3, <3>1 DEF Covered
      <3>2. CASE l - a # depth[o]
        <4>1. l - a \in 0 .. depth[o] - 1
          BY <2>3, <3>2, <1>5
        <4>2. QED
          BY <1>1, <1>5, <2>3, <4>1 DEF Covered
      <3>3. QED
        BY <3>1, <3>2
    <2>6. QED
      BY <1>1, <1>5, <2>4, <2>5 DEF Apart, Meet
  <1>10. Joined(Edges, query[side], query[o], d)
    <2>1. Joined(Edges, query[side], r, m + 1)
      BY <1>6, <1>7, JoinedEdge
    <2>2. Joined(Edges, r, query[o], n)
      BY <1>8, JoinedBack
    <2>3. Joined(Edges, query[side], query[o], (m + 1) + n)
      BY <2>1, <2>2, <1>7, <1>8, JoinedConcat
    <2>4. (m + 1) + n \in 0 .. d
      BY <1>5, <1>7, <1>8
    <2>5. (m + 1) + n = d
      BY <2>3, <2>4, <1>5, <1>9
    <2>6. QED
      BY <2>3, <2>5
  <1>11. /\ Joined(Edges, query[1], query[2], d)
         /\ \A l \in 0 .. d - 1 : ~ Joined(Edges, query[1], query[2], l)
    <2>1. CASE side = 1
      BY <2>1, <1>5, <1>9, <1>10
    <2>2. CASE side = 2
      <3>1. o = 1
        BY <2>2, <1>5
      <3>2. \A l \in 0 .. d - 1 : Joined(Edges, query[1], query[2], l) => Joined(Edges, query[2], query[1], l)
        BY <1>5, JoinedBack
      <3>3. QED
        BY <2>2, <3>1, <3>2, <1>5, <1>9, <1>10, JoinedBack
    <2>3. QED
      BY <2>1, <2>2, <1>5
  <1>12. Shortest'
    <2>1. answer' = d /\ query' = query
      BY DEF Meet, d
    <2>2. QED
      BY <1>2, <1>11, <2>1 DEF Shortest
  <1>13. QED
    BY <1>3, <1>4, <1>12 DEF Query1Inv, SearchInv

\* The persons found are one edge further than the person taken.  With the
\* last person of the level, everybody that far away has been visited.
LEMMA VisitStep ==
    ASSUME Query1Inv, NEW p \in Persons, Visit(p)
    PROVE  Query1Inv'
  <1> USE DEF Sides, Searching, NotFound
  <1>1. Query1Types /\ VisitInv /\ Apart /\ Reached /\ Covered /\ TurnInv
    BY DEF Query1Inv, SearchInv
  <1>2. /\ Edges' = Edges
        /\ \A q, r, n : Joined(Edges, q, r, n)' = Joined(Edges, q, r, n)
        /\ \A q : Near(q)' = Near(q)
    BY SameWalks DEF Visit
  <1> DEFINE o == Other
  <1>3. /\ side \in Sides /\ o \in Sides /\ o # side
        /\ \A s \in Sides : s = side \/ s = o
        /\ \A s \in Sides : depth[s] \in Nat
        /\ query[1] \in Persons /\ query[2] \in Persons
    BY <1>1, QueryEnds DEF Query1Types, Other
  <1>4. /\ side' = side /\ depth' = depth /\ query' = query /\ answer' = answer /\ ncmts' = ncmts
        /\ vst'[side] = vst[side] \cup Found(p) /\ vst'[o] = vst[o]
        /\ queue'[side] = queue[side] \cup Found(p) /\ queue'[o] = queue[o]
        /\ level' = level \ {p} /\ p \in level /\ answer = Searching
        /\ Found(p) \cap vst[o] = {} /\ Found(p) \subseteq Persons
    BY <1>1, <1>3 DEF Query1Types, Visit, Found, Near
  <1>5. Found(p) \cap vst[side] = {} /\ Near(p) \subseteq vst[side] \cup Found(p)
    BY DEF Found
  <1>6. Query1Types'
    BY <1>1, <1>4 DEF Query1Types, Visit
  <1> HIDE DEF o
  <1>7. VisitInv'
    <2>1. /\ query[side] \in vst[side] /\ queue[side] \cup level \subseteq vst[side]
          /\ \A q \in vst[side] \ (queue[side] \cup level) : Near(q) \subseteq vst[side]
          /\ query[o] \in vst[o] /\ queue[o] \subseteq vst[o]
          /\ \A q \in vst[o] \ queue[o] : Near(q) \subseteq vst[o]
      BY <1>1, <1>3 DEF VisitInv, Pending
    <2>2. /\ query'[side] \in vst'[side] /\ queue'[side] \cup level' \subseteq vst'[side]
          /\ \A q \in vst'[side] \ (queue'[side] \cup level') : Near(q)' \subseteq vst'[side]
      BY <2>1, <1>2, <1>4, <1>5
    <2>3. /\ query'[o] \in vst'[o] /\ queue'[o] \subseteq vst'[o]
          /\ \A q \in vst'[o] \ queue'[o] : Near(q)' \subseteq vst'[o]
      BY <2>1, <1>2, <1>4
    <2>4. QED
      BY <1>3, <1>4, <2>2, <2>3 DEF VisitInv, Pending
  <1>8. Apart'
    BY <1>1, <1>3, <1>4 DEF Apart
  <1>9. Reached'
    <2>1. PICK m \in 0 .. depth[side] - 1 : Joined(Edges, query[side], p, m)
      BY <1>1, <1>4 DEF Reached
    <2>2. \A q \in Found(p) : Joined(Edges, query[side], q, m + 1)
      BY <2>1, <1>4, JoinedEdge DEF Found, Near
    <2>3. m + 1 \in 0 .. depth[side]
      BY <1>3, <2>1
    <2>4. \A q \in vst'[side] : \E n \in 0 .. depth[side] : Joined(Edges, query[side], q, n)
      BY <1>1, <1>3, <1>4, <2>2, <2>3 DEF Reached
    <2>5. QED
      BY <1>1, <1>2, <1>3, <1>4, <2>4 DEF Reached
  <1>10. Covered'
    <2>1. ASSUME NEW q \in Persons, NEW n \in 0 .. depth[side] - 1, Joined(Edges, query[side], q, n)
          PROVE  q \in vst[side] \ queue[side] /\ q \in vst'[side] \ queue'[side]
      BY <1>1, <1>3, <1>4, <1>5, <2>1 DEF Covered
    <2>2. ASSUME NEW q \in Persons, level' = {}, Joined(Edges, query[side], q, depth[side])
          PROVE  q \in vst'[side]
      <3>1. depth[side] - 1 \in 0 .. depth[side] /\ depth[side] \in Nat \ {0}
        BY <1>1, <1>3, <1>4 DEF Reached
      <3>2. PICK r \in Persons : /\ Joined(Edges, query[side], r, depth[side] - 1)
                                 /\ Joined(Edges, r, q, depth[side] - (depth[side] - 1))
        BY <2>2, <3>1, JoinedSplit
      <3>3. Joined(Edges, r, q, 1)
        <4>1. depth[side] - (depth[side] - 1) = 1
          BY <3>1
        <4>2. QED
          BY <3>2, <4>1
      <3>4. {r, q} \in Edges
        BY <3>3 DEF Joined, Walk
      <3>5. r \in vst'[side] \ queue'[side]
        BY <3>1, <3>2, <2>1
      <3>6. Near(r) \subseteq vst'[side]
        <4>1. Pending(side)' = queue'[side]
          BY <1>4, <2>2 DEF Pending
        <4>2. \A z \in vst'[side] \ queue'[side] : Near(z)' \subseteq vst'[side]
          BY <1>3, <1>4, <1>7, <4>1 DEF VisitInv
        <4>3. Near(r)' = Near(r)
          BY <1>2
        <4>4. QED
          BY <3>5, <4>2, <4>3
      <3>7. QED
        BY <3>4, <3>6 DEF Near
    <2>3. \A q \in Persons :
             /\ \A n \in 0 .. depth[o] - 1 : Joined(Edges, query[o], q, n) => q \in vst[o] \ queue[o]
             /\ Joined(Edges, query[o], q, depth[o]) => q \in vst[o]
      BY <1>1, <1>3 DEF Covered
    <2>4. QED
      BY <1>2, <1>3, <1>4, <2>1, <2>2, <2>3 DEF Covered
  <1>11. TurnInv' /\ Shortest' /\ NotFoundMeansApart'
    BY <1>1, <1>3, <1>4 DEF TurnInv, Shortest, NotFoundMeansApart
  <1>12. QED
    BY <1>6, <1>7, <1>8, <1>9, <1>10, <1>11 DEF Query1Inv, SearchInv

\* Every step of bfs2 keeps the invariant.
LEMMA Query1Step == Query1Inv /\ [Query1Next]_query1Vars => Query1Inv'
  <1> SUFFICES ASSUME Query1Inv, [Query1Next]_query1Vars PROVE Query1Inv'
    OBVIOUS
  <1>1. CASE Round
    <2>1. Query1Inv /\ side = 2 /\ level = {} /\ answer = Searching /\ queue[1] # {} /\ queue[2] # {} /\ BeginLevel(1)
      BY <1>1 DEF Round
    <2>2. QED
      BY <2>1, BeginStep DEF Sides
  <1>2. CASE GiveUp
    BY <1>2, GiveUpStep
  <1>3. CASE Turn
    <2>1. side = 1 /\ level = {} /\ answer = Searching /\ queue[2] # {} /\ BeginLevel(2)
      BY <1>3 DEF Turn, Query1Inv, SearchInv, TurnInv
    <2>2. QED
      BY <2>1, BeginStep DEF Sides
  <1>4. ASSUME NEW p \in Persons, Meet(p)
        PROVE  Query1Inv'
    BY <1>4, MeetStep
  <1>5. ASSUME NEW p \in Persons, Visit(p)
        PROVE  Query1Inv'
    BY <1>5, VisitStep
  <1>6. CASE UNCHANGED query1Vars
    <2>1. /\ Edges' = Edges
          /\ \A p, q, n : Joined(Edges, p, q, n)' = Joined(Edges, p, q, n)
          /\ \A p : Near(p)' = Near(p)
      BY <1>6, SameWalks DEF query1Vars
    <2>2. QED
      BY <1>6, <2>1 DEF query1Vars, Query1Inv, SearchInv, Query1Types, VisitInv, Apart, Reached, Covered, TurnInv,
         Shortest, NotFoundMeansApart, Pending, Enclosed
  <1>7. QED
    BY <1>1, <1>2, <1>3, <1>4, <1>5, <1>6 DEF Query1Next

-----------------------------------------------------------------------------
(* The theorems.                                                           *)

\* The invariant holds of every search.
LEMMA Query1Inductive == Query1Spec => []Query1Inv
  BY Query1Start, Query1Step, PTL DEF Query1Spec

\* What each side of bfs2 has visited is what its levels reach, for any network.
THEOREM SearchesAreExact == Query1Spec => []SearchInv
  <1>1. Query1Inv => SearchInv
    BY DEF Query1Inv
  <1>2. QED
    BY <1>1, Query1Inductive, PTL

\* bfs2 answers with the length of a shortest path over friendships with more than
\* x replies (query1_force.cc:38), for any network.
THEOREM AnswerIsShortest == Query1Spec => []Shortest
  <1>1. Query1Inv => Shortest
    BY DEF Query1Inv, SearchInv
  <1>2. QED
    BY <1>1, Query1Inductive, PTL

\* bfs2 answers -1 only when no path of such friendships joins the two persons.
THEOREM NotFoundIsRight == Query1Spec => []NotFoundMeansApart
  <1>1. Query1Inv => NotFoundMeansApart
    BY DEF Query1Inv, SearchInv
  <1>2. QED
    BY <1>1, Query1Inductive, PTL

-----------------------------------------------------------------------------
(* Query 3: distances.                                                    *)

\* E joins p and q by a walk of n edges or fewer.
Within(E, p, q, n) == \E m \in 0 .. n : Joined(E, p, q, m)

\* A walk of no edges stays where it is; one of n + 1 edges is one of n and a friend of its end.
LEMMA WithinZero ==
    ASSUME NEW E, NEW p \in Persons, NEW q
    PROVE  Within(E, p, q, 0) <=> p = q
  <1>1. ASSUME Within(E, p, q, 0) PROVE p = q
    <2>1. Joined(E, p, q, 0)
      BY <1>1 DEF Within
    <2>2. QED
      BY <2>1 DEF Joined, Walk
  <1>2. ASSUME p = q PROVE Within(E, p, q, 0)
    BY <1>2, JoinedZero DEF Within
  <1>3. QED
    BY <1>1, <1>2

\* One edge more.
LEMMA WithinNext ==
    ASSUME NEW E, NEW p \in Persons, NEW q \in Persons, NEW n \in Nat
    PROVE  Within(E, p, q, n + 1) <=>
              \/ Within(E, p, q, n)
              \/ \E r \in Persons : Within(E, p, r, n) /\ {r, q} \in E
  <1>1. ASSUME Within(E, p, q, n + 1), ~ Within(E, p, q, n)
        PROVE  \E r \in Persons : Within(E, p, r, n) /\ {r, q} \in E
    <2>1. Joined(E, p, q, n + 1)
      <3>1. PICK m \in 0 .. n + 1 : Joined(E, p, q, m)
        BY <1>1 DEF Within
      <3>2. m \notin 0 .. n
        BY <1>1, <3>1 DEF Within
      <3>3. m = n + 1
        BY <3>2
      <3>4. QED
        BY <3>1, <3>3
    <2>2. n \in 0 .. n + 1 /\ n + 1 \in Nat /\ (n + 1) - n = 1
      OBVIOUS
    <2>3. PICK r \in Persons : Joined(E, p, r, n) /\ Joined(E, r, q, (n + 1) - n)
      BY <2>1, <2>2, JoinedSplit
    <2>4. Joined(E, r, q, 1)
      BY <2>2, <2>3
    <2>5. {r, q} \in E
      BY <2>4 DEF Joined, Walk
    <2>6. n \in 0 .. n
      OBVIOUS
    <2>7. QED
      BY <2>3, <2>5, <2>6 DEF Within
  <1>2. ASSUME Within(E, p, q, n) PROVE Within(E, p, q, n + 1)
    <2>1. 0 .. n \subseteq 0 .. n + 1
      OBVIOUS
    <2>2. QED
      BY <1>2, <2>1 DEF Within
  <1>3. ASSUME NEW r \in Persons, Within(E, p, r, n), {r, q} \in E
        PROVE  Within(E, p, q, n + 1)
    <2>1. PICK m \in 0 .. n : Joined(E, p, r, m)
      BY <1>3 DEF Within
    <2>2. m + 1 \in 0 .. n + 1 /\ Joined(E, p, q, m + 1)
      BY <2>1, <1>3, JoinedEdge
    <2>3. QED
      BY <2>2 DEF Within
  <1>4. QED
    BY <1>1, <1>2, <1>3

\* There are finitely many persons.
LEMMA PersonsFinite == IsFiniteSet(Persons) /\ Cardinality(Persons) = NPerson /\ Persons \subseteq Nat
  <1>1. 1 \in Int /\ NPerson \in Int /\ NPerson \in Nat
    BY NetworkAssumption
  <1>2. IsFiniteSet(1 .. NPerson) /\ Cardinality(1 .. NPerson) = IF 1 > NPerson THEN 0 ELSE NPerson - 1 + 1
    BY <1>1, FS_Interval
  <1>3. QED
    BY <1>1, <1>2 DEF Persons

\* A shortest walk meets nobody twice: it has fewer edges than there are persons.
LEMMA WalksAreShort ==
    ASSUME NEW E, NEW p \in Persons, NEW q \in Persons, NEW n \in Nat, Within(E, p, q, n)
    PROVE  Within(E, p, q, NPerson)
  <1> DEFINE S == {m \in Nat : Joined(E, p, q, m)}
  <1>1. S \in SUBSET Nat /\ S # {}
    BY DEF Within
  <1>2. PICK m \in S : \A l \in S : m <= l
    BY <1>1, LeastNumber
  <1>3. PICK w \in [0 .. m -> Persons] : Walk(E, w, p, q, m)
    BY <1>2 DEF Joined
  <1>4. CASE m <= NPerson
    <2>1. m \in 0 .. NPerson /\ Joined(E, p, q, m)
      BY <1>2, <1>4, NetworkAssumption
    <2>2. QED
      BY <2>1 DEF Within
  <1>5. CASE m > NPerson
    <2>1. IsFiniteSet(0 .. m) /\ Cardinality(0 .. m) = m + 1
      <3>1. 0 \in Int /\ m \in Int /\ m \in Nat
        BY <1>2
      <3>2. IsFiniteSet(0 .. m) /\ Cardinality(0 .. m) = IF 0 > m THEN 0 ELSE m - 0 + 1
        BY <3>1, FS_Interval
      <3>3. QED
        BY <3>1, <3>2
    <2>2. Cardinality(Persons) < Cardinality(0 .. m) /\ m \in Nat
      BY <1>2, <1>5, <2>1, PersonsFinite, NetworkAssumption
    <2>3. \E x, y \in 0 .. m : x # y /\ w[x] = w[y]
      BY <2>1, <2>2, PersonsFinite, FS_PigeonHole
    <2>4. PICK a \in 0 .. m, b \in 0 .. m : a < b /\ w[a] = w[b]
      <3>1. PICK x \in 0 .. m, y \in 0 .. m : x # y /\ w[x] = w[y]
        BY <2>3
      <3>2. x < y \/ y < x
        BY <3>1
      <3>3. QED
        BY <3>1, <3>2
    <2>5. Joined(E, p, w[a], a)
      <3> DEFINE u == [j \in 0 .. a |-> w[j]]
      <3>1. u \in [0 .. a -> Persons] /\ u[0] = w[0] /\ u[a] = w[a]
        BY <2>4
      <3>2. w[0] = p
        BY <1>3 DEF Walk
      <3>3. ASSUME NEW j \in 0 .. a - 1 PROVE {u[j], u[j + 1]} \in E
        <4>1. u[j] = w[j] /\ u[j + 1] = w[j + 1] /\ j \in 0 .. m - 1
          BY <2>4
        <4>2. QED
          BY <1>3, <4>1 DEF Walk
      <3>4. QED
        BY <3>1, <3>2, <3>3 DEF Joined, Walk
    <2>6. Joined(E, w[b], q, m - b)
      <3> DEFINE u == [j \in 0 .. m - b |-> w[j + b]]
      <3>1. u \in [0 .. m - b -> Persons] /\ u[0] = w[b] /\ u[m - b] = w[m]
        BY <2>2, <2>4
      <3>2. w[m] = q
        BY <1>3 DEF Walk
      <3>3. ASSUME NEW j \in 0 .. m - b - 1 PROVE {u[j], u[j + 1]} \in E
        <4>1. j + b \in 0 .. m - 1 /\ (j + b) + 1 = (j + 1) + b
          BY <2>2, <2>4
        <4>2. {w[j + b], w[(j + b) + 1]} \in E
          BY <1>3, <4>1 DEF Walk
        <4>3. u[j] = w[j + b] /\ u[j + 1] = w[(j + b) + 1]
          BY <2>2, <2>4, <4>1
        <4>4. QED
          BY <4>2, <4>3
      <3>4. QED
        BY <3>1, <3>2, <3>3 DEF Joined, Walk
    <2>7. a \in Nat /\ m - b \in Nat /\ a + (m - b) < m
      BY <2>2, <2>4
    <2>8. Joined(E, p, q, a + (m - b))
      BY <2>4, <2>5, <2>6, <2>7, JoinedConcat
    <2>9. a + (m - b) \in S
      BY <2>7, <2>8
    <2>10. QED
      BY <1>2, <2>7, <2>9
  <1>6. QED
    BY <1>2, <1>4, <1>5, NetworkAssumption

\* The balls are the persons within as many edges.
LEMMA BallsAre ==
    ASSUME NEW E \in Networks, NEW n \in 0 .. NPerson, NEW p \in Persons
    PROVE  Balls[E][n][p] = {q \in Persons : Within(E, p, q, n)}
  <1> DEFINE near == [r \in Persons |-> {q \in Persons : {r, q} \in E}]
             R(s) == [m \in 0 .. NPerson |->
                        IF m = 0 THEN [r \in Persons |-> {r}]
                        ELSE [r \in Persons |-> s[m - 1][r] \cup UNION {near[q] : q \in s[m - 1][r]}]]
             c == CHOOSE s : s = R(s)
             W == [m \in 0 .. NPerson |-> [r \in Persons |-> {q \in Persons : Within(E, r, q, m)}]]
  <1>1. Balls[E] = [m \in 0 .. NPerson |-> c[m]]
    BY DEF Balls
  <1>2. W = R(W)
    <2>1. ASSUME NEW m \in 0 .. NPerson, NEW r \in Persons
          PROVE  W[m][r] = R(W)[m][r]
      <3>1. CASE m = 0
        <4>1. R(W)[m][r] = {r}
          BY <3>1
        <4>2. W[m][r] = {q \in Persons : Within(E, r, q, 0)}
          BY <3>1
        <4>3. \A q \in Persons : Within(E, r, q, 0) <=> r = q
          BY WithinZero
        <4> HIDE DEF W, R
        <4>4. QED
          BY <4>1, <4>2, <4>3
      <3>2. CASE m # 0
        <4>1. m - 1 \in 0 .. NPerson /\ m - 1 \in Nat /\ (m - 1) + 1 = m
          BY <3>2, NetworkAssumption
        <4> DEFINE D == {q \in Persons : Within(E, r, q, m - 1)}
        <4>2. R(W)[m][r] = D \cup UNION {near[q] : q \in D}
          BY <3>2, <4>1
        <4>3. W[m][r] = {q \in Persons : Within(E, r, q, (m - 1) + 1)}
          BY <4>1
        <4>4. \A q \in Persons : Within(E, r, q, (m - 1) + 1) <=>
                 \/ Within(E, r, q, m - 1)
                 \/ \E x \in Persons : Within(E, r, x, m - 1) /\ {x, q} \in E
          BY <4>1, WithinNext
        <4>5. UNION {near[q] : q \in D} = {q \in Persons : \E x \in Persons : Within(E, r, x, m - 1) /\ {x, q} \in E}
          <5>1. \A x \in D : near[x] = {q \in Persons : {x, q} \in E}
            OBVIOUS
          <5>2. \A q : q \in UNION {near[x] : x \in D} <=> q \in Persons /\ \E x \in D : {x, q} \in E
            <6> HIDE DEF near, D
            <6>1. QED
              BY <5>1
          <5>3. QED
            BY <5>2
        <4> HIDE DEF W, R
        <4>6. QED
          BY <4>2, <4>3, <4>4, <4>5
      <3>3. QED
        BY <3>1, <3>2
    <2>2. ASSUME NEW m \in 0 .. NPerson
          PROVE  W[m] = R(W)[m]
      <3>1. W[m] = [r \in Persons |-> W[m][r]]
        OBVIOUS
      <3>2. R(W)[m] = [r \in Persons |-> R(W)[m][r]]
        OBVIOUS
      <3> HIDE DEF W, R
      <3>3. QED
        BY <2>1, <3>1, <3>2
    <2>3. W = [m \in 0 .. NPerson |-> W[m]]
      OBVIOUS
    <2>4. R(W) = [m \in 0 .. NPerson |-> R(W)[m]]
      OBVIOUS
    <2> HIDE DEF W, R
    <2>5. QED
      BY <2>2, <2>3, <2>4
  <1> HIDE DEF W, R
  <1>3. c = R(c)
    BY <1>2, Zenon
  <1> HIDE DEF c
  <1>4. \A m \in 0 .. NPerson : c[m] = W[m]
    <2> DEFINE S == {m \in 0 .. NPerson : c[m] # W[m]}
    <2> SUFFICES ASSUME S # {} PROVE FALSE
      OBVIOUS
    <2>1. S \in SUBSET Nat
      OBVIOUS
    <2>2. PICK m \in S : \A l \in S : m <= l
      BY <2>1, LeastNumber
    <2>3. m \in 0 .. NPerson /\ c[m] # W[m]
      BY <2>2
    <2>4. R(c)[m] = R(W)[m]
      <3>1. CASE m = 0
        BY <3>1, <2>3 DEF R
      <3>2. CASE m # 0
        <4>1. m - 1 \in 0 .. NPerson /\ m - 1 < m
          BY <3>2, <2>3, NetworkAssumption
        <4>2. m - 1 \notin S
          BY <2>2, <4>1
        <4>3. c[m - 1] = W[m - 1]
          BY <4>1, <4>2
        <4>4. QED
          BY <2>3, <3>2, <4>3 DEF R
      <3>3. QED
        BY <3>1, <3>2
    <2>5. c[m] = R(c)[m]
      BY <1>3, Zenon
    <2>6. W[m] = R(W)[m]
      BY <1>2, Zenon
    <2>7. QED
      BY <2>3, <2>4, <2>5, <2>6
  <1>5. Balls[E][n] = W[n]
    BY <1>1, <1>4
  <1>6. QED
    BY <1>5 DEF W

\* The input of a query is one of those enumerated.
Asked ==
    /\ friends \in Networks
    /\ tags \in Interests
    /\ place \in Places
    /\ question \in Questions

\* Ball gives the persons within n edges, however large n is.
LEMMA BallIs ==
    ASSUME Asked, NEW p \in Persons, NEW n \in Nat
    PROVE  Ball(p, n) = {q \in Persons : Within(friends, p, q, n)}
  <1> DEFINE m == IF n < NPerson THEN n ELSE NPerson
  <1>1. m \in 0 .. NPerson
    BY NetworkAssumption
  <1>2. Ball(p, n) = {q \in Persons : Within(friends, p, q, m)}
    BY <1>1, BallsAre DEF Ball, Asked
  <1>3. CASE n < NPerson
    BY <1>2, <1>3
  <1>4. CASE ~ (n < NPerson)
    <2>1. m = NPerson /\ 0 .. NPerson \subseteq 0 .. n
      BY <1>4, NetworkAssumption
    <2>2. \A q \in Persons : Within(friends, p, q, NPerson) => Within(friends, p, q, n)
      BY <2>1 DEF Within
    <2>3. \A q \in Persons : Within(friends, p, q, n) => Within(friends, p, q, NPerson)
      BY WalksAreShort
    <2>4. QED
      BY <1>2, <2>1, <2>2, <2>3
  <1>5. QED
    BY <1>3, <1>4

\* Distance is the same both ways.
LEMMA WithinBack ==
    ASSUME NEW E, NEW p, NEW q, NEW n \in Nat, Within(E, p, q, n)
    PROVE  Within(E, q, p, n)
  <1>1. PICK m \in 0 .. n : Joined(E, p, q, m)
    BY DEF Within
  <1>2. m \in Nat
    BY <1>1
  <1>3. Joined(E, q, p, m)
    BY <1>1, <1>2, JoinedBack
  <1>4. QED
    BY <1>1, <1>3 DEF Within

\* Two searches of a and b levels meet if the two are within a + b edges.
LEMMA SearchesMeet ==
    ASSUME NEW E, NEW p \in Persons, NEW q \in Persons, NEW a \in Nat, NEW b \in Nat
    PROVE  Within(E, p, q, a + b) <=> \E r \in Persons : Within(E, p, r, a) /\ Within(E, q, r, b)
  <1>1. ASSUME Within(E, p, q, a + b)
        PROVE  \E r \in Persons : Within(E, p, r, a) /\ Within(E, q, r, b)
    <2>1. PICK m \in 0 .. a + b : Joined(E, p, q, m)
      BY <1>1 DEF Within
    <2>2. CASE m <= a
      <3>1. m \in 0 .. a
        BY <2>2
      <3>2. Within(E, p, q, a)
        BY <2>1, <3>1 DEF Within
      <3>3. Joined(E, q, q, 0) /\ 0 \in 0 .. b
        BY JoinedZero
      <3>4. Within(E, q, q, b)
        BY <3>3 DEF Within
      <3>5. QED
        BY <3>2, <3>4
    <2>3. CASE m > a
      <3>1. m \in Nat /\ a \in 0 .. m /\ m - a \in 0 .. b /\ m - a \in Nat
        BY <2>3
      <3>2. PICK r \in Persons : Joined(E, p, r, a) /\ Joined(E, r, q, m - a)
        BY <2>1, <3>1, JoinedSplit
      <3>3. Joined(E, q, r, m - a)
        BY <3>1, <3>2, JoinedBack
      <3>4. a \in 0 .. a
        OBVIOUS
      <3>5. QED
        BY <3>1, <3>2, <3>3, <3>4 DEF Within
    <2>4. QED
      BY <2>2, <2>3
  <1>2. ASSUME NEW r \in Persons, Within(E, p, r, a), Within(E, q, r, b)
        PROVE  Within(E, p, q, a + b)
    <2>1. PICK m \in 0 .. a : Joined(E, p, r, m)
      BY <1>2 DEF Within
    <2>2. PICK n \in 0 .. b : Joined(E, q, r, n)
      BY <1>2 DEF Within
    <2>3. m \in Nat /\ n \in Nat /\ m + n \in 0 .. a + b
      BY <2>1, <2>2
    <2>4. Joined(E, r, q, n)
      BY <2>2, <2>3, JoinedBack
    <2>5. Joined(E, p, q, m + n)
      BY <2>1, <2>3, <2>4, JoinedConcat
    <2>6. QED
      BY <2>3, <2>5 DEF Within
  <1>3. QED
    BY <1>1, <1>2

\* What a query asks for.
LEMMA AskedFor == Asked => k \in Nat \ {0} /\ h \in 0 .. Far - 1
  BY Query3Assumption DEF Asked, k, h

\* No query asks for as many hops as bfs3 returns for two persons without a path.
LEMMA FarAway == Far \in Nat /\ Far > 1
  BY SMT DEF Far

\* bfs3 stays within h for two persons who are that close, and only for them.
LEMMA CloseIs ==
    ASSUME Asked, NEW p \in Persons, NEW q \in Persons, p # q
    PROVE  Close(p, q) <=> Within(friends, p, q, h)
  <1> DEFINE N(n) == IF n < NPerson THEN n ELSE NPerson
             limit == IF h = 0 THEN 1 ELSE h
             levels == Levels(friends, h, p, q)
  <1>1. h \in Nat /\ h < Far
    BY AskedFor, FarAway
  <1>2. bfs3(p, q) = IF levels = {} THEN Far ELSE Min(levels)
    <2>1. <<friends, h>> \in Networks \X {y[2] : y \in Questions}
      BY DEF Asked, h
    <2>2. <<p, q>> \in Persons \X Persons
      OBVIOUS
    <2>3. QED
      BY <2>1, <2>2 DEF bfs3, Searches
  <1>3. \A n \in Int : n \in levels <=> n \in 1 .. limit /\ Within(friends, p, q, n)
    <2> SUFFICES ASSUME NEW n \in 1 .. limit PROVE n \in levels <=> Within(friends, p, q, n)
      BY DEF Levels
    <2> DEFINE a == (n + 1) \div 2
               b == n \div 2
    <2>1. a \in Nat /\ b \in Nat /\ a + b = n
      BY <1>1
    <2>2. \A x \in Persons, m \in Nat : Balls[friends][N(m)][x] = {r \in Persons : Within(friends, x, r, m)}
      BY BallIs DEF Ball
    <2>3. n \in levels <=> Balls[friends][N(a)][p] \cap Balls[friends][N(b)][q] # {}
      BY DEF Levels
    <2> HIDE DEF N, levels, a, b
    <2>4. n \in levels <=> \E r \in Persons : Within(friends, p, r, a) /\ Within(friends, q, r, b)
      BY <2>1, <2>2, <2>3
    <2>5. QED
      BY <2>1, <2>4, SearchesMeet
  <1>4. levels \in SUBSET Nat /\ \A n \in levels : n \in 1 .. limit
    BY <1>1 DEF Levels
  <1> HIDE DEF N, levels
  <1>5. CASE levels = {}
    <2>1. ~ Close(p, q)
      BY <1>1, <1>2, <1>5, FarAway DEF Close
    <2>2. ~ Within(friends, p, q, h)
      <3>1. CASE h = 0
        BY <3>1, WithinZero
      <3>2. CASE h # 0
        BY <3>2, <1>1, <1>3, <1>5
      <3>3. QED
        BY <3>1, <3>2
    <2>3. QED
      BY <2>1, <2>2
  <1>6. CASE levels # {}
    <2>1. \E n \in levels : \A m \in levels : n <= m
      BY <1>4, <1>6, LeastNumber
    <2>2. bfs3(p, q) \in levels /\ \A m \in levels : bfs3(p, q) <= m
      BY <1>2, <1>6, <2>1 DEF Min
    <2>3. PICK n \in levels : n = bfs3(p, q)
      BY <2>2
    <2>4. n \in Nat /\ n \in 1 .. limit
      BY <1>4
    <2>5. Within(friends, p, q, n)
      BY <1>3, <2>4
    <2>6. CASE h = 0
      <3>1. ~ Within(friends, p, q, h)
        BY <2>6, WithinZero
      <3>2. n = 1
        BY <2>4, <2>6
      <3>3. QED
        BY <2>3, <2>6, <3>1, <3>2 DEF Close
    <2>7. CASE h # 0
      <3>1. n <= h
        BY <1>1, <2>4, <2>7
      <3>2. Within(friends, p, q, h)
        <4>1. 0 .. n \subseteq 0 .. h
          BY <1>1, <2>4, <3>1
        <4>2. QED
          BY <2>5, <4>1 DEF Within
      <3>3. QED
        BY <2>3, <3>1, <3>2 DEF Close
    <2>8. QED
      BY <2>6, <2>7
  <1>7. QED
    BY <1>5, <1>6

\* Both ways alike.
LEMMA CloseBack ==
    ASSUME Asked, NEW p \in Persons, NEW q \in Persons, p # q
    PROVE  /\ Close(p, q) <=> Close(q, p)
           /\ Close(p, q) <=> q \in Ball(p, h)
  <1>1. h \in Nat
    BY AskedFor, FarAway
  <1>2. Within(friends, p, q, h) <=> Within(friends, q, p, h)
    BY <1>1, WithinBack
  <1>3. q \in Ball(p, h) <=> Within(friends, p, q, h)
    BY <1>1, BallIs
  <1>4. QED
    BY <1>2, <1>3, CloseIs

-----------------------------------------------------------------------------
(* Query 3: the order of the pairs.                                        *)

\* A pair with its common tags.
Triples == Nat \X Nat \X Nat

\* How many elements of S are ahead of a.
NAhead(S, a) == Cardinality({b \in S : Ahead(b, a)})

AheadIn(S) == {e \in S \X S : Ahead(e[1], e[2])}

\* Of C, T holds everything but what has n elements of T ahead of it.
Keeps(T, C, n) == T \subseteq C /\ \A a \in C \ T : NAhead(T, a) >= n

\* Ahead puts all pairs in a row.
LEMMA AheadOrder ==
    /\ \A a \in Triples : ~ Ahead(a, a)
    /\ \A a, b \in Triples : a # b => Ahead(a, b) \/ Ahead(b, a)
    /\ \A a, b, c \in Triples : Ahead(a, b) /\ Ahead(b, c) => Ahead(a, c)
  <1>1. \A a \in Triples : ~ Ahead(a, a)
    BY DEF Ahead, Triples
  <1>2. \A a, b \in Triples : a # b => Ahead(a, b) \/ Ahead(b, a)
    BY DEF Ahead, Triples
  <1>3. \A a, b, c \in Triples : Ahead(a, b) /\ Ahead(b, c) => Ahead(a, c)
    BY DEF Ahead, Triples
  <1>4. QED
    BY <1>1, <1>2, <1>3

\* ... as a set of pairs.
LEMMA AheadOrders ==
    ASSUME NEW S \in SUBSET Triples
    PROVE  /\ Orders(AheadIn(S), S)
           /\ \A a \in S : RankIn(AheadIn(S), S, a) = NAhead(S, a)
  <1>1. \A a, b \in S : <<a, b>> \in AheadIn(S) <=> Ahead(a, b)
    BY DEF AheadIn
  <1>2. Orders(AheadIn(S), S)
    BY <1>1, AheadOrder DEF Orders
  <1>3. ASSUME NEW a \in S PROVE RankIn(AheadIn(S), S, a) = NAhead(S, a)
    <2>1. Below(AheadIn(S), S, a) = {b \in S : Ahead(b, a)}
      BY <1>1 DEF Below
    <2>2. QED
      BY <2>1 DEF RankIn, NAhead
  <1>4. QED
    BY <1>2, <1>3

\* Counting what is ahead.
LEMMA NAheadIsNat ==
    ASSUME NEW S, IsFiniteSet(S), NEW a
    PROVE  /\ IsFiniteSet({b \in S : Ahead(b, a)})
           /\ NAhead(S, a) \in Nat
           /\ NAhead(S, a) <= Cardinality(S)
  <1>1. {b \in S : Ahead(b, a)} \subseteq S
    OBVIOUS
  <1>2. IsFiniteSet({b \in S : Ahead(b, a)}) /\ NAhead(S, a) <= Cardinality(S)
    BY <1>1, FS_Subset DEF NAhead
  <1>3. QED
    BY <1>2, FS_CardinalityType DEF NAhead

\* What is ahead of a, if a is ahead of b or is b.
LEMMA NAheadGrows ==
    ASSUME NEW S \in SUBSET Triples, NEW T \in SUBSET Triples, IsFiniteSet(T),
           NEW a \in Triples, NEW b \in Triples,
           a = b \/ Ahead(a, b),
           \A c \in S : Ahead(c, a) => c \in T
    PROVE  NAhead(S, a) <= NAhead(T, b)
  <1>1. {c \in S : Ahead(c, a)} \subseteq {c \in T : Ahead(c, b)}
    BY AheadOrder
  <1>2. IsFiniteSet({c \in T : Ahead(c, b)})
    BY NAheadIsNat
  <1>3. QED
    BY <1>1, <1>2, FS_Subset DEF NAhead

\* Everything in S is ahead of a.
LEMMA AllAhead ==
    ASSUME NEW S, NEW a, \A b \in S : Ahead(b, a)
    PROVE  NAhead(S, a) = Cardinality(S)
  <1>1. {b \in S : Ahead(b, a)} = S
    OBVIOUS
  <1>2. QED
    BY <1>1 DEF NAhead

\* The n best of S.
LEMMA BestAre ==
    ASSUME NEW S \in SUBSET Triples, IsFiniteSet(S), NEW n \in Nat
    PROVE  /\ Best(S, n) \subseteq S
           /\ IsFiniteSet(Best(S, n))
           /\ Cardinality(Best(S, n)) = IF Cardinality(S) < n THEN Cardinality(S) ELSE n
           /\ \A a \in Best(S, n), b \in S \ Best(S, n) : Ahead(a, b)
           /\ \A a \in S : a \in Best(S, n) <=> NAhead(S, a) < n
  <1> DEFINE R == AheadIn(S)
             N == Cardinality(S)
             M == IF N < n THEN N ELSE n
             rank == [a \in Best(S, n) |-> NAhead(S, a)]
  <1>1. Best(S, n) \subseteq S /\ \A a \in S : a \in Best(S, n) <=> NAhead(S, a) < n
    BY DEF Best, NAhead
  <1>2. IsFiniteSet(Best(S, n)) /\ N \in Nat
    BY <1>1, FS_Subset, FS_CardinalityType
  <1>3. Orders(R, S) /\ \A a \in S : RankIn(R, S, a) = NAhead(S, a)
    BY AheadOrders
  <1>4. \A a \in S : NAhead(S, a) \in Nat /\ NAhead(S, a) < N
    BY <1>3, RankIsNat
  <1>5. \A a, b \in S : /\ Ahead(a, b) <=> NAhead(S, a) < NAhead(S, b)
                        /\ NAhead(S, a) = NAhead(S, b) => a = b
    <2> TAKE a, b \in S
    <2>1. <<a, b>> \in R <=> Ahead(a, b)
      BY DEF AheadIn
    <2>2. QED
      BY <1>3, <2>1, RankOrders
  <1>6. \A a \in Best(S, n), b \in S \ Best(S, n) : Ahead(a, b)
    BY <1>1, <1>4, <1>5
  <1>7. rank \in Bijection(Best(S, n), 0 .. M - 1)
    <2>1. \A a \in Best(S, n) : NAhead(S, a) \in 0 .. M - 1
      BY <1>1, <1>2, <1>4
    <2>2. rank \in [Best(S, n) -> 0 .. M - 1]
      BY <2>1
    <2>3. \A a, b \in Best(S, n) : rank[a] = rank[b] => a = b
      BY <1>1, <1>5
    <2>4. ASSUME NEW m \in 0 .. M - 1 PROVE \E a \in Best(S, n) : rank[a] = m
      <3>1. m \in Nat /\ m < N /\ m < n
        BY <1>2
      <3>2. PICK a \in S : RankIn(R, S, a) = m
        BY <1>3, <3>1, RankCovers
      <3>3. NAhead(S, a) = m /\ a \in Best(S, n)
        BY <1>1, <1>3, <3>1, <3>2
      <3>4. QED
        BY <3>3
    <2> HIDE DEF rank, M
    <2>5. rank \in Injection(Best(S, n), 0 .. M - 1)
      BY <2>2, <2>3 DEF Injection, IsInjective
    <2>6. rank \in Surjection(Best(S, n), 0 .. M - 1)
      BY <2>2, <2>4 DEF Surjection
    <2>7. QED
      BY <2>5, <2>6 DEF Bijection
  <1>8. Cardinality(Best(S, n)) = M
    <2>1. M \in Nat
      BY <1>2
    <2>2. Cardinality(0 .. M - 1) = M
      <3>1. 0 \in Int /\ M - 1 \in Int
        BY <2>1
      <3> HIDE DEF M
      <3>2. Cardinality(0 .. M - 1) = IF 0 > M - 1 THEN 0 ELSE M - 1 - 0 + 1
        BY <3>1, FS_Interval
      <3>3. QED
        BY <2>1, <3>2
    <2> HIDE DEF rank, M
    <2>3. QED
      <3>1. ExistsBijection(Best(S, n), 0 .. M - 1)
        BY <1>7 DEF ExistsBijection
      <3>2. QED
        BY <1>2, <3>1, <2>2, FS_Bijection
  <1>9. QED
    BY <1>1, <1>2, <1>6, <1>8

\* What is lost in a step has n better ones left, and so has what was lost before.
LEMMA KeepsStep ==
    ASSUME NEW D \in SUBSET Triples, NEW U, NEW S \in SUBSET Triples, NEW V, NEW n \in Nat,
           Keeps(U, D, n), IsFiniteSet(U), IsFiniteSet(S),
           V \subseteq U \cup S, \A x \in (U \cup S) \ V : NAhead(V, x) >= n
    PROVE  Keeps(V, D \cup S, n) /\ IsFiniteSet(V)
  <1>1. U \subseteq D /\ U \subseteq Triples /\ V \subseteq Triples /\ V \subseteq D \cup S
    BY DEF Keeps
  <1>2. IsFiniteSet(U \cup S) /\ IsFiniteSet(V)
    BY FS_Union, FS_Subset
  <1>3. ASSUME NEW a \in (D \cup S) \ V PROVE NAhead(V, a) >= n
    <2>1. CASE a \in U \cup S
      BY <2>1, <1>3
    <2>2. CASE a \notin U \cup S
      <3>1. a \in D \ U /\ a \in Triples
        BY <2>2
      <3>2. NAhead(U, a) >= n /\ NAhead(U, a) \in Nat /\ NAhead(V, a) \in Nat
        BY <3>1, <1>2, NAheadIsNat DEF Keeps
      <3>3. CASE \A b \in U : Ahead(b, a) => b \in V
        <4>1. NAhead(U, a) <= NAhead(V, a)
          BY <3>1, <3>3, <1>1, <1>2, NAheadGrows
        <4>2. QED
          BY <3>2, <4>1
      <3>4. CASE \E b \in U : Ahead(b, a) /\ b \notin V
        <4>1. PICK b \in U : Ahead(b, a) /\ b \notin V
          BY <3>4
        <4>2. NAhead(V, b) >= n /\ NAhead(V, b) \in Nat
          BY <4>1, <1>2, NAheadIsNat
        <4>3. NAhead(V, b) <= NAhead(V, a)
          BY <3>1, <4>1, <1>1, <1>2, NAheadGrows
        <4>4. QED
          BY <3>2, <4>2, <4>3
      <3>5. QED
        BY <3>3, <3>4
    <2>3. QED
      BY <2>1, <2>2
  <1>4. QED
    BY <1>1, <1>2, <1>3 DEF Keeps

\* Nothing is lost by the best n alone.
LEMMA KeepsBest ==
    ASSUME NEW S \in SUBSET Triples, IsFiniteSet(S), NEW n \in Nat
    PROVE  \A x \in S \ Best(S, n) : NAhead(Best(S, n), x) >= n
  <1> SUFFICES ASSUME NEW x \in S \ Best(S, n) PROVE NAhead(Best(S, n), x) >= n
    OBVIOUS
  <1>1. \A b \in Best(S, n) : Ahead(b, x)
    BY BestAre
  <1>2. NAhead(Best(S, n), x) = Cardinality(Best(S, n))
    BY <1>1, AllAhead
  <1>3. NAhead(S, x) >= n /\ NAhead(S, x) <= Cardinality(S) /\ NAhead(S, x) \in Nat /\ Cardinality(S) \in Nat
    <2>1. NAhead(S, x) \in Nat /\ NAhead(S, x) <= Cardinality(S) /\ Cardinality(S) \in Nat
      BY NAheadIsNat, FS_CardinalityType
    <2>2. ~ (NAhead(S, x) < n)
      BY BestAre
    <2>3. QED
      BY <2>1, <2>2
  <1>4. Cardinality(Best(S, n)) = IF Cardinality(S) < n THEN Cardinality(S) ELSE n
    BY BestAre
  <1>5. QED
    BY <1>2, <1>3, <1>4

\* s begins with what is ahead of all the rest of C.
Leads(s, C) ==
    /\ s \in Seq(C)
    /\ \A m, n \in DOMAIN s : m < n => s[m] # s[n]
    /\ \A n \in DOMAIN s : \A a \in C \ {s[m] : m \in 1 .. n} : Ahead(s[n], a)

\* The first n of C, or all of them.
FirstOf(s, C, n) == Leads(s, C) /\ Len(s) = IF Cardinality(C) < n THEN Cardinality(C) ELSE n

\* Sorted has every element at its place.
LEMMA SortedIs ==
    ASSUME NEW S \in SUBSET Triples, IsFiniteSet(S)
    PROVE  /\ Sorted(S, Ahead) \in [1 .. Cardinality(S) -> S]
           /\ \A n \in 1 .. Cardinality(S) : NAhead(S, Sorted(S, Ahead)[n]) = n - 1
           /\ Sorted(S, Ahead) \in Seq(S) /\ Len(Sorted(S, Ahead)) = Cardinality(S)
  <1> DEFINE N == Cardinality(S)
             s == Sorted(S, Ahead)
  <1>1. N \in Nat
    BY FS_CardinalityType
  <1>2. s = [n \in 1 .. N |-> CHOOSE a \in S : NAhead(S, a) = n - 1]
    BY Zenon DEF Sorted, NAhead
  <1>3. ASSUME NEW n \in 1 .. N PROVE s[n] \in S /\ NAhead(S, s[n]) = n - 1
    <2>1. n - 1 \in Nat /\ n - 1 < N
      BY <1>1
    <2>2. \E a \in S : NAhead(S, a) = n - 1
      <3>1. Orders(AheadIn(S), S) /\ \A a \in S : RankIn(AheadIn(S), S, a) = NAhead(S, a)
        BY AheadOrders
      <3>2. \E a \in S : RankIn(AheadIn(S), S, a) = n - 1
        BY <2>1, <3>1, RankCovers
      <3>3. QED
        BY <3>1, <3>2
    <2>3. s[n] = CHOOSE a \in S : NAhead(S, a) = n - 1
      BY <1>2
    <2> HIDE DEF s
    <2>4. QED
      BY <2>2, <2>3
  <1>4. s \in [1 .. N -> S]
    <2>1. s = [n \in 1 .. N |-> s[n]]
      BY <1>2
    <2> HIDE DEF s
    <2>2. QED
      BY <1>3, <2>1
  <1> HIDE DEF s, N
  <1>5. s \in Seq(S) /\ Len(s) = N
    BY <1>1, <1>4
  <1>6. QED
    BY <1>3, <1>4, <1>5 DEF s, N

\* The smaller of two numbers.
LEMMA MinOfTwo ==
    ASSUME NEW a \in Int, NEW b \in Int
    PROVE  Min({a, b}) = IF a < b THEN a ELSE b
  <1>1. \E x \in {a, b} : \A y \in {a, b} : x <= y
    OBVIOUS
  <1>2. Min({a, b}) \in {a, b} /\ \A y \in {a, b} : Min({a, b}) <= y
    BY <1>1 DEF Min
  <1>3. QED
    BY <1>2

\* The least of a set of numbers.
LEMMA MinIs ==
    ASSUME NEW S \in SUBSET Nat, S # {}
    PROVE  Min(S) \in S /\ \A n \in S : Min(S) <= n
  <1>1. \E n \in S : \A m \in S : n <= m
    BY LeastNumber
  <1>2. QED
    BY <1>1 DEF Min

\* The beginning of a sequence.
LEMMA PrefixIs ==
    ASSUME NEW S, NEW s \in Seq(S), NEW n \in Nat
    PROVE  /\ Prefix(s, n) \in Seq(S)
           /\ Len(Prefix(s, n)) = IF Len(s) < n THEN Len(s) ELSE n
           /\ \A j \in 1 .. Len(Prefix(s, n)) : Prefix(s, n)[j] = s[j]
  <1> DEFINE M == IF Len(s) < n THEN Len(s) ELSE n
  <1>1. Len(s) \in Nat /\ Min({Len(s), n}) = M
    BY MinOfTwo
  <1>2. M \in 0 .. Len(s)
    BY <1>1
  <1>3. Prefix(s, n) = SubSeq(s, 1, M)
    BY <1>1 DEF Prefix
  <1> HIDE DEF M
  <1>4. SubSeq(s, 1, M) \in Seq(S) /\ Len(SubSeq(s, 1, M)) = M /\ \A j \in 1 .. M : SubSeq(s, 1, M)[j] = s[j]
    BY <1>1, <1>2
  <1>5. QED
    BY <1>3, <1>4 DEF M

\* What keeps the n best, sorted, begins with them.
LEMMA PrefixIsFirst ==
    ASSUME NEW C \in SUBSET Triples, IsFiniteSet(C), NEW T, NEW n \in Nat, Keeps(T, C, n)
    PROVE  FirstOf(Prefix(Sorted(T, Ahead), n), C, n)
  <1> DEFINE s == Sorted(T, Ahead)
             u == Prefix(s, n)
             N == Cardinality(T)
  <1>1. T \subseteq C /\ T \in SUBSET Triples /\ IsFiniteSet(T) /\ N \in Nat
    BY FS_Subset, FS_CardinalityType DEF Keeps
  <1>2. /\ s \in [1 .. N -> T] /\ s \in Seq(T) /\ Len(s) = N
        /\ \A j \in 1 .. N : NAhead(T, s[j]) = j - 1
    BY <1>1, SortedIs
  <1> HIDE DEF s
  <1>3. u \in Seq(T) /\ Len(u) = IF N < n THEN N ELSE n
    BY <1>2, PrefixIs
  <1>4. \A j \in 1 .. Len(u) : j \in 1 .. N /\ j <= n /\ u[j] = s[j] /\ u[j] \in T /\ NAhead(T, u[j]) = j - 1
    BY <1>1, <1>2, <1>3, PrefixIs
  <1> HIDE DEF u, N
  <1>5. u \in Seq(C) /\ DOMAIN u = 1 .. Len(u) /\ Len(u) \in Nat
    BY <1>1, <1>3
  <1>6. \A l, j \in DOMAIN u : l < j => u[l] # u[j]
    <2> SUFFICES ASSUME NEW l \in DOMAIN u, NEW j \in DOMAIN u, l < j, u[l] = u[j] PROVE FALSE
      OBVIOUS
    <2>1. l - 1 = j - 1
      BY <1>4, <1>5
    <2>2. QED
      BY <2>1, <1>5
  <1>7. Len(u) = IF Cardinality(C) < n THEN Cardinality(C) ELSE n
    <2>1. CASE T = C
      BY <2>1, <1>3 DEF N
    <2>2. CASE T # C
      <3>1. PICK a \in C \ T : NAhead(T, a) >= n
        BY <2>2, <1>1 DEF Keeps
      <3>2. NAhead(T, a) <= N /\ NAhead(T, a) \in Nat
        BY <1>1, NAheadIsNat DEF N
      <3>3. N <= Cardinality(C) /\ Cardinality(C) \in Nat
        BY <1>1, FS_Subset, FS_CardinalityType DEF N
      <3>4. QED
        BY <1>1, <1>3, <3>1, <3>2, <3>3
    <2>3. QED
      BY <2>1, <2>2
  <1>8. ASSUME NEW j \in DOMAIN u, NEW a \in C \ {u[m] : m \in 1 .. j}
        PROVE  Ahead(u[j], a)
    <2>1. j \in 1 .. Len(u) /\ u[j] \in Triples /\ a \in Triples /\ u[j] # a /\ NAhead(T, u[j]) = j - 1
      <3>1. j \in 1 .. j /\ j \in 1 .. Len(u)
        BY <1>5
      <3>2. QED
        BY <3>1, <1>1, <1>4
    <2>2. SUFFICES ASSUME Ahead(a, u[j]) PROVE FALSE
      BY <2>1, AheadOrder
    <2>3. CASE a \in T
      <3>1. NAhead(T, a) \in Nat /\ NAhead(T, a) < NAhead(T, u[j])
        <4>1. <<a, u[j]>> \in AheadIn(T)
          BY <2>2, <2>3, <1>4, <2>1 DEF AheadIn
        <4>2. u[j] \in T
          BY <1>4, <2>1
        <4>3. Orders(AheadIn(T), T) /\ \A b \in T : RankIn(AheadIn(T), T, b) = NAhead(T, b)
          BY <1>1, AheadOrders
        <4>4. RankIn(AheadIn(T), T, a) < RankIn(AheadIn(T), T, u[j])
          BY <4>1, <4>2, <4>3, <2>3, <1>1, RankGrows
        <4>5. QED
          BY <4>2, <4>3, <4>4, <2>3, <1>1, NAheadIsNat
      <3> DEFINE l == NAhead(T, a) + 1
      <3>2. l \in 1 .. Len(u) /\ l \in 1 .. j /\ NAhead(T, u[l]) = NAhead(T, a) /\ u[l] \in T
        <4>1. l \in 1 .. Len(u) /\ l \in 1 .. j
          BY <2>1, <3>1, <1>5
        <4>2. NAhead(T, u[l]) = l - 1 /\ u[l] \in T
          BY <4>1, <1>4
        <4>3. QED
          BY <4>1, <4>2, <3>1
      <3>3. u[l] = a
        <4>1. Orders(AheadIn(T), T) /\ \A b \in T : RankIn(AheadIn(T), T, b) = NAhead(T, b)
          BY <1>1, AheadOrders
        <4>2. RankIn(AheadIn(T), T, a) = RankIn(AheadIn(T), T, u[l])
          BY <4>1, <3>2, <2>3
        <4>3. QED
          BY <4>1, <4>2, <3>2, <2>3, <1>1, RankOrders
      <3>4. QED
        BY <3>2, <3>3
    <2>4. CASE a \notin T
      <3>1. NAhead(T, a) >= n
        BY <2>4 DEF Keeps
      <3>2. NAhead(T, a) <= NAhead(T, u[j])
        BY <2>1, <2>2, <1>1, NAheadGrows
      <3>3. j <= n /\ NAhead(T, a) \in Nat /\ j \in Nat
        <4>1. NAhead(T, a) \in Nat
          BY <1>1, NAheadIsNat
        <4>2. j <= n /\ j \in Nat
          BY <1>4, <2>1
        <4>3. QED
          BY <4>1, <4>2
      <3>4. QED
        BY <3>1, <3>2, <3>3, <2>1
    <2>5. QED
      BY <2>3, <2>4
  <1>9. FirstOf(u, C, n)
    BY <1>5, <1>6, <1>7, <1>8 DEF FirstOf, Leads
  <1>10. QED
    BY <1>9 DEF u, s

-----------------------------------------------------------------------------
(* Query 3: persons, tags and pairs.                                       *)

\* The people of the place are persons, with finitely many tags.
LEMMA PeopleAre ==
    ASSUME Asked
    PROVE  /\ people \subseteq Persons /\ IsFiniteSet(people) /\ people \subseteq Nat
           /\ \A p \in people : /\ tags[p] \subseteq Tags /\ IsFiniteSet(tags[p])
                                /\ Cardinality(tags[p]) \in 0 .. NTag
  <1>1. people \subseteq Persons
    <2>1. people = UNION {PersonsOf[place][n] : n \in place.named}
      BY DEF people, People, Asked
    <2>2. ASSUME NEW n \in place.named PROVE PersonsOf[place][n] \subseteq Persons
      <3>1. /\ place.persons \in [DOMAIN place.persons -> SUBSET Persons]
            /\ place.named \subseteq DOMAIN place.persons
        BY Query3Assumption DEF Asked
      <3>2. PersonsOf[place][n] = UNION {place.persons[m] : m \in Under(place, n)}
        BY <3>1 DEF PersonsOf, Asked
      <3>3. \A m \in Under(place, n) : place.persons[m] \subseteq Persons
        BY <3>1 DEF Under
      <3>4. QED
        BY <3>2, <3>3
    <2>3. QED
      BY <2>1, <2>2
  <1>2. IsFiniteSet(people) /\ people \subseteq Nat
    BY <1>1, PersonsFinite, FS_Subset
  <1>3. IsFiniteSet(Tags) /\ Cardinality(Tags) = NTag /\ NTag \in Nat
    <2>1. NTag \in Nat /\ 1 \in Int /\ NTag \in Int
      BY Query3Assumption
    <2>2. IsFiniteSet(1 .. NTag) /\ Cardinality(1 .. NTag) = IF 1 > NTag THEN 0 ELSE NTag - 1 + 1
      BY <2>1, FS_Interval
    <2>3. QED
      BY <2>1, <2>2 DEF Tags
  <1>4. ASSUME NEW p \in people
        PROVE  tags[p] \subseteq Tags /\ IsFiniteSet(tags[p]) /\ Cardinality(tags[p]) \in 0 .. NTag
    <2>1. tags[p] \subseteq Tags
      BY <1>1, Query3Assumption DEF Asked
    <2>2. IsFiniteSet(tags[p]) /\ Cardinality(tags[p]) <= NTag
      BY <1>3, <2>1, FS_Subset
    <2>3. QED
      BY <1>3, <2>1, <2>2, FS_CardinalityType
  <1>5. QED
    BY <1>1, <1>2, <1>4

\* A row of all elements of a finite set.
LEMMA RowIsBijection ==
    ASSUME NEW S, IsFiniteSet(S), NEW R, Orders(R, S), NEW s \in [1 .. Cardinality(S) -> S],
           \A n \in 1 .. Cardinality(S) : RankIn(R, S, s[n]) = n - 1
    PROVE  s \in Bijection(1 .. Cardinality(S), S)
  <1> DEFINE N == Cardinality(S)
  <1>1. N \in Nat
    BY FS_CardinalityType
  <1>2. \A m, n \in 1 .. N : s[m] = s[n] => m = n
    <2> SUFFICES ASSUME NEW m \in 1 .. N, NEW n \in 1 .. N, s[m] = s[n] PROVE m = n
      OBVIOUS
    <2>1. m - 1 = n - 1
      OBVIOUS
    <2>2. QED
      BY <2>1, <1>1
  <1>3. ASSUME NEW a \in S PROVE \E n \in 1 .. N : s[n] = a
    <2> DEFINE n == RankIn(R, S, a) + 1
    <2>1. RankIn(R, S, a) \in Nat /\ RankIn(R, S, a) < N
      BY RankIsNat
    <2>2. n \in 1 .. N /\ n - 1 = RankIn(R, S, a)
      BY <1>1, <2>1
    <2>3. RankIn(R, S, s[n]) = RankIn(R, S, a) /\ s[n] \in S
      BY <2>2
    <2>4. s[n] = a
      BY <2>3, RankOrders
    <2>5. QED
      BY <2>2, <2>4
  <1>4. s \in Injection(1 .. N, S)
    BY <1>2 DEF Injection, IsInjective
  <1>5. s \in Surjection(1 .. N, S)
    BY <1>3 DEF Surjection
  <1>6. QED
    BY <1>4, <1>5 DEF Bijection

\* invList has every tag of a person once.
LEMMA InvListIs ==
    ASSUME Asked, NEW p \in people
    PROVE  /\ invList(p) \in [1 .. Cardinality(tags[p]) -> tags[p]]
           /\ invList(p) \in Bijection(1 .. Cardinality(tags[p]), tags[p])
           /\ Len(invList(p)) = Cardinality(tags[p])
  <1> DEFINE S == tags[p]
             N == Cardinality(S)
             After == [t \in S |-> Cardinality({q \in people : q >= p /\ t \in tags[q]})]
             Less(s, t) == After[s] < After[t] \/ (After[s] = After[t] /\ s < t)
             F(n) == CHOOSE a \in S : Cardinality({b \in S : Less(b, a)}) = n - 1
             R == {e \in S \X S : Less(e[1], e[2])}
             u == invList(p)
  <1>1. S \subseteq Tags /\ IsFiniteSet(S) /\ N \in Nat /\ Tags \subseteq Nat
    BY PeopleAre, FS_CardinalityType DEF Tags
  <1>2. \A t \in S : After[t] \in Nat /\ t \in Nat
    <2> TAKE t \in S
    <2>1. {q \in people : q >= p /\ t \in tags[q]} \subseteq people
      OBVIOUS
    <2>2. IsFiniteSet({q \in people : q >= p /\ t \in tags[q]})
      BY <2>1, PeopleAre, FS_Subset
    <2>3. QED
      BY <2>2, <1>1, FS_CardinalityType
  <1>3. u = [n \in 1 .. N |-> F(n)]
    <2>1. u = TagOrder(tags, people, p)
      <3>1. <<tags, place>> \in Interests \X Places /\ p \in People[place]
        BY DEF Asked, people
      <3>2. QED
        BY <3>1 DEF invList, InvLists, people
    <2>2. TagOrder(tags, people, p) = [n \in 1 .. N |-> F(n)]
      BY Zenon DEF TagOrder, Sorted
    <2>3. QED
      BY <2>1, <2>2
  <1> HIDE DEF u, After, F
  <1>4. \A a, b \in S : <<a, b>> \in R <=> Less(a, b)
    OBVIOUS
  <1>5. Orders(R, S)
    <2> HIDE DEF S, R, N
    <2>1. \A a \in S : ~ Less(a, a)
      BY <1>1, <1>2
    <2>2. \A a, b \in S : a # b => Less(a, b) \/ Less(b, a)
      BY <1>1, <1>2
    <2>3. \A a, b, c \in S : Less(a, b) /\ Less(b, c) => Less(a, c)
      BY <1>1, <1>2
    <2> HIDE DEF Less
    <2>4. QED
      BY <1>4, <2>1, <2>2, <2>3 DEF Orders
  <1> HIDE DEF R, Less
  <1>6. ASSUME NEW n \in 1 .. N PROVE u[n] \in S /\ RankIn(R, S, u[n]) = n - 1
    <2>1. \A a \in S : RankIn(R, S, a) = Cardinality({b \in S : Less(b, a)})
      <3> TAKE a \in S
      <3>1. Below(R, S, a) = {b \in S : Less(b, a)}
        BY <1>4 DEF Below
      <3>2. QED
        BY <3>1 DEF RankIn
    <2>2. n - 1 \in Nat /\ n - 1 < N
      BY <1>1
    <2>3. \E a \in S : RankIn(R, S, a) = n - 1
      BY <1>1, <1>5, <2>2, RankCovers
    <2>4. \E a \in S : Cardinality({b \in S : Less(b, a)}) = n - 1
      BY <2>1, <2>3
    <2>5. u[n] = CHOOSE a \in S : Cardinality({b \in S : Less(b, a)}) = n - 1
      BY <1>3 DEF F
    <2>6. u[n] \in S /\ Cardinality({b \in S : Less(b, u[n])}) = n - 1
      BY <2>4, <2>5, Zenon
    <2>7. QED
      BY <2>1, <2>6
  <1>7. u \in [1 .. N -> S] /\ Len(u) = N
    <2>1. u = [n \in 1 .. N |-> u[n]]
      BY <1>3
    <2>2. u \in [1 .. N -> S]
      BY <1>6, <2>1
    <2>3. QED
      BY <1>1, <2>2
  <1>8. u \in Bijection(1 .. N, S)
    BY <1>1, <1>5, <1>6, <1>7, RowIsBijection
  <1>9. QED
    BY <1>7, <1>8 DEF u

\* The common tags of two persons.
LEMMA CommonIs ==
    ASSUME Asked, NEW p \in people, NEW q \in people
    PROVE  Common(p, q) \in 0 .. Cardinality(tags[p]) /\ Common(p, q) = Common(q, p)
  <1>1. tags[p] \cap tags[q] = tags[q] \cap tags[p] /\ tags[p] \cap tags[q] \subseteq tags[p]
    OBVIOUS
  <1>2. IsFiniteSet(tags[p])
    BY PeopleAre
  <1>3. /\ IsFiniteSet(tags[p] \cap tags[q])
        /\ Cardinality(tags[p] \cap tags[q]) <= Cardinality(tags[p])
    BY <1>1, <1>2, FS_Subset
  <1>4. Cardinality(tags[p] \cap tags[q]) \in Nat /\ Cardinality(tags[p]) \in Nat
    BY <1>2, <1>3, FS_CardinalityType
  <1>5. QED
    BY <1>1, <1>3, <1>4 DEF Common

\* Who has none of the first n tags of g has its common tags among the others.
LEMMA CommonFromIs ==
    ASSUME Asked, g \in people, NEW q \in people, NEW n \in 0 .. Cardinality(tags[g]),
           \A m \in 1 .. n : invList(g)[m] \notin tags[q]
    PROVE  /\ CommonFrom(q, n + 1) = Common(g, q)
           /\ Common(g, q) <= Cardinality(tags[g]) - n
  <1> DEFINE N == Cardinality(tags[g])
             u == invList(g)
             M == {m \in n + 1 .. N : u[m] \in tags[q]}
             T == tags[g] \cap tags[q]
             f == [m \in M |-> u[m]]
  <1>1. N \in Nat
    BY PeopleAre
  <1>2. u \in [1 .. N -> tags[g]] /\ u \in Bijection(1 .. N, tags[g]) /\ Len(u) = N
    BY InvListIs
  <1> HIDE DEF u
  <1>3. f \in Bijection(M, T)
    <2>1. \A m \in M : m \in 1 .. N /\ u[m] \in T
      BY <1>1, <1>2
    <2>2. f \in [M -> T]
      BY <2>1
    <2>3. \A l, m \in M : f[l] = f[m] => l = m
      BY <1>2, <2>1 DEF Bijection, Injection, IsInjective
    <2>4. ASSUME NEW t \in T PROVE \E m \in M : f[m] = t
      <3>1. PICK m \in 1 .. N : u[m] = t
        BY <1>2 DEF Bijection, Surjection
      <3>2. m \notin 1 .. n
        BY <3>1 DEF u
      <3>3. m \in M
        BY <3>1, <3>2, <1>1
      <3>4. QED
        BY <3>1, <3>3
    <2> HIDE DEF f, M, T
    <2>5. f \in Injection(M, T)
      BY <2>2, <2>3 DEF Injection, IsInjective
    <2>6. f \in Surjection(M, T)
      BY <2>2, <2>4 DEF Surjection
    <2>7. QED
      BY <2>5, <2>6 DEF Bijection
  <1>4. /\ IsFiniteSet(n + 1 .. N)
        /\ Cardinality(n + 1 .. N) = N - n
    <2>1. n + 1 \in Int /\ N \in Int
      BY <1>1
    <2> HIDE DEF N
    <2>2. IsFiniteSet(n + 1 .. N) /\ Cardinality(n + 1 .. N) = IF n + 1 > N THEN 0 ELSE N - (n + 1) + 1
      BY <2>1, FS_Interval
    <2>3. n \in 0 .. N
      BY DEF N
    <2>4. QED
      BY <1>1, <2>2, <2>3
  <1> HIDE DEF f
  <1>5. M \subseteq n + 1 .. N
    OBVIOUS
  <1>6. IsFiniteSet(M) /\ Cardinality(M) <= N - n
    <2> HIDE DEF M
    <2>1. QED
      BY <1>4, <1>5, FS_Subset
  <1>7. Cardinality(T) = Cardinality(M)
    <2>1. ExistsBijection(M, T)
      BY <1>3 DEF ExistsBijection
    <2> HIDE DEF M, T
    <2>2. QED
      BY <1>6, <2>1, FS_Bijection
  <1>8. CommonFrom(q, n + 1) = Cardinality(M)
    BY <1>2 DEF CommonFrom, u
  <1>9. QED
    BY <1>6, <1>7, <1>8 DEF Common

\* A pair of two persons, with their common tags.
PairOf(p, q) == Answer3(Common(p, q), p, q)

\* The close pairs by the distance that bfs3 gives.
LEMMA ClosePairsAre ==
    ASSUME Asked
    PROVE  /\ ClosePairs \subseteq Triples
           /\ IsFiniteSet(ClosePairs)
           /\ \A a : a \in ClosePairs <=>
                 \E p, q \in people : p < q /\ Close(p, q) /\ a = <<Common(p, q), p, q>>
  <1>1. people \subseteq Persons /\ people \subseteq Nat /\ IsFiniteSet(people)
    BY PeopleAre
  <1>2. \A a : a \in ClosePairs <=>
           \E p, q \in people : p < q /\ Close(p, q) /\ a = <<Common(p, q), p, q>>
    <2>1. \A a : a \in ClosePairs <=>
             \E e \in people \X people :
                e[1] < e[2] /\ e[2] \in Ball(e[1], h) /\ a = <<Common(e[1], e[2]), e[1], e[2]>>
      BY DEF ClosePairs
    <2>2. \A p, q \in people : p < q => (Close(p, q) <=> q \in Ball(p, h))
      BY <1>1, CloseBack
    <2>3. \A a : a \in ClosePairs <=>
             \E p, q \in people : p < q /\ q \in Ball(p, h) /\ a = <<Common(p, q), p, q>>
      <3>1. ASSUME NEW a, a \in ClosePairs
            PROVE  \E p, q \in people : p < q /\ q \in Ball(p, h) /\ a = <<Common(p, q), p, q>>
        <4>1. PICK e \in people \X people :
                 e[1] < e[2] /\ e[2] \in Ball(e[1], h) /\ a = <<Common(e[1], e[2]), e[1], e[2]>>
          BY <2>1, <3>1
        <4>2. e[1] \in people /\ e[2] \in people
          OBVIOUS
        <4>3. QED
          BY <4>1, <4>2
      <3>2. ASSUME NEW a, NEW p \in people, NEW q \in people,
                   p < q, q \in Ball(p, h), a = <<Common(p, q), p, q>>
            PROVE  a \in ClosePairs
        <4>1. <<p, q>> \in people \X people /\ <<p, q>>[1] = p /\ <<p, q>>[2] = q
          OBVIOUS
        <4>2. QED
          BY <2>1, <3>2, <4>1
      <3>3. QED
        BY <3>1, <3>2
    <2>4. QED
      BY <2>2, <2>3
  <1>3. ClosePairs \subseteq Triples
    <2>1. \A p, q \in people : Common(p, q) \in Nat
      BY CommonIs
    <2>2. QED
      BY <1>1, <1>2, <2>1 DEF Triples
  <1>4. IsFiniteSet(ClosePairs)
    <2> DEFINE f == [a \in ClosePairs |-> <<a[2], a[3]>>]
    <2>1. IsFiniteSet(people \X people)
      BY <1>1, FS_Product
    <2>2. f \in [ClosePairs -> people \X people]
      BY <1>2
    <2>3. \A a, b \in ClosePairs : f[a] = f[b] => a = b
      BY <1>2
    <2> HIDE DEF f
    <2>4. f \in Injection(ClosePairs, people \X people)
      BY <2>2, <2>3 DEF Injection, IsInjective
    <2>5. QED
      BY <2>1, <2>4, FS_Injection
  <1>5. QED
    BY <1>2, <1>3, <1>4

\* The close pairs of a person.
LEMMA PairsOf ==
    ASSUME Asked, NEW p \in people
    PROVE  /\ \A q \in people \ {p} : Close(p, q) => PairOf(p, q) \in ClosePairs
           /\ \A q \in people \ {p} : p \in {PairOf(p, q)[2], PairOf(p, q)[3]} /\ PairOf(p, q) \in Triples
           /\ \A q \in people \ {p} : PairOf(p, q)[1] = Common(p, q)
           /\ \A a \in ClosePairs : p \in {a[2], a[3]} =>
                 \E q \in people \ {p} : Close(p, q) /\ a = PairOf(p, q)
  <1>1. people \subseteq Persons /\ people \subseteq Nat
    BY PeopleAre
  <1>2. \A q \in people : Common(p, q) \in Nat /\ Common(p, q) = Common(q, p)
    BY CommonIs
  <1>3. \A q \in people \ {p} : Close(p, q) <=> Close(q, p)
    BY <1>1, CloseBack
  <1>4. \A a : a \in ClosePairs <=>
           \E r, q \in people : r < q /\ Close(r, q) /\ a = <<Common(r, q), r, q>>
    BY ClosePairsAre
  <1>5. \A q \in people \ {p} : Close(p, q) => PairOf(p, q) \in ClosePairs
    <2> SUFFICES ASSUME NEW q \in people \ {p}, Close(p, q) PROVE PairOf(p, q) \in ClosePairs
      OBVIOUS
    <2>1. CASE p < q
      BY <2>1, <1>1, <1>4 DEF PairOf, Answer3
    <2>2. CASE q < p
      <3>1. PairOf(p, q) = <<Common(q, p), q, p>>
        BY <2>2, <1>1, <1>2 DEF PairOf, Answer3
      <3>2. QED
        BY <2>2, <3>1, <1>3, <1>4
    <2>3. QED
      BY <1>1, <2>1, <2>2
  <1>6. \A q \in people \ {p} : p \in {PairOf(p, q)[2], PairOf(p, q)[3]} /\ PairOf(p, q) \in Triples
    BY <1>1, <1>2 DEF PairOf, Answer3, Triples
  <1>7. ASSUME NEW a \in ClosePairs, p \in {a[2], a[3]}
        PROVE  \E q \in people \ {p} : Close(p, q) /\ a = PairOf(p, q)
    <2>1. PICK r \in people, q \in people : r < q /\ Close(r, q) /\ a = <<Common(r, q), r, q>>
      BY <1>4
    <2>2. CASE p = r
      BY <2>1, <2>2, <1>1 DEF PairOf, Answer3
    <2>3. CASE p = q
      <3>1. r \in people \ {p} /\ Close(p, r) /\ Common(p, r) = Common(r, q)
        BY <2>1, <2>3, <1>1, <1>2, <1>3
      <3>2. a = PairOf(p, r)
        BY <2>1, <2>3, <3>1, <1>1 DEF PairOf, Answer3
      <3>3. QED
        BY <3>1, <3>2
    <2>4. QED
      BY <1>7, <2>1, <2>2, <2>3
  <1>8. \A q \in people \ {p} : PairOf(p, q)[1] = Common(p, q)
    BY DEF PairOf, Answer3
  <1>9. QED
    BY <1>5, <1>6, <1>7, <1>8

\* Of a person's pairs, that with more common tags is ahead, then that with the smaller partner.
LEMMA PartnersOrder ==
    ASSUME Asked, NEW p \in people, NEW q \in people \ {p}, NEW r \in people \ {p},
           Common(p, q) > Common(p, r) \/ (Common(p, q) = Common(p, r) /\ q < r)
    PROVE  Ahead(PairOf(p, q), PairOf(p, r))
  <1>1. people \subseteq Nat
    BY PeopleAre
  <1>2. Common(p, q) \in Nat /\ Common(p, r) \in Nat
    BY CommonIs
  <1>3. QED
    BY <1>1, <1>2 DEF PairOf, Answer3, Ahead

\* The pairs that somebody in P has first among all of C.
FavouritesOf(C, P) ==
    {a \in C : \E p \in P : /\ p \in {a[2], a[3]}
                            /\ \A b \in C \ {a} : p \in {b[2], b[3]} => Ahead(a, b)}

\* A person's first pair is the only one.
LEMMA FavouriteIs ==
    ASSUME Asked, NEW p \in people, NEW q \in people \ {p}, Close(p, q),
           \A r \in people \ {p, q} : Close(p, r) => Ahead(PairOf(p, q), PairOf(p, r))
    PROVE  FavouritesOf(ClosePairs, {p}) = {PairOf(p, q)}
  <1> DEFINE a == PairOf(p, q)
  <1>1. a \in ClosePairs /\ p \in {a[2], a[3]}
    BY PairsOf
  <1>2. \A b \in ClosePairs : p \in {b[2], b[3]} => \E r \in people \ {p} : Close(p, r) /\ b = PairOf(p, r)
    BY PairsOf
  <1>3. \A b \in ClosePairs \ {a} : p \in {b[2], b[3]} => Ahead(a, b)
    BY <1>2
  <1>4. ClosePairs \subseteq Triples
    BY ClosePairsAre
  <1> HIDE DEF a
  <1>5. \A b \in ClosePairs \ {a} : p \in {b[2], b[3]} => ~ Ahead(b, a)
    <2> TAKE b \in ClosePairs \ {a}
    <2>1. p \in {b[2], b[3]} => Ahead(a, b) /\ a \in Triples /\ b \in Triples
      BY <1>1, <1>3, <1>4
    <2>2. QED
      BY <2>1, AheadOrder
  <1>6. FavouritesOf(ClosePairs, {p}) = {a}
    BY <1>1, <1>3, <1>5 DEF FavouritesOf
  <1>7. QED
    BY <1>6 DEF a

\* Who has nobody close has no first pair.
LEMMA NoFavourite ==
    ASSUME Asked, NEW p \in people, \A q \in people \ {p} : ~ Close(p, q)
    PROVE  FavouritesOf(ClosePairs, {p}) = {}
  BY PairsOf DEF FavouritesOf

\* One by one.
LEMMA FavouritesAdd ==
    ASSUME NEW C, NEW P, NEW p
    PROVE  FavouritesOf(C, P \cup {p}) = FavouritesOf(C, P) \cup FavouritesOf(C, {p})
  BY DEF FavouritesOf

\* The worst of a heap.
LEMMA WorstIs ==
    ASSUME NEW H \in SUBSET Triples, IsFiniteSet(H), H # {}
    PROVE  Worst(H) \in H /\ \A b \in H \ {Worst(H)} : Ahead(b, Worst(H))
  <1>1. Orders(AheadIn(H), H)
    BY AheadOrders
  <1>2. PICK a \in H : \A b \in H \ {a} : <<b, a>> \in AheadIn(H)
    BY <1>1, FirstAndLast
  <1>3. \A b \in H \ {a} : Ahead(b, a)
    BY <1>2 DEF AheadIn
  <1>4. QED
    BY <1>3 DEF Worst

\* H has at most n pairs, all of D but those that n pairs of H are ahead of.
Kept(H, D, n) == IsFiniteSet(H) /\ Cardinality(H) <= n /\ Keeps(H, D, n)

\* insHeap loses a pair only when it has k better ones.
LEMMA InsHeapKeeps ==
    ASSUME Asked, NEW D \in SUBSET Triples, Kept(answerHeap, D, k), NEW a \in Triples
    PROVE  Kept(insHeap(a), D \cup {a}, k)
  <1> DEFINE H == answerHeap
             V == insHeap(a)
             w == Worst(H)
  <1>1. /\ k \in Nat \ {0} /\ IsFiniteSet(H) /\ H \subseteq Triples
        /\ Cardinality(H) \in Nat /\ Cardinality(H) <= k /\ Keeps(H, D, k)
    BY AskedFor, FS_CardinalityType DEF Kept, Keeps
  <1>2. IsFiniteSet({a})
    BY FS_Singleton
  <1>3. /\ V \subseteq H \cup {a} /\ Cardinality(V) <= k
        /\ \A x \in (H \cup {a}) \ V : NAhead(V, x) >= k
    <2>1. CASE a \in H
      BY <2>1, <1>1 DEF insHeap
    <2>2. CASE a \notin H /\ Cardinality(H) < k
      <3>1. V = H \cup {a}
        BY <2>2 DEF insHeap
      <3>2. Cardinality(V) = Cardinality(H) + 1
        BY <2>2, <3>1, <1>1, FS_AddElement
      <3>3. QED
        BY <2>2, <3>1, <3>2, <1>1
    <2>3. CASE a \notin H /\ ~ (Cardinality(H) < k)
      <3>1. Cardinality(H) = k /\ H # {}
        BY <2>3, <1>1, FS_EmptySet
      <3>2. w \in H /\ \A b \in H \ {w} : Ahead(b, w)
        BY <3>1, <1>1, WorstIs
      <3> HIDE DEF w
      <3>3. CASE Ahead(w, a)
        <4>1. V = H
          BY <2>3, <3>3 DEF insHeap, w
        <4>2. \A b \in H : Ahead(b, a)
          BY <3>2, <3>3, <1>1, AheadOrder
        <4>3. NAhead(H, a) = k
          BY <3>1, <4>2, AllAhead
        <4> HIDE DEF V
        <4>4. QED
          BY <3>1, <4>1, <4>3, <1>1
      <3>4. CASE ~ Ahead(w, a)
        <4>1. V = (H \ {w}) \cup {a}
          BY <2>3, <3>4 DEF insHeap, w
        <4>2. IsFiniteSet(H \ {w}) /\ Cardinality(H \ {w}) = k - 1
          BY <3>1, <3>2, <1>1, FS_RemoveElement
        <4>3. Cardinality((H \ {w}) \cup {a}) = (k - 1) + 1
          BY <2>3, <4>2, FS_AddElement
        <4>4. Ahead(a, w)
          BY <2>3, <3>2, <3>4, <1>1, AheadOrder
        <4> HIDE DEF V
        <4>5. NAhead(V, w) = Cardinality(V)
          BY <3>2, <4>1, <4>4, AllAhead
        <4>6. QED
          BY <4>1, <4>3, <4>5, <1>1
      <3>5. QED
        BY <3>3, <3>4
    <2>4. QED
      BY <2>1, <2>2, <2>3
  <1> HIDE DEF V
  <1>4. Keeps(V, D \cup {a}, k) /\ IsFiniteSet(V)
    BY <1>1, <1>2, <1>3, KeepsStep
  <1>5. QED
    BY <1>3, <1>4 DEF Kept, V

\* Nothing is lost with a pair that all k of the heap are ahead of.
LEMMA KeptWithout ==
    ASSUME NEW H, NEW D \in SUBSET Triples, NEW S \in SUBSET Triples, NEW n \in Nat,
           Kept(H, D, n), IsFiniteSet(S), \A x \in S : NAhead(H, x) >= n
    PROVE  Kept(H, D \cup S, n)
  <1>1. Keeps(H, D, n) /\ IsFiniteSet(H) /\ Cardinality(H) <= n
    BY DEF Kept
  <1>2. \A x \in (H \cup S) \ H : NAhead(H, x) >= n
    OBVIOUS
  <1>3. Keeps(H, D \cup S, n)
    BY <1>1, <1>2, KeepsStep
  <1>4. QED
    BY <1>1, <1>3 DEF Kept

-----------------------------------------------------------------------------
(* Query 3: the invariant.                                                 *)

\* Those who have one of the first n tags of p.
Seen(p, n) == {q \in people \ {p} : \E m \in 1 .. n : invList(p)[m] \in tags[q]}

\* Version 5, with a person's tags: everybody seen who is not in the pool any
\* more is not close.
Tagging ==
    /\ g \in people
    /\ i \in 0 .. Cardinality(tags[g])
    /\ forsake = {g} \cup Seen(g, i)
    /\ pool = [c \in 0 .. NTag |-> IF c <= curLen THEN {q \in Seen(g, i) : Common(g, q) = c} ELSE {}]
    /\ \A q \in people \ {g} : Common(g, q) > curLen => ~ Close(g, q)

DonePeople == {p \in people : p < g \/ (p = g /\ pc = "begin")}

\* Version 5: the heap has the k first of the favourites of those who are done.
PartnersInv ==
    /\ pc \in {"begin", "tags"}
    /\ g \in Nat
    /\ Kept(answerHeap, FavouritesOf(ClosePairs, DonePeople), k)
    /\ pc = "tags" => Tagging

\* The pairs of the persons searched from so far.
SearchedPairs == {a \in ClosePairs : \E m \in 1 .. g : pset[m] = a[2]}

\* Version 2 and query3_force.cc.
FromAllInv ==
    /\ pc \in {"search", "sort"}
    /\ g \in 0 .. Cardinality(people)
    /\ IsFiniteSet(answerHeap)
    /\ Keeps(answerHeap, SearchedPairs, k)

\* Versions 3 and 4: the answers, and the common tags that p is at.
Taken == {ans[n] : n \in DOMAIN ans}
Left(p) == Cardinality(tags[p]) - stream[p].i

\* Those whose pair with p has been in the heap, if they are close.
Tested(p) ==
    {q \in people : /\ q > p
                    /\ \/ Common(p, q) > Left(p)
                       \/ /\ Common(p, q) = Left(p)
                          /\ q \in stream[p].forsake \ stream[p].pool[Left(p)]}

TestedPairs == {a \in ClosePairs : a[2] \in DOMAIN stream /\ a[3] \in Tested(a[2])}

StreamOk(p) ==
    LET st == stream[p] IN
    /\ st.i \in 0 .. Cardinality(tags[p])
    /\ st.forsake \subseteq {q \in people : q >= p}
    /\ p \in st.forsake
    /\ \A q \in people : q > p /\ (\E m \in 1 .. st.i : invList(p)[m] \in tags[q]) => q \in st.forsake
    /\ st.pool \in [0 .. NTag -> SUBSET people]
    /\ \A c \in 0 .. Left(p) - 1 : st.pool[c] = {q \in st.forsake \ {p} : Common(p, q) = c}
    /\ st.pool[Left(p)] \subseteq {q \in st.forsake \ {p} : Common(p, q) = Left(p)}

Unerased == pc \in {"move again", "erase"}

\* The heap and the answers have all pairs tested but those with k better ones.
TakenInv ==
    /\ IsFiniteSet(answerHeap)
    /\ Keeps(answerHeap \cup Taken, TestedPairs, k)
    /\ \A a \in answerHeap : a[1] > 0
    /\ answerHeap \cap Taken = IF Unerased THEN {ans[Len(ans)]} ELSE {}
    /\ heapSize = Cardinality(IF version = "v3" THEN answerHeap \cup Taken ELSE answerHeap)
    /\ heapSize <= k
    /\ Leads(ans, ClosePairs)
    /\ Len(ans) <= k

\* Who still has a pair to come is in the heap with a better one, unless there
\* are k better ones anyway.
ToCome ==
    \A a \in ClosePairs \ TestedPairs :
       a[2] \in DOMAIN stream /\ ~ (Moving /\ a[2] = g) =>
          \/ \E b \in answerHeap \ Taken : b[2] = a[2] /\ Ahead(b, a)
          \/ a[1] = 0
          \/ NAhead(answerHeap \cup Taken, a) >= k

StreamsInv ==
    /\ pc \in {"fill", "move", "extract", "move again", "erase"}
    /\ g \in Nat
    /\ DOMAIN stream = IF pc \in {"fill", "move"} THEN {p \in people : p <= g} ELSE people
    /\ pc \in {"fill", "move"} => ans = <<>>
    /\ pc = "move" => g \in people
    /\ Unerased => Len(ans) > 0 /\ g = ans[Len(ans)][2]
    /\ \A p \in DOMAIN stream : StreamOk(p)
    /\ TakenInv
    /\ ToCome

Query3Inv ==
    /\ Asked
    /\ version \in {"v2", "v3", "v4", "v5", "force"}
    /\ pc # "done" /\ version = "v5" => PartnersInv
    /\ pc # "done" /\ version \in {"v2", "force"} => FromAllInv
    /\ pc # "done" /\ version \in {"v3", "v4"} => StreamsInv
    /\ pc = "done" => FirstOf(ans, ClosePairs, k)

-----------------------------------------------------------------------------
(* Query 3: what stays.                                                    *)

\* The input does not change, and nothing that is computed from it alone.
LEMMA SameInput ==
    ASSUME UNCHANGED input
    PROVE  /\ Asked' = Asked /\ tags' = tags
           /\ k' = k /\ h' = h /\ people' = people /\ pset' = pset
           /\ \A p, q : Common(p, q)' = Common(p, q) /\ Close(p, q)' = Close(p, q)
           /\ \A p : invList(p)' = invList(p)
           /\ \A p, n : Seen(p, n)' = Seen(p, n)
           /\ ClosePairs' = ClosePairs
  <1>1. friends' = friends /\ tags' = tags /\ place' = place /\ question' = question
    BY DEF input
  <1>2. Asked' = Asked /\ k' = k /\ h' = h /\ people' = people
    BY <1>1 DEF Asked, k, h, people
  <1>3. \A p : invList(p)' = invList(p)
    BY <1>1 DEF invList
  <1>4. \A p, q : Common(p, q)' = Common(p, q) /\ Close(p, q)' = Close(p, q)
    BY <1>1, <1>2 DEF Common, Close, bfs3
  <1>5. ClosePairs' = ClosePairs
    <2>1. \A p, q : (q \in Ball(p, h))' <=> q \in Ball(p, h)
      BY <1>1, <1>2 DEF Ball
    <2>2. \A a : a \in ClosePairs' <=> a \in ClosePairs
      BY <1>2, <1>4, <2>1 DEF ClosePairs
    <2>3. QED
      BY <2>2
  <1>6. \A p, n : Seen(p, n)' = Seen(p, n)
    BY <1>1, <1>2, <1>3 DEF Seen
  <1>7. pset' = pset
    BY <1>1, <1>2 DEF pset
  <1>8. QED
    BY <1>1, <1>2, <1>3, <1>4, <1>5, <1>6, <1>7

-----------------------------------------------------------------------------
(* Query 3, version 5: one partner for each person.                        *)

\* The heap with what person g adds is right for g as well.
LEMMA NextPersonDone ==
    ASSUME Asked, g \in people, pc = "tags", pc' = "begin", g' = g, people' = people
    PROVE  DonePeople' = DonePeople \cup {g}
  <1>1. people \subseteq Nat
    BY PeopleAre
  <1>2. \A p : p \in DonePeople' <=> p \in people /\ (p < g \/ p = g)
    BY DEF DonePeople
  <1>3. \A p : p \in DonePeople <=> p \in people /\ p < g
    BY DEF DonePeople
  <1>4. QED
    BY <1>2, <1>3

\* The next person starts with nobody seen.
LEMMA BeginPerson ==
    ASSUME Asked, PartnersInv, NEW p \in Persons, Begin(p)
    PROVE  PartnersInv'
  <1>1. UNCHANGED input /\ pc = "begin" /\ pc' = "tags" /\ g' = p /\ answerHeap' = answerHeap
    BY DEF Begin
  <1>2. /\ tags' = tags /\ k' = k /\ people' = people /\ ClosePairs' = ClosePairs
        /\ \A r, q : Common(r, q)' = Common(r, q)
        /\ \A r, n : Seen(r, n)' = Seen(r, n)
    BY <1>1, SameInput
  <1>3. people \subseteq Nat /\ p \in people /\ p \in Nat /\ g \in Nat
    BY PeopleAre DEF Begin, PartnersInv
  <1>4. DonePeople' = DonePeople
    <2>1. \A r : r \in DonePeople' <=> r \in people /\ r < p
      BY <1>1, <1>2, <1>3 DEF DonePeople
    <2>2. \A r : r \in DonePeople <=> r \in people /\ (r < g \/ r = g)
      BY <1>1 DEF DonePeople
    <2>3. \A r \in people : r < p <=> r < g \/ r = g
      <3> TAKE r \in people
      <3>1. r \in Nat /\ (r > g => r >= p) /\ p > g
        BY <1>3 DEF Begin
      <3>2. QED
        BY <1>3, <3>1
    <2>4. \A r : r \in DonePeople' <=> r \in DonePeople
      BY <2>1, <2>2, <2>3
    <2>5. QED
      BY <2>4
  <1>5. Kept(answerHeap, FavouritesOf(ClosePairs, DonePeople), k)'
    BY <1>1, <1>2, <1>4 DEF PartnersInv
  <1>6. Tagging'
    <2>1. Cardinality(tags[p]) \in 0 .. NTag /\ i' = 0
      BY <1>3, PeopleAre DEF Begin
    <2>2. Seen(p, 0) = {}
      BY DEF Seen
    <2>3. curLen' = Cardinality(tags[p])
      BY <1>1, <1>2, <2>1 DEF curLen
    <2>4. pool' = [c \in 0 .. NTag |->
                     IF c <= Cardinality(tags[p]) THEN {q \in Seen(p, 0) : Common(p, q) = c} ELSE {}]
      BY <2>1, <2>2 DEF Begin
    <2>5. \A q \in people \ {p} : ~ (Common(p, q) > Cardinality(tags[p]))
      <3> TAKE q \in people \ {p}
      <3>1. Common(p, q) \in 0 .. Cardinality(tags[p])
        BY <1>3, CommonIs
      <3>2. QED
        BY <2>1, <3>1
    <2>6. forsake' = {p} \cup Seen(p, 0)
      BY <2>2 DEF Begin
    <2>7. 0 \in 0 .. Cardinality(tags[p])
      BY <2>1
    <2>8. QED
      BY <1>1, <1>2, <1>3, <2>1, <2>3, <2>4, <2>5, <2>6, <2>7
         DEF Tagging, Seen, Common, invList, people, input
  <1>7. QED
    BY <1>1, <1>3, <1>5, <1>6 DEF PartnersInv

\* Everything in the heap is ahead of what has fewer tags than its worst pair.
LEMMA HeapAhead ==
    ASSUME NEW H \in SUBSET Triples, IsFiniteSet(H), H # {}, NEW c \in Nat, Worst(H)[1] > c,
           NEW a \in Triples, a[1] <= c
    PROVE  NAhead(H, a) = Cardinality(H) /\ \A b \in H : Ahead(b, a)
  <1>1. Worst(H) \in H /\ \A b \in H \ {Worst(H)} : Ahead(b, Worst(H))
    BY WorstIs
  <1>2. Worst(H) \in Triples
    BY <1>1
  <1>3. \A b \in H : b[1] >= Worst(H)[1]
    <2> TAKE b \in H
    <2>1. b = Worst(H) \/ Ahead(b, Worst(H))
      BY <1>1
    <2>2. b \in Triples
      OBVIOUS
    <2>3. QED
      BY <1>2, <2>1, <2>2 DEF Ahead, Triples
  <1>4. \A b \in H : Ahead(b, a)
    <2> TAKE b \in H
    <2>1. b \in Triples /\ b[1] > a[1]
      BY <1>2, <1>3 DEF Triples
    <2>2. QED
      BY <2>1 DEF Ahead
  <1>5. QED
    BY <1>4, AllAhead

\* After the last tag there is nothing more to look for.
LEMMA PruneStep ==
    ASSUME Asked, PartnersInv, Prune
    PROVE  PartnersInv'
  <1>1. UNCHANGED input /\ pc = "tags" /\ pc' = "begin" /\ g' = g /\ answerHeap' = answerHeap
    BY DEF Prune
  <1>2. k' = k /\ people' = people /\ ClosePairs' = ClosePairs
    BY <1>1, SameInput
  <1>3. Tagging /\ g \in people /\ g \in Nat
    BY <1>1 DEF PartnersInv, Tagging
  <1>4. Kept(answerHeap, FavouritesOf(ClosePairs, DonePeople), k)
    BY DEF PartnersInv
  <1>5. /\ ClosePairs \subseteq Triples /\ IsFiniteSet(ClosePairs)
        /\ FavouritesOf(ClosePairs, {g}) \subseteq ClosePairs
        /\ FavouritesOf(ClosePairs, DonePeople) \subseteq ClosePairs
    BY ClosePairsAre DEF FavouritesOf
  <1>6. IsFiniteSet(FavouritesOf(ClosePairs, {g}))
    BY <1>5, FS_Subset
  <1>7. curLen \in Nat
    BY <1>3, PeopleAre DEF Tagging, curLen
  <1>8. ASSUME NEW a \in FavouritesOf(ClosePairs, {g}) PROVE NAhead(answerHeap, a) >= k
    <2>1. a \in ClosePairs /\ g \in {a[2], a[3]}
      BY DEF FavouritesOf
    <2>2. PICK q \in people \ {g} : Close(g, q) /\ a = PairOf(g, q)
      BY <1>3, <2>1, PairsOf
    <2>3. a[1] = Common(g, q) /\ Common(g, q) \in Nat
      BY <1>3, <2>2, PairsOf, CommonIs
    <2>4. a[1] <= curLen
      BY <1>3, <1>7, <2>2, <2>3 DEF Tagging
    <2>5. /\ Cardinality(answerHeap) = k /\ Worst(answerHeap)[1] > curLen
          /\ answerHeap \subseteq Triples /\ IsFiniteSet(answerHeap) /\ k \in Nat \ {0}
      BY <1>4, <1>5, AskedFor DEF Prune, Hopeless, Kept, Keeps
    <2>6. answerHeap # {}
      BY <2>5, FS_EmptySet
    <2>7. NAhead(answerHeap, a) = k
      BY <1>5, <1>7, <2>1, <2>4, <2>5, <2>6, HeapAhead
    <2>8. QED
      BY <2>5, <2>7
  <1>9. Kept(answerHeap, FavouritesOf(ClosePairs, DonePeople) \cup FavouritesOf(ClosePairs, {g}), k)
    <2> DEFINE S == FavouritesOf(ClosePairs, {g})
               D == FavouritesOf(ClosePairs, DonePeople)
    <2>1. S \in SUBSET Triples /\ D \in SUBSET Triples /\ k \in Nat
      BY <1>5, AskedFor
    <2>2. \A a \in S : NAhead(answerHeap, a) >= k
      BY <1>8
    <2>3. IsFiniteSet(S) /\ Kept(answerHeap, D, k)
      BY <1>4, <1>6
    <2> HIDE DEF S, D
    <2>4. Kept(answerHeap, D \cup S, k)
      BY <2>1, <2>2, <2>3, KeptWithout
    <2>5. QED
      BY <2>4 DEF S, D
  <1>10. Kept(answerHeap, FavouritesOf(ClosePairs, DonePeople'), k)
    <2>1. DonePeople' = DonePeople \cup {g}
      BY <1>1, <1>2, <1>3, NextPersonDone
    <2>2. FavouritesOf(ClosePairs, DonePeople \cup {g}) =
             FavouritesOf(ClosePairs, DonePeople) \cup FavouritesOf(ClosePairs, {g})
      BY FavouritesAdd, Zenon
    <2>3. QED
      BY <1>9, <2>1, <2>2
  <1>11. QED
    BY <1>1, <1>2, <1>3, <1>10 DEF PartnersInv

\* The partner that is found is the favourite: whoever has more common tags is
\* not close, and of those with as many it is the first.
LEMMA PartnerFound ==
    ASSUME Asked, PartnersInv, pc = "tags", pc' = "begin", UNCHANGED <<input, g>>,
           NEW close, close = {q \in people \ {g} : Common(g, q) = curLen /\ Close(g, q)}, close # {},
           answerHeap' = insHeap(Answer3(curLen, g, Min(close)))
    PROVE  PartnersInv'
  <1>1. k' = k /\ people' = people /\ ClosePairs' = ClosePairs
    BY SameInput DEF input
  <1>2. Tagging /\ g \in people /\ people \subseteq Nat
    BY PeopleAre DEF PartnersInv, Tagging
  <1>3. Kept(answerHeap, FavouritesOf(ClosePairs, DonePeople), k)
    BY DEF PartnersInv
  <1>4. FavouritesOf(ClosePairs, DonePeople) \subseteq Triples
    BY ClosePairsAre DEF FavouritesOf
  <1> DEFINE q == Min(close)
             a == PairOf(g, q)
  <1>5. q \in close /\ \A r \in close : q <= r
    <2>1. close \in SUBSET Nat
      BY <1>2
    <2>2. QED
      BY <2>1, MinIs
  <1> HIDE DEF q
  <1>6. q \in people \ {g} /\ Close(g, q) /\ Common(g, q) = curLen /\ q \in Nat
    BY <1>2, <1>5
  <1>7. Answer3(curLen, g, q) = a
    BY <1>6 DEF PairOf
  <1>8. \A r \in people \ {g, q} : Close(g, r) => Ahead(a, PairOf(g, r))
    <2> SUFFICES ASSUME NEW r \in people \ {g, q}, Close(g, r) PROVE Ahead(a, PairOf(g, r))
      OBVIOUS
    <2>1. Common(g, r) \in Nat /\ curLen \in Nat
      BY <1>2, <1>6, CommonIs
    <2>2. ~ (Common(g, r) > curLen)
      BY <1>2 DEF Tagging
    <2>3. CASE Common(g, r) = curLen
      <3>1. r \in close /\ r \in Nat /\ r # q
        BY <2>3, <1>2
      <3>2. q < r
        BY <1>5, <1>6, <3>1
      <3>3. QED
        BY <1>2, <1>6, <2>3, <3>2, PartnersOrder
    <2>4. CASE Common(g, r) < curLen
      BY <1>2, <1>6, <2>4, PartnersOrder
    <2>5. QED
      BY <2>1, <2>2, <2>3, <2>4
  <1>9. FavouritesOf(ClosePairs, {g}) = {a}
    BY <1>2, <1>6, <1>8, FavouriteIs
  <1>10. a \in Triples
    BY <1>2, <1>6, PairsOf
  <1> HIDE DEF a
  <1>11. Kept(insHeap(a), FavouritesOf(ClosePairs, DonePeople) \cup {a}, k)
    BY <1>3, <1>4, <1>10, InsHeapKeeps
  <1>12. DonePeople' = DonePeople \cup {g}
    BY <1>1, <1>2, NextPersonDone
  <1>13. FavouritesOf(ClosePairs, DonePeople \cup {g}) = FavouritesOf(ClosePairs, DonePeople) \cup {a}
    <2>1. FavouritesOf(ClosePairs, DonePeople \cup {g}) =
             FavouritesOf(ClosePairs, DonePeople) \cup FavouritesOf(ClosePairs, {g})
      BY FavouritesAdd, Zenon
    <2>2. QED
      BY <1>9, <2>1
  <1>14. answerHeap' = insHeap(a)
    BY <1>7 DEF q
  <1>15. Kept(answerHeap, FavouritesOf(ClosePairs, DonePeople), k)'
    BY <1>1, <1>11, <1>12, <1>13, <1>14
  <1>16. QED
    BY <1>1, <1>2, <1>15 DEF PartnersInv

\* Nobody is close to g, or those that are have no common tag with g.
LEMMA TryAnybodyStep ==
    ASSUME Asked, PartnersInv, TryAnybody
    PROVE  PartnersInv'
  <1> DEFINE close == {q \in people \ {g} : Close(g, q)}
  <1>1. /\ UNCHANGED <<input, g>> /\ pc = "tags" /\ pc' = "begin"
        /\ i = Cardinality(tags[g])
        /\ answerHeap' = IF close = {} THEN answerHeap ELSE insHeap(Answer3(0, g, Min(close)))
    BY DEF TryAnybody
  <1>2. Tagging /\ g \in people /\ people \subseteq Nat /\ curLen = 0
    BY <1>1, PeopleAre DEF PartnersInv, Tagging, curLen
  <1>3. close = {q \in people \ {g} : Common(g, q) = curLen /\ Close(g, q)}
    <2>1. \A q \in people \ {g} : Close(g, q) => Common(g, q) = curLen
      <3> TAKE q \in people \ {g}
      <3>1. Common(g, q) \in Nat
        BY <1>2, CommonIs
      <3>2. Close(g, q) => ~ (Common(g, q) > curLen)
        BY <1>2 DEF Tagging
      <3>3. QED
        BY <1>2, <3>1, <3>2
    <2>2. QED
      BY <2>1
  <1> HIDE DEF close
  <1>4. CASE close # {}
    BY <1>1, <1>2, <1>3, <1>4, PartnerFound
  <1>5. CASE close = {}
    <2>1. k' = k /\ people' = people /\ ClosePairs' = ClosePairs
      BY <1>1, SameInput
    <2>2. FavouritesOf(ClosePairs, {g}) = {}
      BY <1>2, <1>5, NoFavourite DEF close
    <2>3. DonePeople' = DonePeople \cup {g}
      BY <1>1, <1>2, <2>1, NextPersonDone
    <2>4. FavouritesOf(ClosePairs, DonePeople') = FavouritesOf(ClosePairs, DonePeople)
      <3>1. FavouritesOf(ClosePairs, DonePeople \cup {g}) =
               FavouritesOf(ClosePairs, DonePeople) \cup FavouritesOf(ClosePairs, {g})
        BY FavouritesAdd, Zenon
      <3>2. QED
        BY <2>2, <2>3, <3>1
    <2>5. Kept(answerHeap, FavouritesOf(ClosePairs, DonePeople), k)'
      BY <1>1, <1>5, <2>1, <2>4 DEF PartnersInv
    <2>6. QED
      BY <1>1, <1>2, <2>5 DEF PartnersInv
  <1>6. QED
    BY <1>4, <1>5

\* What the next tag brings up.
LEMMA NextTag ==
    ASSUME Asked, Tagging, i < Cardinality(tags[g]),
           NEW seen, seen = Having(invList(g)[i + 1]) \ forsake
    PROVE  /\ curLen \in 1 .. NTag
           /\ Seen(g, i + 1) = Seen(g, i) \cup seen
           /\ forsake \cup seen = {g} \cup Seen(g, i + 1)
           /\ \A q \in seen : CommonFrom(q, i + 1) = Common(g, q) /\ Common(g, q) <= curLen
           /\ pool[curLen] \cup {q \in seen : CommonFrom(q, i + 1) = curLen}
                 = {q \in people \ {g} : Common(g, q) = curLen}
  <1> DEFINE u == invList(g)
             N == Cardinality(tags[g])
  <1>1. /\ g \in people /\ N \in 0 .. NTag /\ i \in 0 .. N /\ i + 1 \in 0 .. N /\ N \in Nat
        /\ curLen = N - i /\ curLen \in 1 .. NTag
    <2>1. g \in people /\ i \in 0 .. N /\ curLen = N - i
      BY DEF Tagging, curLen
    <2>2. N \in 0 .. NTag /\ NTag \in Nat
      BY <2>1, PeopleAre, Query3Assumption
    <2>3. i < N
      OBVIOUS
    <2> HIDE DEF N
    <2>4. QED
      BY <2>1, <2>2, <2>3
  <1>2. forsake = {g} \cup Seen(g, i) /\ pool[curLen] = {q \in Seen(g, i) : Common(g, q) = curLen}
    <2>1. curLen \in 0 .. NTag /\ curLen <= curLen
      BY <1>1
    <2>2. QED
      BY <2>1 DEF Tagging
  <1> HIDE DEF u
  <1>3. \A q : q \in Seen(g, i) <=> q \in people \ {g} /\ \E m \in 1 .. i : u[m] \in tags[q]
    BY DEF Seen, u
  <1>4. \A q : q \in Seen(g, i + 1) <=> q \in people \ {g} /\ \E m \in 1 .. i + 1 : u[m] \in tags[q]
    BY DEF Seen, u
  <1>5. \A q : q \in seen <=> q \in people \ {g} /\ u[i + 1] \in tags[q] /\ q \notin Seen(g, i)
    BY <1>2, <1>3 DEF Having, u
  <1>6. \A m : m \in 1 .. i + 1 <=> m \in 1 .. i \/ m = i + 1
    BY <1>1
  <1>7. Seen(g, i + 1) = Seen(g, i) \cup seen
    <2>1. \A q : q \in Seen(g, i + 1) <=> q \in Seen(g, i) \/ q \in seen
      BY <1>3, <1>4, <1>5, <1>6
    <2>2. QED
      BY <2>1
  <1>8. ASSUME NEW q \in seen PROVE CommonFrom(q, i + 1) = Common(g, q) /\ Common(g, q) <= curLen
    <2>1. q \in people /\ \A m \in 1 .. i : u[m] \notin tags[q]
      BY <1>3, <1>5
    <2>2. QED
      BY <2>1, <1>1, CommonFromIs DEF u
  <1>9. ASSUME NEW q \in people \ {g}, Common(g, q) = curLen PROVE q \in Seen(g, i + 1)
    <2> SUFFICES ASSUME q \notin Seen(g, i + 1) PROVE FALSE
      OBVIOUS
    <2>1. \A m \in 1 .. i + 1 : u[m] \notin tags[q]
      BY <1>4
    <2>2. Common(g, q) <= N - (i + 1)
      BY <2>1, <1>1, CommonFromIs DEF u
    <2>3. QED
      BY <2>2, <1>1, <1>9
  <1>10. pool[curLen] \cup {q \in seen : CommonFrom(q, i + 1) = curLen}
            = {q \in people \ {g} : Common(g, q) = curLen}
    BY <1>2, <1>3, <1>5, <1>7, <1>8, <1>9
  <1>11. QED
    BY <1>1, <1>2, <1>7, <1>8, <1>10

\* One tag more, or the partner.
LEMMA TryTagStep ==
    ASSUME Asked, PartnersInv, TryTag
    PROVE  PartnersInv'
  <1> DEFINE seen == Having(invList(g)[i + 1]) \ forsake
             ready == pool[curLen] \cup {q \in seen : CommonFrom(q, i + 1) = curLen}
             close == {q \in ready : Close(g, q)}
  <1>1. /\ UNCHANGED <<input, g>> /\ pc = "tags" /\ i < Cardinality(tags[g])
        /\ forsake' = forsake \cup seen
        /\ close # {} => pc' = "begin" /\ answerHeap' = insHeap(Answer3(curLen, g, Min(close)))
        /\ close = {} => /\ i' = i + 1
                         /\ pool' = [c \in 0 .. NTag |-> IF c = curLen THEN {}
                                        ELSE pool[c] \cup {q \in seen : CommonFrom(q, i + 1) = c}]
                         /\ UNCHANGED <<answerHeap, pc>>
    BY DEF TryTag
  <1>2. Tagging /\ g \in people /\ g \in Nat
    BY <1>1 DEF PartnersInv, Tagging
  <1>3. /\ curLen \in 1 .. NTag
        /\ Seen(g, i + 1) = Seen(g, i) \cup seen
        /\ forsake \cup seen = {g} \cup Seen(g, i + 1)
        /\ \A q \in seen : CommonFrom(q, i + 1) = Common(g, q) /\ Common(g, q) <= curLen
        /\ ready = {q \in people \ {g} : Common(g, q) = curLen}
    BY <1>1, <1>2, NextTag
  <1>4. close = {q \in people \ {g} : Common(g, q) = curLen /\ Close(g, q)}
    BY <1>3
  <1> HIDE DEF close, ready, seen
  <1>5. CASE close # {}
    BY <1>1, <1>4, <1>5, PartnerFound
  <1>6. CASE close = {}
    <2>1. /\ tags' = tags /\ k' = k /\ people' = people /\ ClosePairs' = ClosePairs
          /\ g' = g /\ pc' = pc /\ answerHeap' = answerHeap /\ i' = i + 1
      BY <1>1, <1>6, SameInput
    <2>2. Kept(answerHeap, FavouritesOf(ClosePairs, DonePeople), k)'
      BY <2>1 DEF PartnersInv, DonePeople
    <2>3. i + 1 \in 0 .. Cardinality(tags[g]) /\ Cardinality(tags[g]) \in Nat /\ i \in Nat
      BY <1>1, <1>2, PeopleAre DEF Tagging
    <2>4. curLen' = curLen - 1 /\ curLen \in Nat
      BY <1>3, <2>1, <2>3 DEF curLen
    <2>5. pool' = [c \in 0 .. NTag |->
                     IF c <= curLen - 1 THEN {q \in Seen(g, i + 1) : Common(g, q) = c} ELSE {}]
      <3>1. ASSUME NEW c \in 0 .. NTag
            PROVE  (IF c = curLen THEN {} ELSE pool[c] \cup {q \in seen : CommonFrom(q, i + 1) = c})
                     = IF c <= curLen - 1 THEN {q \in Seen(g, i + 1) : Common(g, q) = c} ELSE {}
        <4>1. pool[c] = IF c <= curLen THEN {q \in Seen(g, i) : Common(g, q) = c} ELSE {}
          BY <1>2 DEF Tagging
        <4>2. CASE c = curLen
          BY <4>2, <1>3
        <4>3. CASE c < curLen
          <5>1. {q \in seen : CommonFrom(q, i + 1) = c} = {q \in seen : Common(g, q) = c}
            BY <1>3
          <5>2. c <= curLen - 1 /\ c # curLen /\ c <= curLen
            BY <4>3, <2>4
          <5>3. QED
            BY <5>1, <5>2, <4>1, <1>3
        <4>4. CASE c > curLen
          <5>1. {q \in seen : CommonFrom(q, i + 1) = c} = {}
            <6>1. \A q \in seen : Common(g, q) # c
              <7> TAKE q \in seen
              <7>1. Common(g, q) <= curLen /\ q \in people
                BY <1>3 DEF seen, Having
              <7>2. Common(g, q) \in 0 .. Cardinality(tags[g])
                BY <7>1, <1>2, CommonIs
              <7>3. QED
                BY <7>1, <7>2, <4>4, <2>4
            <6>2. QED
              BY <6>1, <1>3
          <5>2. ~ (c <= curLen - 1) /\ c # curLen /\ ~ (c <= curLen)
            BY <4>4, <2>4
          <5>3. QED
            BY <5>1, <5>2, <4>1
        <4>5. QED
          BY <4>2, <4>3, <4>4, <2>4
      <3>2. QED
        BY <1>1, <1>6, <3>1
    <2>6. ASSUME NEW q \in people \ {g}, Common(g, q) > curLen - 1 PROVE ~ Close(g, q)
      <3>1. Common(g, q) \in 0 .. Cardinality(tags[g])
        BY <1>2, CommonIs
      <3>2. CASE Common(g, q) = curLen
        BY <1>4, <1>6, <3>2
      <3>3. CASE Common(g, q) > curLen
        BY <1>2, <3>3 DEF Tagging
      <3>4. QED
        BY <2>4, <2>6, <3>1, <3>2, <3>3
    <2>7. forsake' = {g} \cup Seen(g, i + 1)
      BY <1>1, <1>3
    <2>8. Tagging'
      <3>1. /\ g' = g /\ people' = people /\ tags' = tags
            /\ \A p, q : Common(p, q)' = Common(p, q) /\ Close(p, q)' = Close(p, q)
            /\ \A p, n : Seen(p, n)' = Seen(p, n)
        BY <1>1, SameInput
      <3>2. g' \in people' /\ i' \in 0 .. Cardinality(tags'[g']) /\ forsake' = {g'} \cup Seen(g, i + 1)
        BY <1>2, <2>1, <2>3, <2>7, <3>1
      <3>3. Seen(g, i)' = Seen(g, i + 1)
        BY <1>1, <2>1, <3>1 DEF Seen, invList, people, input
      <3>4. \A q : Common(g, q)' = Common(g, q) /\ Close(g, q)' = Close(g, q)
        BY <1>1, <3>1 DEF Common, Close, bfs3, h, input
      <3>5. QED
        BY <2>1, <2>4, <2>5, <2>6, <3>1, <3>2, <3>3, <3>4 DEF Tagging
    <2>9. QED
      BY <1>1, <1>2, <2>1, <2>2, <2>8 DEF PartnersInv
  <1>7. QED
    BY <1>5, <1>6

\* A pair that is not among those tried again has k better ones in the heap.
LEMMA PairsStep ==
    ASSUME Asked, PartnersInv, Pairs
    PROVE  FirstOf(ans, ClosePairs, k)'
  <1> DEFINE H == answerHeap
             named == UNION {{a[2], a[3]} : a \in H}
             found == {<<Common(e[1], e[2]), e[1], e[2]>> :
                          e \in {x \in named \X named : x[1] < x[2] /\ Close(x[1], x[2])}}
             C == ClosePairs
  <1>1. /\ UNCHANGED input /\ pc = "begin" /\ (\A p \in people : p <= g)
        /\ ans' = Prefix(Sorted(found, Ahead), k)
    BY DEF Pairs
  <1>2. k' = k /\ ClosePairs' = ClosePairs
    BY <1>1, SameInput
  <1>3. C \subseteq Triples /\ IsFiniteSet(C) /\ k \in Nat
    BY ClosePairsAre, AskedFor
  <1>4. Kept(H, FavouritesOf(C, people), k)
    <2>1. DonePeople = people
      <3>1. \A p \in people : p < g \/ p = g
        <4> TAKE p \in people
        <4>1. p \in Nat /\ g \in Nat /\ p <= g
          BY <1>1, PeopleAre DEF PartnersInv
        <4>2. QED
          BY <4>1
      <3>2. QED
        BY <1>1, <3>1 DEF DonePeople
    <2>2. QED
      BY <2>1 DEF PartnersInv
  <1>5. H \subseteq C /\ IsFiniteSet(H) /\ H \subseteq Triples
    BY <1>3, <1>4 DEF Kept, Keeps, FavouritesOf
  <1>6. \A a : a \in C <=> \E p, q \in people : p < q /\ Close(p, q) /\ a = <<Common(p, q), p, q>>
    BY ClosePairsAre
  <1>7. \A a : a \in found <=> \E p, q \in named : p < q /\ Close(p, q) /\ a = <<Common(p, q), p, q>>
    <2>1. \A a : a \in found <=>
             \E e \in named \X named : e[1] < e[2] /\ Close(e[1], e[2]) /\ a = <<Common(e[1], e[2]), e[1], e[2]>>
      OBVIOUS
    <2> HIDE DEF found, named
    <2>2. ASSUME NEW a, a \in found
          PROVE  \E p, q \in named : p < q /\ Close(p, q) /\ a = <<Common(p, q), p, q>>
      <3>1. PICK e \in named \X named :
               e[1] < e[2] /\ Close(e[1], e[2]) /\ a = <<Common(e[1], e[2]), e[1], e[2]>>
        BY <2>1, <2>2
      <3>2. e[1] \in named /\ e[2] \in named
        OBVIOUS
      <3>3. QED
        BY <3>1, <3>2
    <2>3. ASSUME NEW a, NEW p \in named, NEW q \in named, p < q, Close(p, q), a = <<Common(p, q), p, q>>
          PROVE  a \in found
      <3>1. <<p, q>> \in named \X named /\ <<p, q>>[1] = p /\ <<p, q>>[2] = q
        OBVIOUS
      <3>2. QED
        BY <2>1, <2>3, <3>1
    <2>4. QED
      BY <2>2, <2>3
  <1>8. \A a \in C : a[2] \in people /\ a[3] \in people
    BY <1>6
  <1>9. named \subseteq people
    BY <1>5, <1>8
  <1>10. \A a \in H : a[2] \in named /\ a[3] \in named
    OBVIOUS
  <1> HIDE DEF found, named, H
  <1>11. found \subseteq C /\ found \subseteq Triples /\ IsFiniteSet(found)
    <2>1. found \subseteq C
      BY <1>6, <1>7, <1>9
    <2>2. QED
      BY <2>1, <1>3, FS_Subset
  <1>12. H \subseteq found
    <2> SUFFICES ASSUME NEW a \in H PROVE a \in found
      OBVIOUS
    <2>1. PICK p \in people, q \in people : p < q /\ Close(p, q) /\ a = <<Common(p, q), p, q>>
      BY <1>5, <1>6
    <2>2. p \in named /\ q \in named
      BY <1>10, <2>1
    <2>3. QED
      BY <1>7, <2>1, <2>2
  <1>13. ASSUME NEW a \in C \ found PROVE NAhead(found, a) >= k
    <2>1. PICK p \in people : p \in {a[2], a[3]} /\ p \notin named
      BY <1>6, <1>7
    <2>2. \E q \in people \ {p} : Close(p, q)
      BY <2>1, PairsOf
    <2> DEFINE W == {b \in C : p \in {b[2], b[3]}}
    <2>3. IsFiniteSet(W) /\ a \in W /\ W \subseteq Triples
      BY <1>3, <2>1, FS_Subset
    <2>4. Orders(AheadIn(W), W)
      BY <2>3, AheadOrders
    <2>5. PICK b \in W : \A c \in W \ {b} : <<b, c>> \in AheadIn(W)
      <3>1. W # {} /\ IsFiniteSet(W)
        BY <2>3
      <3> HIDE DEF W
      <3>2. \E b \in W : \A c \in W \ {b} : <<b, c>> \in AheadIn(W)
        BY <3>1, <2>4, FirstAndLast
      <3>3. QED
        BY <3>2
    <2>6. \A c \in W \ {b} : Ahead(b, c)
      BY <2>5 DEF AheadIn
    <2>7. b \in FavouritesOf(C, people)
      BY <2>1, <2>6 DEF FavouritesOf
    <2>8. b \notin H
      BY <2>1, <1>10
    <2>9. NAhead(H, b) >= k /\ NAhead(H, b) \in Nat
      BY <2>7, <2>8, <1>4, <1>5, NAheadIsNat DEF Kept, Keeps
    <2>10. a = b \/ Ahead(b, a)
      BY <2>3, <2>6
    <2>11. NAhead(H, b) <= NAhead(found, a)
      BY <2>3, <2>10, <1>3, <1>5, <1>11, <1>12, NAheadGrows
    <2>12. NAhead(found, a) \in Nat
      BY <1>11, NAheadIsNat
    <2>13. QED
      BY <2>9, <2>11, <2>12, <1>3
  <1>14. Keeps(found, C, k)
    BY <1>11, <1>13 DEF Keeps
  <1>15. FirstOf(Prefix(Sorted(found, Ahead), k), C, k)
    BY <1>3, <1>14, PrefixIsFirst
  <1>16. FirstOf(ans', ClosePairs', k')
    BY <1>1, <1>2, <1>15
  <1>17. QED
    BY <1>16 DEF FirstOf, Leads

-----------------------------------------------------------------------------
(* Query 3: version 2 and query3_force.cc.                                 *)

\* PersonSet has everybody of the place once.
LEMMA PersonSetIs ==
    ASSUME Asked
    PROVE  /\ pset \in Bijection(1 .. Cardinality(people), people)
           /\ Len(pset) = Cardinality(people)
  <1> DEFINE S == people
             N == Cardinality(S)
             ntags(p) == Cardinality(tags[p])
             Less(p, q) == ntags(p) > ntags(q) \/ (ntags(p) = ntags(q) /\ p < q)
             F(n) == CHOOSE a \in S : Cardinality({b \in S : Less(b, a)}) = n - 1
             R == {e \in S \X S : Less(e[1], e[2])}
             u == pset
  <1>1. IsFiniteSet(S) /\ N \in Nat /\ S \subseteq Nat /\ \A p \in S : ntags(p) \in 0 .. NTag
    BY PeopleAre, FS_CardinalityType
  <1>2. u = [n \in 1 .. N |-> F(n)]
    BY Zenon DEF pset, PersonOrder, Sorted
  <1>3. \A a \in S : ntags(a) \in Nat /\ a \in Nat
    BY <1>1, Query3Assumption
  <1> HIDE DEF u, F, S, N, ntags
  <1>4. \A a, b \in S : <<a, b>> \in R <=> Less(a, b)
    OBVIOUS
  <1>5. Orders(R, S)
    <2> HIDE DEF R
    <2>1. \A a \in S : ~ Less(a, a)
      BY <1>3
    <2>2. \A a, b \in S : a # b => Less(a, b) \/ Less(b, a)
      BY <1>3
    <2>3. \A a, b, c \in S : Less(a, b) /\ Less(b, c) => Less(a, c)
      BY <1>3
    <2> HIDE DEF Less
    <2>4. QED
      BY <1>4, <2>1, <2>2, <2>3 DEF Orders
  <1> HIDE DEF R, Less
  <1>6. ASSUME NEW n \in 1 .. N PROVE u[n] \in S /\ RankIn(R, S, u[n]) = n - 1
    <2>1. \A a \in S : RankIn(R, S, a) = Cardinality({b \in S : Less(b, a)})
      <3> TAKE a \in S
      <3>1. Below(R, S, a) = {b \in S : Less(b, a)}
        BY <1>4 DEF Below
      <3>2. QED
        BY <3>1 DEF RankIn
    <2>2. n - 1 \in Nat /\ n - 1 < N
      BY <1>1
    <2>3. \E a \in S : RankIn(R, S, a) = n - 1
      <3>1. n - 1 < Cardinality(S) /\ IsFiniteSet(S)
        BY <1>1, <2>2 DEF N
      <3>2. QED
        BY <1>5, <2>2, <3>1, RankCovers
    <2>4. \E a \in S : Cardinality({b \in S : Less(b, a)}) = n - 1
      BY <2>1, <2>3
    <2>5. u[n] = CHOOSE a \in S : Cardinality({b \in S : Less(b, a)}) = n - 1
      BY <1>2 DEF F
    <2>6. u[n] \in S /\ Cardinality({b \in S : Less(b, u[n])}) = n - 1
      BY <2>4, <2>5, Zenon
    <2>7. QED
      BY <2>1, <2>6
  <1>7. u \in [1 .. N -> S] /\ Len(u) = N
    <2>1. u = [n \in 1 .. N |-> u[n]]
      BY <1>2
    <2>2. u \in [1 .. N -> S]
      BY <1>6, <2>1
    <2>3. QED
      BY <1>1, <2>2
  <1>8. u \in Bijection(1 .. N, S)
    BY <1>1, <1>5, <1>6, <1>7, RowIsBijection DEF N
  <1>9. QED
    BY <1>7, <1>8 DEF u, N, S

\* The search from one person has all close pairs of which it is the first.
LEMMA SearchedFrom ==
    ASSUME Asked, NEW p \in people
    PROVE  {Answer3(Common(p, q), p, q) : q \in {q \in Ball(p, h) \cap people : q > p}}
              = {a \in ClosePairs : a[2] = p}
  <1> DEFINE S == {q \in Ball(p, h) \cap people : q > p}
             T == {Answer3(Common(p, q), p, q) : q \in S}
  <1>1. people \subseteq Persons /\ people \subseteq Nat
    BY PeopleAre
  <1>2. \A q : q \in S <=> q \in people /\ p < q /\ Close(p, q)
    <2>1. \A q \in people : p < q => (q \in Ball(p, h) <=> Close(p, q))
      BY <1>1, CloseBack
    <2>2. QED
      BY <1>1, <2>1
  <1>3. \A a : a \in ClosePairs <=>
           \E r, q \in people : r < q /\ Close(r, q) /\ a = <<Common(r, q), r, q>>
    BY ClosePairsAre
  <1>4. \A q \in S : Answer3(Common(p, q), p, q) = <<Common(p, q), p, q>>
    <2> TAKE q \in S
    <2>1. q \in Nat /\ p \in Nat /\ p < q
      BY <1>1, <1>2
    <2>2. QED
      BY <2>1 DEF Answer3
  <1> HIDE DEF S
  <1>5. \A a : a \in T <=> \E q \in S : a = <<Common(p, q), p, q>>
    BY <1>4
  <1> HIDE DEF T
  <1>6. \A a : a \in T <=> a \in ClosePairs /\ a[2] = p
    BY <1>2, <1>3, <1>5
  <1>7. T = {a \in ClosePairs : a[2] = p}
    BY <1>6
  <1>8. QED
    BY <1>7 DEF T, S

\* What a search leaves out has k better ones.
LEMMA SearchFromStep ==
    ASSUME Asked, version \in {"v2", "force"}, FromAllInv, SearchFrom
    PROVE  FromAllInv'
  <1> DEFINE p == pset[g + 1]
             H == answerHeap
             N == {Answer3(Common(p, q), p, q) : q \in {q \in Ball(p, h) \cap people : q > p}}
  <1>1. /\ UNCHANGED <<input, pc>> /\ pc = "search" /\ g < Len(pset) /\ g' = g + 1
        /\ answerHeap' = IF Skipped(p) THEN H ELSE IF version = "v2" THEN Best(H \cup N, k) ELSE H \cup N
    BY DEF SearchFrom, streams
  <1>2. k' = k /\ people' = people /\ ClosePairs' = ClosePairs /\ pset' = pset
    BY <1>1, SameInput
  <1>3. /\ Cardinality(people) \in Nat /\ g \in 0 .. Cardinality(people) /\ g + 1 \in 1 .. Cardinality(people)
        /\ p \in people
    <2>1. Len(pset) = Cardinality(people) /\ pset \in [1 .. Cardinality(people) -> people]
      BY PersonSetIs DEF Bijection, Injection
    <2>2. g \in 0 .. Cardinality(people) /\ Cardinality(people) \in Nat
      BY PeopleAre, FS_CardinalityType DEF FromAllInv
    <2>3. g + 1 \in 1 .. Cardinality(people)
      BY <1>1, <2>1, <2>2
    <2>4. QED
      BY <2>1, <2>2, <2>3
  <1>4. N = {a \in ClosePairs : a[2] = p}
    BY <1>3, SearchedFrom
  <1>5. /\ ClosePairs \subseteq Triples /\ IsFiniteSet(ClosePairs) /\ k \in Nat \ {0}
        /\ SearchedPairs \subseteq ClosePairs
        /\ IsFiniteSet(H) /\ Keeps(H, SearchedPairs, k)
    BY ClosePairsAre, AskedFor DEF SearchedPairs, FromAllInv
  <1>6. SearchedPairs' = SearchedPairs \cup N
    <2>1. \A m : m \in 1 .. g + 1 <=> m \in 1 .. g \/ m = g + 1
      BY <1>3
    <2>2. \A a : a \in SearchedPairs' <=> a \in ClosePairs /\ \E m \in 1 .. g + 1 : pset[m] = a[2]
      BY <1>1, <1>2 DEF SearchedPairs
    <2>3. \A a : a \in SearchedPairs <=> a \in ClosePairs /\ \E m \in 1 .. g : pset[m] = a[2]
      BY DEF SearchedPairs
    <2>4. QED
      BY <1>4, <2>1, <2>2, <2>3
  <1> DEFINE V == answerHeap'
  <1> HIDE DEF N, p
  <1>7. N \subseteq Triples /\ IsFiniteSet(N) /\ H \subseteq Triples /\ IsFiniteSet(H \cup N)
    <2>1. N \subseteq ClosePairs
      BY <1>4
    <2>2. IsFiniteSet(N)
      BY <2>1, <1>5, FS_Subset
    <2>3. QED
      BY <2>1, <2>2, <1>5, FS_Union DEF Keeps
  <1>8. V \subseteq H \cup N /\ \A x \in (H \cup N) \ V : NAhead(V, x) >= k
    <2>1. CASE Skipped(p)
      <3>1. V = H
        BY <1>1, <2>1
      <3>2. Cardinality(H) = k /\ Cardinality(tags[p]) < Worst(H)[1]
        BY <2>1 DEF Skipped
      <3>3. H # {}
        BY <3>2, <1>5, FS_EmptySet
      <3>4. Cardinality(tags[p]) \in Nat
        BY <1>3, PeopleAre, Query3Assumption
      <3>5. ASSUME NEW x \in N PROVE NAhead(H, x) = k
        <4>1. x \in ClosePairs /\ x[2] = p /\ x \in Triples
          BY <1>4, <1>5
        <4>2. PICK q \in people : x = <<Common(p, q), p, q>>
          BY <4>1, ClosePairsAre
        <4>3. Common(p, q) \in 0 .. Cardinality(tags[p])
          BY <1>3, CommonIs
        <4>4. x[1] <= Cardinality(tags[p])
          BY <3>4, <4>2, <4>3
        <4>5. QED
          BY <1>5, <1>7, <3>2, <3>3, <3>4, <4>1, <4>4, HeapAhead
      <3> HIDE DEF V
      <3>6. QED
        BY <3>1, <3>5, <1>5
    <2>2. CASE ~ Skipped(p) /\ version = "v2"
      <3>1. V = Best(H \cup N, k)
        BY <1>1, <2>2
      <3>2. H \cup N \subseteq Triples /\ k \in Nat
        BY <1>5, <1>7
      <3> HIDE DEF V
      <3>3. QED
        BY <1>7, <3>1, <3>2, BestAre, KeepsBest
    <2>3. CASE ~ Skipped(p) /\ version # "v2"
      <3>1. V = H \cup N
        BY <1>1, <2>3
      <3> HIDE DEF V
      <3>2. QED
        BY <3>1
    <2>4. QED
      BY <2>1, <2>2, <2>3
  <1> HIDE DEF V
  <1>9. Keeps(V, SearchedPairs \cup N, k) /\ IsFiniteSet(V)
    <2>1. SearchedPairs \subseteq Triples /\ k \in Nat
      BY <1>5
    <2>2. QED
      BY <1>5, <1>7, <1>8, <2>1, KeepsStep
  <1>10. Keeps(answerHeap, SearchedPairs, k)' /\ IsFiniteSet(answerHeap)'
    <2>1. Keeps(answerHeap', SearchedPairs', k')
      BY <1>2, <1>6, <1>9 DEF V
    <2>2. QED
      BY <1>9, <2>1 DEF V, Keeps, NAhead
  <1>11. pc' \in {"search", "sort"} /\ g' \in 0 .. Cardinality(people')
    BY <1>1, <1>2, <1>3
  <1>12. QED
    BY <1>10, <1>11 DEF FromAllInv

\* When everybody has been searched from, nothing is left out of the first k.
LEMMA SearchEndsStep ==
    ASSUME Asked, FromAllInv, SearchEnds
    PROVE  FirstOf(ans, ClosePairs, k)'
  <1>1. UNCHANGED input /\ g = Len(pset) /\ ans' = Prefix(Sorted(answerHeap, Ahead), k)
    BY DEF SearchEnds
  <1>2. k' = k /\ ClosePairs' = ClosePairs
    BY <1>1, SameInput
  <1>3. ClosePairs \subseteq Triples /\ IsFiniteSet(ClosePairs) /\ k \in Nat
    BY ClosePairsAre, AskedFor
  <1>4. SearchedPairs = ClosePairs
    <2>1. \A q \in people : \E m \in 1 .. g : pset[m] = q
      BY <1>1, PersonSetIs DEF Bijection, Surjection
    <2>2. \A a \in ClosePairs : a[2] \in people
      BY ClosePairsAre
    <2>3. \A a : a \in SearchedPairs <=> a \in ClosePairs
      BY <2>1, <2>2 DEF SearchedPairs
    <2>4. QED
      BY <2>3
  <1>5. Keeps(answerHeap, ClosePairs, k)
    BY <1>4 DEF FromAllInv
  <1>6. FirstOf(Prefix(Sorted(answerHeap, Ahead), k), ClosePairs, k)
    BY <1>3, <1>5, PrefixIsFirst
  <1>7. FirstOf(ans', ClosePairs', k')
    BY <1>1, <1>2, <1>6
  <1>8. QED
    BY <1>7 DEF FirstOf, Leads

\* Neither by the other way of version 2.
LEMMA SortPairsStep ==
    ASSUME Asked, SortPairs
    PROVE  FirstOf(ans, ClosePairs, k)'
  <1> DEFINE all == {<<Common(e[1], e[2]), e[1], e[2]>> : e \in {x \in people \X people : x[1] < x[2]}}
             T == {a \in all : Close(a[2], a[3])}
  <1>1. UNCHANGED input /\ ans' = Prefix(Sorted(T, Ahead), k)
    BY DEF SortPairs
  <1>2. k' = k /\ ClosePairs' = ClosePairs
    BY <1>1, SameInput
  <1>3. ClosePairs \subseteq Triples /\ IsFiniteSet(ClosePairs) /\ k \in Nat
    BY ClosePairsAre, AskedFor
  <1>4. \A a : a \in ClosePairs <=>
           \E p, q \in people : p < q /\ Close(p, q) /\ a = <<Common(p, q), p, q>>
    BY ClosePairsAre
  <1>5. ASSUME NEW a \in T PROVE a \in ClosePairs
    <2>1. PICK e \in people \X people : e[1] < e[2] /\ a = <<Common(e[1], e[2]), e[1], e[2]>>
      OBVIOUS
    <2>2. e[1] \in people /\ e[2] \in people /\ a[2] = e[1] /\ a[3] = e[2] /\ Close(a[2], a[3])
      BY <2>1
    <2>3. QED
      BY <1>4, <2>1, <2>2
  <1>6. ASSUME NEW a \in ClosePairs PROVE a \in T
    <2>1. PICK p \in people, q \in people : p < q /\ Close(p, q) /\ a = <<Common(p, q), p, q>>
      BY <1>4
    <2>2. <<p, q>> \in people \X people /\ <<p, q>>[1] = p /\ <<p, q>>[2] = q
      OBVIOUS
    <2>3. a \in all
      BY <2>1, <2>2
    <2>4. Close(a[2], a[3])
      BY <2>1
    <2>5. QED
      BY <2>3, <2>4
  <1> HIDE DEF T
  <1>7. Keeps(T, ClosePairs, k)
    BY <1>5, <1>6 DEF Keeps
  <1>8. FirstOf(Prefix(Sorted(T, Ahead), k), ClosePairs, k)
    BY <1>3, <1>7, PrefixIsFirst
  <1>9. FirstOf(ans', ClosePairs', k')
    BY <1>1, <1>2, <1>8
  <1>10. QED
    BY <1>9 DEF FirstOf, Leads

-----------------------------------------------------------------------------
(* Query 3: answers taken one by one.                                      *)

\* The elements of a sequence.
ElementsOf(s) == {s[n] : n \in DOMAIN s}

\* Whatever is not taken yet is behind all that is.
LEMMA LeadsAhead ==
    ASSUME NEW C, NEW s, Leads(s, C), NEW x \in C \ ElementsOf(s)
    PROVE  \A b \in ElementsOf(s) : Ahead(b, x)
  <1> SUFFICES ASSUME NEW n \in DOMAIN s PROVE Ahead(s[n], x)
    BY DEF ElementsOf
  <1>1. DOMAIN s = 1 .. Len(s) /\ Len(s) \in Nat
    BY DEF Leads
  <1>2. \A m \in 1 .. n : m \in DOMAIN s
    BY <1>1
  <1>3. x \notin {s[m] : m \in 1 .. n}
    BY <1>2 DEF ElementsOf
  <1>4. QED
    BY <1>3 DEF Leads

\* All elements are different ones.
LEMMA LeadsSize ==
    ASSUME NEW C, IsFiniteSet(C), NEW s, Leads(s, C)
    PROVE  /\ ElementsOf(s) \subseteq C /\ IsFiniteSet(ElementsOf(s))
           /\ Cardinality(ElementsOf(s)) = Len(s) /\ Len(s) \in Nat
  <1>1. s \in [1 .. Len(s) -> C] /\ DOMAIN s = 1 .. Len(s) /\ Len(s) \in Nat
    BY DEF Leads
  <1>2. ElementsOf(s) \subseteq C
    BY <1>1 DEF ElementsOf
  <1>3. IsFiniteSet(1 .. Len(s)) /\ Cardinality(1 .. Len(s)) = Len(s)
    <2>1. 1 \in Int /\ Len(s) \in Int
      BY <1>1
    <2>2. IsFiniteSet(1 .. Len(s)) /\ Cardinality(1 .. Len(s)) = IF 1 > Len(s) THEN 0 ELSE Len(s) - 1 + 1
      BY <2>1, FS_Interval
    <2>3. QED
      BY <1>1, <2>2
  <1>4. s \in Bijection(1 .. Len(s), ElementsOf(s))
    <2>1. s \in [1 .. Len(s) -> ElementsOf(s)]
      BY <1>1 DEF ElementsOf
    <2>2. \A m, n \in 1 .. Len(s) : s[m] = s[n] => m = n
      <3> SUFFICES ASSUME NEW m \in 1 .. Len(s), NEW n \in 1 .. Len(s), s[m] = s[n], m # n PROVE FALSE
        OBVIOUS
      <3>1. m < n \/ n < m
        BY <1>1
      <3>2. QED
        BY <1>1, <3>1 DEF Leads
    <2>3. \A a \in ElementsOf(s) : \E m \in 1 .. Len(s) : s[m] = a
      BY <1>1 DEF ElementsOf
    <2>4. s \in Injection(1 .. Len(s), ElementsOf(s))
      BY <2>1, <2>2 DEF Injection, IsInjective
    <2>5. s \in Surjection(1 .. Len(s), ElementsOf(s))
      BY <2>1, <2>3 DEF Surjection
    <2>6. QED
      BY <2>4, <2>5 DEF Bijection
  <1>5. IsFiniteSet(ElementsOf(s)) /\ Cardinality(ElementsOf(s)) = Len(s)
    <2>1. ExistsBijection(1 .. Len(s), ElementsOf(s))
      BY <1>4 DEF ExistsBijection
    <2>2. QED
      BY <1>3, <2>1, FS_Bijection
  <1>6. QED
    BY <1>1, <1>2, <1>5

\* Nothing taken yet.
LEMMA LeadsEmpty == ASSUME NEW C PROVE Leads(<<>>, C)
  BY DEF Leads

\* The next one is ahead of all the rest.
LEMMA LeadsAppend ==
    ASSUME NEW C, NEW s, Leads(s, C), NEW a \in C \ ElementsOf(s),
           \A b \in C \ (ElementsOf(s) \cup {a}) : Ahead(a, b)
    PROVE  Leads(Append(s, a), C) /\ ElementsOf(Append(s, a)) = ElementsOf(s) \cup {a}
  <1> DEFINE t == Append(s, a)
             n == Len(s)
  <1>1. s \in Seq(C) /\ n \in Nat /\ DOMAIN s = 1 .. n
    BY DEF Leads
  <1>2. /\ t \in Seq(C) /\ DOMAIN t = 1 .. n + 1 /\ t[n + 1] = a
        /\ \A m \in 1 .. n : t[m] = s[m]
    BY <1>1
  <1> HIDE DEF t, n
  <1>3. \A m \in 1 .. n + 1 : m \in 1 .. n \/ m = n + 1
    BY <1>1
  <1>4. ElementsOf(t) = ElementsOf(s) \cup {a}
    <2>1. n + 1 \in 1 .. n + 1 /\ \A m \in 1 .. n : m \in 1 .. n + 1
      BY <1>1
    <2>2. \A x : x \in ElementsOf(t) <=> \E m \in 1 .. n + 1 : x = t[m]
      BY <1>2 DEF ElementsOf
    <2>3. \A x : x \in ElementsOf(s) <=> \E m \in 1 .. n : x = s[m]
      BY <1>1 DEF ElementsOf
    <2>4. \A x : x \in ElementsOf(t) <=> x \in ElementsOf(s) \/ x = a
      BY <1>2, <1>3, <2>1, <2>2, <2>3
    <2>5. QED
      BY <2>4
  <1>5. ASSUME NEW l \in DOMAIN t, NEW m \in DOMAIN t, l < m PROVE t[l] # t[m]
    <2>1. l \in 1 .. n
      BY <1>1, <1>2, <1>5
    <2>2. CASE m \in 1 .. n
      BY <1>1, <1>2, <1>5, <2>1, <2>2 DEF Leads
    <2>3. CASE m = n + 1
      BY <1>1, <1>2, <2>1, <2>3 DEF ElementsOf
    <2>4. QED
      BY <1>2, <1>3, <2>2, <2>3
  <1>6. ASSUME NEW m \in DOMAIN t, NEW b \in C \ {t[l] : l \in 1 .. m} PROVE Ahead(t[m], b)
    <2>1. CASE m \in 1 .. n
      <3>1. \A l \in 1 .. m : l \in 1 .. n
        BY <1>1, <2>1
      <3>2. b \notin {s[l] : l \in 1 .. m}
        BY <1>2, <3>1
      <3>3. QED
        BY <1>1, <1>2, <2>1, <3>2 DEF Leads
    <2>2. CASE m = n + 1
      <3>1. b \notin ElementsOf(s) \cup {a}
        BY <1>2, <1>4, <2>2 DEF ElementsOf
      <3>2. QED
        BY <1>2, <2>2, <3>1
    <2>3. QED
      BY <1>2, <1>3, <2>1, <2>2
  <1>7. Leads(t, C)
    BY <1>2, <1>5, <1>6 DEF Leads
  <1>8. QED
    BY <1>4, <1>7 DEF t

\* What is left, in order, after what has been taken.
LEMMA LeadsRest ==
    ASSUME NEW C \in SUBSET Triples, IsFiniteSet(C), NEW s, Leads(s, C), NEW n \in Nat, Len(s) <= n,
           NEW t, FirstOf(t, C \ ElementsOf(s), n - Len(s))
    PROVE  FirstOf(s \o t, C, n)
  <1> DEFINE D == C \ ElementsOf(s)
             l == Len(s)
             r == s \o t
  <1>1. /\ s \in Seq(C) /\ l \in Nat /\ DOMAIN s = 1 .. l
        /\ ElementsOf(s) \subseteq C /\ Cardinality(ElementsOf(s)) = l
    BY LeadsSize DEF Leads
  <1>2. /\ IsFiniteSet(D) /\ Cardinality(D) = Cardinality(C) - l
        /\ Cardinality(C) \in Nat /\ Cardinality(D) \in Nat
    <2>1. IsFiniteSet(D) /\ IsFiniteSet(ElementsOf(s))
      BY <1>1, FS_Subset
    <2>2. D \cup ElementsOf(s) = C /\ D \cap ElementsOf(s) = {}
      BY <1>1
    <2> HIDE DEF D
    <2>3. Cardinality(C) = Cardinality(D) + l - Cardinality({})
      BY <1>1, <2>1, <2>2, FS_Union
    <2>4. Cardinality(D) \in Nat /\ Cardinality(C) \in Nat
      BY <2>1, FS_CardinalityType
    <2>5. QED
      BY <1>1, <2>1, <2>3, <2>4, FS_EmptySet
  <1>3. /\ t \in Seq(D) /\ Len(t) \in Nat /\ DOMAIN t = 1 .. Len(t)
        /\ Len(t) = IF Cardinality(D) < n - l THEN Cardinality(D) ELSE n - l
    BY DEF FirstOf, Leads
  <1>4. t \in Seq(C)
    BY <1>3
  <1>5. /\ r \in Seq(C) /\ Len(r) = l + Len(t) /\ DOMAIN r = 1 .. l + Len(t)
        /\ \A j \in 1 .. l : r[j] = s[j]
        /\ \A j \in 1 .. Len(t) : r[l + j] = t[j]
    <2>1. r \in Seq(C) /\ Len(r) = l + Len(t)
      BY <1>1, <1>4
    <2>2. DOMAIN r = 1 .. l + Len(t)
      BY <1>1, <1>3, <2>1
    <2>3. \A j \in 1 .. l + Len(t) : r[j] = IF j <= l THEN s[j] ELSE t[j - l]
      BY <1>1, <1>3, <1>4
    <2> HIDE DEF r, l
    <2>4. \A j \in 1 .. l : j \in 1 .. l + Len(t) /\ j <= l
      BY <1>1, <1>3
    <2>5. \A j \in 1 .. Len(t) : l + j \in 1 .. l + Len(t) /\ ~ (l + j <= l) /\ (l + j) - l = j
      BY <1>1, <1>3
    <2>6. \A j \in 1 .. l : r[j] = s[j]
      BY <2>3, <2>4
    <2>7. \A j \in 1 .. Len(t) : r[l + j] = t[j]
      BY <2>3, <2>5
    <2>8. QED
      BY <2>1, <2>2, <2>6, <2>7
  <1>6. \A j \in DOMAIN r : (j \in 1 .. l) \/ (j - l \in 1 .. Len(t) /\ j = l + (j - l))
    BY <1>1, <1>3, <1>5
  <1>7. Len(r) = IF Cardinality(C) < n THEN Cardinality(C) ELSE n
    BY <1>1, <1>2, <1>3, <1>5
  <1>8. \A j \in 1 .. l : s[j] \in ElementsOf(s)
    BY <1>1 DEF ElementsOf
  <1>9. \A j \in 1 .. Len(t) : t[j] \in D /\ t[j] \notin ElementsOf(s)
    BY <1>3
  <1> HIDE DEF r, l
  <1>10. ASSUME NEW j \in DOMAIN r, NEW m \in DOMAIN r, j < m PROVE r[j] # r[m]
    <2>1. CASE m \in 1 .. l
      <3>1. j \in 1 .. l
        BY <1>1, <1>5, <1>10, <2>1
      <3>2. QED
        BY <1>1, <1>5, <1>10, <2>1, <3>1 DEF Leads
    <2>2. CASE j \in 1 .. l /\ m \notin 1 .. l
      BY <1>5, <1>6, <1>8, <1>9, <2>2
    <2>3. CASE j \notin 1 .. l /\ m \notin 1 .. l
      <3>1. j - l \in DOMAIN t /\ m - l \in DOMAIN t /\ j - l < m - l
        BY <1>1, <1>3, <1>5, <1>6, <1>10, <2>3
      <3>2. t[j - l] # t[m - l]
        BY <3>1 DEF FirstOf, Leads
      <3>3. r[j] = t[j - l] /\ r[m] = t[m - l]
        BY <1>5, <1>6, <2>3
      <3>4. QED
        BY <3>2, <3>3
    <2>4. QED
      BY <2>1, <2>2, <2>3
  <1>11. ASSUME NEW j \in DOMAIN r, NEW b \in C \ {r[m] : m \in 1 .. j} PROVE Ahead(r[j], b)
    <2>1. CASE j \in 1 .. l
      <3>1. \A m \in 1 .. j : m \in 1 .. l
        BY <1>1, <2>1
      <3>2. b \notin {s[m] : m \in 1 .. j}
        BY <1>5, <3>1
      <3>3. QED
        BY <1>1, <1>5, <2>1, <3>2 DEF Leads
    <2>2. CASE j \notin 1 .. l
      <3>1. j - l \in 1 .. Len(t) /\ r[j] = t[j - l]
        BY <1>5, <1>6, <2>2
      <3>2. \A m \in 1 .. l : m \in 1 .. j
        BY <1>1, <1>5, <2>2
      <3>3. b \notin ElementsOf(s)
        BY <1>1, <1>5, <3>2 DEF ElementsOf
      <3>4. \A m \in 1 .. j - l : l + m \in 1 .. j /\ m \in 1 .. Len(t)
        BY <1>1, <1>3, <1>5, <3>1
      <3>5. b \notin {t[m] : m \in 1 .. j - l}
        BY <1>5, <3>4
      <3>6. b \in D
        BY <3>3
      <3>7. QED
        BY <1>3, <3>1, <3>5, <3>6 DEF FirstOf, Leads
    <2>3. QED
      BY <2>1, <2>2
  <1>12. FirstOf(r, C, n)
    BY <1>5, <1>7, <1>10, <1>11 DEF FirstOf, Leads
  <1>13. QED
    BY <1>12 DEF r

\* Of more pairs ahead of a than T has, one is not in T.
LEMMA AheadOutside ==
    ASSUME NEW S, NEW T, IsFiniteSet(T), NEW a, NAhead(S, a) > Cardinality(T)
    PROVE  \E b \in S \ T : Ahead(b, a)
  <1> SUFFICES ASSUME \A b \in S : Ahead(b, a) => b \in T PROVE FALSE
    OBVIOUS
  <1>1. {b \in S : Ahead(b, a)} \subseteq T
    OBVIOUS
  <1>2. NAhead(S, a) <= Cardinality(T) /\ Cardinality(T) \in Nat /\ NAhead(S, a) \in Nat
    BY <1>1, FS_Subset, FS_CardinalityType DEF NAhead
  <1>3. QED
    BY <1>2

-----------------------------------------------------------------------------
(* Query 3, versions 3 and 4: what goes to the heap.                       *)

\* The answers that have been given are the elements of ans.
LEMMA TakenIs == Taken = ElementsOf(ans)
  BY DEF Taken, ElementsOf

\* What the invariant says about the sets of pairs.
LEMMA TakenFacts ==
    ASSUME Asked, TakenInv
    PROVE  /\ ClosePairs \subseteq Triples /\ IsFiniteSet(ClosePairs) /\ k \in Nat \ {0}
           /\ TestedPairs \subseteq ClosePairs
           /\ answerHeap \cup Taken \subseteq TestedPairs
           /\ IsFiniteSet(answerHeap) /\ IsFiniteSet(Taken) /\ IsFiniteSet(answerHeap \cup Taken)
           /\ Cardinality(answerHeap) \in Nat /\ Cardinality(Taken) = Len(ans) /\ Len(ans) \in Nat
           /\ heapSize \in Nat /\ heapSize <= k
           /\ \A x \in ClosePairs \ Taken : \A b \in Taken : Ahead(b, x)
  <1>1. ClosePairs \subseteq Triples /\ IsFiniteSet(ClosePairs) /\ k \in Nat \ {0}
    BY ClosePairsAre, AskedFor
  <1>2. TestedPairs \subseteq ClosePairs
    BY DEF TestedPairs
  <1>3. Keeps(answerHeap \cup Taken, TestedPairs, k) /\ Leads(ans, ClosePairs) /\ IsFiniteSet(answerHeap)
    BY DEF TakenInv
  <1>4. IsFiniteSet(Taken) /\ Cardinality(Taken) = Len(ans) /\ Len(ans) \in Nat
    BY <1>1, <1>3, LeadsSize, TakenIs
  <1>5. IsFiniteSet(answerHeap \cup Taken)
    BY <1>3, <1>4, FS_Union
  <1>6. Cardinality(answerHeap) \in Nat /\ Cardinality(answerHeap \cup Taken) \in Nat
    BY <1>3, <1>5, FS_CardinalityType
  <1>7. heapSize \in Nat /\ heapSize <= k
    BY <1>6 DEF TakenInv
  <1>8. \A x \in ClosePairs \ Taken : \A b \in Taken : Ahead(b, x)
    BY <1>3, LeadsAhead, TakenIs
  <1>9. QED
    BY <1>1, <1>2, <1>3, <1>4, <1>5, <1>6, <1>7, <1>8 DEF Keeps

\* How many of the pairs in S find a place.
Room(S) == Min({Cardinality(S), k - heapSize})

\* While the heap has fewer than k pairs it takes all; what is left out later
\* has k better ones.  The answer whose place in the heap is not given up yet
\* stays there.
LEMMA HeapWithIs ==
    ASSUME Asked, TakenInv, version \in {"v3", "v4"},
           NEW S, S \subseteq ClosePairs, S \cap TestedPairs = {}
    PROVE  /\ HeapWith(S) \subseteq answerHeap \cup S /\ IsFiniteSet(HeapWith(S))
           /\ HeapWith(S) \cap Taken = answerHeap \cap Taken
           /\ heapSize + Room(S) = Cardinality(IF version = "v3" THEN HeapWith(S) \cup Taken ELSE HeapWith(S))
           /\ heapSize + Room(S) <= k
           /\ \A x \in (answerHeap \cup S) \ HeapWith(S) : NAhead(HeapWith(S) \cup Taken, x) >= k
  <1> DEFINE H == answerHeap
             T == Taken
             V == HeapWith(S)
             m == Room(S)
             N == Cardinality(H)
             M == Cardinality(S)
  <1>1. /\ ClosePairs \subseteq Triples /\ IsFiniteSet(ClosePairs) /\ k \in Nat \ {0}
        /\ TestedPairs \subseteq ClosePairs /\ H \cup T \subseteq TestedPairs
        /\ IsFiniteSet(H) /\ IsFiniteSet(T) /\ IsFiniteSet(H \cup T)
        /\ N \in Nat /\ heapSize \in Nat /\ heapSize <= k
        /\ \A x \in ClosePairs \ T : \A b \in T : Ahead(b, x)
    BY TakenFacts
  <1>2. IsFiniteSet(S) /\ M \in Nat /\ H \cap S = {} /\ T \cap S = {} /\ IsFiniteSet(H \cup S)
        /\ Cardinality(H \cup S) = N + M /\ H \cup S \subseteq Triples /\ H \cup S \subseteq ClosePairs
    <2>1. IsFiniteSet(S) /\ H \cap S = {} /\ T \cap S = {} /\ H \cup S \subseteq Triples /\ H \cup S \subseteq ClosePairs
      BY <1>1, FS_Subset
    <2>2. IsFiniteSet(H \cup S) /\ Cardinality(H \cup S) = N + M - Cardinality(H \cap S) /\ M \in Nat
      BY <1>1, <2>1, FS_Union, FS_CardinalityType
    <2>3. Cardinality(H \cap S) = 0
      BY <2>1, FS_EmptySet
    <2>4. QED
      BY <1>1, <2>1, <2>2, <2>3
  <1>3. m = IF M < k - heapSize THEN M ELSE k - heapSize
    <2>1. M \in Int /\ k - heapSize \in Int
      BY <1>1, <1>2
    <2>2. QED
      BY <2>1, MinOfTwo DEF Room
  <1>4. V = Best(H \cup S, N + m)
    BY DEF HeapWith, Room
  <1>5. H \cap T \subseteq {ans[Len(ans)]} /\ (H \cap T # {} => ans[Len(ans)] \in H \cap T)
    BY DEF TakenInv
  <1> HIDE DEF V, m, N, M, H, T
  <1>6. m \in Nat /\ m <= M /\ heapSize + m <= k /\ N + m \in Nat /\ (m < M => heapSize + m = k)
    BY <1>1, <1>2, <1>3
  <1>7. /\ V \subseteq H \cup S /\ IsFiniteSet(V) /\ Cardinality(V) = N + m
        /\ \A a \in V, b \in (H \cup S) \ V : Ahead(a, b)
        /\ \A a \in H \cup S : a \in V <=> NAhead(H \cup S, a) < N + m
    <2> DEFINE W == H \cup S
               r == N + m
    <2>1. W \in SUBSET Triples /\ IsFiniteSet(W) /\ r \in Nat /\ V = Best(W, r)
      BY <1>2, <1>4, <1>6
    <2>2. Cardinality(W) = N + M /\ r <= N + M /\ N + M \in Nat
      BY <1>1, <1>2, <1>6
    <2> HIDE DEF W, r
    <2>3. /\ V \subseteq W /\ IsFiniteSet(V)
          /\ Cardinality(V) = IF Cardinality(W) < r THEN Cardinality(W) ELSE r
          /\ \A a \in V, b \in W \ V : Ahead(a, b)
          /\ \A a \in W : a \in V <=> NAhead(W, a) < r
      BY <2>1, BestAre
    <2>4. Cardinality(V) = r
      BY <2>1, <2>2, <2>3
    <2>5. QED
      BY <2>3, <2>4 DEF W, r
  <1>8. V \cap T = H \cap T
    <2>1. V \cap T \subseteq H \cap T
      BY <1>2, <1>7
    <2>2. ASSUME NEW x \in H \cap T PROVE x \in V
      <3>1. H \cap T = {x}
        BY <1>5
      <3>2. \A b \in (H \cup S) \ {x} : b \in ClosePairs \ T
        BY <1>2, <3>1
      <3>3. \A b \in H \cup S : ~ Ahead(b, x)
        <4> SUFFICES ASSUME NEW b \in H \cup S, Ahead(b, x) PROVE FALSE
          OBVIOUS
        <4>1. b \in Triples /\ x \in Triples
          BY <1>2
        <4>2. b # x
          BY <4>1, AheadOrder
        <4>3. Ahead(x, b)
          BY <1>1, <3>2, <4>2
        <4>4. QED
          BY <4>1, <4>3, AheadOrder
      <3>4. NAhead(H \cup S, x) = 0
        <4>1. {b \in H \cup S : Ahead(b, x)} = {}
          BY <3>3
        <4>2. QED
          BY <4>1, FS_EmptySet DEF NAhead
      <3>5. N # 0
        BY <1>1, FS_EmptySet DEF N, H
      <3>6. QED
        BY <1>1, <1>6, <1>7, <3>4, <3>5
    <2>3. QED
      BY <2>1, <2>2
  <1>9. heapSize + m = Cardinality(IF version = "v3" THEN V \cup T ELSE V)
    <2>1. CASE version = "v4"
      <3>1. heapSize = N
        BY <2>1 DEF TakenInv, N, H
      <3>2. QED
        BY <1>7, <2>1, <3>1
    <2>2. CASE version = "v3"
      <3>1. heapSize = Cardinality(H \cup T)
        BY <2>2 DEF TakenInv, H, T
      <3>2. Cardinality(H \cup T) = N + Cardinality(T) - Cardinality(H \cap T)
        BY <1>1, FS_Union DEF N, H
      <3>3. Cardinality(V \cup T) = Cardinality(V) + Cardinality(T) - Cardinality(V \cap T)
        BY <1>1, <1>7, FS_Union
      <3>4. Cardinality(T) \in Nat /\ Cardinality(H \cap T) \in Nat
        BY <1>1, FS_Subset, FS_CardinalityType
      <3>5. Cardinality(V \cup T) = heapSize + m
        <4>1. Cardinality(V \cap T) = Cardinality(H \cap T) /\ Cardinality(V) = N + m /\ N \in Nat /\ m \in Nat
          BY <1>1, <1>6, <1>7, <1>8
        <4>2. QED
          BY <4>1, <3>1, <3>2, <3>3, <3>4
      <3>6. QED
        BY <2>2, <3>5
    <2>3. QED
      BY <2>1, <2>2
  <1>10. ASSUME NEW x \in (H \cup S) \ V PROVE NAhead(V \cup T, x) >= k
    <2>1. m < M /\ heapSize + m = k
      <3>1. V # H \cup S
        OBVIOUS
      <3>2. Cardinality(V) # N + M
        BY <1>2, <1>7, <3>1, FS_Subset
      <3>3. QED
        BY <1>1, <1>2, <1>6, <1>7, <3>2
    <2>2. x \notin T
      BY <1>2, <1>8
    <2>3. \A b \in V \cup T : Ahead(b, x)
      BY <1>1, <1>2, <1>7, <2>2
    <2>4. NAhead(V \cup T, x) = Cardinality(V \cup T)
      BY <2>3, AllAhead
    <2>5. Cardinality(V) <= Cardinality(V \cup T) /\ Cardinality(V) \in Nat /\ Cardinality(V \cup T) \in Nat
      <3>1. IsFiniteSet(V \cup T) /\ V \subseteq V \cup T
        BY <1>1, <1>7, FS_Union
      <3>2. QED
        BY <3>1, <1>7, FS_Subset, FS_CardinalityType
    <2>6. k = Cardinality(IF version = "v3" THEN V \cup T ELSE V)
      BY <1>9, <2>1
    <2>7. QED
      BY <1>1, <2>4, <2>5, <2>6
  <1>11. QED
    BY <1>6, <1>7, <1>8, <1>9, <1>10 DEF V, m, H, T

\* What was left out for k better ones still is.
LEMMA StillLeftOut ==
    ASSUME NEW U \in SUBSET Triples, NEW S \in SUBSET Triples, NEW V, NEW n \in Nat,
           IsFiniteSet(U), IsFiniteSet(S), V \subseteq U \cup S,
           \A x \in (U \cup S) \ V : NAhead(V, x) >= n,
           NEW a \in Triples, a \notin V, NAhead(U, a) >= n
    PROVE  NAhead(V, a) >= n
  <1> DEFINE D == U \cup {a}
  <1>1. Keeps(U, D, n) /\ D \in SUBSET Triples
    BY DEF Keeps
  <1> HIDE DEF D
  <1>2. Keeps(V, D \cup S, n)
    BY <1>1, KeepsStep
  <1>3. a \in D
    BY DEF D
  <1>4. QED
    BY <1>2, <1>3 DEF Keeps

-----------------------------------------------------------------------------
(* Query 3, versions 3 and 4: one step of a person.                        *)

\* The sets of MoveTag.
TagList == {q \in Having(invList(g)[stream[g].i + 1]) : q > g} \ stream[g].forsake
TagPartners == {q \in TagList : CommonFrom(q, stream[g].i + 1) = Length /\ Close(g, q)}
TagSeen == {q \in TagList : \A r \in TagPartners : q <= r}
TagFound == {q \in stream[g].pool[Length] : Close(g, q)} \cup {q \in TagPartners : q \in TagSeen}
TagPairs == {Answer3(Length, g, q) : q \in TagFound}
TagStream ==
    [i |-> IF TagPartners = {} THEN stream[g].i + 1 ELSE stream[g].i,
     pool |-> [c \in 0 .. NTag |-> IF c = Length THEN {}
                  ELSE stream[g].pool[c] \cup {q \in TagSeen : CommonFrom(q, stream[g].i + 1) = c}],
     forsake |-> stream[g].forsake \cup TagSeen]

\* A step of moveOneStep with common tags, in terms of what it finds.
LEMMA MoveTagIs ==
    ASSUME MoveTag
    PROVE  /\ Moving /\ Length > 0 /\ UNCHANGED <<input, g, ans, version>>
           /\ answerHeap' = HeapWith(TagPairs)
           /\ heapSize' = heapSize + Room(TagPairs)
           /\ stream' = [stream EXCEPT ![g] = TagStream]
           /\ pc' = IF TagPartners = {} THEN pc ELSE AfterMove
  BY DEF MoveTag, TagList, TagPartners, TagSeen, TagFound, TagPairs, TagStream, Room

\* The list of a tag has everybody who can have as many common tags as are left,
\* but those who have been seen.
LEMMA TagListIs ==
    ASSUME Asked, g \in people, StreamOk(g), Length > 0
    PROVE  /\ Length = Left(g) /\ Length \in 1 .. NTag /\ stream[g].i + 1 \in 0 .. Cardinality(tags[g])
           /\ \A q \in TagList : /\ q \in people /\ q > g /\ q \notin stream[g].forsake
                                 /\ CommonFrom(q, stream[g].i + 1) = Common(g, q)
                                 /\ Common(g, q) <= Length
           /\ \A q \in people : q > g /\ Common(g, q) = Length /\ q \notin stream[g].forsake => q \in TagList
           /\ \A q \in people : q > g /\ (\E m \in 1 .. stream[g].i + 1 : invList(g)[m] \in tags[q]) =>
                 q \in stream[g].forsake \cup TagList
  <1> DEFINE u == invList(g)
             N == Cardinality(tags[g])
             n == stream[g].i
             F == stream[g].forsake
  <1>1. /\ N \in 0 .. NTag /\ n \in 0 .. N /\ n + 1 \in 0 .. N /\ N \in Nat
        /\ Length = N - n /\ Length = Left(g) /\ Length \in 1 .. NTag
    <2>1. n \in 0 .. N /\ Length = N - n /\ Left(g) = N - n
      BY DEF StreamOk, Length, Left
    <2>2. N \in 0 .. NTag /\ NTag \in Nat
      BY PeopleAre, Query3Assumption
    <2> HIDE DEF N, n
    <2>3. QED
      BY <2>1, <2>2
  <1>2. \A q : q \in TagList <=> q \in people /\ u[n + 1] \in tags[q] /\ q > g /\ q \notin F
    BY DEF TagList, Having
  <1>3. \A q \in people : q > g /\ (\E m \in 1 .. n : u[m] \in tags[q]) => q \in F
    BY DEF StreamOk
  <1> HIDE DEF u, N, n, F
  <1>4. \A m : m \in 1 .. n + 1 <=> m \in 1 .. n \/ m = n + 1
    BY <1>1
  <1>5. ASSUME NEW q \in TagList
        PROVE  CommonFrom(q, n + 1) = Common(g, q) /\ Common(g, q) <= Length
    <2>1. q \in people /\ \A m \in 1 .. n : u[m] \notin tags[q]
      BY <1>2, <1>3
    <2>2. QED
      BY <2>1, <1>1, CommonFromIs DEF u, N
  <1>6. \A q \in people : q > g /\ (\E m \in 1 .. n + 1 : u[m] \in tags[q]) => q \in F \cup TagList
    BY <1>2, <1>3, <1>4
  <1>7. ASSUME NEW q \in people, q > g, Common(g, q) = Length, q \notin F PROVE q \in TagList
    <2> SUFFICES ASSUME q \notin TagList PROVE FALSE
      OBVIOUS
    <2>1. \A m \in 1 .. n + 1 : u[m] \notin tags[q]
      BY <1>6, <1>7
    <2>2. Common(g, q) <= N - (n + 1)
      BY <2>1, <1>1, CommonFromIs DEF u, N
    <2>3. QED
      BY <2>2, <1>1, <1>7
  <1>8. QED
    BY <1>1, <1>2, <1>5, <1>6, <1>7 DEF n, u, N, F

\* The pairs that go to the heap, by what they are.
LEMMA TagPairsAre ==
    ASSUME Asked, g \in people, g \in DOMAIN stream, StreamOk(g), Length > 0
    PROVE  /\ \A a : a \in TagPairs <=>
                 \E q \in people : /\ q > g /\ Close(g, q) /\ Common(g, q) = Length
                                   /\ q \in stream[g].pool[Length] \/ q \in TagSeen
                                   /\ a = <<Length, g, q>>
           /\ TagPairs \subseteq ClosePairs /\ TagPairs \cap TestedPairs = {}
  <1> DEFINE F == stream[g].forsake
             B == stream[g].pool[Length]
  <1>1. /\ Length = Left(g)
        /\ \A q \in TagList : /\ q \in people /\ q > g /\ q \notin F
                              /\ CommonFrom(q, stream[g].i + 1) = Common(g, q)
    BY TagListIs
  <1>2. people \subseteq Nat /\ g \in Nat
    BY PeopleAre
  <1>3. \A q \in B : q \in people /\ q \in F /\ q > g /\ Common(g, q) = Length
    <2>1. B \subseteq {q \in F \ {g} : Common(g, q) = Length} /\ F \subseteq {q \in people : q >= g}
      BY <1>1 DEF StreamOk
    <2>2. \A q \in people : q >= g /\ q # g => q > g
      BY <1>2
    <2> HIDE DEF F, B
    <2>3. QED
      BY <2>1, <2>2
  <1>4. \A q : q \in TagFound <=>
           /\ q \in people /\ q > g /\ Close(g, q) /\ Common(g, q) = Length
           /\ q \in B \/ q \in TagSeen
    <2>1. \A q : q \in TagPartners <=> q \in TagList /\ Close(g, q) /\ Common(g, q) = Length
      BY <1>1 DEF TagPartners
    <2>2. \A q : q \in TagSeen => q \in TagList
      BY DEF TagSeen
    <2>3. \A q : q \in TagFound <=> (q \in B /\ Close(g, q)) \/ (q \in TagPartners /\ q \in TagSeen)
      BY DEF TagFound
    <2> HIDE DEF F, B
    <2>4. QED
      BY <1>1, <1>3, <2>1, <2>2, <2>3
  <1>5. \A q \in TagFound : Answer3(Length, g, q) = <<Length, g, q>>
    <2> TAKE q \in TagFound
    <2>1. q \in Nat /\ q > g
      BY <1>2, <1>4
    <2>2. QED
      BY <1>2, <2>1 DEF Answer3
  <1>6. \A a : a \in TagPairs <=> \E q \in TagFound : a = <<Length, g, q>>
    BY <1>5 DEF TagPairs
  <1> HIDE DEF F, B
  <1>7. ASSUME NEW a \in TagPairs PROVE a \in ClosePairs /\ a \notin TestedPairs
    <2>1. PICK q \in TagFound : a = <<Length, g, q>>
      BY <1>6
    <2>2. q \in people /\ q > g /\ Close(g, q) /\ Common(g, q) = Length /\ (q \in B \/ q \in TagSeen)
      BY <1>4
    <2>3. a \in ClosePairs
      <3>1. g < q /\ a = <<Common(g, q), g, q>>
        BY <1>2, <2>1, <2>2
      <3>2. QED
        BY <2>2, <3>1, ClosePairsAre
    <2>4. q \notin Tested(g)
      <3>1. ~ (Common(g, q) > Left(g))
        <4>1. Common(g, q) \in Nat
          BY <2>2, CommonIs
        <4>2. QED
          BY <4>1, <1>1, <2>2
      <3>2. q \in F => q \in B
        BY <1>1, <2>2 DEF TagSeen
      <3>3. QED
        BY <1>1, <3>1, <3>2 DEF Tested, F, B
    <2>5. a[2] = g /\ a[3] = q
      BY <2>1
    <2>6. QED
      BY <2>3, <2>4, <2>5 DEF TestedPairs
  <1>8. QED
    BY <1>4, <1>6, <1>7 DEF B

\* A stream depends on nothing else.
LEMMA SameStreams ==
    ASSUME UNCHANGED <<input, stream>>
    PROVE  /\ \A p : StreamOk(p)' = StreamOk(p)
           /\ \A p : Tested(p)' = Tested(p)
           /\ TestedPairs' = TestedPairs
  <1>1. /\ tags' = tags /\ people' = people /\ ClosePairs' = ClosePairs /\ stream' = stream
        /\ \A p, q : Common(p, q)' = Common(p, q)
        /\ \A p : invList(p)' = invList(p)
    BY SameInput
  <1>2. \A p : Left(p)' = Left(p)
    BY <1>1 DEF Left
  <1>3. \A p : Tested(p)' = Tested(p)
    BY <1>1, <1>2 DEF Tested
  <1>4. TestedPairs' = TestedPairs
    BY <1>1, <1>3 DEF TestedPairs
  <1>5. \A p : StreamOk(p)' = StreamOk(p)
    BY <1>1, <1>2 DEF StreamOk
  <1>6. QED
    BY <1>3, <1>4, <1>5

\* The stream after a step: those with as many common tags as were left have been
\* tried, or are tried up to the first who is close.
LEMMA TagStreamIs ==
    ASSUME Asked, g \in people, StreamOk(g), Length > 0
    PROVE  /\ TagStream.i \in 0 .. Cardinality(tags[g])
           /\ Cardinality(tags[g]) - TagStream.i = IF TagPartners = {} THEN Length - 1 ELSE Length
           /\ TagStream.forsake = stream[g].forsake \cup TagSeen
           /\ TagStream.forsake \subseteq {q \in people : q >= g} /\ g \in TagStream.forsake
           /\ \A q \in people :
                 q > g /\ (\E m \in 1 .. TagStream.i : invList(g)[m] \in tags[q]) => q \in TagStream.forsake
           /\ TagStream.pool \in [0 .. NTag -> SUBSET people] /\ TagStream.pool[Length] = {}
           /\ \A c \in 0 .. Length - 1 :
                 TagStream.pool[c] = {q \in TagStream.forsake \ {g} : Common(g, q) = c}
  <1> DEFINE N == Cardinality(tags[g])
             n == stream[g].i
             F == stream[g].forsake
             P == stream[g].pool
             G == TagStream.forsake
             R == TagStream.pool
  <1>1. /\ Length = Left(g) /\ Length \in 1 .. NTag /\ n + 1 \in 0 .. N
        /\ \A q \in TagList : /\ q \in people /\ q > g /\ q \notin F
                              /\ CommonFrom(q, n + 1) = Common(g, q) /\ Common(g, q) <= Length
        /\ \A q \in people : q > g /\ (\E m \in 1 .. n + 1 : invList(g)[m] \in tags[q]) => q \in F \cup TagList
    BY TagListIs
  <1>2. people \subseteq Nat /\ g \in Nat /\ N \in 0 .. NTag /\ NTag \in Nat
    BY PeopleAre, Query3Assumption
  <1>3. /\ n \in 0 .. N /\ F \subseteq {q \in people : q >= g} /\ g \in F
        /\ \A q \in people : q > g /\ (\E m \in 1 .. n : invList(g)[m] \in tags[q]) => q \in F
        /\ P \in [0 .. NTag -> SUBSET people]
        /\ \A c \in 0 .. Length - 1 : P[c] = {q \in F \ {g} : Common(g, q) = c}
    BY <1>1 DEF StreamOk
  <1>4. Length = N - n
    BY DEF Length
  <1>5. TagSeen \subseteq TagList /\ (TagPartners = {} => TagSeen = TagList)
    BY DEF TagSeen
  <1>6. /\ TagStream.i = IF TagPartners = {} THEN n + 1 ELSE n
        /\ G = F \cup TagSeen
        /\ R = [c \in 0 .. NTag |-> IF c = Length THEN {}
                   ELSE P[c] \cup {q \in TagSeen : CommonFrom(q, n + 1) = c}]
    BY DEF TagStream
  <1> HIDE DEF N, n, F, P, G, R
  <1>7. TagStream.i \in 0 .. N /\ N - TagStream.i = IF TagPartners = {} THEN Length - 1 ELSE Length
    BY <1>1, <1>2, <1>3, <1>4, <1>6
  <1>8. G \subseteq {q \in people : q >= g} /\ g \in G
    <2>1. \A q \in TagSeen : q \in people /\ q >= g
      <3> TAKE q \in TagSeen
      <3>1. q \in people /\ q > g
        BY <1>1, <1>5
      <3>2. q \in Nat
        BY <1>2, <3>1
      <3>3. QED
        BY <1>2, <3>1, <3>2
    <2>2. QED
      BY <1>3, <1>6, <2>1
  <1>9. ASSUME NEW q \in people, q > g, \E m \in 1 .. TagStream.i : invList(g)[m] \in tags[q] PROVE q \in G
    <2>1. CASE TagPartners = {}
      BY <1>1, <1>5, <1>6, <1>9, <2>1
    <2>2. CASE TagPartners # {}
      BY <1>3, <1>6, <1>9, <2>2
    <2>3. QED
      BY <2>1, <2>2
  <1>10. R \in [0 .. NTag -> SUBSET people] /\ R[Length] = {}
    <2>1. \A c \in 0 .. NTag : (IF c = Length THEN {}
             ELSE P[c] \cup {q \in TagSeen : CommonFrom(q, n + 1) = c}) \in SUBSET people
      BY <1>1, <1>3, <1>5
    <2>2. Length \in 0 .. NTag
      BY <1>1
    <2>3. QED
      BY <1>6, <2>1, <2>2
  <1>11. ASSUME NEW c \in 0 .. Length - 1 PROVE R[c] = {q \in G \ {g} : Common(g, q) = c}
    <2>1. c \in 0 .. NTag /\ c # Length
      BY <1>1, <1>2
    <2>2. R[c] = P[c] \cup {q \in TagSeen : CommonFrom(q, n + 1) = c}
      BY <1>6, <2>1
    <2>3. \A q \in TagSeen : q # g /\ CommonFrom(q, n + 1) = Common(g, q)
      BY <1>1, <1>2, <1>5
    <2>4. P[c] = {q \in F \ {g} : Common(g, q) = c}
      BY <1>3
    <2>5. \A q : q \in R[c] <=> q \in G \ {g} /\ Common(g, q) = c
      BY <1>6, <2>2, <2>3, <2>4
    <2>6. QED
      BY <2>5
  <1>12. QED
    BY <1>6, <1>7, <1>8, <1>9, <1>10, <1>11 DEF G, N, F, R

\* A step keeps all streams right, and tests exactly the pairs it sends to the heap.
LEMMA StreamStep ==
    ASSUME Asked, UNCHANGED input, g \in people, g \in DOMAIN stream, StreamOk(g), Length > 0,
           stream' = [stream EXCEPT ![g] = TagStream]
    PROVE  /\ DOMAIN stream' = DOMAIN stream
           /\ \A p \in DOMAIN stream : StreamOk(p) => StreamOk(p)'
           /\ TestedPairs' = TestedPairs \cup TagPairs
  <1> DEFINE L == IF TagPartners = {} THEN Length - 1 ELSE Length
             F == stream[g].forsake
             G == TagStream.forsake
             R == TagStream.pool
  <1>1. /\ tags' = tags /\ people' = people /\ ClosePairs' = ClosePairs
        /\ \A p, q : Common(p, q)' = Common(p, q)
        /\ \A p : invList(p)' = invList(p)
    BY SameInput
  <1>2. DOMAIN stream' = DOMAIN stream
    OBVIOUS
  <1>3. \A p \in DOMAIN stream : stream'[p] = IF p = g THEN TagStream ELSE stream[p]
    OBVIOUS
  <1>4. \A p \in DOMAIN stream : p # g => Left(p)' = Left(p)
    BY <1>1, <1>3 DEF Left
  <1>5. ASSUME NEW p, p = g PROVE Left(p)' = L
    BY <1>1, <1>3, <1>5, TagStreamIs DEF Left
  <1>6. /\ Length = Left(g) /\ Length \in 1 .. NTag
        /\ \A q \in TagList : /\ q \in people /\ q > g /\ q \notin F
                              /\ Common(g, q) <= Length
                              /\ CommonFrom(q, stream[g].i + 1) = Common(g, q)
        /\ \A q \in people : q > g /\ Common(g, q) = Length /\ q \notin F => q \in TagList
    BY TagListIs
  <1>7. /\ TagStream.i \in 0 .. Cardinality(tags[g])
        /\ G = F \cup TagSeen
        /\ G \subseteq {q \in people : q >= g} /\ g \in G
        /\ \A q \in people :
              q > g /\ (\E m \in 1 .. TagStream.i : invList(g)[m] \in tags[q]) => q \in G
        /\ R \in [0 .. NTag -> SUBSET people] /\ R[Length] = {}
        /\ \A c \in 0 .. Length - 1 : R[c] = {q \in G \ {g} : Common(g, q) = c}
    BY TagStreamIs
  <1>8. people \subseteq Nat /\ g \in Nat /\ NTag \in Nat
    BY PeopleAre, Query3Assumption
  <1>9. L \in 0 .. NTag /\ L <= Length /\ Length \in Nat
    BY <1>6, <1>8
  <1>10. \A c \in 0 .. L - 1 : R[c] = {q \in G \ {g} : Common(g, q) = c}
    <2>1. \A c \in 0 .. L - 1 : c \in 0 .. Length - 1
      BY <1>9
    <2>2. QED
      BY <1>7, <2>1
  <1>11. R[L] \subseteq {q \in G \ {g} : Common(g, q) = L}
    <2>1. CASE TagPartners = {}
      <3>1. L \in 0 .. Length - 1
        BY <1>6, <2>1
      <3>2. QED
        BY <1>7, <3>1
    <2>2. CASE TagPartners # {}
      BY <1>7, <2>2
    <2>3. QED
      BY <2>1, <2>2
  <1> HIDE DEF G, R, F, L
  <1>12. ASSUME NEW p \in DOMAIN stream, StreamOk(p) PROVE StreamOk(p)'
    <2>1. CASE p = g
      <3>1. stream'[p] = TagStream /\ Left(p)' = L /\ tags'[p] = tags[g] /\ invList(p)' = invList(g)
        BY <1>1, <1>3, <1>5, <2>1
      <3>2. \A q : Common(p, q)' = Common(g, q)
        BY <1>1, <2>1
      <3>3. QED
        BY <1>1, <1>7, <1>10, <1>11, <2>1, <3>1, <3>2 DEF StreamOk, G, R
    <2>2. CASE p # g
      <3>1. stream'[p] = stream[p] /\ Left(p)' = Left(p)
        BY <1>3, <1>4, <2>2
      <3>2. QED
        BY <1>1, <1>12, <3>1 DEF StreamOk
    <2>3. QED
      BY <2>1, <2>2
  <1>13. ASSUME NEW q \in people, q > g
         PROVE  /\ Common(g, q) > Length => Common(g, q) > L
                /\ Common(g, q) > L <=> Common(g, q) > Length \/ (TagPartners = {} /\ Common(g, q) = Length)
    <2>1. Common(g, q) \in Nat
      BY CommonIs
    <2>2. CASE TagPartners = {}
      BY <2>1, <2>2, <1>6 DEF L
    <2>3. CASE TagPartners # {}
      BY <2>1, <2>3, <1>6 DEF L
    <2>4. QED
      BY <2>2, <2>3
  <1> DEFINE Now(q) == /\ q \in people /\ q > g
                       /\ Common(g, q) > L \/ (Common(g, q) = L /\ q \in G \ R[L])
             Before(q) == /\ q \in people /\ q > g
                          /\ \/ Common(g, q) > Length
                             \/ Common(g, q) = Length /\ q \in F \ stream[g].pool[Length]
             New(q) == /\ q \in people /\ q > g /\ Common(g, q) = Length
                       /\ q \in stream[g].pool[Length] \/ q \in TagSeen
  <1>14. ASSUME NEW q, Close(g, q) PROVE Now(q) <=> Before(q) \/ New(q)
    <2> SUFFICES ASSUME q \in people, q > g PROVE Now(q) <=> Before(q) \/ New(q)
      OBVIOUS
    <2>1. stream[g].pool[Length] \subseteq F
      BY <1>6 DEF StreamOk, F
    <2>2. CASE TagPartners = {}
      <3>1. L \in 0 .. Length - 1
        BY <1>6, <2>2 DEF L
      <3>2. Common(g, q) = L => ~ (q \in G \ R[L])
        <4>1. q # g
          BY <1>8
        <4>2. QED
          BY <1>7, <3>1, <4>1
      <3>3. Now(q) <=> Common(g, q) > Length \/ Common(g, q) = Length
        BY <1>13, <2>2, <3>2
      <3>4. Common(g, q) = Length => q \in F
        <4> SUFFICES ASSUME Common(g, q) = Length, q \notin F PROVE FALSE
          OBVIOUS
        <4>1. q \in TagList
          BY <1>6
        <4>2. q \in TagPartners
          BY <1>6, <1>14, <4>1 DEF TagPartners
        <4>3. QED
          BY <2>2, <4>2
      <3>5. QED
        BY <2>1, <3>3, <3>4
    <2>3. CASE TagPartners # {}
      <3>1. L = Length /\ R[L] = {}
        BY <1>7, <2>3 DEF L
      <3>2. QED
        BY <1>7, <2>1, <3>1
    <2>4. QED
      BY <2>2, <2>3
  <1>15. ASSUME NEW p, p = g PROVE \A q : q \in Tested(p)' <=> Now(q)
    <2>1. stream'[p] = TagStream /\ Left(p)' = L
      BY <1>3, <1>5, <1>15
    <2>2. \A q : Common(p, q)' = Common(g, q)
      BY <1>1, <1>15
    <2>3. QED
      BY <1>1, <1>15, <2>1, <2>2 DEF Tested, G, R
  <1>16. \A q : q \in Tested(g) <=> Before(q)
    BY <1>6 DEF Tested, F
  <1>17. \A p \in DOMAIN stream : p # g => Tested(p)' = Tested(p)
    BY <1>1, <1>3, <1>4 DEF Tested
  <1>18. \A a : a \in ClosePairs <=> \E p, q \in people : p < q /\ Close(p, q) /\ a = <<Common(p, q), p, q>>
    BY ClosePairsAre
  <1>19. \A a : a \in TagPairs <=>
            \E q \in people : /\ q > g /\ Close(g, q) /\ Common(g, q) = Length
                              /\ q \in stream[g].pool[Length] \/ q \in TagSeen
                              /\ a = <<Length, g, q>>
    BY TagPairsAre
  <1>20. ASSUME NEW a \in ClosePairs, a[2] = g PROVE a \in TagPairs <=> New(a[3])
    <2>1. a[3] \in people /\ Close(g, a[3]) /\ a = <<Common(g, a[3]), g, a[3]>> /\ g < a[3]
      BY <1>18, <1>20
    <2>2. a[3] > g
      BY <1>8, <2>1
    <2>3. a \in TagPairs => New(a[3])
      <3> SUFFICES ASSUME a \in TagPairs PROVE New(a[3])
        OBVIOUS
      <3>1. PICK q \in people : /\ q > g /\ Close(g, q) /\ Common(g, q) = Length
                                /\ q \in stream[g].pool[Length] \/ q \in TagSeen
                                /\ a = <<Length, g, q>>
        BY <1>19
      <3>2. a[3] = q
        BY <3>1
      <3>3. QED
        BY <3>1, <3>2
    <2>4. New(a[3]) => a \in TagPairs
      BY <1>19, <2>1
    <2>5. QED
      BY <2>3, <2>4
  <1> HIDE DEF Now, Before, New
  <1>21. \A a \in ClosePairs : a[2] \in DOMAIN stream =>
            (a[3] \in Tested(a[2])' <=> a[3] \in Tested(a[2]) \/ a \in TagPairs)
    <2> SUFFICES ASSUME NEW a \in ClosePairs, a[2] \in DOMAIN stream
                 PROVE  a[3] \in Tested(a[2])' <=> a[3] \in Tested(a[2]) \/ a \in TagPairs
      OBVIOUS
    <2> DEFINE p == a[2]
    <2>1. CASE p = g
      <3>1. Close(g, a[3])
        BY <1>18, <2>1
      <3> HIDE DEF p
      <3>2. (a[3] \in Tested(p)') <=> Now(a[3])
        BY <1>15, <2>1
      <3>3. (a[3] \in Tested(p)) <=> Before(a[3])
        BY <1>16, <2>1
      <3>4. a \in TagPairs <=> New(a[3])
        BY <1>20, <2>1 DEF p
      <3>5. (a[3] \in Tested(p)') <=> (a[3] \in Tested(p) \/ a \in TagPairs)
        BY <1>14, <3>1, <3>2, <3>3, <3>4
      <3>6. QED
        BY <3>5 DEF p
    <2>2. CASE p # g
      <3>1. a \notin TagPairs
        BY <1>19, <2>2
      <3>2. QED
        BY <1>17, <2>2, <3>1
    <2>3. QED
      BY <2>1, <2>2
  <1>22. \A a \in TagPairs : a \in ClosePairs /\ a[2] \in DOMAIN stream
    <2>1. TagPairs \subseteq ClosePairs
      BY TagPairsAre
    <2>2. \A a \in TagPairs : a[2] = g
      BY <1>19
    <2>3. QED
      BY <2>1, <2>2
  <1>23. TestedPairs' = TestedPairs \cup TagPairs
    <2>1. \A a : a \in TestedPairs' <=> a \in ClosePairs /\ a[2] \in DOMAIN stream /\ a[3] \in Tested(a[2])'
      BY <1>1, <1>2 DEF TestedPairs
    <2>2. \A a : a \in TestedPairs <=> a \in ClosePairs /\ a[2] \in DOMAIN stream /\ a[3] \in Tested(a[2])
      BY DEF TestedPairs
    <2>3. \A a : a \in TestedPairs' <=> a \in TestedPairs \/ a \in TagPairs
      BY <1>21, <1>22, <2>1, <2>2
    <2>4. QED
      BY <2>3
  <1>24. QED
    BY <1>2, <1>12, <1>23

\* Of those with as many common tags as are left, the first who is close is found;
\* whatever g still has is behind that pair.
LEMMA FoundFirst ==
    ASSUME Asked, g \in people, g \in DOMAIN stream, StreamOk(g), Length > 0, TagPartners # {}
    PROVE  \E b \in TagPairs :
              /\ b[2] = g
              /\ \A a \in ClosePairs \ (TestedPairs \cup TagPairs) : a[2] = g => Ahead(b, a)
  <1> DEFINE r == Min(TagPartners)
             b == <<Length, g, r>>
             F == stream[g].forsake
             B == stream[g].pool[Length]
  <1>1. /\ Length = Left(g) /\ Length \in 1 .. NTag
        /\ \A q \in TagList : /\ q \in people /\ q > g /\ q \notin F
                              /\ CommonFrom(q, stream[g].i + 1) = Common(g, q)
        /\ \A q \in people : q > g /\ Common(g, q) = Length /\ q \notin F => q \in TagList
    BY TagListIs
  <1>2. people \subseteq Nat /\ g \in Nat /\ Length \in Nat
    BY <1>1, PeopleAre
  <1>3. \A q : q \in TagPartners <=> q \in TagList /\ Close(g, q) /\ Common(g, q) = Length
    BY <1>1 DEF TagPartners
  <1>4. r \in TagPartners /\ \A q \in TagPartners : r <= q
    <2>1. TagPartners \in SUBSET Nat
      BY <1>1, <1>2, <1>3
    <2>2. QED
      BY <2>1, MinIs
  <1> HIDE DEF r
  <1>5. r \in people /\ r > g /\ Close(g, r) /\ Common(g, r) = Length /\ r \in TagSeen
    BY <1>1, <1>3, <1>4 DEF TagSeen
  <1>6. \A a : a \in TagPairs <=>
           \E q \in people : /\ q > g /\ Close(g, q) /\ Common(g, q) = Length
                             /\ q \in B \/ q \in TagSeen
                             /\ a = <<Length, g, q>>
    BY TagPairsAre
  <1>7. b \in TagPairs
    BY <1>5, <1>6
  <1>8. ASSUME NEW a \in ClosePairs, a \notin TestedPairs, a \notin TagPairs, a[2] = g PROVE Ahead(b, a)
    <2>1. PICK q \in people : g < q /\ Close(g, q) /\ a = <<Common(g, q), g, q>>
      <3>1. PICK p \in people, q \in people : p < q /\ Close(p, q) /\ a = <<Common(p, q), p, q>>
        BY ClosePairsAre
      <3>2. p = g
        BY <1>8, <3>1
      <3>3. QED
        BY <3>1, <3>2
    <2>2. q > g /\ q \in Nat /\ Common(g, q) \in Nat
      BY <1>2, <2>1, CommonIs
    <2>3. q \notin Tested(g)
      BY <1>8, <2>1 DEF TestedPairs
    <2>4. Common(g, q) <= Length /\ (Common(g, q) = Length => q \notin F \/ q \in B)
      BY <1>1, <1>2, <2>2, <2>3 DEF Tested, F, B
    <2>5. CASE Common(g, q) < Length
      BY <2>1, <2>2, <2>5 DEF Ahead
    <2>6. CASE Common(g, q) = Length
      <3>1. q \notin B /\ q \notin TagSeen
        BY <1>6, <1>8, <2>1, <2>2, <2>6
      <3>2. q \in TagList
        BY <1>1, <2>2, <2>4, <2>6, <3>1
      <3>3. q \in TagPartners
        BY <1>3, <2>1, <2>6, <3>2
      <3>4. r <= q /\ r # q /\ r \in Nat
        BY <1>2, <1>4, <1>5, <3>1, <3>3
      <3>5. r < q
        BY <2>2, <3>4
      <3>6. QED
        BY <2>1, <2>6, <3>5 DEF Ahead
    <2>7. QED
      BY <1>2, <2>2, <2>4, <2>5, <2>6
  <1>9. b[2] = g
    OBVIOUS
  <1> HIDE DEF b
  <1>10. \A a \in ClosePairs \ (TestedPairs \cup TagPairs) : a[2] = g => Ahead(b, a)
    BY <1>8
  <1>11. QED
    BY <1>7, <1>9, <1>10

\* The person that moves is one of the place and has its stream.
LEMMA MoverIs ==
    ASSUME Asked, StreamsInv, Moving
    PROVE  g \in people /\ g \in DOMAIN stream /\ StreamOk(g) /\ Left(g) = Length
  <1>1. people \subseteq Nat
    BY PeopleAre
  <1>2. CASE pc = "move"
    <2>1. g \in people /\ DOMAIN stream = {p \in people : p <= g}
      BY <1>2 DEF StreamsInv
    <2>2. g \in DOMAIN stream
      BY <1>1, <2>1
    <2>3. QED
      BY <2>1, <2>2 DEF StreamsInv, Left, Length
  <1>3. CASE pc = "move again"
    <2>1. Len(ans) > 0 /\ g = ans[Len(ans)][2] /\ DOMAIN stream = people
      BY <1>3 DEF StreamsInv, Unerased
    <2>2. Leads(ans, ClosePairs)
      BY DEF StreamsInv, TakenInv
    <2>3. ans[Len(ans)] \in ClosePairs
      BY <2>1, <2>2 DEF Leads
    <2>4. g \in people
      BY <2>1, <2>3, ClosePairsAre
    <2>5. QED
      BY <2>1, <2>4 DEF StreamsInv, Left, Length
  <1>4. QED
    BY <1>2, <1>3 DEF Moving

\* A step to the next tag, or to the next partner.
LEMMA MoveTagStep ==
    ASSUME Asked, version \in {"v3", "v4"}, StreamsInv, MoveTag
    PROVE  StreamsInv'
  <1> DEFINE H == answerHeap
             T == Taken
             U == H \cup T
             S == TagPairs
             V == answerHeap'
             W == V \cup T
  <1>1. /\ Moving /\ Length > 0 /\ UNCHANGED <<input, g, ans, version>>
        /\ answerHeap' = HeapWith(S)
        /\ heapSize' = heapSize + Room(S)
        /\ stream' = [stream EXCEPT ![g] = TagStream]
        /\ pc' = IF TagPartners = {} THEN pc ELSE AfterMove
    BY MoveTagIs
  <1>2. k' = k /\ people' = people /\ ClosePairs' = ClosePairs
    BY <1>1, SameInput
  <1>3. g \in people /\ g \in DOMAIN stream /\ StreamOk(g) /\ people \subseteq Nat
    BY <1>1, MoverIs, PeopleAre
  <1>4. TakenInv /\ ToCome /\ g \in Nat
    BY DEF StreamsInv
  <1>5. /\ ClosePairs \subseteq Triples /\ IsFiniteSet(ClosePairs) /\ k \in Nat \ {0}
        /\ TestedPairs \subseteq ClosePairs /\ U \subseteq TestedPairs
        /\ IsFiniteSet(T) /\ IsFiniteSet(U)
        /\ Keeps(U, TestedPairs, k)
        /\ \A a \in H : a[1] > 0
    BY <1>4, TakenFacts DEF TakenInv
  <1>6. S \subseteq ClosePairs /\ S \cap TestedPairs = {} /\ \A a \in S : a[2] = g /\ a[1] = Length
    BY <1>1, <1>3, TagPairsAre
  <1>7. /\ DOMAIN stream' = DOMAIN stream
        /\ \A p \in DOMAIN stream : StreamOk(p) => StreamOk(p)'
        /\ TestedPairs' = TestedPairs \cup S
    BY <1>1, <1>3, StreamStep
  <1>8. /\ V \subseteq H \cup S /\ IsFiniteSet(V)
        /\ V \cap T = H \cap T
        /\ heapSize' = Cardinality(IF version = "v3" THEN V \cup T ELSE V)
        /\ heapSize' <= k
        /\ \A x \in (H \cup S) \ V : NAhead(V \cup T, x) >= k
    BY <1>1, <1>4, <1>6, HeapWithIs
  <1>9. Taken' = T
    BY <1>1 DEF Taken
  <1>10. /\ pc \in {"move", "move again"} /\ (pc' = pc \/ pc' = AfterMove)
         /\ AfterMove = IF pc = "move" THEN "fill" ELSE "erase"
         /\ (TagPartners = {} => pc' = pc) /\ (TagPartners # {} => pc' = AfterMove)
    BY <1>1 DEF Moving, AfterMove
  <1>11. (Unerased' <=> Unerased) /\ (Moving' <=> TagPartners = {})
    BY <1>10 DEF Unerased, Moving
  <1>12. S \in SUBSET Triples /\ U \in SUBSET Triples /\ TestedPairs \in SUBSET Triples /\ IsFiniteSet(S)
         /\ k \in Nat
    BY <1>5, <1>6, FS_Subset
  <1> HIDE DEF V, S, T, H
  <1>13. W \subseteq U \cup S /\ \A x \in (U \cup S) \ W : NAhead(W, x) >= k
    <2>1. W \subseteq U \cup S
      BY <1>8
    <2>2. \A x \in (U \cup S) \ W : x \in (H \cup S) \ V
      OBVIOUS
    <2>3. QED
      BY <1>8, <2>1, <2>2
  <1> HIDE DEF W, U
  <1>14. Keeps(W, TestedPairs \cup S, k) /\ IsFiniteSet(W)
    BY <1>5, <1>12, <1>13, KeepsStep
  <1>15. \A a \in V : a[1] > 0
    BY <1>1, <1>5, <1>6, <1>8
  <1>16. TakenInv'
    <2>1. Keeps(answerHeap \cup Taken, TestedPairs, k)'
      <3>1. Keeps(W, TestedPairs', k')
        BY <1>2, <1>7, <1>14
      <3>2. QED
        BY <1>9, <3>1 DEF Keeps, NAhead, W, V
    <2>2. (answerHeap \cap Taken = IF Unerased THEN {ans[Len(ans)]} ELSE {})'
      BY <1>1, <1>4, <1>8, <1>9, <1>11 DEF TakenInv, V, T, H
    <2>3. Leads(ans, ClosePairs)' /\ Len(ans)' <= k'
      BY <1>1, <1>2, <1>4 DEF TakenInv, Leads
    <2>4. heapSize' = Cardinality(IF version' = "v3" THEN answerHeap' \cup Taken' ELSE answerHeap')
      BY <1>1, <1>8, <1>9 DEF V
    <2>5. heapSize' <= k' /\ IsFiniteSet(answerHeap)' /\ \A a \in answerHeap' : a[1] > 0
      BY <1>2, <1>8, <1>15 DEF V
    <2>6. QED
      BY <2>1, <2>2, <2>3, <2>4, <2>5 DEF TakenInv
  <1>17. ASSUME NEW a \in ClosePairs, a \notin TestedPairs \cup S, a[2] \in DOMAIN stream,
                ~ (TagPartners = {} /\ a[2] = g)
         PROVE  \/ \E b \in V \ T : b[2] = a[2] /\ Ahead(b, a)
                \/ a[1] = 0
                \/ NAhead(W, a) >= k
    <2>1. a \in Triples /\ a \notin W /\ a \notin TestedPairs /\ a \notin S
      BY <1>5, <1>14, <1>17 DEF Keeps
    <2>2. ASSUME NEW b \in H \cup S, b \notin T, b[2] = a[2], Ahead(b, a)
          PROVE  (\E c \in V \ T : c[2] = a[2] /\ Ahead(c, a)) \/ NAhead(W, a) >= k
      <3>1. CASE b \in V
        BY <2>2, <3>1
      <3>2. CASE b \notin V
        <4>1. NAhead(W, b) >= k /\ b \in Triples
          <5>1. b \in U \cup S /\ b \notin W
            BY <2>2, <3>2 DEF U, W
          <5>2. QED
            BY <1>12, <1>13, <5>1
        <4>2. W \in SUBSET Triples
          BY <1>12, <1>13
        <4>3. NAhead(W, b) <= NAhead(W, a)
          BY <1>14, <2>1, <2>2, <4>1, <4>2, NAheadGrows
        <4>4. NAhead(W, b) \in Nat /\ NAhead(W, a) \in Nat
          BY <1>14, NAheadIsNat
        <4>5. QED
          BY <1>12, <4>1, <4>3, <4>4
      <3>3. QED
        BY <3>1, <3>2
    <2>3. CASE a[2] = g
      <3>1. TagPartners # {}
        BY <1>17, <2>3
      <3>2. PICK b \in S : /\ b[2] = g
                           /\ \A c \in ClosePairs \ (TestedPairs \cup S) : c[2] = g => Ahead(b, c)
        BY <1>1, <1>3, <3>1, FoundFirst DEF S
      <3>3. Ahead(b, a) /\ b[2] = a[2]
        BY <1>17, <2>3, <3>2
      <3>4. b \notin T
        BY <1>5, <1>6 DEF U
      <3>5. QED
        BY <2>2, <3>3, <3>4
    <2>4. CASE a[2] # g
      <3>1. \/ \E b \in H \ T : b[2] = a[2] /\ Ahead(b, a)
            \/ a[1] = 0
            \/ NAhead(U, a) >= k
        BY <1>4, <1>17, <2>1, <2>4 DEF ToCome, H, T, U
      <3>2. NAhead(U, a) >= k => NAhead(W, a) >= k
        BY <1>5, <1>12, <1>13, <2>1, StillLeftOut
      <3>3. QED
        BY <2>2, <3>1, <3>2
    <2>5. QED
      BY <2>3, <2>4
  <1>18. ToCome'
    <2>1. ASSUME NEW a \in ClosePairs, a \notin TestedPairs', a[2] \in DOMAIN stream', ~ (Moving' /\ a[2] = g)
          PROVE  \/ \E b \in answerHeap' \ Taken' : b[2] = a[2] /\ Ahead(b, a)
                 \/ a[1] = 0
                 \/ NAhead(answerHeap' \cup Taken', a) >= k
      BY <1>7, <1>9, <1>11, <1>17, <2>1 DEF V, W
    <2>2. QED
      BY <1>1, <1>2, <2>1 DEF ToCome, NAhead
  <1>19. /\ pc' \in {"fill", "move", "extract", "move again", "erase"}
         /\ g' \in Nat
         /\ DOMAIN stream' = IF pc' \in {"fill", "move"} THEN {p \in people' : p <= g'} ELSE people'
         /\ pc' \in {"fill", "move"} => ans' = <<>>
         /\ pc' = "move" => g' \in people'
    BY <1>1, <1>2, <1>3, <1>4, <1>7, <1>10 DEF StreamsInv
  <1>20. Unerased' => Len(ans') > 0 /\ g' = ans'[Len(ans')][2]
    BY <1>1, <1>11 DEF StreamsInv
  <1>21. \A p \in DOMAIN stream' : StreamOk(p)'
    BY <1>7 DEF StreamsInv
  <1>22. QED
    BY <1>16, <1>18, <1>19, <1>20, <1>21 DEF StreamsInv

\* Heap, answers and streams as they were.
LEMMA SameTaken ==
    ASSUME UNCHANGED <<input, answerHeap, ans, streams>>, Unerased' <=> Unerased
    PROVE  /\ TakenInv => TakenInv'
           /\ (\A p \in DOMAIN stream : StreamOk(p)) => (\A p \in DOMAIN stream' : StreamOk(p)')
           /\ k' = k /\ people' = people /\ ClosePairs' = ClosePairs /\ TestedPairs' = TestedPairs /\ Taken' = Taken
  <1>1. k' = k /\ people' = people /\ ClosePairs' = ClosePairs
    BY SameInput
  <1>2. stream' = stream /\ version' = version /\ heapSize' = heapSize /\ UNCHANGED <<input, stream>>
    BY DEF streams
  <1>3. TestedPairs' = TestedPairs /\ \A p : StreamOk(p)' = StreamOk(p)
    BY <1>2, SameStreams
  <1>4. Taken' = Taken
    BY DEF Taken
  <1>5. TakenInv => TakenInv'
    BY <1>1, <1>2, <1>3, <1>4 DEF TakenInv, Keeps, NAhead, Leads
  <1>6. QED
    BY <1>1, <1>2, <1>3, <1>4, <1>5

\* A person without a tag left, or with k better pairs found, has nothing to come.
LEMMA MoveEndsStep ==
    ASSUME Asked, version \in {"v3", "v4"}, StreamsInv, MoveEnds
    PROVE  StreamsInv'
  <1> DEFINE H == answerHeap
             T == Taken
             U == H \cup T
  <1>1. /\ Moving
        /\ Length = 0 \/ MoveHopeless
        /\ UNCHANGED <<input, g, answerHeap, ans, streams>> /\ pc' = AfterMove
    BY DEF MoveEnds
  <1>2. /\ pc \in {"move", "move again"} /\ pc' = IF pc = "move" THEN "fill" ELSE "erase"
        /\ (Unerased' <=> Unerased) /\ ~ Moving'
    BY <1>1 DEF Moving, AfterMove, Unerased
  <1>3. /\ k' = k /\ people' = people /\ ClosePairs' = ClosePairs /\ TestedPairs' = TestedPairs /\ Taken' = T
        /\ TakenInv' /\ \A p \in DOMAIN stream' : StreamOk(p)'
    <2>1. TakenInv /\ \A p \in DOMAIN stream : StreamOk(p)
      BY DEF StreamsInv
    <2>2. UNCHANGED <<input, answerHeap, ans, streams>>
      BY <1>1
    <2>3. Unerased' <=> Unerased
      BY <1>2
    <2>4. QED
      BY <2>1, <2>2, <2>3, SameTaken
  <1>4. g \in people /\ g \in DOMAIN stream /\ StreamOk(g) /\ Left(g) = Length
    BY <1>1, MoverIs
  <1>5. TakenInv /\ ToCome
    BY DEF StreamsInv
  <1>6. /\ ClosePairs \subseteq Triples /\ k \in Nat \ {0} /\ IsFiniteSet(H) /\ IsFiniteSet(T) /\ IsFiniteSet(U)
        /\ U \subseteq TestedPairs /\ TestedPairs \subseteq ClosePairs
        /\ \A x \in ClosePairs \ T : \A b \in T : Ahead(b, x)
    BY <1>5, TakenFacts
  <1>7. ASSUME NEW a \in ClosePairs, a \notin TestedPairs, a[2] = g PROVE a[1] = 0 \/ NAhead(U, a) >= k
    <2>1. PICK q \in people : g < q /\ Close(g, q) /\ a = <<Common(g, q), g, q>>
      <3>1. PICK p \in people, q \in people : p < q /\ Close(p, q) /\ a = <<Common(p, q), p, q>>
        BY ClosePairsAre
      <3>2. p = g
        BY <1>7, <3>1
      <3>3. QED
        BY <3>1, <3>2
    <2>2. people \subseteq Nat /\ Common(g, q) \in Nat /\ a[1] = Common(g, q) /\ Cardinality(tags[g]) \in 0 .. NTag
      BY <1>4, <2>1, PeopleAre, CommonIs
    <2>3. q \notin Tested(g)
      BY <1>4, <1>7, <2>1 DEF TestedPairs
    <2>4. Length \in Nat
      <3>1. Cardinality(tags[g]) \in Nat /\ stream[g].i \in 0 .. Cardinality(tags[g])
        BY <1>4, <2>2, Query3Assumption DEF StreamOk
      <3>2. QED
        BY <3>1 DEF Length
    <2>5. a[1] <= Length
      <3>1. q > g
        BY <1>4, <2>1, <2>2
      <3>2. ~ (Common(g, q) > Left(g))
        BY <2>3, <3>1 DEF Tested
      <3>3. QED
        BY <1>4, <2>2, <2>4, <3>2
    <2>6. CASE Length = 0
      BY <2>2, <2>5, <2>6
    <2>7. CASE Length # 0
      <3>1. heapSize = k /\ Worst(H)[1] > Length
        BY <1>1, <2>7 DEF MoveHopeless
      <3>2. k = Cardinality(IF version = "v3" THEN U ELSE H)
        BY <1>5, <3>1 DEF TakenInv
      <3>3. H # {}
        <4>1. CASE pc = "move"
          <5>1. ans = <<>>
            BY <4>1 DEF StreamsInv
          <5>2. T = {}
            BY <5>1 DEF Taken
          <5>3. k = Cardinality(H)
            BY <3>2, <5>2
          <5> HIDE DEF H, T, U
          <5>4. QED
            BY <1>6, <5>3, FS_EmptySet
        <4>2. CASE pc = "move again"
          BY <1>5, <4>2 DEF TakenInv, Unerased
        <4>3. QED
          BY <1>2, <4>1, <4>2
      <3>4. a \in Triples /\ H \in SUBSET Triples /\ a \notin T
        BY <1>6, <1>7
      <3> HIDE DEF H, T
      <3>5. \A b \in H : Ahead(b, a)
        BY <1>6, <2>4, <2>5, <3>1, <3>3, <3>4, HeapAhead
      <3>6. NAhead(U, a) = Cardinality(U)
        <4>1. \A b \in U : Ahead(b, a)
          BY <1>6, <3>4, <3>5
        <4> HIDE DEF U
        <4>2. QED
          BY <4>1, AllAhead
      <3>7. Cardinality(H) <= Cardinality(U) /\ Cardinality(U) \in Nat /\ Cardinality(H) \in Nat
        <4>1. H \subseteq U
          OBVIOUS
        <4>2. QED
          BY <1>6, <4>1, FS_Subset, FS_CardinalityType
      <3> HIDE DEF U
      <3>8. CASE version = "v3"
        BY <3>2, <3>6, <3>7, <3>8
      <3>9. CASE version = "v4"
        BY <3>2, <3>6, <3>7, <3>9
      <3>10. QED
        BY <3>8, <3>9
    <2>8. QED
      BY <2>6, <2>7
  <1>8. ASSUME NEW a \in ClosePairs, a \notin TestedPairs, a[2] \in DOMAIN stream
        PROVE  \/ \E b \in H \ T : b[2] = a[2] /\ Ahead(b, a)
               \/ a[1] = 0
               \/ NAhead(U, a) >= k
    <2>1. CASE a[2] = g
      BY <1>7, <1>8, <2>1
    <2>2. CASE a[2] # g
      BY <1>5, <1>8, <2>2 DEF ToCome
    <2>3. QED
      BY <2>1, <2>2
  <1>9. ToCome'
    <2>1. stream' = stream /\ answerHeap' = answerHeap
      BY <1>1 DEF streams
    <2>2. QED
      BY <1>3, <1>8, <2>1 DEF ToCome, NAhead
  <1>10. /\ pc' \in {"fill", "move", "extract", "move again", "erase"}
         /\ g' \in Nat
         /\ DOMAIN stream' = IF pc' \in {"fill", "move"} THEN {p \in people' : p <= g'} ELSE people'
         /\ pc' \in {"fill", "move"} => ans' = <<>>
         /\ pc' = "move" => g' \in people'
    BY <1>1, <1>2, <1>3 DEF StreamsInv, streams
  <1>11. Unerased' => Len(ans') > 0 /\ g' = ans'[Len(ans')][2]
    BY <1>1, <1>2 DEF StreamsInv
  <1>12. QED
    BY <1>3, <1>9, <1>10, <1>11 DEF StreamsInv

\* A new stream has tested nobody.
LEMMA FillStep ==
    ASSUME Asked, version \in {"v3", "v4"}, StreamsInv, NEW p \in Persons, Fill(p)
    PROVE  StreamsInv'
  <1> DEFINE new == [i |-> 0, pool |-> [c \in 0 .. NTag |-> {}], forsake |-> {p}]
  <1>1. /\ UNCHANGED <<input, answerHeap, ans, version, heapSize>> /\ pc = "fill" /\ pc' = "move" /\ g' = p
        /\ p \in people /\ p > g /\ \A q \in people : q > g => q >= p
        /\ stream' = [q \in DOMAIN stream \cup {p} |-> IF q = p THEN new ELSE stream[q]]
    BY DEF Fill
  <1>2. /\ tags' = tags /\ k' = k /\ people' = people /\ ClosePairs' = ClosePairs
        /\ \A r, q : Common(r, q)' = Common(r, q)
        /\ \A r : invList(r)' = invList(r)
    BY <1>1, SameInput
  <1>3. /\ g \in Nat /\ DOMAIN stream = {q \in people : q <= g} /\ ans = <<>>
        /\ TakenInv /\ ToCome /\ \A q \in DOMAIN stream : StreamOk(q)
    BY <1>1 DEF StreamsInv
  <1>4. people \subseteq Nat /\ Cardinality(tags[p]) \in 0 .. NTag /\ NTag \in Nat
    BY <1>1, PeopleAre, Query3Assumption
  <1>5. DOMAIN stream' = DOMAIN stream \cup {p} /\ p \notin DOMAIN stream
        /\ stream'[p] = new /\ \A q \in DOMAIN stream : stream'[q] = stream[q]
    BY <1>1, <1>3, <1>4
  <1>6. DOMAIN stream' = {q \in people : q <= p}
    <2>1. \A q \in people : q <= p <=> q <= g \/ q = p
      <3> TAKE q \in people
      <3>1. q \in Nat /\ p \in Nat /\ (q > g => q >= p) /\ p > g
        BY <1>1, <1>4
      <3>2. QED
        BY <1>3, <3>1
    <2>2. \A q : q \in DOMAIN stream' <=> q \in people /\ q <= p
      BY <1>1, <1>3, <1>5, <2>1
    <2>3. QED
      BY <2>2
  <1>7. /\ new.i = 0 /\ new.forsake = {p}
        /\ new.pool \in [0 .. NTag -> SUBSET people] /\ \A c \in 0 .. NTag : new.pool[c] = {}
    OBVIOUS
  <1>8. Left(p)' = Cardinality(tags[p])
    BY <1>2, <1>4, <1>5, <1>7 DEF Left
  <1> HIDE DEF new
  <1>9. \A q \in DOMAIN stream : Left(q)' = Left(q)
    BY <1>2, <1>5 DEF Left
  <1>10. \A q \in DOMAIN stream : StreamOk(q)'
    <2> SUFFICES ASSUME NEW q \in DOMAIN stream PROVE StreamOk(q)'
      OBVIOUS
    <2>1. StreamOk(q) /\ stream'[q] = stream[q] /\ Left(q)' = Left(q)
      BY <1>3, <1>5, <1>9
    <2>2. QED
      BY <1>2, <2>1 DEF StreamOk
  <1>11. StreamOk(p)'
    <2>1. 0 \in 0 .. Cardinality(tags[p]) /\ {p} \subseteq {q \in people : q >= p}
      BY <1>1, <1>4
    <2>2. \A c \in 0 .. Cardinality(tags[p]) : c \in 0 .. NTag /\ new.pool[c] = {}
      BY <1>4, <1>7
    <2>3. \A c \in 0 .. Cardinality(tags[p]) - 1 : c \in 0 .. Cardinality(tags[p])
      BY <1>4
    <2>4. Cardinality(tags[p]) \in 0 .. Cardinality(tags[p])
      BY <1>4
    <2>5. QED
      BY <1>2, <1>5, <1>7, <1>8, <2>1, <2>2, <2>3, <2>4 DEF StreamOk
  <1>12. \A q \in DOMAIN stream : Tested(q)' = Tested(q)
    BY <1>2, <1>5, <1>9 DEF Tested
  <1>13. Tested(p)' = {}
    <2>1. ASSUME NEW q \in people, q > p PROVE ~ (Common(p, q) > Cardinality(tags[p]))
      <3>1. Common(p, q) \in 0 .. Cardinality(tags[p])
        BY <1>1, CommonIs
      <3>2. QED
        BY <1>4, <3>1
    <2>2. \A q \in people : q > p => q \notin {p}
      BY <1>1, <1>4
    <2>3. \A q : q \in Tested(p)' <=>
             /\ q \in people /\ q > p
             /\ \/ Common(p, q) > Cardinality(tags[p])
                \/ /\ Common(p, q) = Cardinality(tags[p])
                   /\ q \in {p} \ new.pool[Cardinality(tags[p])]
      BY <1>2, <1>5, <1>7, <1>8 DEF Tested
    <2>4. QED
      BY <2>1, <2>2, <2>3
  <1>14. TestedPairs' = TestedPairs
    <2>1. \A a : a \in TestedPairs' <=> a \in ClosePairs /\ a[2] \in DOMAIN stream' /\ a[3] \in Tested(a[2])'
      BY <1>2 DEF TestedPairs
    <2>2. \A a : a \in TestedPairs <=> a \in ClosePairs /\ a[2] \in DOMAIN stream /\ a[3] \in Tested(a[2])
      BY DEF TestedPairs
    <2>3. \A a : a \in TestedPairs' <=> a \in TestedPairs
      BY <1>5, <1>12, <1>13, <2>1, <2>2
    <2>4. QED
      BY <2>3
  <1>15. Taken' = Taken
    BY <1>1 DEF Taken
  <1>16. ~ Unerased /\ ~ Unerased' /\ ~ Moving
    BY <1>1 DEF Unerased, Moving
  <1>17. TakenInv'
    BY <1>1, <1>2, <1>3, <1>14, <1>15, <1>16 DEF TakenInv, Keeps, NAhead, Leads
  <1>18. ToCome'
    <2>1. ASSUME NEW a \in ClosePairs, a \notin TestedPairs, a[2] \in DOMAIN stream', ~ (Moving' /\ a[2] = p)
          PROVE  \/ \E b \in answerHeap \ Taken : b[2] = a[2] /\ Ahead(b, a)
                 \/ a[1] = 0
                 \/ NAhead(answerHeap \cup Taken, a) >= k
      <3>1. Moving'
        BY <1>1 DEF Moving
      <3>2. a[2] \in DOMAIN stream
        BY <1>5, <2>1, <3>1
      <3>3. QED
        BY <1>3, <1>16, <2>1, <3>2 DEF ToCome
    <2>2. QED
      BY <1>1, <1>2, <1>14, <1>15, <2>1 DEF ToCome, NAhead
  <1>19. /\ pc' \in {"fill", "move", "extract", "move again", "erase"}
         /\ g' \in Nat
         /\ DOMAIN stream' = IF pc' \in {"fill", "move"} THEN {q \in people' : q <= g'} ELSE people'
         /\ pc' \in {"fill", "move"} => ans' = <<>>
         /\ pc' = "move" => g' \in people'
    BY <1>1, <1>2, <1>3, <1>4, <1>6
  <1>20. \A q \in DOMAIN stream' : StreamOk(q)'
    BY <1>5, <1>10, <1>11
  <1>21. QED
    BY <1>16, <1>17, <1>18, <1>19, <1>20 DEF StreamsInv

\* All streams have begun.
LEMMA FillEndsStep ==
    ASSUME Asked, version \in {"v3", "v4"}, StreamsInv, FillEnds
    PROVE  StreamsInv'
  <1>1. /\ UNCHANGED <<input, g, answerHeap, ans, streams>> /\ pc = "fill" /\ pc' = "extract"
        /\ \A p \in people : p <= g
    BY DEF FillEnds
  <1>2. ~ Unerased /\ ~ Unerased' /\ ~ Moving /\ ~ Moving'
    BY <1>1 DEF Unerased, Moving
  <1>3. /\ k' = k /\ people' = people /\ ClosePairs' = ClosePairs /\ TestedPairs' = TestedPairs /\ Taken' = Taken
        /\ TakenInv' /\ \A p \in DOMAIN stream' : StreamOk(p)'
    BY <1>1, <1>2, SameTaken DEF StreamsInv
  <1>4. stream' = stream /\ answerHeap' = answerHeap
    BY <1>1 DEF streams
  <1>5. ToCome'
    <2>1. ToCome
      BY DEF StreamsInv
    <2>2. QED
      BY <1>2, <1>3, <1>4, <2>1 DEF ToCome, NAhead
  <1>6. DOMAIN stream' = people'
    <2>1. DOMAIN stream = {p \in people : p <= g}
      BY <1>1 DEF StreamsInv
    <2>2. QED
      BY <1>1, <1>3, <1>4, <2>1
  <1>7. QED
    BY <1>1, <1>2, <1>3, <1>5, <1>6 DEF StreamsInv

\* The pair that is taken from the heap is the first of them.
LEMMA FirstOfHeap ==
    ASSUME NEW H \in SUBSET Triples, IsFiniteSet(H), H # {},
           NEW x, x = CHOOSE a \in H : Best(H, 1) = {a}
    PROVE  x \in H /\ \A b \in H \ {x} : Ahead(x, b)
  <1>1. /\ Best(H, 1) \subseteq H /\ IsFiniteSet(Best(H, 1))
        /\ Cardinality(Best(H, 1)) = IF Cardinality(H) < 1 THEN Cardinality(H) ELSE 1
        /\ \A a \in Best(H, 1), b \in H \ Best(H, 1) : Ahead(a, b)
    <2>1. 1 \in Nat
      OBVIOUS
    <2>2. QED
      BY <2>1, BestAre
  <1>2. Cardinality(Best(H, 1)) = 1
    <2>1. Cardinality(H) \in Nat /\ Cardinality(H) # 0
      BY FS_CardinalityType, FS_EmptySet
    <2>2. QED
      BY <1>1, <2>1
  <1>3. \E a : Best(H, 1) = {a}
    BY <1>1, <1>2, FS_Singleton
  <1>4. \E a \in H : Best(H, 1) = {a}
    BY <1>1, <1>3
  <1>5. x \in H /\ Best(H, 1) = {x}
    BY <1>4, Zenon
  <1>6. QED
    BY <1>1, <1>5

\* Nothing that is not in the heap comes before its first pair.
LEMMA ExtractStep ==
    ASSUME Asked, version \in {"v3", "v4"}, StreamsInv, Extract
    PROVE  StreamsInv'
  <1> DEFINE x == CHOOSE a \in answerHeap : Best(answerHeap, 1) = {a}
             H == answerHeap
             T == Taken
             U == H \cup T
  <1>1. /\ UNCHANGED <<input, answerHeap, streams>> /\ pc = "extract" /\ pc' = "move again"
        /\ Len(ans) < k /\ H # {} /\ ans' = Append(ans, x) /\ g' = x[2]
    BY DEF Extract
  <1>2. k' = k /\ people' = people /\ ClosePairs' = ClosePairs
        /\ stream' = stream /\ version' = version /\ heapSize' = heapSize /\ UNCHANGED <<input, stream>>
    BY <1>1, SameInput DEF streams
  <1>3. TestedPairs' = TestedPairs /\ \A p : StreamOk(p)' = StreamOk(p)
    BY <1>2, SameStreams
  <1>4. /\ TakenInv /\ ToCome /\ DOMAIN stream = people /\ \A p \in DOMAIN stream : StreamOk(p)
    BY <1>1 DEF StreamsInv
  <1>5. ~ Unerased /\ ~ Moving /\ Unerased' /\ Moving'
    BY <1>1 DEF Unerased, Moving
  <1>6. /\ ClosePairs \subseteq Triples /\ k \in Nat \ {0} /\ IsFiniteSet(H) /\ IsFiniteSet(T) /\ IsFiniteSet(U)
        /\ U \subseteq TestedPairs /\ TestedPairs \subseteq ClosePairs
        /\ Cardinality(T) = Len(ans) /\ Len(ans) \in Nat
    BY <1>4, TakenFacts
  <1>7. /\ H \cap T = {} /\ Leads(ans, ClosePairs) /\ Keeps(U, TestedPairs, k) /\ \A a \in H : a[1] > 0
        /\ heapSize = Cardinality(IF version = "v3" THEN U ELSE H) /\ heapSize <= k
    BY <1>4, <1>5 DEF TakenInv
  <1> DEFINE l == Len(ans)
  <1> HIDE DEF l
  <1>8. l \in Nat /\ k \in Nat /\ Cardinality(T) = l /\ l < k
    BY <1>1, <1>6, Zenon DEF l
  <1>9. l + 1 <= k
    BY <1>8
  <1>10. x \in H /\ \A b \in H \ {x} : Ahead(x, b)
    <2>1. H \in SUBSET Triples
      BY <1>6
    <2>2. QED
      BY <1>1, <1>6, <2>1, FirstOfHeap
  <1> HIDE DEF x, H, T, U
  <1>11. \A p \in ClosePairs : p \in Triples /\ p[2] \in people /\ p[1] \in Nat
    <2>1. \A p \in ClosePairs : p \in Triples /\ p[2] \in people
      BY <1>6, ClosePairsAre
    <2>2. QED
      BY <2>1 DEF Triples
  <1>12. x \in ClosePairs \ T /\ x \in Triples /\ x[1] > 0 /\ x[1] \in Nat
    <2>1. x \in ClosePairs /\ x \notin T
      BY <1>6, <1>7, <1>10 DEF U
    <2>2. QED
      BY <1>7, <1>10, <1>11, <2>1
  <1>13. ASSUME NEW b \in ClosePairs, b \notin T, b # x PROVE Ahead(x, b)
    <2>1. b \in Triples /\ b[1] \in Nat /\ b[2] \in people
      BY <1>11
    <2>2. ASSUME NEW c \in H, Ahead(c, b) PROVE Ahead(x, b)
      <3>1. c = x \/ Ahead(x, c)
        BY <1>10
      <3>2. c \in Triples
        BY <1>6, <1>11 DEF U
      <3>3. QED
        BY <1>12, <2>1, <2>2, <3>1, <3>2, AheadOrder
    <2>3. ASSUME NAhead(U, b) >= k PROVE Ahead(x, b)
      <3>1. NAhead(U, b) > Cardinality(T)
        <4>1. NAhead(U, b) \in Nat
          BY <1>6, NAheadIsNat
        <4>2. QED
          BY <1>8, <2>3, <4>1
      <3>2. PICK c \in U \ T : Ahead(c, b)
        BY <1>6, <3>1, AheadOutside
      <3>3. c \in H
        BY <3>2 DEF U
      <3>4. QED
        BY <2>2, <3>2, <3>3
    <2>4. CASE b \in H
      BY <1>10, <1>13, <2>4
    <2>5. CASE b \in TestedPairs /\ b \notin H
      <3>1. b \notin U
        BY <1>13, <2>5 DEF U
      <3>2. NAhead(U, b) >= k
        BY <1>7, <2>5, <3>1 DEF Keeps
      <3>3. QED
        BY <2>3, <3>2
    <2>6. CASE b \notin TestedPairs
      <3>1. \/ \E c \in H \ T : c[2] = b[2] /\ Ahead(c, b)
            \/ b[1] = 0
            \/ NAhead(U, b) >= k
        BY <1>4, <1>5, <2>1, <2>6 DEF ToCome, H, T, U
      <3>2. CASE b[1] = 0
        BY <1>12, <3>2 DEF Ahead
      <3>3. QED
        BY <2>2, <2>3, <3>1, <3>2
    <2>7. QED
      BY <2>4, <2>5, <2>6
  <1>14. Leads(ans', ClosePairs) /\ Taken' = T \cup {x}
    <2>1. x \in ClosePairs \ ElementsOf(ans)
      BY <1>12, TakenIs DEF T
    <2>2. \A b \in ClosePairs \ (ElementsOf(ans) \cup {x}) : Ahead(x, b)
      BY <1>13, TakenIs DEF T
    <2>3. Leads(Append(ans, x), ClosePairs) /\ ElementsOf(Append(ans, x)) = ElementsOf(ans) \cup {x}
      BY <1>7, <2>1, <2>2, LeadsAppend
    <2>4. Taken' = ElementsOf(ans')
      BY DEF Taken, ElementsOf
    <2>5. QED
      BY <1>1, <2>3, <2>4, TakenIs DEF T
  <1>15. Len(ans') = Len(ans) + 1 /\ ans'[Len(ans')] = x
    <2>1. ans \in Seq(ClosePairs) /\ x \in ClosePairs
      BY <1>7, <1>12 DEF Leads
    <2>2. Len(Append(ans, x)) = Len(ans) + 1 /\ Append(ans, x)[Len(ans) + 1] = x
      BY <2>1
    <2>3. ans' = Append(ans, x)
      BY <1>1
    <2>4. QED
      BY <2>2, <2>3
  <1>16. answerHeap' = H /\ H \cup Taken' = U
    <2>1. answerHeap' = H
      BY <1>1 DEF H
    <2>2. QED
      BY <1>10, <1>14, <2>1 DEF U
  <1>17. TakenInv'
    <2>1. Keeps(answerHeap \cup Taken, TestedPairs, k)'
      <3>1. Keeps(U, TestedPairs', k')
        BY <1>2, <1>3, <1>7
      <3>2. QED
        BY <1>16, <3>1 DEF Keeps, NAhead
    <2>2. answerHeap' \cap Taken' = {ans'[Len(ans')]}
      BY <1>7, <1>10, <1>14, <1>15, <1>16
    <2>3. Leads(ans, ClosePairs)' /\ Len(ans') <= k'
      <3>1. Len(ans) + 1 <= k
        BY <1>9 DEF l
      <3>2. Leads(ans', ClosePairs') /\ Len(ans') <= k'
        BY <1>2, <1>14, <1>15, <3>1
      <3>3. QED
        BY <3>2 DEF Leads
    <2>4. heapSize' = Cardinality(IF version' = "v3" THEN answerHeap' \cup Taken' ELSE answerHeap')
      BY <1>2, <1>7, <1>16
    <2>5. heapSize' <= k' /\ IsFiniteSet(answerHeap)' /\ \A a \in answerHeap' : a[1] > 0
      BY <1>2, <1>6, <1>7, <1>16
    <2>6. QED
      BY <1>5, <2>1, <2>2, <2>3, <2>4, <2>5 DEF TakenInv
  <1>18. ToCome'
    <2>1. ASSUME NEW a \in ClosePairs, a \notin TestedPairs, a[2] \in DOMAIN stream, ~ (Moving' /\ a[2] = x[2])
          PROVE  \/ \E b \in H \ Taken' : b[2] = a[2] /\ Ahead(b, a)
                 \/ a[1] = 0
                 \/ NAhead(U, a) >= k
      <3>1. \/ \E b \in H \ T : b[2] = a[2] /\ Ahead(b, a)
            \/ a[1] = 0
            \/ NAhead(U, a) >= k
        BY <1>4, <1>5, <2>1 DEF ToCome, H, T, U
      <3>2. \A b \in H \ T : b[2] = a[2] => b \in H \ Taken'
        BY <1>5, <1>14, <2>1
      <3>3. QED
        BY <3>1, <3>2
    <2>2. QED
      BY <1>1, <1>2, <1>3, <1>16, <2>1 DEF ToCome, NAhead
  <1>19. /\ pc' \in {"fill", "move", "extract", "move again", "erase"}
         /\ g' \in Nat
         /\ DOMAIN stream' = IF pc' \in {"fill", "move"} THEN {p \in people' : p <= g'} ELSE people'
         /\ pc' \in {"fill", "move"} => ans' = <<>>
         /\ pc' = "move" => g' \in people'
    <2>1. g' \in Nat
      BY <1>1, <1>11, <1>12, PeopleAre
    <2>2. QED
      BY <1>1, <1>2, <1>4, <2>1
  <1>20. Unerased' => Len(ans') > 0 /\ g' = ans'[Len(ans')][2]
    <2>1. Len(ans') > 0
      BY <1>8, <1>15 DEF l
    <2>2. QED
      BY <1>1, <1>15, <2>1
  <1>21. \A p \in DOMAIN stream' : StreamOk(p)'
    BY <1>2, <1>3, <1>4
  <1>22. QED
    BY <1>17, <1>18, <1>19, <1>20, <1>21 DEF StreamsInv

\* The answer that leaves the heap is still an answer.
LEMMA EraseStep ==
    ASSUME Asked, version \in {"v3", "v4"}, StreamsInv, Erase
    PROVE  StreamsInv'
  <1> DEFINE x == ans[Len(ans)]
             H == answerHeap
             T == Taken
             U == H \cup T
  <1>1. /\ UNCHANGED <<input, g, ans, version, stream>> /\ pc = "erase" /\ pc' = "extract"
        /\ answerHeap' = H \ {x}
        /\ heapSize' = IF version = "v4" THEN heapSize - 1 ELSE heapSize
    BY DEF Erase
  <1>2. k' = k /\ people' = people /\ ClosePairs' = ClosePairs /\ UNCHANGED <<input, stream>>
    BY <1>1, SameInput
  <1>3. TestedPairs' = TestedPairs /\ \A p : StreamOk(p)' = StreamOk(p)
    BY <1>2, SameStreams
  <1>4. /\ TakenInv /\ ToCome /\ DOMAIN stream = people /\ \A p \in DOMAIN stream : StreamOk(p)
        /\ g \in Nat
    BY <1>1 DEF StreamsInv
  <1>5. Unerased /\ ~ Moving /\ ~ Unerased' /\ ~ Moving'
    BY <1>1 DEF Unerased, Moving
  <1>6. IsFiniteSet(H) /\ k \in Nat /\ heapSize \in Nat
    BY <1>4, TakenFacts
  <1>7. /\ H \cap T = {x} /\ Leads(ans, ClosePairs) /\ Keeps(U, TestedPairs, k) /\ \A a \in H : a[1] > 0
        /\ heapSize = Cardinality(IF version = "v3" THEN U ELSE H) /\ heapSize <= k /\ Len(ans) <= k
    BY <1>4, <1>5 DEF TakenInv
  <1>8. Taken' = T
    BY <1>1 DEF Taken
  <1> HIDE DEF x, H, T, U
  <1>9. answerHeap' \cup Taken' = U /\ answerHeap' \ Taken' = H \ T /\ answerHeap' \cap Taken' = {}
    <2>1. x \in H /\ x \in T
      BY <1>7
    <2>2. QED
      BY <1>1, <1>7, <1>8, <2>1 DEF U
  <1>10. IsFiniteSet(answerHeap') /\ Cardinality(H \ {x}) = Cardinality(H) - 1 /\ Cardinality(H) \in Nat
    <2>1. x \in H
      BY <1>7
    <2>2. QED
      BY <1>1, <1>6, <2>1, FS_RemoveElement, FS_CardinalityType
  <1>11. TakenInv'
    <2>1. Keeps(answerHeap \cup Taken, TestedPairs, k)'
      <3>1. Keeps(U, TestedPairs', k')
        BY <1>2, <1>3, <1>7
      <3>2. QED
        BY <1>9, <3>1 DEF Keeps, NAhead
    <2>2. Leads(ans, ClosePairs)' /\ Len(ans') <= k'
      BY <1>1, <1>2, <1>7 DEF Leads
    <2>3. heapSize' = Cardinality(IF version' = "v3" THEN answerHeap' \cup Taken' ELSE answerHeap')
      <3>1. CASE version = "v3"
        BY <1>1, <1>7, <1>9, <3>1
      <3>2. CASE version = "v4"
        BY <1>1, <1>7, <1>10, <3>2
      <3>3. QED
        BY <3>1, <3>2
    <2>4. heapSize' <= k'
      BY <1>1, <1>2, <1>6, <1>7
    <2>5. IsFiniteSet(answerHeap)' /\ \A a \in answerHeap' : a[1] > 0
      BY <1>1, <1>7, <1>10
    <2>6. QED
      BY <1>5, <1>9, <2>1, <2>2, <2>3, <2>4, <2>5 DEF TakenInv
  <1>12. ToCome'
    <2>1. \A a \in ClosePairs \ TestedPairs : a[2] \in DOMAIN stream =>
             \/ \E b \in H \ T : b[2] = a[2] /\ Ahead(b, a)
             \/ a[1] = 0
             \/ NAhead(U, a) >= k
      BY <1>4, <1>5 DEF ToCome, H, T, U
    <2>2. stream' = stream
      BY <1>1
    <2>3. QED
      BY <1>2, <1>3, <1>9, <2>1, <2>2 DEF ToCome, NAhead
  <1>13. \A p \in DOMAIN stream' : StreamOk(p)'
    BY <1>1, <1>3, <1>4
  <1>14. QED
    BY <1>1, <1>2, <1>4, <1>5, <1>11, <1>12, <1>13 DEF StreamsInv

\* Nothing of one pair or more is left out when the heap is empty, and what is
\* left is in the order of the persons.
LEMMA FillUpStep ==
    ASSUME Asked, version \in {"v3", "v4"}, StreamsInv, FillUp
    PROVE  FirstOf(ans, ClosePairs, k)'
  <1> DEFINE H == answerHeap
             T == Taken
             C == ClosePairs
             dup == {<<ans[n][2], ans[n][3]>> : n \in DOMAIN ans}
             rest == {<<0, e[1], e[2]>> :
                         e \in {x \in (people \X people) \ dup : x[1] < x[2] /\ Close(x[1], x[2])}}
             l == Len(ans)
             t == Prefix(Sorted(rest, Ahead), k - l)
  <1>1. /\ UNCHANGED input /\ pc = "extract" /\ ans' = ans \o t
        /\ l = k \/ H = {}
    BY DEF FillUp
  <1>2. k' = k /\ ClosePairs' = C
    BY <1>1, SameInput
  <1>3. /\ TakenInv /\ ToCome /\ DOMAIN stream = people /\ ~ Unerased /\ ~ Moving
    BY <1>1 DEF StreamsInv, Unerased, Moving
  <1>4. /\ C \subseteq Triples /\ IsFiniteSet(C) /\ k \in Nat \ {0} /\ IsFiniteSet(T) /\ IsFiniteSet(H \cup T)
        /\ TestedPairs \subseteq C
        /\ Cardinality(T) = l /\ l \in Nat
    BY <1>3, TakenFacts
  <1>5. Leads(ans, C) /\ Keeps(H \cup T, TestedPairs, k) /\ l <= k
    BY <1>3 DEF TakenInv
  <1>6. \A a : a \in C <=> \E p, q \in people : p < q /\ Close(p, q) /\ a = <<Common(p, q), p, q>>
    BY ClosePairsAre
  <1>7. people \subseteq Nat /\ IsFiniteSet(people)
    BY PeopleAre
  <1>8. \A a : a \in rest <=>
           \E p, q \in people : <<p, q>> \notin dup /\ p < q /\ Close(p, q) /\ a = <<0, p, q>>
    <2>1. \A a : a \in rest <=>
             \E e \in people \X people : e \notin dup /\ e[1] < e[2] /\ Close(e[1], e[2]) /\ a = <<0, e[1], e[2]>>
      OBVIOUS
    <2> HIDE DEF rest, dup
    <2>2. ASSUME NEW a, a \in rest
          PROVE  \E p, q \in people : <<p, q>> \notin dup /\ p < q /\ Close(p, q) /\ a = <<0, p, q>>
      <3>1. PICK e \in people \X people :
               e \notin dup /\ e[1] < e[2] /\ Close(e[1], e[2]) /\ a = <<0, e[1], e[2]>>
        BY <2>1, <2>2
      <3>2. e[1] \in people /\ e[2] \in people /\ <<e[1], e[2]>> = e
        OBVIOUS
      <3>3. QED
        BY <3>1, <3>2
    <2>3. ASSUME NEW a, NEW p \in people, NEW q \in people,
                 <<p, q>> \notin dup, p < q, Close(p, q), a = <<0, p, q>>
          PROVE  a \in rest
      <3>1. <<p, q>> \in people \X people /\ <<p, q>>[1] = p /\ <<p, q>>[2] = q
        OBVIOUS
      <3>2. QED
        BY <2>1, <2>3, <3>1
    <2>4. QED
      BY <2>2, <2>3
  <1>9. \A p, q : <<p, q>> \in dup <=> \E a \in T : a[2] = p /\ a[3] = q
    BY DEF Taken
  <1>10. T \subseteq C
    BY <1>4, <1>5, LeadsSize, TakenIs
  <1> HIDE DEF rest, dup, H, T, C
  <1>11. rest \subseteq Triples /\ IsFiniteSet(rest)
    <2>1. rest \subseteq Triples
      <3> SUFFICES ASSUME NEW a \in rest PROVE a \in Triples
        OBVIOUS
      <3>1. PICK p \in people, q \in people : a = <<0, p, q>>
        BY <1>8
      <3>2. QED
        BY <1>7, <3>1 DEF Triples
    <2>2. \A a \in rest : \E p, q \in people : a = <<0, p, q>>
      BY <1>8, Zenon
    <2> DEFINE f == [a \in rest |-> <<a[2], a[3]>>]
    <2>3. IsFiniteSet(people \X people)
      BY <1>7, FS_Product
    <2>4. f \in [rest -> people \X people]
      BY <2>2
    <2>5. \A a, b \in rest : f[a] = f[b] => a = b
      BY <2>2
    <2> HIDE DEF f
    <2>6. f \in Injection(rest, people \X people)
      BY <2>4, <2>5 DEF Injection, IsInjective
    <2>7. QED
      BY <2>1, <2>3, <2>6, FS_Injection
  <1>12. FirstOf(t, C \ T, k - l)
    <2>1. CASE l = k
      <3>1. Sorted(rest, Ahead) \in Seq(rest)
        BY <1>11, SortedIs
      <3>2. k - l \in Nat /\ k - l = 0
        BY <1>4, <2>1
      <3>3. t \in Seq(rest) /\ Len(t) = IF Len(Sorted(rest, Ahead)) < k - l THEN Len(Sorted(rest, Ahead)) ELSE k - l
        BY <3>1, <3>2, PrefixIs
      <3>4. Len(Sorted(rest, Ahead)) \in Nat
        BY <3>1
      <3> HIDE DEF t
      <3>5. Len(t) = 0 /\ t \in Seq(rest)
        BY <3>2, <3>3, <3>4
      <3>6. t = <<>>
        BY <3>5
      <3>7. IsFiniteSet(C \ T) /\ Cardinality(C \ T) \in Nat
        BY <1>4, FS_Subset, FS_CardinalityType
      <3>8. Leads(<<>>, C \ T)
        BY LeadsEmpty
      <3>9. Len(<<>>) = IF Cardinality(C \ T) < k - l THEN Cardinality(C \ T) ELSE k - l
        BY <3>2, <3>7
      <3>10. QED
        BY <3>6, <3>8, <3>9 DEF FirstOf
    <2>2. CASE H = {} /\ l # k
      <3>1. l < k
        BY <1>4, <1>5, <2>2
      <3>2. \A a : ~ (NAhead(T, a) >= k)
        <4> TAKE a
        <4>1. NAhead(T, a) \in Nat /\ NAhead(T, a) <= l
          BY <1>4, NAheadIsNat
        <4>2. QED
          BY <1>4, <3>1, <4>1
      <3>3. H \cup T = T /\ H \ T = {}
        BY <2>2
      <3>4. ASSUME NEW a \in C \ T PROVE a[1] = 0
        <4>1. a[2] \in people
          BY <1>6
        <4>2. CASE a \in TestedPairs
          <5>1. NAhead(H \cup T, a) >= k
            BY <1>5, <3>3, <3>4, <4>2 DEF Keeps
          <5>2. QED
            BY <3>2, <3>3, <5>1
        <4>3. CASE a \notin TestedPairs
          <5>1. \/ \E b \in H \ T : b[2] = a[2] /\ Ahead(b, a)
                \/ a[1] = 0
                \/ NAhead(H \cup T, a) >= k
            BY <1>3, <3>4, <4>1, <4>3 DEF ToCome, H, T, C
          <5>2. QED
            BY <3>2, <3>3, <5>1
        <4>4. QED
          BY <4>2, <4>3
      <3>5. ASSUME NEW a \in rest PROVE a \in C \ T
        <4>1. PICK p \in people, q \in people : <<p, q>> \notin dup /\ p < q /\ Close(p, q) /\ a = <<0, p, q>>
          BY <1>8
        <4> DEFINE b == <<Common(p, q), p, q>>
        <4>2. b \in C /\ b[2] = p /\ b[3] = q /\ b[1] = Common(p, q)
          BY <1>6, <4>1
        <4> HIDE DEF b
        <4>3. b \notin T
          BY <1>9, <4>1, <4>2
        <4>4. Common(p, q) = 0
          BY <3>4, <4>2, <4>3
        <4>5. a = b
          BY <4>1, <4>4 DEF b
        <4>6. QED
          BY <4>2, <4>3, <4>5
      <3>6. ASSUME NEW a \in C \ T PROVE a \in rest
        <4>1. PICK p \in people, q \in people : p < q /\ Close(p, q) /\ a = <<Common(p, q), p, q>>
          BY <1>6
        <4>2. a[1] = Common(p, q) /\ a[2] = p /\ a[3] = q
          BY <4>1
        <4>3. a = <<0, p, q>>
          BY <3>4, <4>1, <4>2
        <4>4. <<p, q>> \notin dup
          <5> SUFFICES ASSUME <<p, q>> \in dup PROVE FALSE
            OBVIOUS
          <5>1. PICK b \in T : b[2] = p /\ b[3] = q
            BY <1>9
          <5>2. b = <<Common(p, q), p, q>>
            <6>1. PICK r \in people, u \in people : b = <<Common(r, u), r, u>>
              BY <1>6, <1>10
            <6>2. r = p /\ u = q
              BY <5>1, <6>1
            <6>3. QED
              BY <6>1, <6>2
          <5>3. QED
            BY <3>6, <4>1, <5>1, <5>2
        <4>5. QED
          BY <1>8, <4>1, <4>3, <4>4
      <3>7. Keeps(rest, C \ T, k - l)
        BY <3>5, <3>6 DEF Keeps
      <3>8. C \ T \in SUBSET Triples /\ IsFiniteSet(C \ T) /\ k - l \in Nat
        BY <1>4, <3>1, FS_Subset
      <3>9. QED
        BY <3>7, <3>8, PrefixIsFirst
    <2>3. QED
      BY <1>1, <2>1, <2>2
  <1> HIDE DEF t, l
  <1>13. FirstOf(ans \o t, C, k)
    <2>1. FirstOf(t, C \ ElementsOf(ans), k - Len(ans)) /\ Len(ans) <= k /\ k \in Nat /\ C \in SUBSET Triples
      BY <1>4, <1>5, <1>12, TakenIs DEF T, l
    <2>2. QED
      BY <1>4, <1>5, <2>1, LeadsRest
  <1>14. FirstOf(ans', ClosePairs', k')
    BY <1>1, <1>2, <1>13
  <1>15. QED
    BY <1>14 DEF FirstOf, Leads

-----------------------------------------------------------------------------
(* Query 3: the invariant holds.                                           *)

\* Every version begins with nothing done.
LEMMA Query3Starts == VersionsInit => Query3Inv
  <1> SUFFICES ASSUME VersionsInit PROVE Query3Inv
    OBVIOUS
  <1>1. /\ Asked /\ version \in {"v2", "v3", "v4", "v5", "force"} /\ stream = <<>> /\ heapSize = 0
        /\ g = 0 /\ answerHeap = {} /\ ans = <<>>
        /\ version = "v5" => pc = "begin"
        /\ version \in {"v3", "v4"} => pc = "fill"
        /\ version \in {"v2", "force"} => pc \in {"search", "sort"}
    BY DEF VersionsInit, Start, Asked
  <1>2. people \subseteq Nat /\ \A p \in people : p # 0 /\ ~ (p <= 0)
    BY <1>1, PeopleAre DEF Persons
  <1>3. k \in Nat /\ k # 0
    BY <1>1, AskedFor
  <1>4. pc # "done"
    BY <1>1
  <1>5. Cardinality({}) = 0 /\ IsFiniteSet({})
    BY FS_EmptySet
  <1>6. ASSUME version = "v5" PROVE PartnersInv
    <2>1. pc = "begin"
      BY <1>1, <1>6
    <2>2. DonePeople = {}
      <3>1. \A p \in people : ~ (p < 0 \/ p = 0)
        BY <1>2
      <3>2. QED
        BY <1>1, <3>1 DEF DonePeople
    <2>3. FavouritesOf(ClosePairs, DonePeople) = {}
      BY <2>2 DEF FavouritesOf
    <2>4. Kept(answerHeap, FavouritesOf(ClosePairs, DonePeople), k)
      BY <1>1, <1>3, <1>5, <2>3 DEF Kept, Keeps
    <2>5. QED
      BY <1>1, <2>1, <2>4 DEF PartnersInv
  <1>7. ASSUME version \in {"v2", "force"} PROVE FromAllInv
    <2>1. SearchedPairs = {}
      BY <1>1 DEF SearchedPairs
    <2>2. Keeps(answerHeap, SearchedPairs, k) /\ IsFiniteSet(answerHeap)
      BY <1>1, <1>5, <2>1 DEF Keeps
    <2>3. g \in 0 .. Cardinality(people)
      BY <1>1, PeopleAre, FS_CardinalityType
    <2>4. QED
      BY <1>1, <1>7, <2>2, <2>3 DEF FromAllInv
  <1>8. ASSUME version \in {"v3", "v4"} PROVE StreamsInv
    <2>1. pc = "fill" /\ DOMAIN stream = {} /\ Taken = {} /\ Len(ans) = 0
      BY <1>1, <1>8 DEF Taken
    <2>2. DOMAIN stream = {p \in people : p <= g}
      BY <1>1, <1>2, <2>1
    <2>3. ~ Unerased /\ ~ Moving
      BY <2>1 DEF Unerased, Moving
    <2>4. TestedPairs = {}
      BY <2>1 DEF TestedPairs
    <2>5. Leads(ans, ClosePairs)
      BY <1>1, LeadsEmpty
    <2>6. answerHeap \cup Taken = {} /\ answerHeap = {}
      BY <1>1, <2>1
    <2>7. TakenInv
      BY <1>1, <1>3, <1>5, <2>1, <2>3, <2>4, <2>5, <2>6 DEF TakenInv, Keeps
    <2>8. ToCome
      BY <2>1 DEF ToCome
    <2>9. QED
      BY <1>1, <2>1, <2>2, <2>3, <2>7, <2>8 DEF StreamsInv
  <1>9. QED
    BY <1>1, <1>4, <1>6, <1>7, <1>8 DEF Query3Inv

\* Only one version's actions are enabled at each value of pc.
LEMMA VersionByPc ==
    ASSUME Query3Inv
    PROVE  /\ pc \in {"begin", "tags"} => version = "v5" /\ PartnersInv
           /\ pc \in {"search", "sort"} => version \in {"v2", "force"} /\ FromAllInv
           /\ pc \in {"fill", "move", "extract", "move again", "erase"} => version \in {"v3", "v4"} /\ StreamsInv
  <1>1. /\ version \in {"v2", "v3", "v4", "v5", "force"}
        /\ pc # "done" /\ version = "v5" => PartnersInv
        /\ pc # "done" /\ version \in {"v2", "force"} => FromAllInv
        /\ pc # "done" /\ version \in {"v3", "v4"} => StreamsInv
    BY DEF Query3Inv
  <1>2. /\ PartnersInv => pc \in {"begin", "tags"}
        /\ FromAllInv => pc \in {"search", "sort"}
        /\ StreamsInv => pc \in {"fill", "move", "extract", "move again", "erase"}
    BY DEF PartnersInv, FromAllInv, StreamsInv
  <1>3. QED
    BY <1>1, <1>2

\* A step that changes nothing.
LEMMA Query3Stutters ==
    ASSUME Query3Inv, UNCHANGED versionVars
    PROVE  Query3Inv'
  <1>1. /\ UNCHANGED input /\ g' = g /\ i' = i /\ pool' = pool /\ forsake' = forsake
        /\ answerHeap' = answerHeap /\ pc' = pc /\ ans' = ans
        /\ UNCHANGED streams /\ version' = version
    BY DEF versionVars, vars, streams
  <1>2. /\ Asked' = Asked /\ tags' = tags /\ k' = k /\ people' = people /\ pset' = pset
        /\ ClosePairs' = ClosePairs
        /\ \A p, q : Common(p, q)' = Common(p, q) /\ Close(p, q)' = Close(p, q)
        /\ \A p, n : Seen(p, n)' = Seen(p, n)
    BY <1>1, SameInput
  <1>3. DonePeople' = DonePeople /\ curLen' = curLen /\ SearchedPairs' = SearchedPairs
    BY <1>1, <1>2 DEF DonePeople, curLen, SearchedPairs
  <1>4. (Unerased' <=> Unerased) /\ (Moving' <=> Moving)
    BY <1>1 DEF Unerased, Moving
  <1>5. PartnersInv => PartnersInv'
    <2> SUFFICES ASSUME PartnersInv PROVE PartnersInv'
      OBVIOUS
    <2>1. Kept(answerHeap, FavouritesOf(ClosePairs, DonePeople), k)'
      BY <1>1, <1>2, <1>3 DEF PartnersInv
    <2>2. Tagging => Tagging'
      BY <1>1, <1>2, <1>3 DEF Tagging, Seen, Common, Close, bfs3, h, invList, people, input
    <2>3. QED
      BY <1>1, <2>1, <2>2 DEF PartnersInv
  <1>6. FromAllInv => FromAllInv'
    BY <1>1, <1>2, <1>3 DEF FromAllInv, Keeps, NAhead
  <1>7. StreamsInv => StreamsInv'
    <2> SUFFICES ASSUME StreamsInv PROVE StreamsInv'
      OBVIOUS
    <2>1. TakenInv /\ \A p \in DOMAIN stream : StreamOk(p)
      BY DEF StreamsInv
    <2>2. UNCHANGED <<input, answerHeap, ans, streams>> /\ (Unerased' <=> Unerased)
      BY <1>1, <1>4
    <2>3. /\ TakenInv' /\ \A p \in DOMAIN stream' : StreamOk(p)'
          /\ TestedPairs' = TestedPairs /\ Taken' = Taken
      BY <2>1, <2>2, SameTaken
    <2>4. stream' = stream
      BY <1>1 DEF streams
    <2>5. ToCome'
      <3>1. ToCome
        BY DEF StreamsInv
      <3>2. QED
        BY <1>1, <1>2, <1>4, <2>3, <2>4, <3>1 DEF ToCome, NAhead
    <2>6. QED
      BY <1>1, <1>2, <1>4, <2>3, <2>4, <2>5 DEF StreamsInv
  <1>8. FirstOf(ans, ClosePairs, k) => FirstOf(ans, ClosePairs, k)'
    BY <1>1, <1>2 DEF FirstOf, Leads
  <1>9. QED
    BY <1>1, <1>2, <1>5, <1>6, <1>7, <1>8 DEF Query3Inv

\* Every step of every version keeps the invariant.
LEMMA Query3Steps ==
    ASSUME Query3Inv, [VersionsNext]_versionVars
    PROVE  Query3Inv'
  <1> DEFINE Goes == /\ UNCHANGED <<input, version>>
                     /\ \/ pc' = "done" /\ FirstOf(ans, ClosePairs, k)'
                        \/ pc' # "done" /\ version = "v5" /\ PartnersInv'
                        \/ pc' # "done" /\ version \in {"v2", "force"} /\ FromAllInv'
                        \/ pc' # "done" /\ version \in {"v3", "v4"} /\ StreamsInv'
  <1>1. /\ pc \in {"begin", "tags"} => version = "v5" /\ PartnersInv
        /\ pc \in {"search", "sort"} => version \in {"v2", "force"} /\ FromAllInv
        /\ pc \in {"fill", "move", "extract", "move again", "erase"} => version \in {"v3", "v4"} /\ StreamsInv
    BY VersionByPc
  <1>2. Asked /\ version \in {"v2", "v3", "v4", "v5", "force"}
    BY DEF Query3Inv
  <1>3. /\ PartnersInv' => pc' # "done"
        /\ FromAllInv' => pc' # "done"
        /\ StreamsInv' => pc' # "done"
    BY DEF PartnersInv, FromAllInv, StreamsInv
  <1>4. ASSUME NEW p \in Persons, Begin(p), UNCHANGED streams PROVE Goes
    <2>1. pc = "begin" /\ UNCHANGED input /\ version' = version
      BY <1>4 DEF Begin, streams
    <2>2. PartnersInv'
      BY <1>1, <1>2, <1>4, <2>1, BeginPerson
    <2>3. QED
      BY <1>1, <1>3, <2>1, <2>2
  <1>5. ASSUME Prune, UNCHANGED streams PROVE Goes
    <2>1. pc = "tags" /\ UNCHANGED input /\ version' = version
      BY <1>5 DEF Prune, streams
    <2>2. PartnersInv'
      BY <1>1, <1>2, <1>5, <2>1, PruneStep
    <2>3. QED
      BY <1>1, <1>3, <2>1, <2>2
  <1>6. ASSUME TryTag, UNCHANGED streams PROVE Goes
    <2>1. pc = "tags" /\ UNCHANGED input /\ version' = version
      BY <1>6 DEF TryTag, streams
    <2>2. PartnersInv'
      BY <1>1, <1>2, <1>6, <2>1, TryTagStep
    <2>3. QED
      BY <1>1, <1>3, <2>1, <2>2
  <1>7. ASSUME TryAnybody, UNCHANGED streams PROVE Goes
    <2>1. pc = "tags" /\ UNCHANGED input /\ version' = version
      BY <1>7 DEF TryAnybody, streams
    <2>2. PartnersInv'
      BY <1>1, <1>2, <1>7, <2>1, TryAnybodyStep
    <2>3. QED
      BY <1>1, <1>3, <2>1, <2>2
  <1>8. ASSUME Pairs, UNCHANGED streams PROVE Goes
    <2>1. pc = "begin" /\ UNCHANGED input /\ version' = version /\ pc' = "done"
      BY <1>8 DEF Pairs, streams
    <2>2. FirstOf(ans, ClosePairs, k)'
      BY <1>1, <1>2, <1>8, <2>1, PairsStep
    <2>3. QED
      BY <2>1, <2>2
  <1>9. ASSUME NEW p \in Persons, Fill(p) PROVE Goes
    <2>1. pc = "fill" /\ UNCHANGED input /\ version' = version
      BY <1>9 DEF Fill
    <2>2. StreamsInv'
      BY <1>1, <1>2, <1>9, <2>1, FillStep
    <2>3. QED
      BY <1>1, <1>3, <2>1, <2>2
  <1>10. ASSUME FillEnds PROVE Goes
    <2>1. pc = "fill" /\ UNCHANGED input /\ version' = version
      BY <1>10 DEF FillEnds, streams
    <2>2. StreamsInv'
      BY <1>1, <1>2, <1>10, <2>1, FillEndsStep
    <2>3. QED
      BY <1>1, <1>3, <2>1, <2>2
  <1>11. ASSUME MoveEnds PROVE Goes
    <2>1. pc \in {"move", "move again"} /\ UNCHANGED input /\ version' = version
      BY <1>11 DEF MoveEnds, Moving, streams
    <2>2. StreamsInv'
      BY <1>1, <1>2, <1>11, <2>1, MoveEndsStep
    <2>3. QED
      BY <1>1, <1>3, <2>1, <2>2
  <1>12. ASSUME MoveTag PROVE Goes
    <2>1. pc \in {"move", "move again"} /\ UNCHANGED input /\ version' = version
      BY <1>12 DEF MoveTag, Moving
    <2>2. StreamsInv'
      BY <1>1, <1>2, <1>12, <2>1, MoveTagStep
    <2>3. QED
      BY <1>1, <1>3, <2>1, <2>2
  <1>13. ASSUME Extract PROVE Goes
    <2>1. pc = "extract" /\ UNCHANGED input /\ version' = version
      BY <1>13 DEF Extract, streams
    <2>2. StreamsInv'
      BY <1>1, <1>2, <1>13, <2>1, ExtractStep
    <2>3. QED
      BY <1>1, <1>3, <2>1, <2>2
  <1>14. ASSUME Erase PROVE Goes
    <2>1. pc = "erase" /\ UNCHANGED input /\ version' = version
      BY <1>14 DEF Erase
    <2>2. StreamsInv'
      BY <1>1, <1>2, <1>14, <2>1, EraseStep
    <2>3. QED
      BY <1>1, <1>3, <2>1, <2>2
  <1>15. ASSUME FillUp PROVE Goes
    <2>1. pc = "extract" /\ UNCHANGED input /\ version' = version /\ pc' = "done"
      BY <1>15 DEF FillUp, streams
    <2>2. FirstOf(ans, ClosePairs, k)'
      BY <1>1, <1>2, <1>15, <2>1, FillUpStep
    <2>3. QED
      BY <2>1, <2>2
  <1>16. ASSUME SearchFrom PROVE Goes
    <2>1. pc = "search" /\ UNCHANGED input /\ version' = version
      BY <1>16 DEF SearchFrom, streams
    <2>2. FromAllInv'
      BY <1>1, <1>2, <1>16, <2>1, SearchFromStep
    <2>3. QED
      BY <1>1, <1>3, <2>1, <2>2
  <1>17. ASSUME SearchEnds PROVE Goes
    <2>1. pc = "search" /\ UNCHANGED input /\ version' = version /\ pc' = "done"
      BY <1>17 DEF SearchEnds, streams
    <2>2. FirstOf(ans, ClosePairs, k)'
      BY <1>1, <1>2, <1>17, <2>1, SearchEndsStep
    <2>3. QED
      BY <2>1, <2>2
  <1>18. ASSUME SortPairs PROVE Goes
    <2>1. UNCHANGED input /\ version' = version /\ pc' = "done"
      BY <1>18 DEF SortPairs, streams
    <2>2. FirstOf(ans, ClosePairs, k)'
      BY <1>2, <1>18, SortPairsStep
    <2>3. QED
      BY <2>1, <2>2
  <1>19. Goes => Query3Inv'
    <2> SUFFICES ASSUME Goes PROVE Query3Inv'
      OBVIOUS
    <2>1. Asked' /\ version' = version
      <3>1. UNCHANGED input /\ version' = version
        OBVIOUS
      <3>2. QED
        BY <1>2, <3>1, SameInput
    <2>2. /\ pc' # "done" /\ version' = "v5" => PartnersInv'
          /\ pc' # "done" /\ version' \in {"v2", "force"} => FromAllInv'
          /\ pc' # "done" /\ version' \in {"v3", "v4"} => StreamsInv'
          /\ pc' = "done" => FirstOf(ans, ClosePairs, k)'
      BY <2>1
    <2>3. QED
      BY <1>2, <2>1, <2>2 DEF Query3Inv
  <1> HIDE DEF Goes
  <1>20. CASE UNCHANGED versionVars
    BY <1>20, Query3Stutters
  <1>21. CASE VersionsNext
    <2>1. CASE Next /\ UNCHANGED streams
      BY <1>4, <1>5, <1>6, <1>7, <1>8, <1>19, <2>1 DEF Next
    <2>2. CASE \E p \in Persons : Fill(p)
      BY <1>9, <1>19, <2>2
    <2>3. QED
      BY <1>10, <1>11, <1>12, <1>13, <1>14, <1>15, <1>16, <1>17, <1>18, <1>19, <1>21, <2>1, <2>2
         DEF VersionsNext
  <1>22. QED
    BY <1>20, <1>21

\* Query3Inv holds throughout: in version 5 the heap has the k first of the
\* favourites of those who are done; in versions 3 and 4 what was tried and is
\* not there has k better pairs, and what a person has to come is behind a pair
\* of that person in the heap; in version 2 and query3_force.cc the heap leaves
\* out only what has k better ones.
THEOREM Query3Right == Spec => []Query3Inv
  <1>1. VersionsInit => Query3Inv
    BY Query3Starts
  <1>2. Query3Inv /\ [VersionsNext]_versionVars => Query3Inv'
    BY Query3Steps
  <1>3. QED
    BY <1>1, <1>2, PTL DEF Spec

\* The k first.
LEMMA FirstIsBest ==
    ASSUME Query3Inv
    PROVE  AnswerIsBest
  <1> SUFFICES ASSUME pc = "done"
               PROVE  /\ {ans[n] : n \in DOMAIN ans} \subseteq ClosePairs
                      /\ Len(ans) = IF Cardinality(ClosePairs) < k THEN Cardinality(ClosePairs) ELSE k
                      /\ \A n \in DOMAIN ans : \A a \in ClosePairs \ {ans[m] : m \in 1 .. n} : Ahead(ans[n], a)
    BY DEF AnswerIsBest
  <1>1. FirstOf(ans, ClosePairs, k)
    BY DEF Query3Inv
  <1>2. ans \in Seq(ClosePairs)
    BY <1>1 DEF FirstOf, Leads
  <1>3. {ans[n] : n \in DOMAIN ans} \subseteq ClosePairs
    BY <1>2
  <1>4. QED
    BY <1>1, <1>3 DEF FirstOf, Leads

\* Query 3 is answered right: whichever version answers it, the answer is the k
\* first of all pairs of the place that are close, or all of them (query3_version5.cc
\* and the versions before it), for every network, all interests, places and
\* questions.
THEOREM Query3Answered == Spec => []AnswerIsBest
  <1>1. Query3Inv => AnswerIsBest
    BY FirstIsBest
  <1>2. QED
    BY <1>1, Query3Right, PTL

\* What is given one by one is in order.
LEMMA LeadsInOrder ==
    ASSUME NEW C, NEW s, Leads(s, C), NEW n \in 1 .. Len(s) - 1
    PROVE  Ahead(s[n], s[n + 1])
  <1>1. s \in Seq(C) /\ Len(s) \in Nat /\ DOMAIN s = 1 .. Len(s)
    BY DEF Leads
  <1>2. n \in DOMAIN s /\ n + 1 \in DOMAIN s /\ \A m \in 1 .. n : m \in DOMAIN s /\ m < n + 1
    BY <1>1
  <1>3. s[n + 1] \in C
    BY <1>1, <1>2
  <1>4. s[n + 1] \notin {s[m] : m \in 1 .. n}
    BY <1>2 DEF Leads
  <1>5. QED
    BY <1>2, <1>3, <1>4 DEF Leads

\* The heap of version 5 between two persons.
LEMMA HeapIsKept ==
    ASSUME Query3Inv
    PROVE  HeapIsBest
  <1> SUFFICES ASSUME pc = "begin" PROVE HeapIsBest
    BY DEF HeapIsBest
  <1> DEFINE F == FavouritesOf(ClosePairs, {q \in people : q <= g})
             H == answerHeap
  <1>1. PartnersInv /\ Asked /\ people \subseteq Nat /\ g \in Nat /\ k \in Nat
    BY VersionByPc, PeopleAre, AskedFor DEF Query3Inv, PartnersInv
  <1>2. DonePeople = {q \in people : q <= g}
    <2>1. \A q \in people : q <= g <=> q < g \/ q = g
      BY <1>1
    <2>2. QED
      BY <2>1 DEF DonePeople
  <1>3. Kept(H, F, k)
    BY <1>1, <1>2 DEF PartnersInv
  <1>4. F = UNION {{a \in {b \in ClosePairs : p \in {b[2], b[3]}} :
                       \A b \in {b \in ClosePairs : p \in {b[2], b[3]}} \ {a} : Ahead(a, b)} :
                      p \in {q \in people : q <= g}}
    BY DEF FavouritesOf
  <1> HIDE DEF F, H
  <1>5. ASSUME NEW a \in F \ H PROVE Cardinality(H) = k /\ \A b \in H : Ahead(b, a)
    <2>1. IsFiniteSet(H) /\ Cardinality(H) <= k /\ NAhead(H, a) >= k
      BY <1>3 DEF Kept, Keeps
    <2>2. Cardinality(H) \in Nat /\ NAhead(H, a) \in Nat /\ NAhead(H, a) <= Cardinality(H)
      BY <2>1, FS_CardinalityType, NAheadIsNat
    <2>3. Cardinality(H) = k /\ NAhead(H, a) = Cardinality(H)
      BY <1>1, <2>1, <2>2
    <2>4. {b \in H : Ahead(b, a)} = H
      <3>1. {b \in H : Ahead(b, a)} \subseteq H
        OBVIOUS
      <3>2. QED
        BY <2>1, <2>3, <3>1, FS_Subset DEF NAhead
    <2>5. QED
      BY <2>3, <2>4
  <1>6. H \subseteq F /\ Cardinality(H) <= k
    BY <1>3 DEF Kept, Keeps
  <1>7. QED
    BY <1>4, <1>5, <1>6 DEF HeapIsBest, H

\* The heaps of query 3 are right: in version 5 it has the k first of the pairs
\* that the persons so far put first (query3_version5.cc:280); in versions 3 and
\* 4 the answers come in order, and the answer to be erased through the iterator
\* taken before moveOneStep is still in the heap (query3_version3.cc:333).
THEOREM HeapsRight == Spec => []HeapRight
  <1>1. Query3Inv => HeapRight
    <2> SUFFICES ASSUME Query3Inv PROVE HeapRight
      OBVIOUS
    <2>1. HeapIsBest
      BY HeapIsKept
    <2>2. ASSUME pc = "erase" PROVE ans[Len(ans)] \in answerHeap
      <3>1. StreamsInv /\ Unerased
        BY <2>2, VersionByPc DEF Unerased
      <3>2. answerHeap \cap Taken = {ans[Len(ans)]}
        BY <3>1 DEF StreamsInv, TakenInv
      <3>3. QED
        BY <3>2
    <2>3. ASSUME version \in {"v3", "v4"} PROVE Leads(ans, ClosePairs)
      <3>1. CASE pc = "done"
        BY <3>1 DEF Query3Inv, FirstOf
      <3>2. CASE pc # "done"
        BY <2>3, <3>2 DEF Query3Inv, StreamsInv, TakenInv
      <3>3. QED
        BY <3>1, <3>2
    <2>4. QED
      BY <2>1, <2>2, <2>3, LeadsInOrder DEF HeapRight
  <1>2. QED
    BY <1>1, Query3Right, PTL
=============================================================================

---------------------------- MODULE ReaderProofs ----------------------------
(***************************************************************************)
(* Proofs about the readers.                                               *)
(*                                                                         *)
(* CommentReaders, for any network of friends and any files: the three     *)
(* readers of comments end with the same numbers, the right ones.  The     *)
(* invariant says what count is while read_comments_tim merges it, and     *)
(* what the map and the window of owners are after each row of the other   *)
(* two.                                                                    *)
(*                                                                         *)
(* DataReader, for any files: the bitmaps of query 4 have the right        *)
(* members, in whatever order the rows of tags and members come; so have   *)
(* the interests of persons, both ways, and the sorted persons of places.  *)
(* The invariants say of each structure what the rows read so far have     *)
(* put into it.                                                            *)
(***************************************************************************)
EXTENDS CommentReaders, DataReader, Counting, TLAPS

-----------------------------------------------------------------------------
(* CommentReaders: the invariant.                                          *)

\* The comments that row r of the second file joins, as persons.
PairOfRow(r) == <<creator[replies[r][1]], creator[replies[r][2]]>>

\* The rows read so far that are p.
RowsSoFar(p) == {r \in 1 .. row : PairOfRow(r) = p}

Kept == [p \in Pairs |-> IF p[1] # p[2] /\ p \in friends THEN rows[p] ELSE 0]

\* What the variables are.
CommentTypes ==
    /\ rows \in [Pairs -> Nat]
    /\ friends \in Networks
    /\ toVisit \subseteq friends
    /\ ncmts = [p \in friends |-> ncmts[p]]
    /\ comments \in [Pairs -> Nat]
    /\ index \in Nat
    /\ Len(count) \in Nat
    /\ reader \in {"tim", "map", "2file"}

\* The vector count while it is merged: the pairs counted, in order.
CountMade ==
    /\ Len(count) > 0
    /\ \A m \in 0 .. Len(count) - 1 :
          /\ At(m).first \in Counted
          /\ At(m).second = comments[At(m).first]
    /\ \A p \in Counted : \E m \in 0 .. Len(count) - 1 : At(m).first = p
    /\ \A m, n \in 0 .. Len(count) - 1 : m < n => Less(At(m).first, At(n).first)

\* read_comments_tim: what its steps have made.
TimInv ==
    reader = "tim" =>
       /\ pc \in {"filter", "aggregate", "merge", "done", "crashed"}
       /\ pc \in {"aggregate", "merge"} => comments = Kept
       /\ pc \in {"filter", "aggregate"} => count = <<>>
       /\ pc = "merge" => CountMade

\* The other two: each comment that replies comes once, in the order of the first
\* file, and comment_map counts the rows read.
FilesRight ==
    /\ creator \in [Comments -> Persons]
    /\ Len(replies) \in Nat
    /\ \A n \in 1 .. Len(replies) :
          /\ replies[n][1] \in Comments /\ replies[n][2] \in Comments
          /\ replies[n][2] < replies[n][1]
          /\ reader = "2file" => cid(replies[n][1]) - cid(replies[n][2]) < CacheLen
    /\ \A m, n \in 1 .. Len(replies) : m < n => replies[m][1] < replies[n][1]
    /\ rows = [p \in Pairs |-> RowsOf(p)]

\* owner of read_comments_2file: of each slot the last comment read that has it.
Window ==
    /\ owner = [s \in 0 .. CacheLen - 1 |-> owner[s]]
    /\ read \in Nat
    /\ row < Len(replies) => read <= replies[row + 1][1]
    /\ \A d \in 0 .. read - 1 :
          (\A e \in d + 1 .. read - 1 : Slot(e) # Slot(d)) => owner[Slot(d)] = creator[d]

MapInv ==
    reader # "tim" =>
       /\ FilesRight
       /\ pc \in {"owners", "replies", "done"}
       /\ count = <<>>
       /\ row \in 0 .. Len(replies)
       /\ pc = "owners" => reader = "map" /\ row = 0
       /\ comment_map \in [Pairs -> Nat]
       /\ \A p \in Pairs : p[1] # p[2] => comment_map[p] = Cardinality(RowsSoFar(p))
       /\ reader = "map" /\ pc = "replies" => owner = creator
       /\ reader = "2file" => Window

\* Nothing is visited before the merge.
Untouched == pc \in {"filter", "aggregate", "owners", "replies"} => index = 0 /\ toVisit = friends

CommentInv == CommentTypes /\ TimInv /\ MapInv /\ Untouched /\ MergeInv /\ CountsRight

-----------------------------------------------------------------------------
(* The order of pairs, and the search in count.                            *)

\* Less is an order of pairs.
LEMMA LessOrders ==
    /\ \A p \in Pairs : ~ Less(p, p) /\ p[1] \in Persons /\ p[2] \in Persons /\ p = <<p[1], p[2]>>
    /\ \A p, q \in Pairs : p # q => Less(p, q) \/ Less(q, p)
    /\ \A p, q, r \in Pairs : Less(p, q) /\ Less(q, r) => Less(p, r)
    /\ \A p, q \in Pairs : ~ (Less(p, q) /\ Less(q, p))
  <1>1. Persons \subseteq Int
    BY DEF Persons
  <1>2. \A p \in Pairs : p[1] \in Persons /\ p[2] \in Persons /\ p = <<p[1], p[2]>>
    BY DEF Pairs
  <1>3. \A p \in Pairs : p[1] \in Int /\ p[2] \in Int
    BY <1>1, <1>2
  <1>4. QED
    BY <1>2, <1>3 DEF Less

\* There are finitely many pairs, so that each set of them has a first one.
LEMMA PairsFinite ==
    ASSUME NEW S \in SUBSET Pairs
    PROVE  /\ IsFiniteSet(S)
           /\ Orders({e \in Pairs \X Pairs : Less(e[1], e[2])}, S)
           /\ S # {} => \E p \in S : \A q \in S \ {p} : Less(p, q)
  <1> DEFINE R == {e \in Pairs \X Pairs : Less(e[1], e[2])}
  <1>1. IsFiniteSet(S)
    <2>1. NPerson \in Int /\ 1 \in Int
      BY CommentAssumption
    <2>2. IsFiniteSet(Persons)
      BY <2>1, FS_Interval DEF Persons
    <2>3. IsFiniteSet(Pairs)
      BY <2>2, FS_Product DEF Pairs
    <2>4. QED
      BY <2>3, FS_Subset
  <1>2. \A p, q \in Pairs : <<p, q>> \in R <=> Less(p, q)
    OBVIOUS
  <1> HIDE DEF R
  <1>3. Orders(R, S)
    BY <1>2, LessOrders DEF Orders
  <1>4. S # {} => \E p \in S : \A q \in S \ {p} : <<p, q>> \in R
    BY <1>1, <1>3, FirstAndLast
  <1>5. QED
    BY <1>1, <1>2, <1>3, <1>4 DEF R

\* The binary search, when count is in order: it is where the last element not
\* above the pivot is, if there is one, and at the left end otherwise.
LEMMA SearchFinds ==
    ASSUME Len(count) \in Nat, NEW pivot \in Pairs,
           \A m \in 0 .. Len(count) - 1 : At(m).first \in Pairs,
           \A m, n \in 0 .. Len(count) - 1 : m < n => Less(At(m).first, At(n).first),
           NEW search,
           search = [s \in Stretches |->
              LET mid == (s[1] + s[2]) \div 2
              IN IF s[1] + 1 < s[2]
                 THEN IF ~ Less(pivot, At(mid).first) THEN search[<<mid, s[2]>>] ELSE search[<<s[1], mid>>]
                 ELSE s[1]],
           NEW s \in Stretches
    PROVE  /\ s[1] < s[2] => search[s] \in s[1] .. s[2] - 1
           /\ \A m \in s[1] .. s[2] - 1 : At(m).first = pivot => search[s] = m
  <1> DEFINE Right(b) ==
        /\ b[1] < b[2] => search[b] \in b[1] .. b[2] - 1
        /\ \A m \in b[1] .. b[2] - 1 : At(m).first = pivot => search[b] = m
  <1> DEFINE wrong == {n \in Nat : \E b \in Stretches : ~ Right(b) /\ b[1] < b[2] /\ n = b[2] - b[1]}
  <1>1. \A b \in Stretches : /\ b[1] \in 0 .. Len(count) /\ b[2] \in 0 .. Len(count)
                             /\ b[1] \in Nat /\ b[2] \in Nat
    BY DEF Stretches
  <1>2. \A b \in Stretches : ~ (b[1] < b[2]) => Right(b)
    BY <1>1
  <1>3. ASSUME NEW b \in Stretches, b[1] < b[2], b[1] + 1 >= b[2]
        PROVE  Right(b)
    <2>1. search[b] = b[1]
      BY <1>1, <1>3
    <2>2. b[2] = b[1] + 1 /\ b[1] \in Nat
      BY <1>1, <1>3
    <2>3. QED
      BY <2>1, <2>2
  <1>4. ASSUME NEW b \in Stretches, b[1] + 1 < b[2], ~ Right(b)
        PROVE  \E c \in Stretches : ~ Right(c) /\ c[1] < c[2] /\ c[2] - c[1] < b[2] - b[1]
    <2> DEFINE mid == (b[1] + b[2]) \div 2
               l == b[1]
               r == b[2]
    <2>1. /\ l \in Nat /\ r \in Nat /\ r <= Len(count) /\ l < mid /\ mid < r /\ mid \in Nat
          /\ mid \in 0 .. Len(count) - 1
      BY <1>1, <1>4
    <2>2. search[b] = IF ~ Less(pivot, At(mid).first) THEN search[<<mid, r>>] ELSE search[<<l, mid>>]
      BY <1>4
    <2> HIDE DEF mid
    <2>3. At(mid).first \in Pairs
      BY <2>1
    <2>4. <<mid, r>> \in Stretches /\ <<l, mid>> \in Stretches
      BY <1>1, <2>1 DEF Stretches
    <2>5. CASE Less(pivot, At(mid).first)
      <3> DEFINE c == <<l, mid>>
      <3>1. search[b] = search[c] /\ c[1] = l /\ c[2] = mid
        BY <2>2, <2>5
      <3> HIDE DEF c
      <3>2. \A m \in mid .. r - 1 : At(m).first # pivot
        <4>1. SUFFICES ASSUME NEW m \in mid .. r - 1, At(m).first = pivot PROVE FALSE
          OBVIOUS
        <4>2. m \in 0 .. Len(count) - 1 /\ (m = mid \/ mid < m)
          BY <2>1
        <4>3. m = mid \/ Less(At(mid).first, pivot)
          BY <2>1, <4>1, <4>2
        <4>4. QED
          BY <2>3, <2>5, <4>1, <4>3, LessOrders
      <3>3. \A m \in l .. r - 1 : m \in l .. mid - 1 \/ m \in mid .. r - 1
        BY <2>1
      <3>4. Right(c) => Right(b)
        <4>1. ASSUME Right(c) PROVE search[b] \in l .. r - 1
          <5>1. search[c] \in l .. mid - 1
            BY <2>1, <3>1, <4>1
          <5>2. QED
            BY <2>1, <3>1, <5>1
        <4>2. ASSUME Right(c), NEW m \in l .. r - 1, At(m).first = pivot PROVE search[b] = m
          BY <3>1, <3>2, <3>3, <4>2
        <4>3. QED
          BY <4>1, <4>2
      <3>5. mid - l < r - l
        BY <2>1
      <3>6. c \in Stretches
        BY <2>4 DEF c
      <3>7. QED
        BY <1>4, <2>1, <3>1, <3>4, <3>5, <3>6
    <2>6. CASE ~ Less(pivot, At(mid).first)
      <3> DEFINE c == <<mid, r>>
      <3>1. search[b] = search[c] /\ c[1] = mid /\ c[2] = r
        BY <2>2, <2>6
      <3> HIDE DEF c
      <3>2. \A m \in l .. mid - 1 : At(m).first # pivot
        <4>1. SUFFICES ASSUME NEW m \in l .. mid - 1, At(m).first = pivot PROVE FALSE
          OBVIOUS
        <4>2. m \in 0 .. Len(count) - 1 /\ m < mid
          BY <2>1
        <4>3. Less(pivot, At(mid).first)
          BY <2>1, <4>1, <4>2
        <4>4. QED
          BY <2>6, <4>3
      <3>3. \A m \in l .. r - 1 : m \in l .. mid - 1 \/ m \in mid .. r - 1
        BY <2>1
      <3>4. Right(c) => Right(b)
        <4>1. ASSUME Right(c) PROVE search[b] \in l .. r - 1
          <5>1. search[c] \in mid .. r - 1
            BY <2>1, <3>1, <4>1
          <5>2. QED
            BY <2>1, <3>1, <5>1
        <4>2. ASSUME Right(c), NEW m \in l .. r - 1, At(m).first = pivot PROVE search[b] = m
          BY <3>1, <3>2, <3>3, <4>2
        <4>3. QED
          BY <4>1, <4>2
      <3>5. r - mid < r - l
        BY <2>1
      <3>6. c \in Stretches
        BY <2>4 DEF c
      <3>7. QED
        BY <1>4, <2>1, <3>1, <3>4, <3>5, <3>6
    <2>7. QED
      BY <2>5, <2>6
  <1> HIDE DEF Right
  <1>5. wrong = {}
    <2>1. SUFFICES ASSUME wrong # {} PROVE FALSE
      OBVIOUS
    <2>2. wrong \in SUBSET Nat
      OBVIOUS
    <2>3. PICK n \in wrong : \A m \in wrong : n <= m
      <3> HIDE DEF wrong
      <3>1. QED
        BY <2>1, <2>2, LeastNumber
    <2>4. PICK b \in Stretches : ~ Right(b) /\ b[1] < b[2] /\ n = b[2] - b[1]
      BY <2>3
    <2>5. b[1] + 1 < b[2]
      BY <1>1, <1>3, <2>4
    <2>6. PICK c \in Stretches : ~ Right(c) /\ c[1] < c[2] /\ c[2] - c[1] < b[2] - b[1]
      BY <1>4, <2>4, <2>5
    <2>7. c[2] - c[1] \in Nat /\ b[2] - b[1] \in Nat
      BY <1>1, <2>4, <2>6
    <2>8. c[2] - c[1] \in wrong
      BY <2>6, <2>7
    <2>9. QED
      BY <2>3, <2>4, <2>6, <2>7, <2>8
  <1>6. Right(s)
    <2>1. CASE s[1] < s[2]
      <3>1. s[2] - s[1] \in Nat
        BY <1>1, <2>1
      <3>2. QED
        BY <1>5, <2>1, <3>1
    <2>2. QED
      BY <1>2, <2>1
  <1>7. QED
    BY <1>6 DEF Right

\* There is such a search: in order means that the elements not above the pivot
\* are the first K, and the halving comes to the last of them.
LEMMA SearchExists ==
    ASSUME Len(count) \in Nat, NEW pivot \in Pairs,
           \A m \in 0 .. Len(count) - 1 : At(m).first \in Pairs,
           \A m, n \in 0 .. Len(count) - 1 : m < n => Less(At(m).first, At(n).first)
    PROVE  \E search : search = [s \in Stretches |->
              LET mid == (s[1] + s[2]) \div 2
              IN IF s[1] + 1 < s[2]
                 THEN IF ~ Less(pivot, At(mid).first) THEN search[<<mid, s[2]>>] ELSE search[<<s[1], mid>>]
                 ELSE s[1]]
  <1> DEFINE L == Len(count)
             above == {k \in 0 .. L : k = L \/ Less(pivot, At(k).first)}
  <1>1. PICK K \in above : \A k \in above : K <= k
    <2>1. L \in above /\ above \in SUBSET Nat
      OBVIOUS
    <2> HIDE DEF above
    <2>2. QED
      BY <2>1, LeastNumber
  <1>2. K \in Nat /\ K <= L
    BY <1>1
  <1>3. \A m \in 0 .. L - 1 : ~ Less(pivot, At(m).first) <=> m < K
    <2>1. ASSUME NEW m \in 0 .. L - 1, m < K PROVE ~ Less(pivot, At(m).first)
      BY <1>1, <1>2, <2>1
    <2>2. ASSUME NEW m \in 0 .. L - 1, ~ (m < K) PROVE Less(pivot, At(m).first)
      <3>1. K \in 0 .. L - 1 /\ (K = m \/ K < m)
        BY <1>2, <2>2
      <3>2. Less(pivot, At(K).first)
        BY <1>1, <3>1
      <3>3. K = m \/ Less(At(K).first, At(m).first)
        BY <3>1
      <3>4. QED
        BY <2>2, <3>1, <3>2, <3>3, LessOrders
    <2>3. QED
      BY <2>1, <2>2
  <1> DEFINE g(l, r) == IF l + 1 < r THEN IF K <= l THEN l ELSE IF K < r THEN K - 1 ELSE r - 1
                        ELSE l
             search == [s \in Stretches |-> g(s[1], s[2])]
  <1>4. ASSUME NEW s \in Stretches
        PROVE  g(s[1], s[2]) =
                  LET mid == (s[1] + s[2]) \div 2
                  IN IF s[1] + 1 < s[2]
                     THEN IF ~ Less(pivot, At(mid).first) THEN search[<<mid, s[2]>>] ELSE search[<<s[1], mid>>]
                     ELSE s[1]
    <2>1. PICK l \in 0 .. L, r \in 0 .. L : s = <<l, r>>
      BY DEF Stretches
    <2>2. CASE l + 1 < r
      <3> DEFINE mid == (l + r) \div 2
      <3>1. l < mid /\ mid < r /\ mid \in 0 .. L /\ mid \in 0 .. L - 1
        BY <2>2
      <3> HIDE DEF mid
      <3>2. <<mid, r>> \in Stretches /\ <<l, mid>> \in Stretches
        BY <3>1 DEF Stretches
      <3>3. search[<<mid, r>>] = g(mid, r) /\ search[<<l, mid>>] = g(l, mid)
        BY <3>2
      <3>4. g(l, r) = IF mid < K THEN g(mid, r) ELSE g(l, mid)
        BY <1>2, <2>2, <3>1
      <3>5. ~ Less(pivot, At(mid).first) <=> mid < K
        BY <1>3, <3>1
      <3> HIDE DEF g, search
      <3>6. g(l, r) = IF ~ Less(pivot, At(mid).first) THEN search[<<mid, r>>] ELSE search[<<l, mid>>]
        BY <3>3, <3>4, <3>5
      <3>7. QED
        BY <2>1, <2>2, <3>6 DEF mid
    <2>3. CASE ~ (l + 1 < r)
      BY <2>1, <2>3
    <2>4. QED
      BY <2>2, <2>3
  <1>5. search = [s \in Stretches |-> g(s[1], s[2])]
    OBVIOUS
  <1> HIDE DEF g, search
  <1>6. QED
    BY <1>4, <1>5

\* find_count: the number of the pair, or 0 if it is not there.
LEMMA CountFound ==
    ASSUME CountMade, Len(count) \in Nat, comments \in [Pairs -> Nat], NEW pivot \in Pairs
    PROVE  find_count(pivot) = comments[pivot]
  <1>1. /\ \A m \in 0 .. Len(count) - 1 : At(m).first \in Pairs /\ At(m).second = comments[At(m).first]
        /\ \A m, n \in 0 .. Len(count) - 1 : m < n => Less(At(m).first, At(n).first)
    BY DEF CountMade, Counted
  <1> DEFINE Halved(search) == [s \in Stretches |->
                LET mid == (s[1] + s[2]) \div 2
                IN IF s[1] + 1 < s[2]
                   THEN IF ~ Less(pivot, At(mid).first) THEN search[<<mid, s[2]>>] ELSE search[<<s[1], mid>>]
                   ELSE s[1]]
             found == CHOOSE search : search = Halved(search)
             n == found[<<0, Len(count)>>]
  <1>2. find_count(pivot) = IF At(n).first = pivot THEN At(n).second ELSE 0
    BY DEF find_count
  <1>3. \E search : search = Halved(search)
    BY <1>1, SearchExists
  <1>4. <<0, Len(count)>> \in Stretches
    BY DEF Stretches
  <1>5. found = Halved(found)
    <2> HIDE DEF Halved
    <2>1. QED
      BY <1>3, Zenon
  <1>6. /\ n \in 0 .. Len(count) - 1
        /\ \A m \in 0 .. Len(count) - 1 : At(m).first = pivot => n = m
    <2> HIDE DEF found
    <2> DEFINE s == <<0, Len(count)>>
    <2>1. /\ s[1] < s[2] => found[s] \in s[1] .. s[2] - 1
          /\ \A m \in s[1] .. s[2] - 1 : At(m).first = pivot => found[s] = m
      BY <1>1, <1>4, <1>5, SearchFinds
    <2>2. 0 < Len(count)
      BY DEF CountMade
    <2>3. QED
      BY <2>1, <2>2
  <1> HIDE DEF n
  <1>7. CASE At(n).first = pivot
    BY <1>1, <1>2, <1>6, <1>7
  <1>8. CASE At(n).first # pivot
    <2>1. pivot \notin Counted
      BY <1>6, <1>8 DEF CountMade
    <2>2. comments[pivot] = 0
      BY <2>1 DEF Counted
    <2>3. QED
      BY <1>2, <1>8, <2>2
  <1>9. QED
    BY <1>7, <1>8

-----------------------------------------------------------------------------
(* CommentReaders: the beginning.                                          *)

\* The rows that are p are finitely many.
LEMMA RowsFinite ==
    ASSUME NEW p, NEW n \in Nat
    PROVE  /\ IsFiniteSet({r \in 1 .. n : PairOfRow(r) = p})
           /\ Cardinality({r \in 1 .. n : PairOfRow(r) = p}) \in Nat
  <1>1. IsFiniteSet(1 .. n)
    BY FS_Interval
  <1>2. IsFiniteSet({r \in 1 .. n : PairOfRow(r) = p})
    BY <1>1, FS_Subset
  <1>3. QED
    BY <1>2, FS_CardinalityType

\* The comments that reply, in order.
LEMMA InTurn ==
    ASSUME NEW made \in SUBSET Comments, NEW turn,
           \A n \in 1 .. Cardinality(made) :
              turn[n] = CHOOSE c \in made : Cardinality({d \in made : d < c}) = n - 1
    PROVE  /\ IsFiniteSet(made)
           /\ \A n \in 1 .. Cardinality(made) : turn[n] \in made
           /\ \A m, n \in 1 .. Cardinality(made) : m < n => turn[m] < turn[n]
  <1> DEFINE R == {e \in Comments \X Comments : e[1] < e[2]}
  <1>1. Comments \subseteq Int
    BY CommentReadersAssumption DEF Comments
  <1>2. IsFiniteSet(made)
    <2>1. 0 \in Int /\ NComment - 1 \in Int
      BY CommentReadersAssumption
    <2>2. IsFiniteSet(Comments)
      BY <2>1, FS_Interval DEF Comments
    <2>3. QED
      BY <2>2, FS_Subset
  <1>3. \A a, b \in made : <<a, b>> \in R <=> a < b
    OBVIOUS
  <1> HIDE DEF R
  <1>4. Orders(R, made)
    BY <1>1, <1>3 DEF Orders
  <1>5. \A c \in made : RankIn(R, made, c) = Cardinality({d \in made : d < c})
    <2>1. ASSUME NEW c \in made PROVE Below(R, made, c) = {d \in made : d < c}
      BY <1>3 DEF Below
    <2>2. QED
      BY <2>1 DEF RankIn
  <1>6. ASSUME NEW n \in 1 .. Cardinality(made)
        PROVE  turn[n] \in made /\ RankIn(R, made, turn[n]) = n - 1
    <2>1. n - 1 \in Nat /\ n - 1 < Cardinality(made)
      BY <1>2, FS_CardinalityType
    <2>2. \E c \in made : RankIn(R, made, c) = n - 1
      BY <1>2, <1>4, <2>1, RankCovers
    <2>3. \E c \in made : Cardinality({d \in made : d < c}) = n - 1
      BY <1>5, <2>2
    <2>4. turn[n] \in made /\ Cardinality({d \in made : d < turn[n]}) = n - 1
      BY <2>3, Zenon
    <2>5. QED
      BY <1>5, <2>4
  <1>7. ASSUME NEW m \in 1 .. Cardinality(made), NEW n \in 1 .. Cardinality(made), m < n
        PROVE  turn[m] < turn[n]
    <2>1. RankIn(R, made, turn[m]) < RankIn(R, made, turn[n])
      BY <1>2, <1>6, <1>7, FS_CardinalityType
    <2>2. <<turn[m], turn[n]>> \in R
      BY <1>2, <1>4, <1>6, <2>1, RankOrders
    <2>3. QED
      BY <1>3, <1>6, <2>2
  <1>8. QED
    BY <1>2, <1>6, <1>7

\* Nothing is read yet.
LEMMA CommentInvInit == ReadersInit => CommentInv
  <1> SUFFICES ASSUME ReadersInit PROVE CommentInv
    OBVIOUS
  <1>1. CASE reader = "tim" /\ Init
    <2> USE <1>1 DEF Init
    <2>1. rows \in [Pairs -> Nat]
      BY CommentAssumption
    <2>2. Len(count) = 0
      OBVIOUS
    <2>3. CommentTypes
      BY <2>1, <2>2 DEF CommentTypes
    <2>4. TimInv /\ MapInv /\ Untouched /\ CountsRight
      BY DEF TimInv, MapInv, Untouched, CountsRight
    <2>5. MergeInv
      BY <2>2 DEF MergeInv
    <2>6. QED
      BY <2>3, <2>4, <2>5 DEF CommentInv
  <1>2. CASE reader \in {"map", "2file"} /\ Files
    <2>1. /\ creator \in [Comments -> Persons] /\ friends \in Networks
          /\ rows = [p \in Pairs |-> RowsOf(p)]
          /\ pc = CASE reader = "map" -> "owners" [] reader = "2file" -> "replies"
          /\ comments = [p \in Pairs |-> 0] /\ count = <<>> /\ index = 0
          /\ toVisit = friends /\ ncmts = [p \in friends |-> 0]
          /\ row = 0 /\ read = 0 /\ comment_map = [p \in Pairs |-> 0]
          /\ owner = IF reader = "2file" THEN [s \in 0 .. CacheLen - 1 |-> NoPerson] ELSE <<>>
          /\ reader \in {"map", "2file"}
      BY <1>2 DEF Files, ReadersInit
    <2>2. PICK to \in [Comments -> Comments \cup {-1}] :
             /\ \A c \in Comments : to[c] < c
             /\ reader = "2file" => \A c \in Comments : to[c] # -1 => cid(c) - cid(to[c]) < CacheLen
             /\ LET made == {c \in Comments : to[c] # -1}
                    nth(n) == CHOOSE c \in made : Cardinality({d \in made : d < c}) = n - 1
                IN replies = [n \in 1 .. Cardinality(made) |-> <<nth(n), to[nth(n)]>>]
      BY <1>2 DEF Files
    <2> DEFINE made == {c \in Comments : to[c] # -1}
               nth(n) == CHOOSE c \in made : Cardinality({d \in made : d < c}) = n - 1
    <2>3. replies = [n \in 1 .. Cardinality(made) |-> <<nth(n), to[nth(n)]>>]
      BY <2>2
    <2>4. /\ IsFiniteSet(made)
          /\ \A n \in 1 .. Cardinality(made) : nth(n) \in made
          /\ \A m, n \in 1 .. Cardinality(made) : m < n => nth(m) < nth(n)
      <3>1. made \in SUBSET Comments
        OBVIOUS
      <3> DEFINE turn == [n \in 1 .. Cardinality(made) |-> nth(n)]
      <3>2. \A n \in 1 .. Cardinality(made) :
               turn[n] = CHOOSE c \in made : Cardinality({d \in made : d < c}) = n - 1
        OBVIOUS
      <3>3. \A n \in 1 .. Cardinality(made) : turn[n] = nth(n)
        OBVIOUS
      <3> HIDE DEF made, nth, turn
      <3>4. /\ IsFiniteSet(made)
            /\ \A n \in 1 .. Cardinality(made) : turn[n] \in made
            /\ \A m, n \in 1 .. Cardinality(made) : m < n => turn[m] < turn[n]
        BY <3>1, <3>2, InTurn
      <3>5. QED
        BY <3>3, <3>4
    <2> HIDE DEF nth
    <2>5. Cardinality(made) \in Nat
      BY <2>4, FS_CardinalityType
    <2>6. Len(replies) = Cardinality(made)
      <3> HIDE DEF made
      <3>1. QED
        BY <2>3, <2>5
    <2>7. \A n \in 1 .. Cardinality(made) :
             /\ replies[n][1] = nth(n) /\ replies[n][2] = to[nth(n)]
             /\ nth(n) \in Comments /\ to[nth(n)] # -1
      <3>1. \A n \in 1 .. Cardinality(made) : nth(n) \in Comments /\ to[nth(n)] # -1
        BY <2>4
      <3> HIDE DEF made
      <3>2. QED
        BY <2>3, <3>1
    <2>8. \A n \in 1 .. Len(replies) :
             /\ replies[n][1] \in Comments /\ replies[n][2] \in Comments
             /\ replies[n][2] < replies[n][1]
             /\ reader = "2file" => cid(replies[n][1]) - cid(replies[n][2]) < CacheLen
      BY <2>2, <2>6, <2>7
    <2>9. \A m, n \in 1 .. Len(replies) : m < n => replies[m][1] < replies[n][1]
      BY <2>4, <2>6, <2>7
    <2>10. FilesRight
      BY <2>1, <2>5, <2>6, <2>8, <2>9 DEF FilesRight
    <2>11. rows \in [Pairs -> Nat]
      <3>1. \A p \in Pairs : RowsOf(p) \in Nat
        BY <2>5, <2>6, RowsFinite DEF RowsOf, PairOfRow
      <3>2. QED
        BY <2>1, <3>1
    <2>12. Len(count) = 0
      BY <2>1
    <2>13. CommentTypes
      BY <2>1, <2>11, <2>12 DEF CommentTypes
    <2>14. TimInv /\ Untouched /\ CountsRight
      BY <2>1 DEF TimInv, Untouched, CountsRight
    <2>15. MergeInv
      BY <2>1, <2>12 DEF MergeInv
    <2>16. MapInv
      <3>1. \A p : Cardinality(RowsSoFar(p)) = 0
        <4>1. \A p : RowsSoFar(p) = {}
          BY <2>1 DEF RowsSoFar
        <4>2. QED
          BY <4>1, FS_EmptySet
      <3>2. reader = "2file" => Window
        <4>1. SUFFICES ASSUME reader = "2file" PROVE Window
          OBVIOUS
        <4>2. owner = [s \in 0 .. CacheLen - 1 |-> owner[s]] /\ read \in Nat
          BY <2>1, <4>1
        <4>3. row < Len(replies) => read <= replies[row + 1][1]
          <5>1. SUFFICES ASSUME 0 < Len(replies) PROVE 0 <= replies[1][1]
            BY <2>1
          <5>2. replies[1][1] \in Comments
            BY <2>5, <2>6, <2>8, <5>1
          <5>3. QED
            BY <5>2, CommentReadersAssumption DEF Comments
        <4>4. 0 .. read - 1 = {}
          BY <2>1
        <4>5. QED
          BY <4>2, <4>3, <4>4 DEF Window
      <3>3. row \in 0 .. Len(replies) /\ (pc = "owners" => reader = "map" /\ row = 0)
        BY <2>1, <2>5, <2>6
      <3>4. comment_map \in [Pairs -> Nat] /\ \A p \in Pairs : comment_map[p] = 0
        BY <2>1
      <3>5. pc \in {"owners", "replies", "done"} /\ (reader = "map" /\ pc = "replies" => owner = creator)
        BY <2>1
      <3>6. QED
        BY <2>1, <2>10, <3>1, <3>2, <3>3, <3>4, <3>5 DEF MapInv
    <2>17. QED
      BY <2>13, <2>14, <2>15, <2>16 DEF CommentInv
  <1>3. QED
    BY <1>1, <1>2 DEF ReadersInit

-----------------------------------------------------------------------------
(* read_comments_tim: the steps.                                           *)

\* The variables of the other readers, that do not change.
Others == <<files, row, owner, read, comment_map>>

\* A step of read_comments_tim leaves what is said of the others.
LEMMA TimAlone ==
    ASSUME MapInv, UNCHANGED Others, reader = "tim"
    PROVE  reader' = "tim" /\ MapInv'
  BY DEF MapInv, Others, files

\* Mutual numbers are the same both ways, and 0 when one of the two is.
LEMMA MutualSame ==
    ASSUME rows \in [Pairs -> Nat], friends \in Networks, NEW p \in friends
    PROVE  /\ p \in Pairs /\ p[1] # p[2] /\ <<p[2], p[1]>> \in friends /\ <<p[2], p[1]>> \in Pairs
           /\ Mutual(p) = Mutual(<<p[2], p[1]>>)
           /\ rows[p] = 0 => Mutual(p) = 0
           /\ Mutual(p) = Smaller(rows[p], rows[<<p[2], p[1]>>])
  <1>1. /\ p \in Pairs /\ p[1] # p[2] /\ <<p[2], p[1]>> \in friends /\ <<p[2], p[1]>> \in Pairs
    BY DEF Networks
  <1>2. <<p[1], p[2]>> = p
    BY <1>1, LessOrders
  <1>3. rows[p] \in Nat /\ rows[<<p[2], p[1]>>] \in Nat
    BY <1>1
  <1> DEFINE q == <<p[2], p[1]>>
  <1>4. q[1] = p[2] /\ q[2] = p[1]
    OBVIOUS
  <1>5. Mutual(q) = Smaller(rows[q], rows[p])
    BY <1>2, <1>4 DEF Mutual
  <1>6. QED
    BY <1>1, <1>3, <1>5 DEF Mutual, Smaller

\* The replies between friends are kept.
LEMMA FilterStep ==
    ASSUME CommentInv, Filter, UNCHANGED Others
    PROVE  CommentInv'
  <1> USE DEF Filter
  <1>1. reader = "tim"
    BY DEF CommentInv, MapInv, CommentTypes
  <1>2. MapInv' /\ reader' = "tim"
    BY <1>1, TimAlone DEF CommentInv
  <1>3. CommentTypes'
    <2>1. comments' \in [Pairs -> Nat]
      BY DEF CommentInv, CommentTypes
    <2>2. QED
      BY <1>1, <1>2, <2>1 DEF CommentInv, CommentTypes
  <1>4. TimInv'
    BY <1>1 DEF CommentInv, TimInv, Kept
  <1>5. Untouched' /\ CountsRight'
    BY DEF CommentInv, Untouched, CountsRight
  <1>6. MergeInv'
    BY DEF CommentInv, MergeInv, Mutual, At
  <1>7. QED
    BY <1>2, <1>3, <1>4, <1>5, <1>6 DEF CommentInv

\* Each pair that is counted comes once, in order.
LEMMA AggregateStep ==
    ASSUME CommentInv, Aggregate, UNCHANGED Others
    PROVE  CommentInv'
  <1> DEFINE N == Cardinality(Counted)
             R == {e \in Pairs \X Pairs : Less(e[1], e[2])}
             nth(m) == CHOOSE p \in Counted : Cardinality({q \in Counted : Less(q, p)}) = m - 1
  <1>1. /\ pc = "aggregate" /\ pc' = "merge" /\ Counted # {}
        /\ count' = [m \in 1 .. N |-> [first |-> nth(m), second |-> comments[nth(m)]]]
        /\ UNCHANGED <<rows, friends, comments, index, toVisit, ncmts>>
    BY DEF Aggregate
  <1>2. reader = "tim" /\ comments = Kept /\ CommentTypes /\ index = 0 /\ toVisit = friends
    BY <1>1 DEF CommentInv, MapInv, TimInv, CommentTypes, Untouched
  <1>3. MapInv' /\ reader' = "tim"
    BY <1>2, TimAlone DEF CommentInv
  <1>4. Counted \in SUBSET Pairs /\ IsFiniteSet(Counted) /\ Orders(R, Counted)
    BY PairsFinite DEF Counted
  <1>5. N \in Nat /\ N > 0
    BY <1>1, <1>4, FS_EmptySet, FS_CardinalityType
  <1>6. \A p \in Counted : RankIn(R, Counted, p) = Cardinality({q \in Counted : Less(q, p)})
    <2>1. \A p, q \in Pairs : <<p, q>> \in R <=> Less(p, q)
      OBVIOUS
    <2> HIDE DEF R
    <2>2. ASSUME NEW p \in Counted PROVE Below(R, Counted, p) = {q \in Counted : Less(q, p)}
      BY <1>4, <2>1 DEF Below
    <2>3. QED
      BY <2>2 DEF RankIn
  <1>7. \A p, q \in Counted : <<p, q>> \in R <=> Less(p, q)
    BY <1>4
  <1> HIDE DEF R
  <1>8. ASSUME NEW m \in 1 .. N
        PROVE  nth(m) \in Counted /\ RankIn(R, Counted, nth(m)) = m - 1
    <2>1. m - 1 \in Nat /\ m - 1 < N
      BY <1>5
    <2>2. \E p \in Counted : RankIn(R, Counted, p) = m - 1
      BY <1>4, <2>1, RankCovers
    <2>3. \E p \in Counted : Cardinality({q \in Counted : Less(q, p)}) = m - 1
      BY <1>6, <2>2
    <2>4. nth(m) \in Counted /\ Cardinality({q \in Counted : Less(q, nth(m))}) = m - 1
      BY <2>3, Zenon
    <2>5. QED
      BY <1>6, <2>4
  <1> HIDE DEF nth
  <1>9. Len(count') = N
    BY <1>1, <1>5
  <1>10. \A m \in 0 .. N - 1 : /\ count'[m + 1].first = nth(m + 1)
                               /\ count'[m + 1].second = comments[nth(m + 1)]
    <2>1. \A m \in 0 .. N - 1 : m + 1 \in 1 .. N
      BY <1>5
    <2> HIDE DEF N
    <2>2. QED
      BY <1>1, <2>1
  <1>11. \A m \in 0 .. N - 1 : m + 1 \in 1 .. N
    BY <1>5
  <1>12. Counted' = Counted
    BY <1>1 DEF Counted
  <1>13. CountMade'
    <2>1. Len(count') > 0
      BY <1>5, <1>9
    <2>2. ASSUME NEW m \in 0 .. Len(count') - 1
          PROVE  At(m)'.first \in Counted' /\ At(m)'.second = comments'[At(m)'.first]
      BY <1>1, <1>8, <1>9, <1>10, <1>11, <1>12, <2>2 DEF At
    <2>3. ASSUME NEW p \in Counted
          PROVE  \E m \in 0 .. Len(count') - 1 : At(m)'.first = p
      <3> DEFINE m == RankIn(R, Counted, p)
      <3>1. m \in Nat /\ m < N
        BY <1>4, RankIsNat
      <3> HIDE DEF m
      <3>2. m \in 0 .. N - 1 /\ m + 1 \in 1 .. N /\ m + 1 - 1 = m
        BY <1>5, <3>1
      <3>3. nth(m + 1) \in Counted /\ RankIn(R, Counted, nth(m + 1)) = m
        BY <1>8, <3>2
      <3>4. nth(m + 1) = p
        BY <1>4, <3>3, RankOrders DEF m
      <3>5. QED
        BY <1>9, <1>10, <3>2, <3>4 DEF At
    <2>4. ASSUME NEW m \in 0 .. Len(count') - 1, NEW n \in 0 .. Len(count') - 1, m < n
          PROVE  Less(At(m)'.first, At(n)'.first)
      <3>1. /\ m + 1 \in 1 .. N /\ n + 1 \in 1 .. N /\ m + 1 - 1 < n + 1 - 1
        BY <1>5, <1>9, <2>4
      <3>2. RankIn(R, Counted, nth(m + 1)) < RankIn(R, Counted, nth(n + 1))
        BY <1>8, <3>1
      <3>3. <<nth(m + 1), nth(n + 1)>> \in R
        BY <1>4, <1>8, <3>1, <3>2, RankOrders
      <3>4. Less(nth(m + 1), nth(n + 1))
        BY <1>7, <1>8, <3>1, <3>3
      <3>5. QED
        BY <1>9, <1>10, <2>4, <3>4 DEF At
    <2>5. QED
      BY <1>12, <2>1, <2>2, <2>3, <2>4 DEF CountMade
  <1>14. CommentTypes'
    BY <1>1, <1>2, <1>3, <1>5, <1>9 DEF CommentTypes
  <1>15. TimInv'
    BY <1>1, <1>2, <1>13 DEF TimInv, Kept
  <1>16. Untouched' /\ CountsRight'
    BY <1>1 DEF Untouched, CountsRight
  <1>17. MergeInv'
    <2>1. index' = 0 /\ index' <= Len(count')
      BY <1>1, <1>2, <1>5, <1>9
    <2>3. \A m \in 0 .. Len(count') - 2 : Less(At(m)'.first, At(m + 1)'.first)
      <3>1. ASSUME NEW m \in 0 .. Len(count') - 2 PROVE Less(At(m)'.first, At(m + 1)'.first)
        <4>1. m \in 0 .. Len(count') - 1 /\ m + 1 \in 0 .. Len(count') - 1 /\ m < m + 1
          BY <1>5, <1>9, <3>1
        <4>2. QED
          BY <1>13, <4>1 DEF CountMade
      <3>2. QED
        BY <3>1
    <2>4. 0 .. index' - 1 = {}
      BY <2>1
    <2>5. \A p \in friends' : ncmts'[p] = IF p \in toVisit' THEN 0 ELSE Mutual(p)'
      BY <1>1 DEF CommentInv, MergeInv, Mutual
    <2>6. QED
      BY <2>1, <2>3, <2>4, <2>5 DEF MergeInv
  <1>18. QED
    BY <1>3, <1>14, <1>15, <1>16, <1>17 DEF CommentInv

\* Nobody has replied to a friend: the vector is empty.
LEMMA ReadEmptyStep ==
    ASSUME CommentInv, ReadEmpty, UNCHANGED Others
    PROVE  CommentInv'
  <1> USE DEF ReadEmpty
  <1>1. reader = "tim"
    BY DEF CommentInv, MapInv, CommentTypes
  <1>2. MapInv' /\ reader' = "tim"
    BY <1>1, TimAlone DEF CommentInv
  <1>3. CommentTypes' /\ TimInv'
    BY <1>1, <1>2 DEF CommentInv, CommentTypes, TimInv
  <1>4. Untouched' /\ CountsRight'
    BY DEF Untouched, CountsRight
  <1>5. MergeInv'
    BY DEF CommentInv, MergeInv, Mutual, At
  <1>6. QED
    BY <1>2, <1>3, <1>4, <1>5 DEF CommentInv

\* While count is merged the task is read_comments_tim, and count is made.
LEMMA InMerge ==
    ASSUME CommentInv, pc = "merge"
    PROVE  /\ reader = "tim" /\ comments = Kept /\ CountMade /\ CommentTypes
           /\ Len(count) \in Nat /\ index \in Nat /\ index <= Len(count)
           /\ Counted \subseteq Pairs /\ comments \in [Pairs -> Nat]
           /\ \A m \in 0 .. Len(count) - 1 : At(m).first \in Pairs
           /\ \A p \in friends : p \in Pairs /\ p[1] # p[2] /\ comments[p] = rows[p]
           /\ toVisit \subseteq friends
           /\ \A p \in friends \ Counted : Mutual(p) = 0
           /\ \A m \in 0 .. index - 1, p \in toVisit : Less(At(m).first, p)
           /\ \A p \in friends : ncmts[p] = IF p \in toVisit THEN 0 ELSE Mutual(p)
  <1>1. reader = "tim"
    BY DEF CommentInv, MapInv, CommentTypes
  <1>2. comments = Kept /\ CountMade
    BY <1>1 DEF CommentInv, TimInv
  <1>3. CommentTypes
    BY DEF CommentInv
  <1>4. \A p \in friends : p \in Pairs /\ p[1] # p[2]
    BY <1>3, MutualSame DEF CommentTypes
  <1>5. \A p \in friends : comments[p] = rows[p]
    BY <1>2, <1>4 DEF Kept
  <1>6. ASSUME NEW p \in friends \ Counted PROVE Mutual(p) = 0
    <2>1. comments[p] = 0
      BY <1>3, <1>4 DEF CommentTypes, Counted
    <2>2. QED
      BY <1>3, <1>5, <2>1, MutualSame DEF CommentTypes
  <1>7. Counted \subseteq Pairs
    BY DEF Counted
  <1>8. \A m \in 0 .. Len(count) - 1 : At(m).first \in Pairs
    BY <1>2, <1>7 DEF CountMade
  <1>9. /\ Len(count) \in Nat /\ index \in Nat /\ toVisit \subseteq friends
        /\ comments \in [Pairs -> Nat]
    BY <1>3 DEF CommentTypes
  <1>10. /\ index <= Len(count)
         /\ \A m \in 0 .. index - 1, p \in toVisit : Less(At(m).first, p)
         /\ \A p \in friends : ncmts[p] = IF p \in toVisit THEN 0 ELSE Mutual(p)
    BY DEF CommentInv, MergeInv
  <1>11. QED
    BY <1>1, <1>2, <1>3, <1>4, <1>5, <1>6, <1>7, <1>8, <1>9, <1>10

\* The while loop ends, at the end of count or at an element that is not before
\* the entry p; and p is in count only if it is that element.
LEMMA AdvancedRight ==
    ASSUME CommentInv, pc = "merge", NEW p \in toVisit
    PROVE  /\ Advanced(p) \in index .. Len(count)
           /\ \A n \in 0 .. Advanced(p) - 1 : n \in 0 .. Len(count) - 1 /\ Less(At(n).first, p)
           /\ p \in Counted <=> Advanced(p) < Len(count) /\ At(Advanced(p)).first = p
  <1>1. /\ Len(count) \in Nat /\ index \in Nat /\ index <= Len(count) /\ CountMade
        /\ \A m \in 0 .. index - 1 : Less(At(m).first, p)
        /\ p \in Pairs /\ Counted \subseteq Pairs
        /\ \A m \in 0 .. Len(count) - 1 : At(m).first \in Pairs
    BY InMerge
  <1> DEFINE L == Len(count)
             Stops(m) == m = L \/ ~ Less(At(m).first, p)
             ends == {m \in index .. L : Stops(m)}
  <1>2. \E m \in ends : \A n \in ends : m <= n
    <2>1. L \in ends /\ ends \in SUBSET Nat
      BY <1>1
    <2> HIDE DEF ends
    <2>2. QED
      BY <2>1, LeastNumber
  <1>3. \E m \in index .. L : Stops(m) /\ \A n \in index .. m - 1 : Less(At(n).first, p)
    <2>1. PICK m \in ends : \A n \in ends : m <= n
      BY <1>2
    <2>2. m \in index .. L /\ Stops(m)
      BY <2>1
    <2>3. ASSUME NEW n \in index .. m - 1 PROVE Less(At(n).first, p)
      <3>1. n \in index .. L /\ ~ (m <= n)
        BY <1>1, <2>2
      <3>2. n \notin ends
        BY <2>1, <3>1
      <3>3. QED
        BY <3>1, <3>2
    <2> HIDE DEF Stops
    <2>4. QED
      BY <2>2, <2>3
  <1> DEFINE m == Advanced(p)
  <1>4. m \in index .. L /\ Stops(m) /\ \A n \in index .. m - 1 : Less(At(n).first, p)
    <2>1. m = CHOOSE k \in index .. L : Stops(k) /\ \A n \in index .. k - 1 : Less(At(n).first, p)
      BY DEF Advanced
    <2> HIDE DEF m, Stops
    <2>2. QED
      BY <1>3, <2>1, Zenon
  <1> HIDE DEF m
  <1>5. \A n \in 0 .. m - 1 : n \in 0 .. L - 1 /\ Less(At(n).first, p)
    <2>1. ASSUME NEW n \in 0 .. m - 1 PROVE n \in 0 .. L - 1 /\ (n \in 0 .. index - 1 \/ n \in index .. m - 1)
      BY <1>1, <1>4
    <2>2. QED
      BY <1>1, <1>4, <2>1
  <1>6. ASSUME p \in Counted PROVE m < L /\ At(m).first = p
    <2>1. PICK k \in 0 .. L - 1 : At(k).first = p
      BY <1>1, <1>6 DEF CountMade
    <2>2. k \notin 0 .. m - 1
      BY <1>1, <1>5, <2>1, LessOrders
    <2>3. m \in 0 .. L - 1 /\ (k = m \/ m < k)
      BY <1>1, <1>4, <2>2
    <2>4. ~ (m < k)
      <3>1. SUFFICES ASSUME m < k PROVE FALSE
        OBVIOUS
      <3>2. Less(At(m).first, p)
        BY <1>1, <2>1, <2>3, <3>1 DEF CountMade
      <3>3. m # L
        BY <2>3, <1>1
      <3>4. QED
        BY <1>4, <3>2, <3>3
    <2>5. QED
      BY <1>1, <2>1, <2>3, <2>4
  <1>7. ASSUME m < L, At(m).first = p PROVE p \in Counted
    <2>1. m \in 0 .. L - 1
      BY <1>1, <1>4, <1>7
    <2>2. QED
      BY <1>1, <1>7, <2>1 DEF CountMade
  <1>8. QED
    BY <1>4, <1>5, <1>6, <1>7 DEF m

\* The next entry of the friend lists gets its number.
LEMMA MergeStep ==
    ASSUME CommentInv, NEW p \in Pairs, Merge(p), UNCHANGED Others
    PROVE  CommentInv'
  <1> DEFINE m == Advanced(p)
             q == <<p[2], p[1]>>
  <1>1. /\ pc = "merge" /\ p \in toVisit /\ (\A r \in toVisit \ {p} : Less(p, r))
        /\ index' = m /\ m < Len(count) /\ toVisit' = toVisit \ {p}
        /\ ncmts' = [ncmts EXCEPT ![p] = IF At(index').first = p
                                         THEN Smaller(At(index').second, find_count(q)) ELSE 0]
        /\ UNCHANGED <<rows, friends, pc, comments, count>>
    BY DEF Merge
  <1>2. /\ reader = "tim" /\ comments = Kept /\ CountMade /\ CommentTypes
        /\ Len(count) \in Nat /\ index \in Nat /\ index <= Len(count)
        /\ Counted \subseteq Pairs /\ comments \in [Pairs -> Nat]
        /\ \A k \in 0 .. Len(count) - 1 : At(k).first \in Pairs
        /\ \A r \in friends : r \in Pairs /\ r[1] # r[2] /\ comments[r] = rows[r]
        /\ toVisit \subseteq friends
        /\ \A r \in friends \ Counted : Mutual(r) = 0
        /\ \A r \in friends : ncmts[r] = IF r \in toVisit THEN 0 ELSE Mutual(r)
    BY <1>1, InMerge
  <1>3. /\ m \in index .. Len(count)
        /\ \A n \in 0 .. m - 1 : n \in 0 .. Len(count) - 1 /\ Less(At(n).first, p)
        /\ p \in Counted <=> m < Len(count) /\ At(m).first = p
    BY <1>1, AdvancedRight
  <1> HIDE DEF m
  <1>4. MapInv' /\ reader' = "tim"
    BY <1>2, TimAlone DEF CommentInv
  <1>5. /\ p \in friends /\ q \in friends /\ q \in Pairs
        /\ Mutual(p) = Smaller(rows[p], rows[q])
    BY <1>1, <1>2, MutualSame DEF CommentTypes
  <1> HIDE DEF q
  <1>6. (IF At(m).first = p THEN Smaller(At(m).second, find_count(q)) ELSE 0) = Mutual(p)
    <2>1. CASE At(m).first = p
      <3>1. m \in 0 .. Len(count) - 1
        BY <1>1, <1>2, <1>3
      <3>2. At(m).second = rows[p]
        BY <1>2, <1>5, <2>1, <3>1 DEF CountMade
      <3>3. find_count(q) = rows[q]
        BY <1>2, <1>5, CountFound
      <3>4. QED
        BY <1>5, <2>1, <3>2, <3>3
    <2>2. CASE At(m).first # p
      BY <1>2, <1>3, <1>5, <2>2
    <2>3. QED
      BY <2>1, <2>2
  <1>7. ncmts' = [ncmts EXCEPT ![p] = Mutual(p)]
    BY <1>1, <1>6 DEF At
  <1>8. ncmts = [r \in friends |-> ncmts[r]]
    BY <1>2 DEF CommentTypes
  <1>9. \A r \in friends : Mutual(r)' = Mutual(r)
    BY <1>1 DEF Mutual
  <1>10. ASSUME NEW r \in friends'
         PROVE  ncmts'[r] = IF r \in toVisit' THEN 0 ELSE Mutual(r)'
    <2>1. r \in friends
      BY <1>1
    <2>2. ncmts'[r] = IF r = p THEN Mutual(p) ELSE ncmts[r]
      BY <1>7, <1>8, <2>1
    <2> HIDE DEF m
    <2>3. QED
      BY <1>1, <1>2, <1>9, <2>1, <2>2
  <1>11. m \in Nat /\ m <= Len(count)
    BY <1>2, <1>3
  <1>12. ncmts' = [r \in friends' |-> ncmts'[r]]
    BY <1>1, <1>7, <1>8
  <1>13. CommentTypes'
    BY <1>1, <1>2, <1>4, <1>11, <1>12 DEF CommentTypes
  <1>14. TimInv'
    <2>1. CountMade'
      BY <1>1, <1>2 DEF CountMade, At, Counted
    <2>2. QED
      BY <1>1, <1>2, <1>4, <2>1 DEF TimInv, Kept
  <1>15. Untouched' /\ CountsRight'
    BY <1>1 DEF Untouched, CountsRight
  <1>16. MergeInv'
    <2>1. index' <= Len(count')
      BY <1>1, <1>11
    <2>2. \A k \in 0 .. Len(count') - 2 : Less(At(k)'.first, At(k + 1)'.first)
      BY <1>1 DEF CommentInv, MergeInv, At
    <2>3. ASSUME NEW k \in 0 .. index' - 1, NEW r \in toVisit'
          PROVE  Less(At(k)'.first, r)
      <3>1. At(k)' = At(k) /\ k \in 0 .. m - 1
        BY <1>1 DEF At
      <3>2. k \in 0 .. Len(count) - 1 /\ Less(At(k).first, p)
        BY <1>3, <3>1
      <3>3. Less(p, r) /\ r \in Pairs
        BY <1>1, <1>2
      <3>4. QED
        BY <1>2, <3>1, <3>2, <3>3, LessOrders
    <2>4. QED
      BY <1>10, <2>1, <2>2, <2>3 DEF MergeInv
  <1>17. QED
    BY <1>4, <1>13, <1>14, <1>15, <1>16 DEF CommentInv

\* What is left has no replies.
LEMMA FinishStep ==
    ASSUME CommentInv, Finish, UNCHANGED Others
    PROVE  CommentInv'
  <1>1. /\ pc = "merge" /\ pc' = "done"
        /\ \A p \in toVisit : (\A q \in toVisit \ {p} : Less(p, q)) => Advanced(p) = Len(count)
        /\ UNCHANGED <<rows, friends, comments, count, index, toVisit, ncmts>>
    BY DEF Finish
  <1>2. /\ reader = "tim" /\ CountMade /\ CommentTypes
        /\ Len(count) \in Nat /\ Counted \subseteq Pairs
        /\ \A k \in 0 .. Len(count) - 1 : At(k).first \in Pairs
        /\ \A r \in friends : r \in Pairs
        /\ toVisit \subseteq friends
        /\ \A r \in friends \ Counted : Mutual(r) = 0
        /\ \A r \in friends : ncmts[r] = IF r \in toVisit THEN 0 ELSE Mutual(r)
    BY <1>1, InMerge
  <1>3. toVisit \in SUBSET Pairs
    BY <1>2
  <1>4. ASSUME NEW r \in toVisit PROVE Mutual(r) = 0
    <2>1. PICK p \in toVisit : \A q \in toVisit \ {p} : Less(p, q)
      BY <1>3, <1>4, PairsFinite
    <2>2. Advanced(p) = Len(count)
      BY <1>1, <2>1
    <2>3. \A n \in 0 .. Len(count) - 1 : Less(At(n).first, p)
      BY <1>1, <2>2, AdvancedRight
    <2>4. \A n \in 0 .. Len(count) - 1 : Less(At(n).first, r)
      <3>1. r = p \/ Less(p, r)
        BY <2>1
      <3>2. QED
        BY <1>2, <1>3, <2>3, <3>1, LessOrders
    <2>5. r \notin Counted
      BY <1>2, <1>3, <2>4, LessOrders DEF CountMade
    <2>6. QED
      BY <1>2, <2>5
  <1>5. MapInv' /\ reader' = "tim"
    BY <1>2, TimAlone DEF CommentInv
  <1>6. CommentTypes'
    BY <1>1, <1>2, <1>5 DEF CommentTypes
  <1>7. TimInv'
    BY <1>1, <1>5 DEF TimInv
  <1>8. Untouched'
    BY <1>1 DEF Untouched
  <1>9. MergeInv'
    BY <1>1 DEF CommentInv, MergeInv, Mutual, At
  <1>10. CountsRight'
    <2>1. \A r \in friends : ncmts[r] = Mutual(r)
      BY <1>2, <1>4
    <2>2. \A r \in friends : Mutual(r)' = Mutual(r)
      BY <1>1 DEF Mutual
    <2>3. ASSUME NEW r \in friends'
          PROVE  ncmts'[r] = Mutual(r)' /\ ncmts'[r] = ncmts'[<<r[2], r[1]>>]
      <3>1. r \in friends /\ ncmts' = ncmts
        BY <1>1
      <3>2. <<r[2], r[1]>> \in friends /\ Mutual(r) = Mutual(<<r[2], r[1]>>)
        BY <1>2, <3>1, MutualSame DEF CommentTypes
      <3>3. QED
        BY <2>1, <2>2, <3>1, <3>2
    <2>4. QED
      BY <2>3 DEF CountsRight
  <1>11. QED
    BY <1>5, <1>6, <1>7, <1>8, <1>9, <1>10 DEF CommentInv

-----------------------------------------------------------------------------
(* The other readers: the steps.                                           *)

\* The variables of read_comments_tim that the reading of the others leaves.
Tims == <<rows, friends, comments, count, index, toVisit, ncmts, files>>

\* Reading leaves everything that is said of read_comments_tim.
LEMMA ReadingAlone ==
    ASSUME CommentInv, reader # "tim", UNCHANGED Tims, pc \in {"owners", "replies"},
           pc' \in {"owners", "replies"}
    PROVE  /\ CommentTypes' /\ TimInv' /\ Untouched' /\ MergeInv' /\ CountsRight'
           /\ reader' # "tim" /\ FilesRight' /\ count' = <<>>
  <1> USE DEF Tims, files
  <1>1. CommentTypes'
    BY DEF CommentInv, CommentTypes
  <1>2. TimInv' /\ Untouched' /\ CountsRight' /\ reader' # "tim"
    BY DEF CommentInv, TimInv, Untouched, CountsRight
  <1>3. MergeInv'
    BY DEF CommentInv, MergeInv, Mutual, At
  <1>4. FilesRight' /\ count' = <<>>
    BY DEF CommentInv, MapInv, FilesRight, RowsOf
  <1>5. QED
    BY <1>1, <1>2, <1>3, <1>4

\* The first file is read.
LEMMA ReadCreatorsStep ==
    ASSUME CommentInv, ReadCreators
    PROVE  CommentInv'
  <1>1. /\ pc = "owners" /\ pc' = "replies" /\ owner' = creator
        /\ UNCHANGED <<rows, friends, comments, count, index, toVisit, ncmts, files, row, comment_map>>
    BY DEF ReadCreators
  <1>2. reader = "map"
    BY <1>1 DEF CommentInv, MapInv, TimInv, CommentTypes
  <1>3. /\ CommentTypes' /\ TimInv' /\ Untouched' /\ MergeInv' /\ CountsRight'
        /\ reader' # "tim" /\ FilesRight' /\ count' = <<>>
    BY <1>1, <1>2, ReadingAlone DEF Tims
  <1>4. MapInv'
    <2>1. /\ row \in 0 .. Len(replies) /\ comment_map \in [Pairs -> Nat]
          /\ \A p \in Pairs : p[1] # p[2] => comment_map[p] = Cardinality(RowsSoFar(p))
      BY <1>2 DEF CommentInv, MapInv
    <2>2. \A p : RowsSoFar(p)' = RowsSoFar(p)
      BY <1>1 DEF RowsSoFar, PairOfRow, files
    <2>3. reader' = "map" /\ owner' = creator' /\ replies' = replies
      BY <1>1, <1>2 DEF files
    <2>4. QED
      BY <1>1, <1>3, <2>1, <2>2, <2>3 DEF MapInv
  <1>5. QED
    BY <1>3, <1>4 DEF CommentInv

\* One more row is read.
LEMMA RowAdded ==
    ASSUME row \in Nat, row' = row + 1, UNCHANGED files, NEW p
    PROVE  Cardinality(RowsSoFar(p)') =
              IF PairOfRow(row + 1) = p THEN Cardinality(RowsSoFar(p)) + 1 ELSE Cardinality(RowsSoFar(p))
  <1>1. RowsSoFar(p)' = {r \in 1 .. row + 1 : PairOfRow(r) = p}
    BY DEF RowsSoFar, PairOfRow, files
  <1>2. IsFiniteSet(RowsSoFar(p))
    BY RowsFinite DEF RowsSoFar
  <1>3. \A r : r \in 1 .. row + 1 <=> r \in 1 .. row \/ r = row + 1
    OBVIOUS
  <1>4. CASE PairOfRow(row + 1) = p
    <2>1. RowsSoFar(p)' = RowsSoFar(p) \cup {row + 1} /\ row + 1 \notin RowsSoFar(p)
      BY <1>1, <1>3, <1>4 DEF RowsSoFar
    <2>2. Cardinality(RowsSoFar(p) \cup {row + 1}) = Cardinality(RowsSoFar(p)) + 1
      BY <1>2, <2>1, FS_AddElement
    <2>3. QED
      BY <1>4, <2>1, <2>2
  <1>5. CASE PairOfRow(row + 1) # p
    <2>1. RowsSoFar(p)' = RowsSoFar(p)
      BY <1>1, <1>3, <1>5 DEF RowsSoFar
    <2>2. QED
      BY <1>5, <2>1
  <1>6. QED
    BY <1>4, <1>5

\* The row that is read next.
LEMMA NextRow ==
    ASSUME CommentInv, reader # "tim", row < Len(replies)
    PROVE  /\ row \in Nat /\ row + 1 \in 1 .. Len(replies) /\ Len(replies) \in Nat
           /\ PairOfRow(row + 1) \in Pairs
           /\ replies[row + 1][1] \in Comments /\ replies[row + 1][2] \in Comments
           /\ replies[row + 1][2] < replies[row + 1][1]
           /\ comment_map \in [Pairs -> Nat]
           /\ \A p \in Pairs : p[1] # p[2] => comment_map[p] = Cardinality(RowsSoFar(p))
           /\ FilesRight
  <1>1. /\ FilesRight /\ row \in 0 .. Len(replies) /\ comment_map \in [Pairs -> Nat]
        /\ \A p \in Pairs : p[1] # p[2] => comment_map[p] = Cardinality(RowsSoFar(p))
    BY DEF CommentInv, MapInv
  <1>2. Len(replies) \in Nat
    BY <1>1 DEF FilesRight
  <1>3. row \in Nat /\ row + 1 \in 1 .. Len(replies)
    BY <1>1, <1>2
  <1>4. /\ replies[row + 1][1] \in Comments /\ replies[row + 1][2] \in Comments
        /\ replies[row + 1][2] < replies[row + 1][1] /\ creator \in [Comments -> Persons]
    BY <1>1, <1>3 DEF FilesRight
  <1>5. PairOfRow(row + 1) \in Pairs
    BY <1>4 DEF PairOfRow, Pairs
  <1>6. QED
    BY <1>1, <1>2, <1>3, <1>4, <1>5

\* The row is counted for its pair.
LEMMA RowCounted ==
    ASSUME CommentInv, reader # "tim", row < Len(replies), row' = row + 1, UNCHANGED files,
           \/ comment_map' = [comment_map EXCEPT ![PairOfRow(row + 1)] = @ + 1]
           \/ /\ comment_map' = comment_map
              /\ PairOfRow(row + 1)[1] = PairOfRow(row + 1)[2]
    PROVE  /\ row' \in 0 .. Len(replies')
           /\ comment_map' \in [Pairs -> Nat]
           /\ \A p \in Pairs : p[1] # p[2] => comment_map'[p] = Cardinality(RowsSoFar(p)')
  <1> DEFINE q == PairOfRow(row + 1)
  <1>1. /\ row \in Nat /\ row + 1 \in 1 .. Len(replies) /\ Len(replies) \in Nat
        /\ q \in Pairs /\ comment_map \in [Pairs -> Nat]
        /\ \A p \in Pairs : p[1] # p[2] => comment_map[p] = Cardinality(RowsSoFar(p))
    BY NextRow
  <1> HIDE DEF q
  <1>2. /\ comment_map' = [comment_map EXCEPT ![q] = @ + 1]
        \/ (comment_map' = comment_map /\ q[1] = q[2])
    BY DEF q
  <1>3. comment_map' \in [Pairs -> Nat]
    BY <1>1, <1>2
  <1>4. ASSUME NEW p \in Pairs, p[1] # p[2]
        PROVE  comment_map'[p] = Cardinality(RowsSoFar(p)')
    <2>1. comment_map'[p] = IF p = q THEN comment_map[p] + 1 ELSE comment_map[p]
      BY <1>1, <1>2, <1>4
    <2>2. Cardinality(RowsSoFar(p)') =
             IF q = p THEN Cardinality(RowsSoFar(p)) + 1 ELSE Cardinality(RowsSoFar(p))
      BY <1>1, RowAdded DEF q
    <2>3. QED
      BY <1>1, <1>4, <2>1, <2>2
  <1>5. row' \in 0 .. Len(replies')
    BY <1>1 DEF files
  <1>6. QED
    BY <1>3, <1>4, <1>5

\* read_comments counts the next row.
LEMMA CountReplyStep ==
    ASSUME CommentInv, CountReply
    PROVE  CommentInv'
  <1> DEFINE q == PairOfRow(row + 1)
  <1>1. /\ reader = "map" /\ pc = "replies" /\ row < Len(replies) /\ row' = row + 1
        /\ LET p == <<owner[replies[row'][1]], owner[replies[row'][2]]>>
           IN comment_map' = IF p[1] = p[2] THEN comment_map ELSE [comment_map EXCEPT ![p] = @ + 1]
        /\ UNCHANGED <<rows, friends, pc, comments, count, index, toVisit, ncmts, files, owner, read>>
    BY DEF CountReply
  <1>2. /\ CommentTypes' /\ TimInv' /\ Untouched' /\ MergeInv' /\ CountsRight'
        /\ reader' # "tim" /\ FilesRight' /\ count' = <<>>
    BY <1>1, ReadingAlone DEF Tims
  <1>3. owner = creator
    BY <1>1 DEF CommentInv, MapInv
  <1>4. comment_map' = IF q[1] = q[2] THEN comment_map ELSE [comment_map EXCEPT ![q] = @ + 1]
    BY <1>1, <1>3 DEF PairOfRow
  <1>5. /\ row' \in 0 .. Len(replies')
        /\ comment_map' \in [Pairs -> Nat]
        /\ \A p \in Pairs : p[1] # p[2] => comment_map'[p] = Cardinality(RowsSoFar(p)')
    <2>1. \/ comment_map' = [comment_map EXCEPT ![q] = @ + 1]
          \/ comment_map' = comment_map /\ q[1] = q[2]
      BY <1>4
    <2>2. QED
      BY <1>1, <2>1, RowCounted
  <1>6. MapInv'
    <2>1. Pairs' = Pairs /\ owner' = creator' /\ pc' = "replies" /\ reader' = "map"
      BY <1>1, <1>3 DEF files
    <2>2. QED
      BY <1>2, <1>5, <2>1 DEF MapInv
  <1>7. QED
    BY <1>2, <1>6 DEF CommentInv

\* Two comments of one slot are far from each other.
LEMMA SlotsDiffer ==
    ASSUME NEW c \in Nat, NEW d \in Nat, c < d, cid(d) - cid(c) < CacheLen
    PROVE  Slot(c) # Slot(d)
  <1>1. 10 * c \in Nat /\ 10 * d \in Nat /\ 10 * c < 10 * d /\ 10 * d - 10 * c < CacheLen
    BY DEF cid
  <1>2. (10 * c) % CacheLen # (10 * d) % CacheLen
    BY <1>1, RemaindersDiffer, CommentReadersAssumption
  <1>3. QED
    BY <1>2 DEF Slot, cid

\* read_comments_2file: up to the comment that replies, each owner over the one
\* before it in its slot; what the row replies to is still there.
LEMMA WindowMoves ==
    ASSUME CommentInv, ReadUpTo
    PROVE  Window' /\ owner'[Slot(replies[row + 1][2])] = creator[replies[row + 1][2]]
  <1> DEFINE c == replies[row + 1][1]
             t == replies[row + 1][2]
             Latest(s, d) == Slot(d) = s /\ \A e \in d + 1 .. c : Slot(e) # s
             put(s) == CHOOSE d \in read .. c : Latest(s, d)
  <1>1. /\ reader = "2file" /\ row < Len(replies) /\ row' = row + 1
        /\ owner' = [s \in DOMAIN owner |->
                        IF \E d \in read .. c : Slot(d) = s THEN creator[put(s)] ELSE owner[s]]
        /\ read' = c + 1 /\ UNCHANGED files
    BY DEF ReadUpTo
  <1>2. /\ row \in Nat /\ row + 1 \in 1 .. Len(replies) /\ Len(replies) \in Nat
        /\ c \in Comments /\ t \in Comments /\ t < c
        /\ FilesRight
    BY <1>1, NextRow
  <1>3. /\ owner = [s \in 0 .. CacheLen - 1 |-> owner[s]] /\ read \in Nat /\ read <= c
        /\ \A d \in 0 .. read - 1 :
              (\A e \in d + 1 .. read - 1 : Slot(e) # Slot(d)) => owner[Slot(d)] = creator[d]
    BY <1>1 DEF CommentInv, MapInv, Window
  <1>4. cid(c) - cid(t) < CacheLen
    BY <1>1, <1>2 DEF FilesRight
  <1> HIDE DEF c, t
  <1>5. c \in Nat /\ t \in Nat
    BY <1>2 DEF Comments
  <1>6. \A d \in Nat : Slot(d) \in 0 .. CacheLen - 1
    <2>1. ASSUME NEW d \in Nat PROVE Slot(d) \in 0 .. CacheLen - 1
      <3>1. 10 * d \in Nat
        OBVIOUS
      <3>2. QED
        BY <3>1, Division, CommentReadersAssumption DEF Slot, cid
    <2>2. QED
      BY <2>1
  <1>7. ASSUME NEW d \in 0 .. c, \A e \in d + 1 .. c : Slot(e) # Slot(d)
        PROVE  owner'[Slot(d)] = creator[d]
    <2> DEFINE s == Slot(d)
    <2>1. s \in DOMAIN owner
      BY <1>3, <1>6, <1>7
    <2>2. CASE d \in read .. c
      <3>1. d \in read .. c /\ Latest(s, d)
        BY <1>7, <2>2
      <3>2. \A e \in read .. c : Latest(s, e) => e = d
        <4>1. ASSUME NEW e \in read .. c, Latest(s, e), e # d PROVE FALSE
          <5>1. e \in d + 1 .. c \/ d \in e + 1 .. c
            BY <1>3, <1>5, <2>2, <4>1
          <5>2. QED
            BY <3>1, <4>1, <5>1
        <4>2. QED
          BY <4>1
      <3>3. put(s) = d
        <4> HIDE DEF s, Latest
        <4>1. QED
          BY <3>1, <3>2
      <3>4. \E e \in read .. c : Slot(e) = s
        BY <2>2
      <3>5. QED
        <4> HIDE DEF s, put
        <4>1. owner'[s] = creator[put(s)]
          BY <1>1, <2>1, <3>4
        <4>2. QED
          BY <3>3, <4>1 DEF s
    <2>3. CASE d \notin read .. c
      <3>1. d \in 0 .. read - 1 /\ \A e \in read .. c : e \in d + 1 .. c
        BY <1>3, <1>5, <2>3
      <3>2. ~ \E e \in read .. c : Slot(e) = s
        BY <1>7, <3>1
      <3>3. owner[s] = creator[d]
        <4>1. \A e \in d + 1 .. read - 1 : e \in d + 1 .. c
          BY <1>3, <1>5
        <4>2. QED
          BY <1>3, <1>7, <3>1, <4>1
      <3>4. QED
        <4> HIDE DEF s, put
        <4>1. owner'[s] = owner[s]
          BY <1>1, <2>1, <3>2
        <4>2. QED
          BY <3>3, <4>1 DEF s
    <2>4. QED
      BY <2>2, <2>3
  <1> HIDE DEF put
  <1>8. owner'[Slot(t)] = creator[t]
    <2>1. \A e \in t + 1 .. c : Slot(e) # Slot(t)
      <3>1. ASSUME NEW e \in t + 1 .. c PROVE Slot(e) # Slot(t)
        <4>1. e \in Nat /\ t < e /\ cid(e) - cid(t) < CacheLen
          <5>1. e \in Nat /\ t < e /\ e <= c
            BY <1>5
          <5>2. 10 * c - 10 * t < CacheLen
            BY <1>4 DEF cid
          <5>3. CacheLen \in Nat
            BY CommentReadersAssumption
          <5>4. 10 * e - 10 * t < CacheLen
            BY <1>5, <5>1, <5>2, <5>3
          <5>5. QED
            BY <5>1, <5>4 DEF cid
        <4>2. QED
          BY <1>5, <4>1, SlotsDiffer
      <3>2. QED
        BY <3>1
    <2>2. t \in 0 .. c
      BY <1>2, <1>5
    <2>3. QED
      BY <1>7, <2>1, <2>2
  <1>9. Window'
    <2>1. owner' = [s \in 0 .. CacheLen - 1 |-> owner'[s]]
      BY <1>1, <1>3
    <2>2. read' \in Nat
      BY <1>1, <1>5
    <2>3. ASSUME row' < Len(replies') PROVE read' <= replies'[row' + 1][1]
      <3>1. row + 2 \in 1 .. Len(replies) /\ row + 1 < row + 2 /\ row' + 1 = row + 2
        BY <1>1, <1>2, <2>3 DEF files
      <3>2. c < replies[row + 2][1] /\ replies[row + 2][1] \in Comments
        BY <1>2, <3>1 DEF FilesRight, c
      <3>3. replies[row + 2][1] \in Int /\ replies' = replies
        BY <1>1, <3>2, CommentReadersAssumption DEF Comments, files
      <3>4. QED
        BY <1>1, <1>5, <3>1, <3>2, <3>3
    <2>4. ASSUME NEW d \in 0 .. read' - 1,
                 \A e \in d + 1 .. read' - 1 : Slot(e) # Slot(d)
          PROVE  owner'[Slot(d)] = creator'[d]
      <3>1. read' - 1 = c /\ creator' = creator
        BY <1>1, <1>5 DEF files
      <3>2. QED
        BY <1>7, <2>4, <3>1
    <2>5. \A d : Slot(d)' = Slot(d)
      BY DEF Slot, cid
    <2>6. QED
      BY <2>1, <2>2, <2>3, <2>4, <2>5 DEF Window
  <1>10. QED
    BY <1>8, <1>9 DEF t

\* read_comments_2file counts the next row.
LEMMA ReadUpToStep ==
    ASSUME CommentInv, ReadUpTo
    PROVE  CommentInv'
  <1>1. /\ reader = "2file" /\ pc = "replies" /\ row < Len(replies) /\ row' = row + 1
        /\ comment_map' = [comment_map EXCEPT
              ![<<creator[replies[row + 1][1]], owner'[Slot(replies[row + 1][2])]>>] = @ + 1]
        /\ UNCHANGED <<rows, friends, pc, comments, count, index, toVisit, ncmts, files>>
    BY DEF ReadUpTo
  <1>2. /\ CommentTypes' /\ TimInv' /\ Untouched' /\ MergeInv' /\ CountsRight'
        /\ reader' # "tim" /\ FilesRight' /\ count' = <<>>
    BY <1>1, ReadingAlone DEF Tims
  <1>3. Window' /\ owner'[Slot(replies[row + 1][2])] = creator[replies[row + 1][2]]
    BY WindowMoves
  <1>4. comment_map' = [comment_map EXCEPT ![PairOfRow(row + 1)] = @ + 1]
    BY <1>1, <1>3 DEF PairOfRow
  <1>5. /\ row' \in 0 .. Len(replies')
        /\ comment_map' \in [Pairs -> Nat]
        /\ \A p \in Pairs : p[1] # p[2] => comment_map'[p] = Cardinality(RowsSoFar(p)')
    BY <1>1, <1>4, RowCounted
  <1>6. pc' = "replies" /\ reader' = "2file"
    BY <1>1 DEF files
  <1>7. MapInv'
    BY <1>2, <1>3, <1>5, <1>6 DEF MapInv
  <1>8. QED
    BY <1>2, <1>7 DEF CommentInv

\* All rows are read: the map has the numbers of the file.
LEMMA TakeCountsStep ==
    ASSUME CommentInv, TakeCounts
    PROVE  CommentInv'
  <1>1. /\ pc = "replies" /\ row = Len(replies)
        /\ ncmts' = [p \in friends |-> Smaller(comment_map[p], comment_map[<<p[2], p[1]>>])]
        /\ toVisit' = {} /\ pc' = "done"
        /\ UNCHANGED <<rows, friends, comments, count, index, files, row, owner, read, comment_map>>
    BY DEF TakeCounts
  <1>2. reader # "tim" /\ CommentTypes
    BY <1>1 DEF CommentInv, TimInv
  <1>3. /\ FilesRight /\ count = <<>> /\ row \in 0 .. Len(replies) /\ comment_map \in [Pairs -> Nat]
        /\ \A p \in Pairs : p[1] # p[2] => comment_map[p] = Cardinality(RowsSoFar(p))
        /\ reader = "2file" => Window
    BY <1>2 DEF CommentInv, MapInv
  <1>4. \A p \in Pairs : RowsSoFar(p) = {r \in 1 .. Len(replies) : PairOfRow(r) = p}
    BY <1>1 DEF RowsSoFar
  <1>5. \A p \in Pairs : p[1] # p[2] => comment_map[p] = rows[p]
    <2>1. \A p \in Pairs : rows[p] = RowsOf(p)
      BY <1>3 DEF FilesRight
    <2>2. \A p \in Pairs : RowsOf(p) = Cardinality(RowsSoFar(p))
      BY <1>4 DEF RowsOf, PairOfRow
    <2>3. QED
      BY <1>3, <2>1, <2>2
  <1>6. ASSUME NEW p \in friends
        PROVE  /\ ncmts'[p] = Mutual(p) /\ <<p[2], p[1]>> \in friends
               /\ Mutual(p) = Mutual(<<p[2], p[1]>>) /\ Mutual(p)' = Mutual(p)
    <2> DEFINE q == <<p[2], p[1]>>
    <2>1. /\ p \in Pairs /\ p[1] # p[2] /\ q \in friends /\ q \in Pairs
          /\ Mutual(p) = Mutual(q) /\ Mutual(p) = Smaller(rows[p], rows[q])
      BY <1>2, MutualSame DEF CommentTypes
    <2>2. q[1] # q[2]
      BY <2>1
    <2>3. comment_map[p] = rows[p] /\ comment_map[q] = rows[q]
      <3> HIDE DEF q
      <3>1. QED
        BY <1>5, <2>1, <2>2
    <2>4. ncmts'[p] = Smaller(comment_map[p], comment_map[q])
      BY <1>1
    <2>5. Mutual(p)' = Mutual(p)
      BY <1>1 DEF Mutual
    <2>6. QED
      BY <2>1, <2>3, <2>4, <2>5
  <1>7. reader' # "tim" /\ reader' = reader
    BY <1>1, <1>2 DEF files
  <1>8. CommentTypes'
    BY <1>1, <1>2, <1>7 DEF CommentTypes
  <1>9. TimInv' /\ Untouched'
    BY <1>1, <1>7 DEF TimInv, Untouched
  <1>10. MapInv'
    <2>1. FilesRight'
      BY <1>1, <1>3 DEF FilesRight, RowsOf, files
    <2>2. \A p : RowsSoFar(p)' = RowsSoFar(p)
      BY <1>1 DEF RowsSoFar, PairOfRow, files
    <2>3. Window => Window'
      BY <1>1 DEF Window, files, Slot
    <2>4. replies' = replies
      BY <1>1 DEF files
    <2>5. QED
      BY <1>1, <1>3, <1>7, <2>1, <2>2, <2>3, <2>4 DEF MapInv
  <1>11. CountsRight'
    <2>1. ASSUME NEW p \in friends'
          PROVE  ncmts'[p] = Mutual(p)' /\ ncmts'[p] = ncmts'[<<p[2], p[1]>>]
      <3>1. p \in friends
        BY <1>1
      <3>2. QED
        BY <1>6, <3>1
    <2>2. QED
      BY <2>1 DEF CountsRight
  <1>12. MergeInv'
    <2>1. index' <= Len(count') /\ \A m \in 0 .. Len(count') - 2 : Less(At(m)'.first, At(m + 1)'.first)
      BY <1>1 DEF CommentInv, MergeInv, At
    <2>2. \A p \in friends' : ncmts'[p] = IF p \in toVisit' THEN 0 ELSE Mutual(p)'
      BY <1>1, <1>6
    <2>3. QED
      BY <1>1, <2>1, <2>2 DEF MergeInv
  <1>13. QED
    BY <1>8, <1>9, <1>10, <1>11, <1>12 DEF CommentInv

\* Nothing happens.
LEMMA CommentStutter ==
    ASSUME CommentInv, UNCHANGED readerVars
    PROVE  CommentInv'
  <1> USE DEF readerVars, vars, files
  <1>1. CommentTypes'
    BY DEF CommentInv, CommentTypes
  <1>2. TimInv'
    <2>1. CountMade => CountMade'
      BY DEF CountMade, At, Counted
    <2>2. Kept' = Kept
      BY DEF Kept
    <2>3. QED
      BY <2>1, <2>2 DEF CommentInv, TimInv
  <1>3. MapInv'
    <2>1. FilesRight => FilesRight'
      BY DEF FilesRight, RowsOf
    <2>2. \A p : RowsSoFar(p)' = RowsSoFar(p)
      BY DEF RowsSoFar, PairOfRow
    <2>3. Window => Window'
      BY DEF Window, Slot
    <2>4. QED
      BY <2>1, <2>2, <2>3 DEF CommentInv, MapInv
  <1>4. Untouched'
    BY DEF CommentInv, Untouched
  <1>5. MergeInv'
    BY DEF CommentInv, MergeInv, Mutual, At
  <1>6. CountsRight'
    BY DEF CommentInv, CountsRight, Mutual
  <1>7. QED
    BY <1>1, <1>2, <1>3, <1>4, <1>5, <1>6 DEF CommentInv

\* Each step of each reader keeps the invariant.
LEMMA CommentInvNext ==
    ASSUME CommentInv, [ReadersNext]_readerVars
    PROVE  CommentInv'
  <1>1. CASE UNCHANGED readerVars
    BY <1>1, CommentStutter
  <1>2. CASE Filter /\ UNCHANGED Others
    BY <1>2, FilterStep
  <1>3. CASE Aggregate /\ UNCHANGED Others
    BY <1>3, AggregateStep
  <1>4. CASE ReadEmpty /\ UNCHANGED Others
    BY <1>4, ReadEmptyStep
  <1>5. CASE Finish /\ UNCHANGED Others
    BY <1>5, FinishStep
  <1>6. CASE (\E p \in Pairs : Merge(p)) /\ UNCHANGED Others
    <2>1. PICK p \in Pairs : Merge(p)
      BY <1>6
    <2>2. QED
      BY <1>6, <2>1, MergeStep
  <1>7. CASE ReadCreators
    BY <1>7, ReadCreatorsStep
  <1>8. CASE CountReply
    BY <1>8, CountReplyStep
  <1>9. CASE ReadUpTo
    BY <1>9, ReadUpToStep
  <1>10. CASE TakeCounts
    BY <1>10, TakeCountsStep
  <1>11. QED
    BY <1>1, <1>2, <1>3, <1>4, <1>5, <1>6, <1>7, <1>8, <1>9, <1>10 DEF ReadersNext, Next, Others

\* The merge of read_comments_tim is right as far as it has come: count is in
\* order, what the merge has passed is before every entry to come, and the
\* entries visited have their numbers.
THEOREM CommentsMerged == ReadersSpec => []MergeInv
  <1>1. CommentInv => MergeInv
    BY DEF CommentInv
  <1>2. QED
    BY <1>1, CommentInvInit, CommentInvNext, PTL DEF ReadersSpec

\* Each of the three readers of comments ends with the replies both ways, for
\* each friendship of any network and any files, the windowed owners of
\* read_comments_2file and the entries that the merge never comes to included.
THEOREM CommentsCounted == ReadersSpec => []CountsRight
  <1>1. CommentInv => CountsRight
    BY DEF CommentInv
  <1>2. QED
    BY <1>1, CommentInvInit, CommentInvNext, PTL DEF ReadersSpec

-----------------------------------------------------------------------------
(* DataReader: the invariant.                                              *)

phase == at["reader"]
rowsRead == done["reader"]

\* Where the threads are, and how far the reader is in its file.
Place ==
    /\ file \in DataFiles
    /\ at = [t \in Threads |-> at[t]]
    /\ done \in [Threads -> Nat]
    /\ phase \in {"tag", "interest", "forumTag", "member"}
    /\ phase = "tag" => rowsRead <= Len(file.tag)
    /\ phase = "forumTag" => rowsRead <= Len(file.forumTag)
    /\ phase = "member" => rowsRead <= Len(file.member)

\* The rows of the tags that are read.
TagRows == IF phase = "tag" THEN rowsRead ELSE Len(file.tag)

TagsSoFar ==
    /\ tag_name \in Seq(Names)
    /\ Len(tag_name) = TagRows
    /\ \A n \in 1 .. TagRows :
          /\ tag_name[n] = file.tag[n][2]
          /\ file.tag[n][1] \in DOMAIN id_map
          /\ id_map[file.tag[n][1]] = n
    /\ \A tid : tid \in q4_tag_ids <=>
                \E n \in 1 .. TagRows : file.tag[n][1] = tid /\ file.tag[n][2] \in file.q4_tag_set

\* The rows of the tags of forums that are read.
ForumRows == IF phase = "forumTag" THEN rowsRead ELSE IF phase = "member" THEN Len(file.forumTag) ELSE 0

\* Row m gives forum fid a tag that is asked for.
Gives(m, fid) == file.forumTag[m][1] = fid /\ file.forumTag[m][2] \in q4_tag_ids

\* c is the index of a tag that the first k rows give forum fid.
FromRows(c, fid, k) == \E m \in 1 .. k : Gives(m, fid) /\ c = id_map[file.forumTag[m][2]]

Among(c, s) == \E n \in DOMAIN s : s[n] = c

\* The list of forum fid has the indices of its tags among the first k rows.
ListOf(fid, k) ==
    /\ fid \in DOMAIN forum_to_tags <=> \E m \in 1 .. k : Gives(m, fid)
    /\ fid \in DOMAIN forum_to_tags =>
          /\ forum_to_tags[fid] \in Seq(Nat)
          /\ \A c : Among(c, forum_to_tags[fid]) <=> FromRows(c, fid, k)

ForumsSoFar == \A fid \in Forums : ListOf(fid, ForumRows)

\* The persons of a name in the rows of members that are read.
MembersOf(name, n) ==
    {p \in PersonIds : \E f \in Forums, m \in 1 .. n : file.member[m] = <<f, p>> /\ name \in NamesOf(f)}

MembersSoFar ==
    /\ phase \in {"interest", "forumTag"} => q4_persons = [name \in file.q4_tag_set |-> {}]
    /\ phase = "member" =>
          /\ q4_persons = [name \in file.q4_tag_set |-> MembersOf(name, rowsRead)]
          /\ last \in [fid : Forums \cup {None}, skip : BOOLEAN]
          /\ last.fid # None =>
                /\ last.skip <=> last.fid \notin DOMAIN forum_to_tags
                /\ ~ last.skip => \A name \in file.q4_tag_set :
                      (\E n \in DOMAIN hashes : hashes[n] = name) <=> name \in NamesOf(last.fid)

DataInv == Place /\ TagsSoFar /\ ForumsSoFar /\ MembersSoFar

-----------------------------------------------------------------------------
\* What the assumption says of the files of this behaviour.
LEMMA FileTypes ==
    ASSUME file \in DataFiles
    PROVE  /\ file.tag \in Seq(TagIds \X Names)
           /\ \A m, n \in DOMAIN file.tag : file.tag[m][1] = file.tag[n][1] => m = n
           /\ file.q4_tag_set \subseteq Names
           /\ file.forumTag \in Seq(Forums \X TagIds)
           /\ file.member \in Seq(Forums \X PersonIds)
           /\ Len(file.tag) \in Nat /\ Len(file.forumTag) \in Nat /\ Len(file.member) \in Nat
           /\ None \notin Forums
  <1>1. /\ file.tag \in Seq(TagIds \X Names)
        /\ \A m, n \in DOMAIN file.tag : file.tag[m][1] = file.tag[n][1] => m = n
        /\ file.q4_tag_set \subseteq Names
        /\ file.forumTag \in Seq(Forums \X TagIds)
        /\ file.member \in Seq(Forums \X PersonIds)
    BY DataReaderAssumption, Zenon
  <1>2. Len(file.tag) \in Nat /\ Len(file.forumTag) \in Nat /\ Len(file.member) \in Nat
    BY <1>1
  <1>3. QED
    BY <1>1, <1>2, DataReaderAssumption, Zenon

\* Nothing is read in the beginning.
LEMMA DataInvInit == DataInit => DataInv
  <1> SUFFICES ASSUME DataInit PROVE DataInv
    OBVIOUS
  <1>1. /\ phase = "tag" /\ rowsRead = 0
        /\ at = [t \in Threads |-> at[t]] /\ done \in [Threads -> Nat]
    <2>1. DataInit => at["reader"] = "tag" /\ done["reader"] = 0
      BY DEF DataInit, Threads
    <2>2. at = [t \in Threads |-> at[t]] /\ done \in [Threads -> Nat]
      BY Zenon DEF DataInit
    <2>3. QED
      BY <2>1, <2>2 DEF phase, rowsRead
  <1>2. Place
    <2>1. file \in DataFiles
      BY DEF DataInit
    <2>2. Len(file.tag) \in Nat
      BY <2>1, FileTypes
    <2>3. QED
      BY <1>1, <2>1, <2>2 DEF Place
  <1>3. TagsSoFar
    <2>1. tag_name = <<>> /\ q4_tag_ids = {}
      BY DEF DataInit
    <2>2. TagRows = 0
      BY <1>1 DEF TagRows
    <2>3. QED
      BY <2>1, <2>2 DEF TagsSoFar
  <1>4. ForumsSoFar
    <2>1. forum_to_tags = <<>>
      BY DEF DataInit
    <2>2. ForumRows = 0
      BY <1>1 DEF ForumRows
    <2>3. QED
      BY <2>1, <2>2 DEF ForumsSoFar, ListOf
  <1>5. MembersSoFar
    BY <1>1 DEF MembersSoFar
  <1>6. QED
    BY <1>2, <1>3, <1>4, <1>5 DEF DataInv

-----------------------------------------------------------------------------
\* A row of the tags: ids are unique, so that no index is written over.
LEMMA ReadTagStep == DataInv /\ ReadTag => DataInv'
  <1> SUFFICES ASSUME DataInv, ReadTag PROVE DataInv'
    OBVIOUS
  <1> DEFINE tid == file.tag[rowsRead + 1][1]
             name == file.tag[rowsRead + 1][2]
  <1>1. /\ phase = "tag" /\ rowsRead < Len(file.tag) /\ rowsRead \in Nat
        /\ file' = file /\ at' = at /\ done' = [done EXCEPT !["reader"] = @ + 1]
        /\ id_map' = Put(id_map, tid, Len(tag_name) + 1)
        /\ tag_name' = Append(tag_name, name)
        /\ q4_tag_ids' = IF name \in file.q4_tag_set THEN q4_tag_ids \cup {tid} ELSE q4_tag_ids
        /\ UNCHANGED forumVars
    BY DEF ReadTag, Reading, Row, OneRow, DataInv, Place, phase, rowsRead, Threads
  <1>2. phase' = "tag" /\ rowsRead' = rowsRead + 1
    BY <1>1 DEF DataInv, Place, phase, rowsRead, Threads
  <1>3. /\ file.tag \in Seq(TagIds \X Names) /\ Len(file.tag) \in Nat
        /\ \A m, n \in DOMAIN file.tag : file.tag[m][1] = file.tag[n][1] => m = n
    BY FileTypes DEF DataInv, Place
  <1>4. Place'
    BY <1>1, <1>2, <1>3 DEF DataInv, Place, Threads
  <1>5. name \in Names /\ tid \in TagIds
    BY <1>1, <1>3
  <1>6. tag_name' \in Seq(Names) /\ Len(tag_name') = rowsRead + 1
        /\ \A n \in 1 .. rowsRead + 1 : tag_name'[n] = file.tag[n][2]
    BY <1>1, <1>5 DEF DataInv, TagsSoFar, TagRows
  <1>7. \A n \in 1 .. rowsRead + 1 : file.tag[n][1] \in DOMAIN id_map' /\ id_map'[file.tag[n][1]] = n
    <2>1. id_map'[tid] = rowsRead + 1 /\ tid \in DOMAIN id_map'
      BY <1>1 DEF Put, DataInv, TagsSoFar, TagRows
    <2>2. ASSUME NEW n \in 1 .. rowsRead
          PROVE  file.tag[n][1] \in DOMAIN id_map' /\ id_map'[file.tag[n][1]] = n
      <3>1. file.tag[n][1] # tid
        BY <1>1, <1>3
      <3>2. file.tag[n][1] \in DOMAIN id_map /\ id_map[file.tag[n][1]] = n
        BY <1>1 DEF DataInv, TagsSoFar, TagRows
      <3>3. QED
        BY <1>1, <3>1, <3>2 DEF Put
    <2>3. \A n \in 1 .. rowsRead + 1 : n \in 1 .. rowsRead \/ n = rowsRead + 1
      BY <1>1
    <2>4. QED
      BY <2>1, <2>2, <2>3
  <1>8. \A t : t \in q4_tag_ids' <=>
             \E n \in 1 .. rowsRead + 1 : file.tag[n][1] = t /\ file.tag[n][2] \in file.q4_tag_set
    <2>1. \A t : t \in q4_tag_ids <=>
             \E n \in 1 .. rowsRead : file.tag[n][1] = t /\ file.tag[n][2] \in file.q4_tag_set
      BY <1>1 DEF DataInv, TagsSoFar, TagRows
    <2>2. 1 .. rowsRead + 1 = (1 .. rowsRead) \cup {rowsRead + 1}
      BY <1>1
    <2>3. ASSUME NEW t
          PROVE  (\E n \in 1 .. rowsRead + 1 : file.tag[n][1] = t /\ file.tag[n][2] \in file.q4_tag_set)
                 <=> (t \in q4_tag_ids \/ (t = tid /\ name \in file.q4_tag_set))
      BY <2>1, <2>2
    <2>4. \A t : t \in q4_tag_ids' <=> t \in q4_tag_ids \/ (t = tid /\ name \in file.q4_tag_set)
      <3>1. CASE name \in file.q4_tag_set
        BY <1>1, <3>1
      <3>2. CASE name \notin file.q4_tag_set
        BY <1>1, <3>2
      <3>3. QED
        BY <3>1, <3>2
    <2>5. QED
      BY <2>3, <2>4
  <1>9. TagsSoFar'
    BY <1>1, <1>2, <1>6, <1>7, <1>8 DEF TagsSoFar, TagRows
  <1>10. ForumsSoFar'
    BY <1>1, <1>2 DEF DataInv, ForumsSoFar, ListOf, ForumRows, forumVars
  <1>11. MembersSoFar'
    BY <1>2 DEF MembersSoFar
  <1>12. QED
    BY <1>4, <1>9, <1>10, <1>11 DEF DataInv

\* What the rows of the tags of forums have put in forum_to_tags is the same as
\* long as no more of them is read.
LEMMA SameForums ==
    ASSUME ForumsSoFar, ForumRows' = ForumRows,
           UNCHANGED <<file, id_map, q4_tag_ids, forum_to_tags>>
    PROVE  ForumsSoFar'
  <1>1. ASSUME NEW fid \in Forums
        PROVE  ListOf(fid, ForumRows)'
    <2>1. \A m : Gives(m, fid)' <=> Gives(m, fid)
      BY DEF Gives
    <2>2. ListOf(fid, ForumRows)
      BY DEF ForumsSoFar
    <2>3. QED
      BY <2>1, <2>2 DEF ListOf, FromRows
  <1>2. QED
    BY <1>1 DEF ForumsSoFar

\* What a sequence with one more element has in it.
LEMMA AmongAppend ==
    ASSUME NEW S, NEW s \in Seq(S), NEW e \in S
    PROVE  /\ Append(s, e) \in Seq(S)
           /\ \A c : Among(c, Append(s, e)) <=> Among(c, s) \/ c = e
  <1>1. /\ Append(s, e) \in Seq(S) /\ Len(s) \in Nat
        /\ DOMAIN s = 1 .. Len(s) /\ DOMAIN Append(s, e) = 1 .. Len(s) + 1
        /\ \A n \in 1 .. Len(s) : Append(s, e)[n] = s[n]
        /\ Append(s, e)[Len(s) + 1] = e
    OBVIOUS
  <1>2. \A n \in 1 .. Len(s) + 1 : n \in 1 .. Len(s) \/ n = Len(s) + 1
    BY <1>1
  <1>3. QED
    BY <1>1, <1>2 DEF Among

\* The next file: the rows of the tags are all read.
LEMMA AllocateTagsStep == DataInv /\ AllocateTags => DataInv'
  <1> SUFFICES ASSUME DataInv, AllocateTags PROVE DataInv'
    OBVIOUS
  <1>1. /\ phase = "tag" /\ rowsRead = Len(file.tag)
        /\ file' = file
        /\ at' = [at EXCEPT !["reader"] = "interest"] /\ done' = [done EXCEPT !["reader"] = 0]
        /\ UNCHANGED <<id_map, tag_name, q4_tag_ids, forum_to_tags, last, hashes>>
        /\ q4_persons' = [name \in file.q4_tag_set |-> {}]
    BY DEF AllocateTags, AtEnd, To, phase, rowsRead
  <1>2. phase' = "interest" /\ rowsRead' = 0
    BY <1>1 DEF DataInv, Place, phase, rowsRead, Threads
  <1>3. Place'
    BY <1>1, <1>2 DEF DataInv, Place, Threads
  <1>4. TagsSoFar'
    <2>1. TagRows' = TagRows
      BY <1>1, <1>2 DEF TagRows
    <2>2. QED
      BY <1>1, <2>1 DEF DataInv, TagsSoFar
  <1>5. ForumsSoFar'
    <2>1. ForumRows' = ForumRows
      BY <1>1, <1>2 DEF ForumRows
    <2>2. QED
      BY <1>1, <2>1, SameForums DEF DataInv
  <1>6. MembersSoFar'
    BY <1>1, <1>2 DEF MembersSoFar
  <1>7. QED
    BY <1>3, <1>4, <1>5, <1>6 DEF DataInv

\* A step that leaves the reader's structures alone, in its phase.
LEMMA SameReader ==
    ASSUME DataInv, Place', phase' = phase,
           phase = "interest" \/ rowsRead' = rowsRead,
           UNCHANGED <<file, id_map, tag_name, q4_tag_ids, forumVars>>
    PROVE  DataInv'
  <1>1. TagsSoFar'
    <2>1. TagRows' = TagRows
      BY DEF TagRows
    <2>2. QED
      BY <2>1 DEF DataInv, TagsSoFar
  <1>2. ForumsSoFar'
    <2>1. ForumRows' = ForumRows
      BY DEF ForumRows
    <2>2. QED
      BY <2>1, SameForums DEF DataInv, forumVars
  <1>3. MembersSoFar'
    <2>1. \A f : NamesOf(f)' = NamesOf(f)
      BY DEF NamesOf
    <2>2. \A name, n : MembersOf(name, n)' = MembersOf(name, n)
      BY <2>1 DEF MembersOf
    <2>3. MembersSoFar
      BY DEF DataInv
    <2>4. /\ phase' = phase /\ (phase = "interest" \/ rowsRead' = rowsRead)
          /\ file' = file /\ q4_persons' = q4_persons /\ last' = last /\ hashes' = hashes
          /\ forum_to_tags' = forum_to_tags
      BY DEF forumVars
    <2>5. QED
      BY <2>1, <2>2, <2>3, <2>4 DEF MembersSoFar
  <1>4. QED
    BY <1>1, <1>2, <1>3 DEF DataInv

\* Interests, and the thread of places, which the reader's structures do not
\* depend on.
LEMMA OtherSteps ==
    DataInv /\ (\/ ReadInterest \/ BuildPlacesTree \/ ReadLocated \/ ReadOrgs
                \/ ReadOrgPlace \/ SortUnique \/ UNCHANGED dataVars) => DataInv'
  <1> SUFFICES ASSUME DataInv,
                      \/ ReadInterest \/ BuildPlacesTree \/ ReadLocated \/ ReadOrgs
                      \/ ReadOrgPlace \/ SortUnique \/ UNCHANGED dataVars
               PROVE  DataInv'
    OBVIOUS
  <1>1. UNCHANGED <<file, id_map, tag_name, q4_tag_ids, forumVars>>
    BY DEF ReadInterest, BuildPlacesTree, ReadLocated, ReadOrgs, ReadOrgPlace, SortUnique,
           dataVars, tagVars, forumVars
  <1>2. CASE ReadInterest
    <2>1. /\ phase = "interest" /\ phase' = phase
          /\ at' = at /\ done' = [done EXCEPT !["reader"] = @ + 1]
      BY <1>2 DEF ReadInterest, Reading, OneRow, phase
    <2>2. Place'
      BY <1>1, <2>1 DEF DataInv, Place, Threads
    <2>3. QED
      BY <1>1, <2>1, <2>2, SameReader
  <1>3. CASE ReadLocated \/ ReadOrgPlace
    <2>1. at' = at /\ done' = [done EXCEPT !["places"] = @ + 1]
      BY <1>3 DEF ReadLocated, ReadOrgPlace, OneRow
    <2>2. phase' = phase /\ rowsRead' = rowsRead
      BY <2>1 DEF DataInv, Place, phase, rowsRead, Threads
    <2>3. Place'
      BY <1>1, <2>1, <2>2 DEF DataInv, Place, Threads
    <2>4. QED
      BY <1>1, <2>2, <2>3, SameReader
  <1>4. CASE BuildPlacesTree \/ ReadOrgs \/ SortUnique
    <2>1. PICK name : at' = [at EXCEPT !["places"] = name] /\ done' = [done EXCEPT !["places"] = 0]
      BY <1>4 DEF BuildPlacesTree, ReadOrgs, SortUnique, To
    <2>2. phase' = phase /\ rowsRead' = rowsRead
      BY <2>1 DEF DataInv, Place, phase, rowsRead, Threads
    <2>3. Place'
      BY <1>1, <2>1, <2>2 DEF DataInv, Place, Threads
    <2>4. QED
      BY <1>1, <2>2, <2>3, SameReader
  <1>5. CASE UNCHANGED dataVars
    <2>1. at' = at /\ done' = done
      BY <1>5 DEF dataVars
    <2>2. phase' = phase /\ rowsRead' = rowsRead
      BY <2>1 DEF phase, rowsRead
    <2>3. Place'
      BY <1>1, <2>1, <2>2 DEF DataInv, Place
    <2>4. QED
      BY <1>1, <2>2, <2>3, SameReader
  <1>6. QED
    BY <1>2, <1>3, <1>4, <1>5

\* The thread of places starts; no row of the tags of forums is read.
LEMMA StartPlacesStep == DataInv /\ StartPlaces => DataInv'
  <1> SUFFICES ASSUME DataInv, StartPlaces PROVE DataInv'
    OBVIOUS
  <1>1. /\ phase = "interest"
        /\ at' = [t \in Threads |-> IF t = "reader" THEN "forumTag" ELSE "tree"]
        /\ done' = [t \in Threads |-> 0]
        /\ UNCHANGED <<file, id_map, tag_name, q4_tag_ids, forumVars>>
    BY DEF StartPlaces, AtEnd, phase, tagVars
  <1>2. phase' = "forumTag" /\ rowsRead' = 0
    BY <1>1 DEF phase, rowsRead, Threads
  <1>3. Place'
    <2>1. Len(file.forumTag) \in Nat
      BY FileTypes DEF DataInv, Place
    <2>2. file' \in DataFiles
      BY <1>1 DEF DataInv, Place
    <2>3. at' = [t \in Threads |-> at'[t]] /\ done' \in [Threads -> Nat]
      BY <1>1
    <2>4. QED
      BY <1>1, <1>2, <2>1, <2>2, <2>3 DEF Place
  <1>4. TagsSoFar'
    <2>1. TagRows' = TagRows
      BY <1>1, <1>2 DEF TagRows
    <2>2. QED
      BY <1>1, <2>1 DEF DataInv, TagsSoFar
  <1>5. ForumsSoFar'
    <2>1. ForumRows' = ForumRows
      BY <1>1, <1>2 DEF ForumRows
    <2>2. QED
      BY <1>1, <2>1, SameForums DEF DataInv, forumVars
  <1>6. MembersSoFar'
    BY <1>1, <1>2 DEF DataInv, MembersSoFar, forumVars
  <1>7. QED
    BY <1>3, <1>4, <1>5, <1>6 DEF DataInv

\* A row of the tags of forums adds its tag to the list of its forum, or
\* nothing when no query asks for it.
LEMMA ReadForumTagStep == DataInv /\ ReadForumTag => DataInv'
  <1> SUFFICES ASSUME DataInv, ReadForumTag PROVE DataInv'
    OBVIOUS
  <1>0. phase = "forumTag" /\ rowsRead < Len(file.forumTag) /\ rowsRead \in Nat
    BY DEF ReadForumTag, Reading, DataInv, Place, phase, rowsRead, Threads
  <1> PICK k \in Nat : k = rowsRead + 1
    BY <1>0
  <1> PICK fid : fid = file.forumTag[k][1]
    OBVIOUS
  <1> PICK tid : tid = file.forumTag[k][2]
    OBVIOUS
  <1> PICK list : list = IF fid \in DOMAIN forum_to_tags THEN forum_to_tags[fid] ELSE <<>>
    OBVIOUS
  <1>1. /\ file' = file /\ at' = at /\ done' = [done EXCEPT !["reader"] = @ + 1]
        /\ UNCHANGED <<id_map, tag_name, q4_tag_ids, q4_persons, hashes>>
        /\ tid \notin q4_tag_ids => forum_to_tags' = forum_to_tags
        /\ tid \in q4_tag_ids => forum_to_tags' = Put(forum_to_tags, fid, Append(list, id_map[tid]))
    BY <1>0 DEF ReadForumTag, Reading, Row, OneRow, phase, rowsRead, tagVars
  <1>2. phase' = "forumTag" /\ rowsRead' = k
    BY <1>0, <1>1 DEF DataInv, Place, phase, rowsRead, Threads
  <1>3. /\ file.forumTag \in Seq(Forums \X TagIds) /\ Len(file.forumTag) \in Nat
        /\ Len(file.tag) \in Nat
    BY FileTypes DEF DataInv, Place
  <1>4. Place'
    BY <1>0, <1>1, <1>2, <1>3 DEF DataInv, Place, Threads
  <1>5. fid \in Forums
    BY <1>0, <1>3
  <1>6. TagsSoFar'
    <2>1. TagRows' = TagRows
      BY <1>0, <1>1, <1>2 DEF TagRows
    <2>2. QED
      BY <1>1, <2>1 DEF DataInv, TagsSoFar
  <1>7. \A m, f : Gives(m, f)' <=> Gives(m, f)
    BY <1>1 DEF Gives
  <1>8. \A m \in 1 .. k : m \in 1 .. rowsRead \/ m = k
    BY <1>0
  <1>9. 1 .. rowsRead \subseteq 1 .. k /\ k \in 1 .. k
    BY <1>0
  <1>10. \A f \in Forums : ListOf(f, rowsRead)
    BY <1>0 DEF DataInv, ForumsSoFar, ForumRows
  <1>11. \A c, f : FromRows(c, f, k)' <=> FromRows(c, f, rowsRead) \/ (Gives(k, f) /\ c = id_map[tid])
    BY <1>1, <1>7, <1>8, <1>9 DEF FromRows
  <1>12. \A f : (\E m \in 1 .. k : Gives(m, f)') <=> (\E m \in 1 .. rowsRead : Gives(m, f)) \/ Gives(k, f)
    BY <1>7, <1>8, <1>9
  <1>13. ASSUME NEW f \in Forums
         PROVE  ListOf(f, k)'
    <2>1. CASE ~ Gives(k, f)
      <3>1. /\ f \in DOMAIN forum_to_tags' <=> f \in DOMAIN forum_to_tags
            /\ f \in DOMAIN forum_to_tags => forum_to_tags'[f] = forum_to_tags[f]
        BY <1>1, <2>1 DEF Put, Gives
      <3>2. \A c : FromRows(c, f, k)' <=> FromRows(c, f, rowsRead)
        BY <1>11, <2>1
      <3>3. f \in DOMAIN forum_to_tags' <=> \E m \in 1 .. k : Gives(m, f)'
        BY <1>10, <1>12, <2>1, <3>1 DEF ListOf
      <3>4. ASSUME f \in DOMAIN forum_to_tags'
            PROVE  /\ forum_to_tags'[f] \in Seq(Nat)
                   /\ \A c : Among(c, forum_to_tags'[f]) <=> FromRows(c, f, k)'
        BY <1>10, <3>1, <3>2, <3>4 DEF ListOf
      <3>5. QED
        BY <3>3, <3>4 DEF ListOf, Among
    <2>2. CASE Gives(k, f)
      <3>1. f = fid /\ tid \in q4_tag_ids
        BY <2>2 DEF Gives
      <3>2. f \in DOMAIN forum_to_tags' /\ forum_to_tags'[f] = Append(list, id_map[tid])
        BY <1>1, <3>1 DEF Put
      <3>3. id_map[tid] \in Nat
        <4>1. PICK n \in 1 .. TagRows : file.tag[n][1] = tid
          BY <3>1 DEF DataInv, TagsSoFar
        <4>2. id_map[tid] = n /\ TagRows \in Nat
          BY <1>0, <1>3, <4>1 DEF DataInv, TagsSoFar, TagRows
        <4>3. QED
          BY <4>1, <4>2
      <3>4. list \in Seq(Nat) /\ \A c : Among(c, list) <=> FromRows(c, f, rowsRead)
        <4>1. CASE f \in DOMAIN forum_to_tags
          BY <1>10, <3>1, <4>1 DEF ListOf
        <4>2. CASE f \notin DOMAIN forum_to_tags
          <5>1. list = <<>> /\ ~ \E m \in 1 .. rowsRead : Gives(m, f)
            BY <1>10, <3>1, <4>2 DEF ListOf
          <5>2. \A c : ~ FromRows(c, f, rowsRead)
            BY <5>1 DEF FromRows
          <5>3. list \in Seq(Nat) /\ Len(list) = 0
            <6>1. <<>> \in Seq(Nat) /\ Len(<<>>) = 0
              OBVIOUS
            <6>2. QED
              BY <5>1, <6>1, Zenon
          <5>4. \A c : ~ Among(c, list)
            BY <5>3 DEF Among
          <5>5. QED
            BY <5>2, <5>3, <5>4
        <4>3. QED
          BY <4>1, <4>2
      <3>5. /\ forum_to_tags'[f] \in Seq(Nat)
            /\ \A c : Among(c, forum_to_tags'[f]) <=> Among(c, list) \/ c = id_map[tid]
        <4>1. /\ Append(list, id_map[tid]) \in Seq(Nat)
              /\ \A c : Among(c, Append(list, id_map[tid])) <=> Among(c, list) \/ c = id_map[tid]
          BY <3>3, <3>4, AmongAppend
        <4>2. QED
          BY <3>2, <4>1, Zenon
      <3>6. \A c : Among(c, forum_to_tags'[f]) <=> FromRows(c, f, k)'
        BY <1>11, <2>2, <3>4, <3>5
      <3>7. \E m \in 1 .. k : Gives(m, f)'
        BY <1>12, <2>2
      <3>8. QED
        BY <3>2, <3>5, <3>6, <3>7 DEF ListOf, Among
    <2>3. QED
      BY <2>1, <2>2
  <1>14. ForumsSoFar'
    <2>1. ForumRows' = k
      BY <1>2 DEF ForumRows
    <2>2. QED
      BY <1>13, <2>1 DEF ForumsSoFar
  <1>15. MembersSoFar'
    BY <1>0, <1>1, <1>2 DEF DataInv, MembersSoFar
  <1>16. QED
    BY <1>4, <1>6, <1>14, <1>15 DEF DataInv

-----------------------------------------------------------------------------
(* The members: what the rows of tags have put together is what NamesOf    *)
(* says.                                                                   *)

\* A name of a forum is that of a tag which a row gives to the forum.
LEMMA InNamesOf ==
    ASSUME file \in DataFiles, NEW fid, NEW name
    PROVE  name \in NamesOf(fid) <=>
              \E n \in 1 .. Len(file.tag), m \in 1 .. Len(file.forumTag) :
                 /\ file.tag[n][2] = name
                 /\ file.forumTag[m][1] = fid
                 /\ file.forumTag[m][2] = file.tag[n][1]
  <1>1. /\ DOMAIN file.tag = 1 .. Len(file.tag)
        /\ DOMAIN file.forumTag = 1 .. Len(file.forumTag)
    BY FileTypes
  <1>2. ASSUME NEW m \in 1 .. Len(file.forumTag), NEW tid
        PROVE  file.forumTag[m] = <<fid, tid>> <=> file.forumTag[m][1] = fid /\ file.forumTag[m][2] = tid
    <2>1. file.forumTag[m] \in Forums \X TagIds
      BY FileTypes
    <2>2. QED
      BY <2>1
  <1>3. name \in NamesOf(fid) <=>
           \E n \in DOMAIN file.tag : /\ file.tag[n][2] = name
                                     /\ \E m \in DOMAIN file.forumTag : file.forumTag[m] = <<fid, file.tag[n][1]>>
    BY DEF NamesOf
  <1>4. ASSUME name \in NamesOf(fid)
        PROVE  \E n \in 1 .. Len(file.tag), m \in 1 .. Len(file.forumTag) :
                 /\ file.tag[n][2] = name
                 /\ file.forumTag[m][1] = fid
                 /\ file.forumTag[m][2] = file.tag[n][1]
    <2>1. PICK n \in 1 .. Len(file.tag) :
             /\ file.tag[n][2] = name
             /\ \E m \in DOMAIN file.forumTag : file.forumTag[m] = <<fid, file.tag[n][1]>>
      BY <1>1, <1>3, <1>4
    <2>2. PICK m \in 1 .. Len(file.forumTag) : file.forumTag[m] = <<fid, file.tag[n][1]>>
      BY <1>1, <2>1
    <2>3. QED
      BY <2>1, <2>2
  <1>5. ASSUME NEW n \in 1 .. Len(file.tag), NEW m \in 1 .. Len(file.forumTag),
               file.tag[n][2] = name,
               file.forumTag[m][1] = fid,
               file.forumTag[m][2] = file.tag[n][1]
        PROVE  name \in NamesOf(fid)
    <2>1. file.forumTag[m] = <<fid, file.tag[n][1]>>
      BY <1>2, <1>5
    <2>2. QED
      BY <1>1, <1>3, <1>5, <2>1
  <1>6. QED
    BY <1>4, <1>5

\* Once all rows are read, the list of a forum has the tags of its names.
LEMMA ForumNames ==
    ASSUME DataInv, phase = "member", NEW fid \in Forums, NEW name \in file.q4_tag_set
    PROVE  /\ fid \notin DOMAIN forum_to_tags => name \notin NamesOf(fid)
           /\ fid \in DOMAIN forum_to_tags =>
                 (name \in NamesOf(fid) <=>
                     \E n \in DOMAIN forum_to_tags[fid] : tag_name[forum_to_tags[fid][n]] = name)
  <1>1. file \in DataFiles /\ TagRows = Len(file.tag) /\ ForumRows = Len(file.forumTag)
    BY DEF DataInv, Place, TagRows, ForumRows
  <1>2. /\ \A n \in 1 .. Len(file.tag) : tag_name[n] = file.tag[n][2] /\ id_map[file.tag[n][1]] = n
        /\ \A tid : tid \in q4_tag_ids <=> \E n \in 1 .. Len(file.tag) :
                                              file.tag[n][1] = tid /\ file.tag[n][2] \in file.q4_tag_set
    BY <1>1 DEF DataInv, TagsSoFar
  <1>3. ListOf(fid, Len(file.forumTag))
    BY <1>1 DEF DataInv, ForumsSoFar
  <1>4. ASSUME name \in NamesOf(fid)
        PROVE  /\ fid \in DOMAIN forum_to_tags
               /\ \E n \in DOMAIN forum_to_tags[fid] : tag_name[forum_to_tags[fid][n]] = name
    <2>1. PICK n \in 1 .. Len(file.tag), m \in 1 .. Len(file.forumTag) :
             /\ file.tag[n][2] = name
             /\ file.forumTag[m][1] = fid
             /\ file.forumTag[m][2] = file.tag[n][1]
      BY <1>1, <1>4, InNamesOf
    <2>2. Gives(m, fid) /\ id_map[file.forumTag[m][2]] = n
      BY <1>2, <2>1 DEF Gives
    <2>3. FromRows(n, fid, Len(file.forumTag))
      BY <2>2 DEF FromRows
    <2>4. fid \in DOMAIN forum_to_tags /\ Among(n, forum_to_tags[fid])
      BY <1>3, <2>2, <2>3 DEF ListOf
    <2>5. tag_name[n] = name
      BY <1>2, <2>1
    <2>6. QED
      BY <2>4, <2>5 DEF Among
  <1>5. ASSUME fid \in DOMAIN forum_to_tags,
               NEW k \in DOMAIN forum_to_tags[fid], tag_name[forum_to_tags[fid][k]] = name
        PROVE  name \in NamesOf(fid)
    <2>1. Among(forum_to_tags[fid][k], forum_to_tags[fid])
      BY <1>5 DEF Among
    <2>2. FromRows(forum_to_tags[fid][k], fid, Len(file.forumTag))
      BY <1>3, <1>5, <2>1 DEF ListOf
    <2>3. PICK m \in 1 .. Len(file.forumTag) :
             Gives(m, fid) /\ forum_to_tags[fid][k] = id_map[file.forumTag[m][2]]
      BY <2>2 DEF FromRows
    <2>4. PICK n \in 1 .. Len(file.tag) : file.tag[n][1] = file.forumTag[m][2]
      BY <1>2, <2>3 DEF Gives
    <2>5. file.tag[n][2] = name
      BY <1>2, <1>5, <2>3, <2>4
    <2>6. QED
      BY <1>1, <2>3, <2>4, <2>5, InNamesOf DEF Gives
  <1>6. QED
    BY <1>4, <1>5

\* The members begin, with empty bitmaps.
LEMMA BeginMembersStep == DataInv /\ BeginMembers => DataInv'
  <1> SUFFICES ASSUME DataInv, BeginMembers PROVE DataInv'
    OBVIOUS
  <1>1. /\ phase = "forumTag" /\ rowsRead = Len(file.forumTag)
        /\ file' = file
        /\ at' = [at EXCEPT !["reader"] = "member"] /\ done' = [done EXCEPT !["reader"] = 0]
        /\ UNCHANGED <<id_map, tag_name, q4_tag_ids, q4_persons, forum_to_tags, hashes>>
        /\ last' = [fid |-> None, skip |-> FALSE]
    BY DEF BeginMembers, AtEnd, To, phase, rowsRead, tagVars
  <1>2. phase' = "member" /\ rowsRead' = 0
    BY <1>1 DEF DataInv, Place, phase, rowsRead, Threads
  <1>3. Place'
    <2>1. Len(file.member) \in Nat
      BY FileTypes DEF DataInv, Place
    <2>2. file' \in DataFiles
      BY <1>1 DEF DataInv, Place
    <2>3. at' = [t \in Threads |-> at'[t]] /\ done' \in [Threads -> Nat]
      BY <1>1 DEF DataInv, Place
    <2>4. QED
      BY <1>1, <1>2, <2>1, <2>2, <2>3 DEF Place
  <1>4. TagsSoFar'
    <2>1. TagRows' = TagRows
      BY <1>1, <1>2 DEF TagRows
    <2>2. QED
      BY <1>1, <2>1 DEF DataInv, TagsSoFar
  <1>5. ForumsSoFar'
    <2>1. ForumRows' = ForumRows
      BY <1>1, <1>2 DEF ForumRows
    <2>2. QED
      BY <1>1, <2>1, SameForums DEF DataInv
  <1>6. MembersSoFar'
    <2>1. \A name : MembersOf(name, 0)' = {}
      BY DEF MembersOf
    <2>2. q4_persons' = [name \in file'.q4_tag_set |-> {}]
      BY <1>1 DEF DataInv, MembersSoFar
    <2>3. q4_persons' = [name \in file'.q4_tag_set |-> MembersOf(name, 0)']
      BY <2>1, <2>2
    <2>4. last' \in [fid : Forums \cup {None}, skip : BOOLEAN] /\ last'.fid = None
      BY <1>1
    <2>5. QED
      BY <1>2, <2>3, <2>4 DEF MembersSoFar
  <1>7. QED
    BY <1>3, <1>4, <1>5, <1>6 DEF DataInv

\* A row of the members: whether the forum is the last one or another, the
\* person is put into the bitmaps of the forum's names and no others.
LEMMA ReadMemberStep == DataInv /\ ReadMember => DataInv'
  <1> SUFFICES ASSUME DataInv, ReadMember PROVE DataInv'
    OBVIOUS
  <1>0. phase = "member" /\ rowsRead < Len(file.member) /\ rowsRead \in Nat
    BY DEF ReadMember, Reading, DataInv, Place, phase, rowsRead, Threads
  <1> PICK k \in Nat : k = rowsRead + 1
    BY <1>0
  <1> PICK fid : fid = file.member[k][1]
    OBVIOUS
  <1> PICK pid : pid = file.member[k][2]
    OBVIOUS
  <1>1. /\ file' = file /\ at' = at /\ done' = [done EXCEPT !["reader"] = @ + 1]
        /\ UNCHANGED <<id_map, tag_name, q4_tag_ids, forum_to_tags>>
        /\ last' = IF fid = last.fid THEN last ELSE [fid |-> fid, skip |-> fid \notin DOMAIN forum_to_tags]
        /\ hashes' = IF fid = last.fid \/ fid \notin DOMAIN forum_to_tags THEN hashes
                     ELSE [n \in DOMAIN forum_to_tags[fid] |-> tag_name[forum_to_tags[fid][n]]]
        /\ q4_persons' = IF last'.skip THEN q4_persons
                         ELSE [name \in DOMAIN q4_persons |->
                                  IF \E n \in DOMAIN hashes' : hashes'[n] = name
                                  THEN q4_persons[name] \cup {pid} ELSE q4_persons[name]]
    BY <1>0 DEF ReadMember, Reading, Row, OneRow, phase, rowsRead, tagVars
  <1>2. phase' = "member" /\ rowsRead' = k
    BY <1>0, <1>1 DEF DataInv, Place, phase, rowsRead, Threads
  <1>3. /\ file \in DataFiles
        /\ file.member \in Seq(Forums \X PersonIds) /\ Len(file.member) \in Nat
        /\ None \notin Forums
    BY FileTypes DEF DataInv, Place
  <1>4. Place'
    BY <1>0, <1>1, <1>2, <1>3 DEF DataInv, Place, Threads
  <1>5. fid \in Forums /\ pid \in PersonIds /\ file.member[k] = <<fid, pid>>
    BY <1>0, <1>3
  <1>6. TagsSoFar'
    <2>1. TagRows' = TagRows
      BY <1>0, <1>1, <1>2 DEF TagRows
    <2>2. QED
      BY <1>1, <2>1 DEF DataInv, TagsSoFar
  <1>7. ForumsSoFar'
    <2>1. ForumRows' = ForumRows
      BY <1>0, <1>1, <1>2 DEF ForumRows
    <2>2. QED
      BY <1>1, <2>1, SameForums DEF DataInv
  <1>8. /\ q4_persons = [name \in file.q4_tag_set |-> MembersOf(name, rowsRead)]
        /\ last \in [fid : Forums \cup {None}, skip : BOOLEAN]
        /\ last.fid # None =>
              /\ last.skip <=> last.fid \notin DOMAIN forum_to_tags
              /\ ~ last.skip => \A name \in file.q4_tag_set :
                    (\E n \in DOMAIN hashes : hashes[n] = name) <=> name \in NamesOf(last.fid)
    BY <1>0 DEF DataInv, MembersSoFar
  <1>9. /\ last' \in [fid : Forums \cup {None}, skip : BOOLEAN]
        /\ last'.fid = fid
        /\ last'.skip <=> fid \notin DOMAIN forum_to_tags
    BY <1>1, <1>3, <1>5, <1>8
  <1>10. ASSUME ~ last'.skip, NEW name \in file.q4_tag_set
         PROVE  (\E n \in DOMAIN hashes' : hashes'[n] = name) <=> name \in NamesOf(fid)
    <2>1. fid \in DOMAIN forum_to_tags
      BY <1>9, <1>10
    <2>2. CASE fid = last.fid
      <3>1. hashes' = hashes /\ ~ last.skip /\ last.fid # None
        BY <1>1, <1>3, <1>5, <1>10, <2>2
      <3>2. QED
        BY <1>8, <2>2, <3>1
    <2>3. CASE fid # last.fid
      <3>1. hashes' = [n \in DOMAIN forum_to_tags[fid] |-> tag_name[forum_to_tags[fid][n]]]
        BY <1>1, <2>1, <2>3
      <3>2. name \in NamesOf(fid) <=>
               \E n \in DOMAIN forum_to_tags[fid] : tag_name[forum_to_tags[fid][n]] = name
        BY <1>0, <1>5, <2>1, ForumNames
      <3>3. QED
        BY <3>1, <3>2
    <2>4. QED
      BY <2>2, <2>3
  <1>11. ASSUME NEW name
         PROVE  MembersOf(name, k)' =
                   IF name \in NamesOf(fid) THEN MembersOf(name, rowsRead) \cup {pid} ELSE MembersOf(name, rowsRead)
    <2>1. \A f : NamesOf(f)' = NamesOf(f)
      BY <1>1 DEF NamesOf
    <2>2. \A m \in 1 .. k : m \in 1 .. rowsRead \/ m = k
      BY <1>0
    <2>3. 1 .. rowsRead \subseteq 1 .. k /\ k \in 1 .. k
      BY <1>0
    <2>4. ASSUME NEW p \in PersonIds
          PROVE  p \in MembersOf(name, k)' <=>
                    p \in MembersOf(name, rowsRead) \/ (p = pid /\ name \in NamesOf(fid))
      <3>1. ASSUME p \in MembersOf(name, k)'
            PROVE  p \in MembersOf(name, rowsRead) \/ (p = pid /\ name \in NamesOf(fid))
        <4>1. PICK f \in Forums, m \in 1 .. k : file.member[m] = <<f, p>> /\ name \in NamesOf(f)
          BY <1>1, <2>1, <3>1 DEF MembersOf
        <4>2. CASE m = k
          BY <1>5, <4>1, <4>2
        <4>3. CASE m \in 1 .. rowsRead
          BY <4>1, <4>3 DEF MembersOf
        <4>4. QED
          BY <2>2, <4>2, <4>3
      <3>2. ASSUME p \in MembersOf(name, rowsRead)
            PROVE  p \in MembersOf(name, k)'
        <4>1. PICK f \in Forums, m \in 1 .. rowsRead : file.member[m] = <<f, p>> /\ name \in NamesOf(f)
          BY <3>2 DEF MembersOf
        <4>2. QED
          BY <1>1, <2>1, <2>3, <4>1 DEF MembersOf
      <3>3. ASSUME p = pid, name \in NamesOf(fid)
            PROVE  p \in MembersOf(name, k)'
        BY <1>1, <1>5, <2>1, <2>3, <3>3 DEF MembersOf
      <3>4. QED
        BY <3>1, <3>2, <3>3
    <2>5. MembersOf(name, k)' \subseteq PersonIds /\ MembersOf(name, rowsRead) \subseteq PersonIds
      BY DEF MembersOf
    <2>6. QED
      BY <1>5, <2>4, <2>5
  <1>12. q4_persons' = [name \in file.q4_tag_set |-> MembersOf(name, k)']
    <2>1. CASE last'.skip
      <3>1. q4_persons' = q4_persons
        BY <1>1, <2>1
      <3>2. \A name \in file.q4_tag_set : name \notin NamesOf(fid)
        BY <1>0, <1>5, <1>9, <2>1, ForumNames
      <3>3. \A name \in file.q4_tag_set : MembersOf(name, k)' = MembersOf(name, rowsRead)
        BY <1>11, <3>2
      <3>4. QED
        BY <1>8, <3>1, <3>3
    <2>2. CASE ~ last'.skip
      <3>1. q4_persons' = [name \in file.q4_tag_set |->
                              IF \E n \in DOMAIN hashes' : hashes'[n] = name
                              THEN MembersOf(name, rowsRead) \cup {pid} ELSE MembersOf(name, rowsRead)]
        BY <1>1, <1>8, <2>2
      <3>2. \A name \in file.q4_tag_set :
               (IF \E n \in DOMAIN hashes' : hashes'[n] = name
                THEN MembersOf(name, rowsRead) \cup {pid} ELSE MembersOf(name, rowsRead)) = MembersOf(name, k)'
        BY <1>10, <1>11, <2>2
      <3>3. QED
        BY <3>1, <3>2
    <2>3. QED
      BY <2>1, <2>2
  <1>13. MembersSoFar'
    <2>1. \A f : NamesOf(f)' = NamesOf(f)
      BY <1>1 DEF NamesOf
    <2>2. q4_persons' = [name \in file'.q4_tag_set |-> MembersOf(name, k)']
      BY <1>1, <1>12
    <2>3. last'.skip <=> last'.fid \notin DOMAIN forum_to_tags'
      BY <1>1, <1>9
    <2>4. ~ last'.skip => \A name \in file'.q4_tag_set :
             (\E n \in DOMAIN hashes' : hashes'[n] = name) <=> name \in NamesOf(last.fid)'
      BY <1>1, <1>9, <1>10, <2>1
    <2>5. QED
      BY <1>2, <1>9, <2>2, <2>3, <2>4 DEF MembersSoFar
  <1>14. QED
    BY <1>4, <1>6, <1>7, <1>13 DEF DataInv

-----------------------------------------------------------------------------
\* DataInv holds of every step.
LEMMA DataInvNext == DataInv /\ [DataNext]_dataVars => DataInv'
  BY ReadTagStep, AllocateTagsStep, StartPlacesStep, ReadForumTagStep, BeginMembersStep,
     ReadMemberStep, OtherSteps DEF DataNext

\* The invariant, for any files that the assumption allows.
THEOREM ReaderInductive == DataSpec => []DataInv
  BY DataInvInit, DataInvNext, PTL DEF DataSpec

\* When query 4 starts, the bitmap of each name has the members of the forums
\* with a tag of that name: read_forum is right for rows in any order, for tags
\* that share a name, and for forums without a tag that is asked for.
THEOREM ReaderMembersRight == DataSpec => []MembersRight
  <1>1. DataInv => MembersRight
    <2> SUFFICES ASSUME DataInv, AtEnd("reader", "member"), NEW name \in file.q4_tag_set
                 PROVE  q4_persons[name] =
                           {p \in PersonIds : \E f \in Forums, n \in DOMAIN file.member :
                               file.member[n] = <<f, p>> /\ name \in NamesOf(f)}
      BY DEF MembersRight
    <2>1. phase = "member" /\ rowsRead = Len(file.member)
      BY DEF AtEnd, phase, rowsRead
    <2>2. q4_persons[name] = MembersOf(name, Len(file.member))
      BY <2>1 DEF DataInv, MembersSoFar
    <2>3. DOMAIN file.member = 1 .. Len(file.member)
      BY FileTypes DEF DataInv, Place
    <2>4. QED
      BY <2>2, <2>3 DEF MembersOf
  <1>2. QED
    BY <1>1, ReaderInductive, PTL

-----------------------------------------------------------------------------
(* DataReader: what sort and unique make of the persons of a place.        *)

\* l has at its n-th place the element of S of that rank, if there is one.
ByRank(l, R, S) ==
    /\ DOMAIN l = 1 .. Cardinality(S)
    /\ l = [n \in DOMAIN l |-> l[n]]
    /\ \A n \in DOMAIN l : (\E a \in S : RankIn(R, S, a) = n - 1) => l[n] \in S /\ RankIn(R, S, l[n]) = n - 1

\* It has each element once, in order.
LEMMA ByRankIs ==
    ASSUME NEW S, IsFiniteSet(S), NEW R, Orders(R, S), NEW l, ByRank(l, R, S)
    PROVE  /\ Cardinality(S) \in Nat
           /\ l \in [1 .. Cardinality(S) -> S]
           /\ \A a \in S : \E n \in 1 .. Cardinality(S) : l[n] = a
           /\ \A m, n \in 1 .. Cardinality(S) : m < n => <<l[m], l[n]>> \in R
  <1> DEFINE N == Cardinality(S)
  <1>1. N \in Nat
    BY FS_CardinalityType
  <1>2. \A n \in 1 .. N : l[n] \in S /\ RankIn(R, S, l[n]) = n - 1
    <2> TAKE n \in 1 .. N
    <2>1. n - 1 \in Nat /\ n - 1 < N
      BY <1>1
    <2>2. \E a \in S : RankIn(R, S, a) = n - 1
      BY <2>1, RankCovers
    <2>3. QED
      BY <2>2 DEF ByRank
  <1>3. l \in [1 .. N -> S]
    BY <1>2 DEF ByRank
  <1>4. ASSUME NEW a \in S PROVE \E n \in 1 .. N : l[n] = a
    <2>1. RankIn(R, S, a) \in Nat /\ RankIn(R, S, a) < N
      BY RankIsNat
    <2>2. PICK n \in 1 .. N : n - 1 = RankIn(R, S, a)
      <3>1. RankIn(R, S, a) + 1 \in 1 .. N
        BY <1>1, <2>1
      <3>2. (RankIn(R, S, a) + 1) - 1 = RankIn(R, S, a)
        BY <2>1
      <3>3. QED
        BY <3>1, <3>2
    <2>3. l[n] \in S /\ RankIn(R, S, l[n]) = RankIn(R, S, a)
      BY <1>2, <2>2
    <2>4. l[n] = a
      BY <2>3, RankOrders
    <2>5. QED
      BY <2>4
  <1>5. ASSUME NEW m \in 1 .. N, NEW n \in 1 .. N, m < n PROVE <<l[m], l[n]>> \in R
    <2>1. l[m] \in S /\ RankIn(R, S, l[m]) = m - 1 /\ l[n] \in S /\ RankIn(R, S, l[n]) = n - 1
      BY <1>2
    <2>2. RankIn(R, S, l[m]) < RankIn(R, S, l[n])
      BY <1>1, <1>5, <2>1
    <2>3. QED
      BY <2>1, <2>2, RankOrders
  <1>6. QED
    BY <1>1, <1>3, <1>4, <1>5

\* Rows of persons, of which two with one pid are the same.
PersonRows(E) ==
    /\ \A a \in E : a.ntags \in Nat /\ a.pid \in Nat
    /\ \A a, b \in E : a.pid = b.pid => a = b

\* InOrder is a strict order of such rows.
LEMMA InOrderOrders ==
    ASSUME NEW E, PersonRows(E), NEW a \in E, NEW b \in E
    PROVE  /\ ~ InOrder(a, a)
           /\ a # b => InOrder(a, b) \/ InOrder(b, a)
           /\ \A c \in E : InOrder(a, b) /\ InOrder(b, c) => InOrder(a, c)
  BY DEF PersonRows, InOrder

\* Row m of s comes out of sort before row n; how many come before it; and the
\* one that comes out at the n-th place.
RowAhead(s, m, n) == InOrder(s[m], s[n]) \/ (s[m] = s[n] /\ m < n)
RowRank(s, n) == Cardinality({m \in DOMAIN s : RowAhead(s, m, n)})
RowAt(s, n) == CHOOSE m \in DOMAIN s : RowRank(s, m) = n - 1
RowOrder(s) == {e \in (DOMAIN s) \X (DOMAIN s) : RowAhead(s, e[1], e[2])}
RowsInOrder(s) == [n \in 1 .. Cardinality(DOMAIN s) |-> RowAt(s, n)]

\* RowAhead is a strict order.
LEMMA RowOrders ==
    ASSUME NEW E, PersonRows(E), NEW s \in Seq(E)
    PROVE  Orders(RowOrder(s), DOMAIN s)
  <1> DEFINE D == DOMAIN s
             R == RowOrder(s)
  <1>1. Len(s) \in Nat /\ D = 1 .. Len(s) /\ \A n \in D : s[n] \in E
    OBVIOUS
  <1>2. \A m, n \in D : <<m, n>> \in R <=> RowAhead(s, m, n)
    <2>1. \A e : e \in R <=> e \in D \X D /\ RowAhead(s, e[1], e[2])
      BY Zenon DEF RowOrder
    <2>2. \A m, n \in D : <<m, n>> \in D \X D /\ <<m, n>>[1] = m /\ <<m, n>>[2] = n
      OBVIOUS
    <2> HIDE DEF R, D
    <2>3. QED
      BY <2>1, <2>2
  <1> HIDE DEF R
  <1>3. ASSUME NEW a \in D PROVE <<a, a>> \notin R
    <2>1. ~ InOrder(s[a], s[a])
      BY <1>1, InOrderOrders
    <2>2. QED
      BY <1>1, <1>2, <2>1 DEF RowAhead
  <1>4. ASSUME NEW a \in D, NEW b \in D, a # b PROVE <<a, b>> \in R \/ <<b, a>> \in R
    <2>1. a < b \/ b < a
      BY <1>1, <1>4
    <2>2. s[a] = s[b] \/ InOrder(s[a], s[b]) \/ InOrder(s[b], s[a])
      BY <1>1, InOrderOrders
    <2>3. QED
      BY <1>2, <2>1, <2>2 DEF RowAhead
  <1>5. ASSUME NEW a \in D, NEW b \in D, NEW c \in D, <<a, b>> \in R, <<b, c>> \in R
        PROVE  <<a, c>> \in R
    <2>1. InOrder(s[a], s[b]) /\ InOrder(s[b], s[c]) => InOrder(s[a], s[c])
      BY <1>1, InOrderOrders
    <2>2. a < b /\ b < c => a < c
      BY <1>1
    <2>3. RowAhead(s, a, b) /\ RowAhead(s, b, c)
      BY <1>2, <1>5
    <2>4. RowAhead(s, a, c)
      BY <2>1, <2>2, <2>3 DEF RowAhead
    <2>5. QED
      BY <1>2, <2>4
  <1>6. QED
    BY <1>3, <1>4, <1>5, Zenon DEF Orders, D, R

\* sort gives the same rows in order.
LEMMA SortPersonsIs ==
    ASSUME NEW E, PersonRows(E), NEW s \in Seq(E)
    PROVE  /\ SortPersons(s) \in Seq(E) /\ Len(SortPersons(s)) = Len(s)
           /\ \A n \in DOMAIN s : \E m \in DOMAIN s : SortPersons(s)[m] = s[n]
           /\ \A m \in DOMAIN s : \E n \in DOMAIN s : SortPersons(s)[m] = s[n]
           /\ \A m, n \in DOMAIN s :
                 m < n => \/ InOrder(SortPersons(s)[m], SortPersons(s)[n])
                          \/ SortPersons(s)[m] = SortPersons(s)[n]
  <1> DEFINE D == DOMAIN s
             R == RowOrder(s)
             l == RowsInOrder(s)
             t == SortPersons(s)
  <1>1. Len(s) \in Nat /\ D = 1 .. Len(s) /\ \A n \in D : s[n] \in E
    OBVIOUS
  <1>2. IsFiniteSet(D) /\ Cardinality(D) = Len(s)
    BY <1>1, FS_Interval
  <1>3. t = [n \in D |-> s[l[n]]]
    BY Zenon DEF SortPersons, Sorted, RowsInOrder, RowAt, RowRank, RowAhead
  <1>4. \A m, n \in D : <<m, n>> \in R <=> RowAhead(s, m, n)
    <2>1. \A e : e \in R <=> e \in D \X D /\ RowAhead(s, e[1], e[2])
      BY Zenon DEF RowOrder
    <2>2. \A m, n \in D : <<m, n>> \in D \X D /\ <<m, n>>[1] = m /\ <<m, n>>[2] = n
      OBVIOUS
    <2> HIDE DEF R, D
    <2>3. QED
      BY <2>1, <2>2
  <1> HIDE DEF R
  <1>5. \A n \in D : RowRank(s, n) = RankIn(R, D, n)
    <2> TAKE n \in D
    <2>1. {m \in D : RowAhead(s, m, n)} = Below(R, D, n)
      BY <1>4 DEF Below
    <2>2. QED
      BY <2>1, Zenon DEF RowRank, RankIn
  <1>6. ByRank(l, R, D)
    <2>1. DOMAIN l = 1 .. Cardinality(D) /\ l = [n \in DOMAIN l |-> l[n]]
      BY DEF RowsInOrder
    <2>2. ASSUME NEW n \in DOMAIN l, NEW a \in D, RankIn(R, D, a) = n - 1
          PROVE  l[n] \in D /\ RankIn(R, D, l[n]) = n - 1
      <3>1. l[n] = RowAt(s, n)
        BY <2>1 DEF RowsInOrder
      <3>2. RowRank(s, a) = n - 1
        BY <1>5, <2>2
      <3>3. RowAt(s, n) \in D /\ RowRank(s, RowAt(s, n)) = n - 1
        BY <3>2, Zenon DEF RowAt
      <3>4. QED
        BY <1>5, <3>1, <3>3
    <2>3. QED
      BY <2>1, <2>2, Zenon DEF ByRank
  <1> HIDE DEF l, t
  <1>7. /\ l \in [1 .. Len(s) -> D]
        /\ \A a \in D : \E n \in 1 .. Len(s) : l[n] = a
        /\ \A m, n \in 1 .. Len(s) : m < n => <<l[m], l[n]>> \in R
    <2>1. Orders(R, D)
      BY RowOrders DEF R
    <2>2. /\ l \in [1 .. Cardinality(D) -> D]
          /\ \A a \in D : \E n \in 1 .. Cardinality(D) : l[n] = a
          /\ \A m, n \in 1 .. Cardinality(D) : m < n => <<l[m], l[n]>> \in R
      BY <1>2, <1>6, <2>1, ByRankIs, Zenon
    <2>3. QED
      BY <1>2, <2>2
  <1>8. /\ t \in Seq(E) /\ Len(t) = Len(s)
        /\ \A n \in D : t[n] = s[l[n]] /\ l[n] \in D
    <2>1. \A n \in D : l[n] \in D
      BY <1>1, <1>7
    <2>2. t \in [1 .. Len(s) -> E]
      BY <1>1, <1>3, <2>1
    <2>3. t \in Seq(E) /\ Len(t) = Len(s)
      BY <1>1, <2>2
    <2>4. QED
      BY <1>3, <2>1, <2>3
  <1>9. ASSUME NEW m \in D, NEW n \in D, m < n PROVE InOrder(t[m], t[n]) \/ t[m] = t[n]
    <2>1. <<l[m], l[n]>> \in R
      BY <1>1, <1>7, <1>9
    <2>2. QED
      BY <1>4, <1>8, <2>1 DEF RowAhead
  <1>10. ASSUME NEW n \in D PROVE \E m \in D : t[m] = s[n]
    <2>1. PICK m \in 1 .. Len(s) : l[m] = n
      BY <1>7
    <2>2. QED
      BY <1>1, <1>8, <2>1
  <1>11. QED
    BY <1>8, <1>9, <1>10 DEF t

\* The rows that unique keeps; how many before row n; and the n-th of them.
KeptRows(s) == {n \in DOMAIN s : n = 1 \/ s[n].pid # s[n - 1].pid}
KeptRank(s, n) == Cardinality({m \in KeptRows(s) : m < n})
KeptAt(s, n) == CHOOSE m \in KeptRows(s) : KeptRank(s, m) = n - 1
KeptInOrder(s) == [n \in 1 .. Cardinality(KeptRows(s)) |-> KeptAt(s, n)]
LessThan(S) == {e \in S \X S : e[1] < e[2]}

\* unique of rows in order gives each once, in strict order.
LEMMA UniqueIs ==
    ASSUME NEW E, PersonRows(E), NEW s \in Seq(E),
           \A m, n \in DOMAIN s : m < n => InOrder(s[m], s[n]) \/ s[m] = s[n]
    PROVE  /\ Unique(s) \in Seq(E)
           /\ \A n \in DOMAIN s : \E m \in DOMAIN Unique(s) : Unique(s)[m] = s[n]
           /\ \A m \in DOMAIN Unique(s) : \E n \in DOMAIN s : Unique(s)[m] = s[n]
           /\ \A n \in 1 .. Len(Unique(s)) - 1 : InOrder(Unique(s)[n], Unique(s)[n + 1])
  <1> DEFINE K == KeptRows(s)
             R == LessThan(K)
             l == KeptInOrder(s)
             t == Unique(s)
             N == Cardinality(K)
  <1>1. Len(s) \in Nat /\ DOMAIN s = 1 .. Len(s) /\ \A n \in DOMAIN s : s[n] \in E
    OBVIOUS
  <1>2. K \subseteq DOMAIN s /\ K \subseteq Nat
    BY <1>1 DEF KeptRows
  <1>3. IsFiniteSet(K) /\ N \in Nat
    <2>1. IsFiniteSet(DOMAIN s)
      BY <1>1, FS_Interval
    <2>2. IsFiniteSet(K)
      BY <1>2, <2>1, FS_Subset
    <2>3. QED
      BY <2>2, FS_CardinalityType
  <1>4. t = [n \in DOMAIN l |-> s[l[n]]]
    BY Zenon DEF Unique, Sorted, KeptInOrder, KeptAt, KeptRank, KeptRows
  <1>5. \A m, n \in K : <<m, n>> \in R <=> m < n
    BY DEF LessThan
  <1> HIDE DEF R, K
  <1>6. Orders(R, K)
    <2>1. \A a \in K : <<a, a>> \notin R
      BY <1>2, <1>5
    <2>2. \A a, b \in K : a # b => <<a, b>> \in R \/ <<b, a>> \in R
      BY <1>2, <1>5
    <2>3. \A a, b, c \in K : <<a, b>> \in R /\ <<b, c>> \in R => <<a, c>> \in R
      BY <1>2, <1>5
    <2>4. QED
      BY <2>1, <2>2, <2>3, Zenon DEF Orders
  <1>7. \A n \in K : KeptRank(s, n) = RankIn(R, K, n)
    <2> TAKE n \in K
    <2>1. {m \in K : m < n} = Below(R, K, n)
      BY <1>5 DEF Below
    <2>2. QED
      BY <2>1, Zenon DEF KeptRank, RankIn, K
  <1>8. ByRank(l, R, K)
    <2>1. DOMAIN l = 1 .. N /\ l = [n \in DOMAIN l |-> l[n]]
      BY DEF KeptInOrder, K
    <2>2. ASSUME NEW n \in DOMAIN l, NEW a \in K, RankIn(R, K, a) = n - 1
          PROVE  l[n] \in K /\ RankIn(R, K, l[n]) = n - 1
      <3>1. l[n] = KeptAt(s, n)
        BY <2>1 DEF KeptInOrder
      <3>2. KeptRank(s, a) = n - 1
        BY <1>7, <2>2
      <3>3. KeptAt(s, n) \in K /\ KeptRank(s, KeptAt(s, n)) = n - 1
        BY <3>2, Zenon DEF KeptAt, K
      <3>4. QED
        BY <1>7, <3>1, <3>3
    <2>3. QED
      BY <2>1, <2>2, Zenon DEF ByRank
  <1> HIDE DEF l, t
  <1>9. /\ l \in [1 .. N -> K]
        /\ \A a \in K : \E n \in 1 .. N : l[n] = a
        /\ \A m, n \in 1 .. N : m < n => l[m] < l[n]
    <2>1. /\ l \in [1 .. N -> K]
          /\ \A a \in K : \E n \in 1 .. N : l[n] = a
          /\ \A m, n \in 1 .. N : m < n => <<l[m], l[n]>> \in R
      BY <1>3, <1>6, <1>8, ByRankIs
    <2>2. QED
      BY <1>5, <2>1
  <1>10. /\ t \in Seq(E) /\ Len(t) = N /\ DOMAIN t = 1 .. N
         /\ \A n \in 1 .. N : t[n] = s[l[n]] /\ l[n] \in K
    <2>1. \A n \in 1 .. N : l[n] \in K /\ s[l[n]] \in E
      BY <1>1, <1>2, <1>9
    <2>2. DOMAIN l = 1 .. N
      BY <1>9
    <2>3. t \in [1 .. N -> E] /\ \A n \in 1 .. N : t[n] = s[l[n]]
      BY <1>4, <2>1, <2>2
    <2> HIDE DEF N
    <2>4. t \in Seq(E) /\ Len(t) = N /\ DOMAIN t = 1 .. N
      BY <1>3, <2>3
    <2>5. QED
      BY <2>1, <2>3, <2>4
  <1>11. ASSUME NEW n \in DOMAIN s PROVE \E m \in 1 .. N : t[m] = s[n]
    <2> DEFINE Same == {m \in DOMAIN s : s[m] = s[n]}
    <2>1. Same \in SUBSET Nat /\ Same # {}
      BY <1>1
    <2>2. PICK a \in Same : \A m \in Same : a <= m
      BY <2>1, LeastNumber
    <2>3. a \in K
      <3>1. CASE a = 1
        BY <3>1 DEF K, KeptRows
      <3>2. CASE a # 1
        <4>1. a - 1 \in DOMAIN s /\ ~ a <= a - 1
          BY <1>1, <3>2
        <4>2. s[a - 1] # s[a]
          BY <2>2, <4>1
        <4>3. s[a].pid # s[a - 1].pid
          BY <1>1, <4>1, <4>2 DEF PersonRows
        <4>4. QED
          BY <4>3 DEF K, KeptRows
      <3>3. QED
        BY <3>1, <3>2
    <2>4. QED
      BY <1>9, <1>10, <2>2, <2>3
  <1>12. ASSUME NEW n \in 1 .. N - 1 PROVE InOrder(t[n], t[n + 1])
    <2>1. n \in 1 .. N /\ n + 1 \in 1 .. N /\ n < n + 1
      BY <1>3
    <2> DEFINE a == l[n]
               b == l[n + 1]
    <2>2. a \in K /\ b \in K /\ a < b
      BY <1>9, <2>1
    <2> HIDE DEF a, b
    <2>3. a \in DOMAIN s /\ b \in DOMAIN s /\ b # 1 /\ b - 1 \in DOMAIN s /\ (a = b - 1 \/ a < b - 1)
      BY <1>1, <1>2, <2>2
    <2>4. s[b].pid # s[b - 1].pid
      BY <2>2, <2>3 DEF K, KeptRows
    <2>5. InOrder(s[b - 1], s[b])
      <3>1. b - 1 < b
        BY <1>2, <2>2
      <3>2. QED
        BY <2>3, <2>4, <3>1
    <2>6. s[a] = s[b - 1] \/ InOrder(s[a], s[b - 1])
      BY <2>3
    <2>7. InOrder(s[a], s[b])
      BY <1>1, <2>3, <2>5, <2>6, InOrderOrders
    <2>8. QED
      BY <1>10, <2>1, <2>7 DEF a, b
  <1>13. ASSUME NEW m \in 1 .. N PROVE \E n \in DOMAIN s : t[m] = s[n]
    BY <1>2, <1>10
  <1>14. QED
    BY <1>10, <1>11, <1>12, <1>13 DEF t

-----------------------------------------------------------------------------
(* DataReader: interests and the persons of places.                        *)

where == at["places"]
placed == done["places"]

\* The two lists of interests, of the rows read so far.
InterestsSoFar ==
    /\ tags \in [PersonIds -> SUBSET (1 .. Len(tag_name))]
    /\ phase = "tag" => tags = [p \in PersonIds |-> {}]
    /\ phase # "tag" =>
          /\ person_in_tags \in [1 .. Len(tag_name) -> Seq(PersonIds)]
          /\ \A p \in PersonIds, n \in 1 .. Len(tag_name) : n \in tags[p] <=> Among(p, person_in_tags[n])

\* The rows of persons in places, and of persons in organisations, that are read.
LocatedRows == IF where = "located" THEN placed ELSE Len(file.located)
OrgRows == IF where = "located" THEN 0 ELSE IF where = "atOrg" THEN placed ELSE Len(file.atOrg)

\* The persons in place id by the rows read.
PersonsIn(id) ==
    {p \in PersonIds :
        \/ \E n \in 1 .. LocatedRows : file.located[n] = <<p, id>>
        \/ \E n \in 1 .. OrgRows : file.atOrg[n][1] = p /\ file.org[file.atOrg[n][2]] = id}

Entries == {PersonInPlace(p) : p \in PersonIds}

\* s has rows of E, those of the persons of S.
Fits(s, S, E) ==
    /\ s \in Seq(E)
    /\ \A n \in DOMAIN s : s[n].pid \in S
    /\ \A p \in S : \E n \in DOMAIN s : s[n].pid = p

\* The persons of each place ...
PlacesFilled ==
    /\ DOMAIN places = PlaceIds(file)
    /\ \A id \in PlaceIds(file) :
          /\ places[id] \in [persons : Seq(Entries), sub_places : SUBSET {r[1] : r \in file.isPartOf}]
          /\ Fits(places[id].persons, PersonsIn(id), Entries)

\* ... and in strict order.
PlacesOrdered ==
    \A id \in PlaceIds(file) :
       LET s == places[id].persons IN \A n \in 1 .. Len(s) - 1 : InOrder(s[n], s[n + 1])

PlacesSoFar ==
    /\ where \in {"not started", "tree", "located", "atOrg", "done"}
    /\ where # "not started" => phase \in {"forumTag", "member"}
    /\ where = "located" => placed <= Len(file.located)
    /\ where = "atOrg" => placed <= Len(file.atOrg)
    /\ where \in {"located", "atOrg", "done"} => PlacesFilled
    /\ where = "done" => PlacesOrdered

PlacesInv == DataInv /\ InterestsSoFar /\ PlacesSoFar

-----------------------------------------------------------------------------
\* An element of a vector.
LEMMA ElementOf ==
    ASSUME NEW S, NEW s \in Seq(S), NEW n \in 1 .. Len(s)
    PROVE  s[n] \in S
  OBVIOUS

\* What the assumption says of the files of interests and places.
LEMMA PlaceFiles ==
    ASSUME file \in DataFiles
    PROVE  /\ file.interest \in Seq(PersonIds \X {file.tag[n][1] : n \in DOMAIN file.tag})
           /\ file.located \in Seq(PersonIds \X PlaceIds(file))
           /\ file.org \in Seq(PlaceIds(file))
           /\ file.atOrg \in Seq(PersonIds \X DOMAIN file.org)
           /\ Len(file.located) \in Nat /\ Len(file.atOrg) \in Nat /\ Len(file.interest) \in Nat
           /\ DOMAIN file.located = 1 .. Len(file.located) /\ DOMAIN file.atOrg = 1 .. Len(file.atOrg)
  <1>1. /\ file.interest \in Seq(PersonIds \X {file.tag[n][1] : n \in DOMAIN file.tag})
        /\ file.located \in Seq(PersonIds \X PlaceIds(file))
        /\ file.org \in Seq(PlaceIds(file))
        /\ file.atOrg \in Seq(PersonIds \X DOMAIN file.org)
    BY DataReaderAssumption, Zenon
  <1>2. /\ Len(file.located) \in Nat /\ Len(file.atOrg) \in Nat /\ Len(file.interest) \in Nat
        /\ DOMAIN file.located = 1 .. Len(file.located) /\ DOMAIN file.atOrg = 1 .. Len(file.atOrg)
    BY <1>1
  <1>3. QED
    BY <1>1, <1>2

\* The rows of persons: a pid and a number of tags.
LEMMA EntriesAre ==
    ASSUME InterestsSoFar, Len(tag_name) \in Nat
    PROVE  PersonRows(Entries) /\ \A a \in Entries : a.pid \in PersonIds /\ a = PersonInPlace(a.pid)
  <1>1. ASSUME NEW p \in PersonIds
        PROVE  Cardinality(tags[p]) \in Nat /\ p \in Nat
    <2>1. tags[p] \subseteq 1 .. Len(tag_name)
      BY DEF InterestsSoFar
    <2>2. IsFiniteSet(1 .. Len(tag_name))
      BY FS_Interval
    <2>3. IsFiniteSet(tags[p])
      BY <2>1, <2>2, FS_Subset
    <2>4. QED
      BY <2>3, FS_CardinalityType, DataReaderAssumption
  <1>2. \A a \in Entries : \E p \in PersonIds : a = PersonInPlace(p)
    BY DEF Entries
  <1>3. \A p : PersonInPlace(p).pid = p /\ PersonInPlace(p).ntags = Cardinality(tags[p])
    BY DEF PersonInPlace
  <1>4. QED
    BY <1>1, <1>2, <1>3 DEF PersonRows

\* There are no interests in the beginning, and no places.
LEMMA PlacesInvInit == DataInit => PlacesInv
  <1> SUFFICES ASSUME DataInit PROVE PlacesInv
    OBVIOUS
  <1>1. DataInv
    BY DataInvInit
  <1>2. phase = "tag" /\ where = "not started"
    BY DEF DataInit, phase, where, Threads
  <1>3. InterestsSoFar
    <2>1. tags = [p \in PersonIds |-> {}]
      BY DEF DataInit
    <2>2. QED
      BY <1>2, <2>1 DEF InterestsSoFar
  <1>4. PlacesSoFar
    BY <1>2 DEF PlacesSoFar
  <1>5. QED
    BY <1>1, <1>3, <1>4 DEF PlacesInv

\* The places stay as they are, and so does what is said of them.
LEMMA SamePlaces ==
    ASSUME PlacesSoFar, UNCHANGED <<file, tags, places>>, where' = where, placed' = placed,
           where # "not started" => phase' \in {"forumTag", "member"}
    PROVE  PlacesSoFar'
  <1>1. LocatedRows' = LocatedRows /\ OrgRows' = OrgRows
    BY DEF LocatedRows, OrgRows
  <1>2. \A id : PersonsIn(id)' = PersonsIn(id)
    BY <1>1 DEF PersonsIn
  <1>3. (\A p : PersonInPlace(p)' = PersonInPlace(p)) /\ Entries' = Entries
    BY DEF PersonInPlace, Entries
  <1>4. PlaceIds(file)' = PlaceIds(file)
    BY DEF PlaceIds
  <1>5. PlacesFilled => PlacesFilled'
    <2> SUFFICES ASSUME PlacesFilled PROVE PlacesFilled'
      OBVIOUS
    <2>1. DOMAIN places' = PlaceIds(file)'
      BY <1>4 DEF PlacesFilled
    <2>2. \A id \in PlaceIds(file) :
             /\ places'[id] \in [persons : Seq(Entries'), sub_places : SUBSET {r[1] : r \in file'.isPartOf}]
             /\ Fits(places'[id].persons, PersonsIn(id)', Entries')
      BY <1>2, <1>3 DEF PlacesFilled
    <2>3. QED
      BY <1>4, <2>1, <2>2 DEF PlacesFilled
  <1>6. PlacesOrdered => PlacesOrdered'
    BY <1>4 DEF PlacesOrdered
  <1>7. QED
    BY <1>5, <1>6 DEF PlacesSoFar

\* The tags stay as they are, after they are all read.
LEMMA SameInterests ==
    ASSUME InterestsSoFar, UNCHANGED <<tags, person_in_tags, tag_name>>, phase # "tag", phase' # "tag"
    PROVE  InterestsSoFar'
  BY DEF InterestsSoFar, Among

\* The other reader is not started while tags or interests are read.
LEMMA NotStarted ==
    ASSUME PlacesInv, phase \in {"tag", "interest"}
    PROVE  where = "not started"
  BY DEF PlacesInv, PlacesSoFar

\* A row of interests goes into both lists.
LEMMA ReadInterestStep ==
    ASSUME PlacesInv, ReadInterest
    PROVE  InterestsSoFar'
  <1> DEFINE pid == file.interest[rowsRead + 1][1]
             tid == file.interest[rowsRead + 1][2]
             c == id_map[tid]
             N == Len(tag_name)
  <1>1. DataInv /\ InterestsSoFar /\ Place /\ TagsSoFar
    BY DEF PlacesInv, DataInv
  <1>2. /\ phase = "interest" /\ phase' = "interest" /\ rowsRead < Len(file.interest)
        /\ tags' = [tags EXCEPT ![pid] = @ \cup {c}]
        /\ person_in_tags' = [person_in_tags EXCEPT ![c] = Append(@, pid)]
        /\ tag_name' = tag_name
    BY DEF ReadInterest, Reading, OneRow, Row, phase, rowsRead
  <1>3. rowsRead \in Nat /\ file \in DataFiles
    BY <1>1 DEF Place, rowsRead, Threads
  <1>4. rowsRead + 1 \in 1 .. Len(file.interest)
    BY <1>2, <1>3, PlaceFiles
  <1>5. pid \in PersonIds /\ \E n \in DOMAIN file.tag : tid = file.tag[n][1]
    <2>1. file.interest \in Seq(PersonIds \X {file.tag[n][1] : n \in DOMAIN file.tag})
      BY <1>3, PlaceFiles
    <2>2. file.interest[rowsRead + 1] \in PersonIds \X {file.tag[n][1] : n \in DOMAIN file.tag}
      BY <1>4, <2>1, ElementOf
    <2>3. QED
      BY <2>2
  <1>6. c \in 1 .. N
    <2>1. TagRows = Len(file.tag) /\ N = TagRows
      BY <1>1, <1>2 DEF TagRows, TagsSoFar
    <2>2. DOMAIN file.tag = 1 .. Len(file.tag)
      BY <1>3, FileTypes
    <2>3. QED
      BY <1>1, <1>5, <2>1, <2>2 DEF TagsSoFar
  <1> HIDE DEF pid, tid, c, N
  <1>7. /\ tags \in [PersonIds -> SUBSET (1 .. N)]
        /\ person_in_tags \in [1 .. N -> Seq(PersonIds)]
        /\ \A p \in PersonIds, n \in 1 .. N : n \in tags[p] <=> Among(p, person_in_tags[n])
    BY <1>1, <1>2 DEF InterestsSoFar, N
  <1>8. /\ tags' \in [PersonIds -> SUBSET (1 .. N)]
        /\ person_in_tags' \in [1 .. N -> Seq(PersonIds)]
    BY <1>2, <1>5, <1>6, <1>7
  <1>9. ASSUME NEW p \in PersonIds, NEW n \in 1 .. N
        PROVE  n \in tags'[p] <=> Among(p, person_in_tags'[n])
    <2>1. n \in tags'[p] <=> (n \in tags[p] \/ (p = pid /\ n = c))
      BY <1>2, <1>5, <1>7
    <2>2. Among(p, person_in_tags'[n]) <=> (Among(p, person_in_tags[n]) \/ (p = pid /\ n = c))
      <3>1. CASE n = c
        <4>1. person_in_tags'[n] = Append(person_in_tags[n], pid)
          BY <1>2, <1>7, <3>1
        <4>2. person_in_tags[n] \in Seq(PersonIds)
          BY <1>7
        <4>3. QED
          BY <3>1, <4>1, <4>2, <1>5 DEF Among
      <3>2. CASE n # c
        <4>1. person_in_tags'[n] = person_in_tags[n]
          BY <1>2, <1>7, <3>2
        <4>2. QED
          BY <3>2, <4>1
      <3>3. QED
        BY <3>1, <3>2
    <2>3. QED
      BY <1>7, <2>1, <2>2
  <1>10. QED
    <2>1. N = Len(tag_name)'
      BY <1>2 DEF N
    <2>2. \A p \in PersonIds, n \in 1 .. N : n \in tags'[p] <=> Among(p, person_in_tags[n])'
      BY <1>9 DEF Among
    <2>3. QED
      BY <1>2, <1>8, <2>1, <2>2 DEF InterestsSoFar

\* One more row, of one more person.
LEMMA FitsAppend ==
    ASSUME NEW E, NEW S, NEW s, Fits(s, S, E), NEW e \in E
    PROVE  Fits(Append(s, e), S \cup {e.pid}, E)
  <1> DEFINE t == Append(s, e)
  <1>1. /\ s \in Seq(E) /\ \A n \in DOMAIN s : s[n].pid \in S
        /\ \A p \in S : \E n \in DOMAIN s : s[n].pid = p
    BY DEF Fits
  <1>2. /\ t \in Seq(E) /\ Len(s) \in Nat /\ DOMAIN s = 1 .. Len(s) /\ DOMAIN t = 1 .. Len(s) + 1
        /\ t[Len(s) + 1] = e /\ \A n \in DOMAIN s : t[n] = s[n]
    BY <1>1
  <1> HIDE DEF t
  <1>3. ASSUME NEW n \in DOMAIN t PROVE t[n].pid \in S \cup {e.pid}
    <2>1. n = Len(s) + 1 \/ n \in DOMAIN s
      BY <1>2
    <2>2. QED
      BY <1>1, <1>2, <2>1
  <1>4. ASSUME NEW p \in S \cup {e.pid} PROVE \E n \in DOMAIN t : t[n].pid = p
    <2>1. CASE p = e.pid
      <3>1. Len(s) + 1 \in DOMAIN t
        BY <1>2
      <3>2. QED
        BY <1>2, <2>1, <3>1
    <2>2. CASE p \in S
      <3>1. PICK n \in DOMAIN s : s[n].pid = p
        BY <1>1, <2>2
      <3>2. n \in DOMAIN t
        BY <1>2
      <3>3. QED
        BY <1>2, <3>1, <3>2
    <2>3. QED
      BY <2>1, <2>2
  <1>5. QED
    BY <1>2, <1>3, <1>4 DEF Fits, t

\* sort and unique leave each person once, in order.
LEMMA FitsSorted ==
    ASSUME NEW E, NEW S, NEW s, Fits(s, S, E), PersonRows(E)
    PROVE  /\ Fits(Unique(SortPersons(s)), S, E)
           /\ \A n \in 1 .. Len(Unique(SortPersons(s))) - 1 :
                 InOrder(Unique(SortPersons(s))[n], Unique(SortPersons(s))[n + 1])
  <1> DEFINE t == SortPersons(s)
             u == Unique(t)
  <1>1. /\ s \in Seq(E) /\ \A n \in DOMAIN s : s[n].pid \in S
        /\ \A p \in S : \E n \in DOMAIN s : s[n].pid = p
    BY DEF Fits
  <1>2. /\ t \in Seq(E) /\ Len(t) = Len(s)
        /\ \A n \in DOMAIN s : \E m \in DOMAIN s : t[m] = s[n]
        /\ \A m \in DOMAIN s : \E n \in DOMAIN s : t[m] = s[n]
        /\ \A m, n \in DOMAIN s : m < n => InOrder(t[m], t[n]) \/ t[m] = t[n]
    BY <1>1, SortPersonsIs
  <1> HIDE DEF t
  <1>3. DOMAIN t = DOMAIN s
    BY <1>1, <1>2
  <1>4. \A m, n \in DOMAIN t : m < n => InOrder(t[m], t[n]) \/ t[m] = t[n]
    BY <1>2, <1>3
  <1>5. /\ u \in Seq(E)
        /\ \A n \in DOMAIN t : \E m \in DOMAIN u : u[m] = t[n]
        /\ \A m \in DOMAIN u : \E n \in DOMAIN t : u[m] = t[n]
        /\ \A n \in 1 .. Len(u) - 1 : InOrder(u[n], u[n + 1])
    BY <1>2, <1>4, UniqueIs
  <1> HIDE DEF u
  <1>6. ASSUME NEW m \in DOMAIN u PROVE u[m].pid \in S
    <2>1. PICK n \in DOMAIN t : u[m] = t[n]
      BY <1>5
    <2>2. PICK l \in DOMAIN s : t[n] = s[l]
      BY <1>2, <1>3
    <2>3. QED
      BY <1>1, <2>1, <2>2
  <1>7. ASSUME NEW p \in S PROVE \E m \in DOMAIN u : u[m].pid = p
    <2>1. PICK n \in DOMAIN s : s[n].pid = p
      BY <1>1
    <2>2. PICK l \in DOMAIN s : t[l] = s[n]
      BY <1>2
    <2>3. PICK m \in DOMAIN u : u[m] = t[l]
      BY <1>3, <1>5
    <2>4. QED
      BY <2>1, <2>2, <2>3
  <1>8. QED
    BY <1>5, <1>6, <1>7 DEF Fits, u, t

\* The row read puts pid into place id, and nobody else anywhere.
PutsIn(pid, id) ==
    \A q \in PlaceIds(file) :
       PersonsIn(q)' = IF q = id THEN PersonsIn(q) \cup {pid} ELSE PersonsIn(q)

\* One more row for a place.
LEMMA RowPut ==
    ASSUME PlacesInv, PlacesFilled, NEW pid \in PersonIds, NEW id \in PlaceIds(file),
           AddPerson(id, pid), PutsIn(pid, id), UNCHANGED <<file, tags>>
    PROVE  PlacesFilled'
  <1> DEFINE e == PersonInPlace(pid)
             Subs == SUBSET {r[1] : r \in file.isPartOf}
             P == PlaceIds(file)
  <1>1. places' = [places EXCEPT ![id].persons = Append(@, e)]
    BY DEF AddPerson
  <1>2. Entries' = Entries /\ PlaceIds(file)' = P
    BY DEF PersonInPlace, Entries, PlaceIds
  <1>3. e \in Entries /\ e.pid = pid
    BY DEF Entries, PersonInPlace
  <1> HIDE DEF e, P
  <1>4. DOMAIN places = P /\ \A q \in P : /\ places[q] \in [persons : Seq(Entries), sub_places : Subs]
                                          /\ Fits(places[q].persons, PersonsIn(q), Entries)
    BY DEF PlacesFilled, P
  <1>5. id \in P /\ \A q \in P : PersonsIn(q)' = IF q = id THEN PersonsIn(q) \cup {pid} ELSE PersonsIn(q)
    BY DEF P, PutsIn
  <1> HIDE DEF Subs
  <1>6. ASSUME NEW q \in P
        PROVE  /\ places'[q] \in [persons : Seq(Entries), sub_places : Subs]
               /\ Fits(places'[q].persons, PersonsIn(q)', Entries)
    <2>1. CASE q = id
      <3>1. places'[q] = [places[q] EXCEPT !.persons = Append(places[q].persons, e)]
        BY <1>1, <1>4, <1>5, <2>1
      <3>2. Fits(Append(places[q].persons, e), PersonsIn(q) \cup {e.pid}, Entries)
        BY <1>3, <1>4, FitsAppend
      <3>3. Append(places[q].persons, e) \in Seq(Entries)
        BY <3>2 DEF Fits
      <3>4. /\ places'[q].persons = Append(places[q].persons, e)
            /\ places'[q] \in [persons : Seq(Entries), sub_places : Subs]
        BY <1>4, <3>1, <3>3
      <3>5. PersonsIn(q)' = PersonsIn(q) \cup {e.pid}
        BY <1>3, <1>5, <2>1
      <3>6. QED
        BY <3>2, <3>4, <3>5
    <2>2. CASE q # id
      <3>1. places'[q] = places[q] /\ PersonsIn(q)' = PersonsIn(q)
        BY <1>1, <1>4, <1>5, <2>2
      <3>2. QED
        BY <1>4, <3>1
    <2>3. QED
      BY <2>1, <2>2
  <1>7. DOMAIN places' = P
    BY <1>1, <1>4
  <1>8. QED
    BY <1>2, <1>6, <1>7 DEF PlacesFilled, Subs

\* The tree of places has no persons yet.
LEMMA BuildPlacesTreeStep ==
    ASSUME PlacesInv, BuildPlacesTree
    PROVE  PlacesSoFar'
  <1>1. /\ where = "tree" /\ where' = "located" /\ placed' = 0 /\ phase' = phase
        /\ UNCHANGED <<file, tags>>
        /\ places' = [id \in PlaceIds(file) |->
                         [persons |-> <<>>,
                          sub_places |-> {r[1] : r \in {r \in file.isPartOf : r[2] = id}}]]
    BY DEF BuildPlacesTree, To, where, placed, phase, PlacesInv, DataInv, Place, Threads, tagVars
  <1>2. LocatedRows' = 0 /\ OrgRows' = 0
    BY <1>1 DEF LocatedRows, OrgRows
  <1>3. \A id : PersonsIn(id)' = {}
    BY <1>2 DEF PersonsIn
  <1>4. PlaceIds(file)' = PlaceIds(file)
    BY <1>1 DEF PlaceIds
  <1> DEFINE Subs == SUBSET {r[1] : r \in file.isPartOf}
             sub(id) == {r[1] : r \in {r \in file.isPartOf : r[2] = id}}
  <1>5. \A id : sub(id) \in Subs
    OBVIOUS
  <1>6. \A id \in PlaceIds(file) : places'[id] = [persons |-> <<>>, sub_places |-> sub(id)]
    BY <1>1
  <1> HIDE DEF Subs, sub
  <1>7. ASSUME NEW id \in PlaceIds(file)
        PROVE  /\ places'[id] \in [persons : Seq(Entries'), sub_places : Subs]
               /\ Fits(places'[id].persons, PersonsIn(id)', Entries')
    <2> DEFINE subs == sub(id)
    <2>0. places'[id] = [persons |-> <<>>, sub_places |-> subs] /\ subs \in Subs
      BY <1>5, <1>6, <1>7
    <2> HIDE DEF subs
    <2>1. places'[id].persons = <<>>
      BY <2>0
    <2>2. places'[id] \in [persons : Seq(Entries'), sub_places : Subs]
      <3>1. \A T : <<>> \in Seq(T)
        OBVIOUS
      <3>2. \A T : [persons |-> <<>>, sub_places |-> subs] \in [persons : Seq(T), sub_places : Subs]
        BY <2>0, <3>1
      <3>3. QED
        BY <2>0, <3>2
    <2>3. Fits(<<>>, {}, Entries')
      BY DEF Fits
    <2>4. QED
      BY <1>3, <2>1, <2>2, <2>3
  <1>8. DOMAIN places' = PlaceIds(file)
    BY <1>1
  <1>9. PlacesFilled'
    BY <1>1, <1>4, <1>7, <1>8 DEF PlacesFilled, Subs
  <1>10. phase' \in {"forumTag", "member"} /\ Len(file.located)' \in Nat
    BY <1>1, PlaceFiles DEF PlacesInv, PlacesSoFar, DataInv, Place
  <1>11. QED
    BY <1>1, <1>9, <1>10 DEF PlacesSoFar

\* A row of who lives where.
LEMMA ReadLocatedStep ==
    ASSUME PlacesInv, ReadLocated
    PROVE  PlacesSoFar'
  <1> DEFINE home == file.located[placed + 1]
  <1>1. /\ where = "located" /\ where' = "located" /\ placed < Len(file.located)
        /\ placed \in Nat /\ placed' = placed + 1 /\ phase' = phase
        /\ UNCHANGED <<file, tags>> /\ AddPerson(home[2], home[1]) /\ file \in DataFiles
    BY DEF ReadLocated, Reading, OneRow, Row, where, placed, phase, PlacesInv, DataInv, Place, Threads, tagVars
  <1>2. home \in PersonIds \X PlaceIds(file) /\ Len(file.located) \in Nat
    <2>1. file.located \in Seq(PersonIds \X PlaceIds(file))
      BY <1>1, PlaceFiles
    <2>2. placed + 1 \in 1 .. Len(file.located)
      BY <1>1, <2>1
    <2>3. QED
      BY <2>1, <2>2, ElementOf
  <1>3. LocatedRows = placed /\ LocatedRows' = placed + 1 /\ OrgRows = 0 /\ OrgRows' = 0
    BY <1>1 DEF LocatedRows, OrgRows
  <1>4. PutsIn(home[1], home[2])
    <2>1. ASSUME NEW q \in PlaceIds(file), NEW p \in PersonIds
          PROVE  p \in PersonsIn(q)' <=> (p \in PersonsIn(q) \/ (p = home[1] /\ q = home[2]))
      <3>1. p \in PersonsIn(q) <=> \E n \in 1 .. placed : file.located[n] = <<p, q>>
        BY <1>3 DEF PersonsIn
      <3>2. p \in PersonsIn(q)' <=> \E n \in 1 .. placed + 1 : file.located[n] = <<p, q>>
        BY <1>1, <1>3 DEF PersonsIn
      <3>3. 1 .. placed + 1 = (1 .. placed) \cup {placed + 1}
        BY <1>1
      <3>4. home = <<p, q>> <=> (p = home[1] /\ q = home[2])
        BY <1>2
      <3> HIDE DEF home
      <3>5. \A n : n = placed + 1 => file.located[n] = home
        BY DEF home
      <3>6. QED
        BY <3>1, <3>2, <3>3, <3>4, <3>5
    <2>2. ASSUME NEW q \in PlaceIds(file)
          PROVE  PersonsIn(q)' = IF q = home[2] THEN PersonsIn(q) \cup {home[1]} ELSE PersonsIn(q)
      <3>1. PersonsIn(q) \subseteq PersonIds /\ PersonsIn(q)' \subseteq PersonIds /\ home[1] \in PersonIds
        BY <1>2 DEF PersonsIn
      <3> HIDE DEF home
      <3>2. QED
        BY <2>1, <3>1
    <2>3. QED
      BY <2>2 DEF PutsIn
  <1>5. PlacesFilled'
    <2>1. PlacesFilled
      BY <1>1 DEF PlacesInv, PlacesSoFar
    <2>2. home[1] \in PersonIds /\ home[2] \in PlaceIds(file)
      BY <1>2
    <2> HIDE DEF home
    <2>3. QED
      BY <1>1, <1>4, <2>1, <2>2, RowPut
  <1>6. phase' \in {"forumTag", "member"} /\ placed + 1 <= Len(file.located)
    BY <1>1, <1>2 DEF PlacesInv, PlacesSoFar
  <1>7. QED
    BY <1>1, <1>5, <1>6 DEF PlacesSoFar

\* Organisations are read between the persons of places and those of organisations.
LEMMA ReadOrgsStep ==
    ASSUME PlacesInv, ReadOrgs
    PROVE  PlacesSoFar'
  <1>1. /\ where = "located" /\ where' = "atOrg" /\ placed = Len(file.located)
        /\ placed' = 0 /\ phase' = phase
        /\ UNCHANGED <<file, tags, places>> /\ file \in DataFiles
    BY DEF ReadOrgs, AtEnd, To, where, placed, phase, PlacesInv, DataInv, Place, Threads, tagVars, placeVars
  <1>2. LocatedRows' = LocatedRows /\ OrgRows = 0 /\ OrgRows' = 0
    BY <1>1 DEF LocatedRows, OrgRows
  <1>3. \A id : PersonsIn(id)' = PersonsIn(id)
    BY <1>1, <1>2 DEF PersonsIn
  <1>4. Entries' = Entries /\ PlaceIds(file)' = PlaceIds(file)
    BY <1>1 DEF PersonInPlace, Entries, PlaceIds
  <1>5. PlacesFilled
    BY <1>1 DEF PlacesInv, PlacesSoFar
  <1>6. PlacesFilled'
    BY <1>1, <1>3, <1>4, <1>5 DEF PlacesFilled
  <1>7. phase' \in {"forumTag", "member"} /\ Len(file.atOrg)' \in Nat
    BY <1>1, PlaceFiles DEF PlacesInv, PlacesSoFar
  <1>8. QED
    BY <1>1, <1>6, <1>7 DEF PlacesSoFar

\* A row of who works or studies where.
LEMMA ReadOrgPlaceStep ==
    ASSUME PlacesInv, ReadOrgPlace
    PROVE  PlacesSoFar'
  <1> DEFINE job == file.atOrg[placed + 1]
             id == file.org[job[2]]
  <1>1. /\ where = "atOrg" /\ where' = "atOrg" /\ placed < Len(file.atOrg)
        /\ placed \in Nat /\ placed' = placed + 1 /\ phase' = phase
        /\ UNCHANGED <<file, tags>> /\ AddPerson(id, job[1]) /\ file \in DataFiles
    BY DEF ReadOrgPlace, Reading, OneRow, Row, where, placed, phase, PlacesInv, DataInv, Place, Threads, tagVars
  <1>2. job[1] \in PersonIds /\ id \in PlaceIds(file) /\ Len(file.atOrg) \in Nat
    <2>1. file.atOrg \in Seq(PersonIds \X DOMAIN file.org) /\ file.org \in Seq(PlaceIds(file))
      BY <1>1, PlaceFiles
    <2>2. placed + 1 \in 1 .. Len(file.atOrg)
      BY <1>1, <2>1
    <2>3. job \in PersonIds \X DOMAIN file.org
      BY <2>1, <2>2, ElementOf
    <2> HIDE DEF job
    <2>4. job[1] \in PersonIds /\ job[2] \in DOMAIN file.org
      BY <2>3
    <2>5. QED
      BY <2>1, <2>4
  <1>3. LocatedRows' = LocatedRows /\ OrgRows = placed /\ OrgRows' = placed + 1
    BY <1>1 DEF LocatedRows, OrgRows
  <1>4. PutsIn(job[1], id)
    <2> DEFINE Lives(p, q) == \E n \in 1 .. LocatedRows : file.located[n] = <<p, q>>
               WorksAt(n, p, q) == file.atOrg[n][1] = p /\ file.org[file.atOrg[n][2]] = q
    <2>1. ASSUME NEW q \in PlaceIds(file), NEW p \in PersonIds
          PROVE  p \in PersonsIn(q)' <=> (p \in PersonsIn(q) \/ (p = job[1] /\ q = id))
      <3>1. p \in PersonsIn(q) <=> (Lives(p, q) \/ \E n \in 1 .. placed : WorksAt(n, p, q))
        BY <1>3 DEF PersonsIn
      <3>2. p \in PersonsIn(q)' <=> (Lives(p, q) \/ \E n \in 1 .. placed + 1 : WorksAt(n, p, q))
        BY <1>1, <1>3 DEF PersonsIn
      <3>3. 1 .. placed + 1 = (1 .. placed) \cup {placed + 1}
        BY <1>1
      <3>4. WorksAt(placed + 1, p, q) <=> (p = job[1] /\ q = id)
        OBVIOUS
      <3> HIDE DEF job, id, Lives, WorksAt
      <3>5. QED
        BY <3>1, <3>2, <3>3, <3>4
    <2>2. ASSUME NEW q \in PlaceIds(file)
          PROVE  PersonsIn(q)' = IF q = id THEN PersonsIn(q) \cup {job[1]} ELSE PersonsIn(q)
      <3>1. PersonsIn(q) \subseteq PersonIds /\ PersonsIn(q)' \subseteq PersonIds
        BY DEF PersonsIn
      <3> HIDE DEF job, id
      <3>2. QED
        BY <1>2, <2>1, <3>1
    <2>3. QED
      BY <2>2 DEF PutsIn
  <1>5. PlacesFilled'
    <2>1. PlacesFilled
      BY <1>1 DEF PlacesInv, PlacesSoFar
    <2> HIDE DEF job, id
    <2>2. QED
      BY <1>1, <1>2, <1>4, <2>1, RowPut
  <1>6. phase' \in {"forumTag", "member"} /\ placed + 1 <= Len(file.atOrg)
    BY <1>1, <1>2 DEF PlacesInv, PlacesSoFar
  <1>7. QED
    BY <1>1, <1>5, <1>6 DEF PlacesSoFar

\* sort and unique leave the persons of each place in order.
LEMMA SortUniqueStep ==
    ASSUME PlacesInv, SortUnique
    PROVE  PlacesSoFar'
  <1>1. /\ where = "atOrg" /\ where' = "done" /\ placed = Len(file.atOrg) /\ phase' = phase
        /\ UNCHANGED <<file, tags>> /\ file \in DataFiles
        /\ places' = [id \in DOMAIN places |-> [places[id] EXCEPT !.persons = Unique(SortPersons(@))]]
    BY DEF SortUnique, AtEnd, To, where, placed, phase, PlacesInv, DataInv, Place, Threads, tagVars
  <1>2. LocatedRows' = LocatedRows /\ OrgRows' = OrgRows
    BY <1>1 DEF LocatedRows, OrgRows
  <1>3. \A id : PersonsIn(id)' = PersonsIn(id)
    BY <1>1, <1>2 DEF PersonsIn
  <1>4. Entries' = Entries /\ PlaceIds(file)' = PlaceIds(file)
    BY <1>1 DEF PersonInPlace, Entries, PlaceIds
  <1>5. PlacesFilled
    BY <1>1 DEF PlacesInv, PlacesSoFar
  <1>6. PersonRows(Entries)
    <2>1. Len(tag_name) \in Nat
      BY FileTypes DEF PlacesInv, DataInv, TagsSoFar
    <2>2. QED
      BY <2>1, EntriesAre DEF PlacesInv
  <1> DEFINE Subs == SUBSET {r[1] : r \in file.isPartOf}
  <1> HIDE DEF Subs
  <1>7. ASSUME NEW id \in PlaceIds(file)
        PROVE  /\ places'[id] \in [persons : Seq(Entries), sub_places : Subs]
               /\ Fits(places'[id].persons, PersonsIn(id), Entries)
               /\ \A n \in 1 .. Len(places'[id].persons) - 1 :
                     InOrder(places'[id].persons[n], places'[id].persons[n + 1])
    <2> DEFINE u == Unique(SortPersons(places[id].persons))
    <2>1. /\ id \in DOMAIN places
          /\ places[id] \in [persons : Seq(Entries), sub_places : Subs]
          /\ Fits(places[id].persons, PersonsIn(id), Entries)
      BY <1>5 DEF PlacesFilled, Subs
    <2>2. places'[id] = [places[id] EXCEPT !.persons = u]
      BY <1>1, <2>1
    <2>3. /\ Fits(u, PersonsIn(id), Entries)
          /\ \A n \in 1 .. Len(u) - 1 : InOrder(u[n], u[n + 1])
      BY <1>6, <2>1, FitsSorted
    <2> HIDE DEF u
    <2>4. u \in Seq(Entries)
      BY <2>3 DEF Fits
    <2>5. places'[id].persons = u /\ places'[id] \in [persons : Seq(Entries), sub_places : Subs]
      BY <2>1, <2>2, <2>4
    <2>6. QED
      BY <2>3, <2>5
  <1>8. DOMAIN places' = PlaceIds(file)
    BY <1>1, <1>5 DEF PlacesFilled
  <1>9. PlacesFilled' /\ PlacesOrdered'
    BY <1>1, <1>3, <1>4, <1>7, <1>8 DEF PlacesFilled, PlacesOrdered, Subs
  <1>10. phase' \in {"forumTag", "member"}
    BY <1>1 DEF PlacesInv, PlacesSoFar
  <1>11. QED
    BY <1>1, <1>9, <1>10 DEF PlacesSoFar

\* The invariant holds of every step.
LEMMA PlacesInvNext == PlacesInv /\ [DataNext]_dataVars => PlacesInv'
  <1> SUFFICES ASSUME PlacesInv, [DataNext]_dataVars PROVE PlacesInv'
    OBVIOUS
  <1>1. DataInv' /\ DataInv /\ InterestsSoFar /\ PlacesSoFar
    BY DataInvNext DEF PlacesInv
  <1>2. file \in DataFiles /\ Place /\ Len(tag_name) \in Nat
    BY <1>1, FileTypes DEF DataInv, Place, TagsSoFar
  <1>3. CASE ReadTag
    <2>1. phase = "tag" /\ phase' = "tag" /\ where' = where /\ placed' = placed
      BY <1>2, <1>3 DEF ReadTag, Reading, OneRow, phase, where, placed, Place, Threads
    <2>2. tags' = tags /\ \E name : tag_name' = Append(tag_name, name)
      BY <1>3 DEF ReadTag
    <2>3. tags = [p \in PersonIds |-> {}]
      BY <1>1, <2>1 DEF InterestsSoFar
    <2>4. InterestsSoFar'
      BY <2>1, <2>2, <2>3 DEF InterestsSoFar
    <2>5. UNCHANGED <<file, tags, places>>
      BY <1>3 DEF ReadTag, placeVars
    <2>6. PlacesSoFar'
      BY <1>1, <2>1, <2>5, NotStarted, SamePlaces
    <2>7. QED
      BY <1>1, <2>4, <2>6 DEF PlacesInv
  <1>4. CASE AllocateTags
    <2>1. phase = "tag" /\ phase' = "interest" /\ where' = where /\ placed' = placed
      BY <1>2, <1>4 DEF AllocateTags, AtEnd, To, phase, where, placed, Place, Threads
    <2>2. tags' = tags /\ tag_name' = tag_name /\ person_in_tags' = [n \in DOMAIN tag_name |-> <<>>]
      BY <1>4 DEF AllocateTags
    <2>3. tags = [p \in PersonIds |-> {}]
      BY <1>1, <2>1 DEF InterestsSoFar
    <2>4. DOMAIN tag_name = 1 .. Len(tag_name)
      BY <1>1 DEF DataInv, TagsSoFar
    <2>5. InterestsSoFar'
      <3>1. \A p, n : ~ Among(p, <<>>)
        BY DEF Among
      <3>2. person_in_tags' \in [1 .. Len(tag_name) -> Seq(PersonIds)]
        BY <2>2, <2>4
      <3>3. \A n \in 1 .. Len(tag_name) : person_in_tags'[n] = <<>>
        BY <2>2, <2>4
      <3>4. \A p, n : Among(p, person_in_tags[n])' <=> Among(p, person_in_tags'[n])
        BY DEF Among
      <3>5. QED
        BY <2>1, <2>2, <2>3, <3>1, <3>2, <3>3, <3>4 DEF InterestsSoFar
    <2>6. UNCHANGED <<file, tags, places>>
      BY <1>4 DEF AllocateTags, placeVars
    <2>7. PlacesSoFar'
      BY <1>1, <2>1, <2>6, NotStarted, SamePlaces
    <2>8. QED
      BY <1>1, <2>5, <2>7 DEF PlacesInv
  <1>5. CASE ReadInterest
    <2>1. /\ phase = "interest" /\ where' = where /\ placed' = placed
          /\ UNCHANGED <<file, places>>
      BY <1>2, <1>5 DEF ReadInterest, Reading, OneRow, phase, where, placed, Place, Threads, placeVars
    <2>2. where = "not started"
      BY <2>1, NotStarted
    <2>3. PlacesSoFar'
      BY <2>1, <2>2 DEF PlacesSoFar
    <2>4. QED
      BY <1>1, <1>5, <2>3, ReadInterestStep DEF PlacesInv
  <1>6. CASE StartPlaces
    <2>1. phase = "interest" /\ phase' = "forumTag" /\ where' = "tree"
      BY <1>6 DEF StartPlaces, AtEnd, phase, where, Threads
    <2>2. PlacesSoFar'
      BY <2>1 DEF PlacesSoFar
    <2>3. InterestsSoFar'
      BY <1>1, <1>6, <2>1, SameInterests DEF StartPlaces, tagVars
    <2>4. QED
      BY <1>1, <2>2, <2>3 DEF PlacesInv
  <1>7. CASE ReadForumTag \/ BeginMembers \/ ReadMember
    <2>1. /\ phase \in {"forumTag", "member"} /\ phase' \in {"forumTag", "member"}
          /\ where' = where /\ placed' = placed
      BY <1>2, <1>7 DEF ReadForumTag, BeginMembers, ReadMember, Reading, AtEnd, OneRow, To, phase, where,
         placed, Place, Threads
    <2>2. UNCHANGED <<file, tags, person_in_tags, tag_name, places>>
      BY <1>7 DEF ReadForumTag, BeginMembers, ReadMember, tagVars, placeVars
    <2>3. QED
      BY <1>1, <2>1, <2>2, SameInterests, SamePlaces DEF PlacesInv
  <1>8. CASE BuildPlacesTree \/ ReadLocated \/ ReadOrgs \/ ReadOrgPlace \/ SortUnique
    <2>1. PlacesSoFar'
      BY <1>8, BuildPlacesTreeStep, ReadLocatedStep, ReadOrgsStep, ReadOrgPlaceStep, SortUniqueStep
    <2>2. /\ where # "not started" /\ phase' = phase
          /\ UNCHANGED <<tags, person_in_tags, tag_name>>
      BY <1>2, <1>8 DEF BuildPlacesTree, ReadLocated, ReadOrgs, ReadOrgPlace, SortUnique, Reading, AtEnd,
         OneRow, To, phase, where, Place, Threads, tagVars
    <2>3. phase # "tag"
      BY <1>1, <2>2 DEF PlacesSoFar
    <2>4. QED
      BY <1>1, <2>1, <2>2, <2>3, SameInterests DEF PlacesInv
  <1>9. CASE UNCHANGED dataVars
    <2>1. /\ phase' = phase /\ where' = where /\ placed' = placed
          /\ UNCHANGED <<file, tags, person_in_tags, tag_name, places>>
      BY <1>9 DEF dataVars, tagVars, placeVars, phase, where, placed
    <2>2. PlacesSoFar'
      BY <1>1, <2>1, SamePlaces DEF PlacesSoFar
    <2>3. InterestsSoFar'
      BY <1>1, <2>1 DEF InterestsSoFar, Among
    <2>4. QED
      BY <1>1, <2>2, <2>3 DEF PlacesInv
  <1>10. QED
    BY <1>3, <1>4, <1>5, <1>6, <1>7, <1>8, <1>9 DEF DataNext

\* The interests both ways and the persons of places are right whatever the
\* order of the rows and of the two threads: when query 3 starts, each place has
\* its persons once each, those with more tags first (read.cpp:540); when the
\* interests are read, the two lists are each other's inverse.
THEOREM ReaderDataRight == DataSpec => []DataRight
  <1>1. PlacesInv => PlacesSorted
    <2> SUFFICES ASSUME PlacesInv, where = "done", NEW id \in DOMAIN places
                 PROVE  LET s == places[id].persons IN
                        /\ {s[n].pid : n \in DOMAIN s} =
                              {p \in PersonIds :
                                 \/ \E n \in DOMAIN file.located : file.located[n] = <<p, id>>
                                 \/ \E n \in DOMAIN file.atOrg :
                                       file.atOrg[n][1] = p /\ file.org[file.atOrg[n][2]] = id}
                        /\ \A n \in DOMAIN s : s[n].ntags = Cardinality(tags[s[n].pid])
                        /\ \A n \in 1 .. Len(s) - 1 : InOrder(s[n], s[n + 1])
      BY DEF PlacesSorted, where
    <2> DEFINE s == places[id].persons
    <2>1. file \in DataFiles /\ Len(tag_name) \in Nat /\ InterestsSoFar
      BY FileTypes DEF PlacesInv, DataInv, Place, TagsSoFar
    <2>2. id \in PlaceIds(file) /\ Fits(s, PersonsIn(id), Entries)
      BY DEF PlacesInv, PlacesSoFar, PlacesFilled
    <2>3. \A n \in 1 .. Len(s) - 1 : InOrder(s[n], s[n + 1])
      BY <2>2 DEF PlacesInv, PlacesSoFar, PlacesOrdered
    <2>4. PersonsIn(id) = {p \in PersonIds :
                             \/ \E n \in DOMAIN file.located : file.located[n] = <<p, id>>
                             \/ \E n \in DOMAIN file.atOrg :
                                   file.atOrg[n][1] = p /\ file.org[file.atOrg[n][2]] = id}
      <3>1. DOMAIN file.located = 1 .. LocatedRows /\ DOMAIN file.atOrg = 1 .. OrgRows
        BY <2>1, PlaceFiles DEF LocatedRows, OrgRows
      <3>2. QED
        BY <3>1, Zenon DEF PersonsIn
    <2> HIDE DEF s
    <2>5. {s[n].pid : n \in DOMAIN s} = PersonsIn(id)
      BY <2>2 DEF Fits
    <2>6. ASSUME NEW n \in DOMAIN s PROVE s[n].ntags = Cardinality(tags[s[n].pid])
      <3>1. s[n] \in Entries
        BY <2>2 DEF Fits
      <3>2. s[n] = PersonInPlace(s[n].pid)
        BY <2>1, <3>1, EntriesAre
      <3>3. \A p : PersonInPlace(p).ntags = Cardinality(tags[p])
        BY DEF PersonInPlace
      <3>4. QED
        BY <3>2, <3>3
    <2>7. QED
      BY <2>3, <2>4, <2>5, <2>6 DEF s
  <1>2. PlacesInv => InterestsAgree
    <2> SUFFICES ASSUME PlacesInv, phase \in {"forumTag", "member"},
                        NEW p \in PersonIds, NEW n \in DOMAIN person_in_tags
                 PROVE  n \in tags[p] <=> \E m \in DOMAIN person_in_tags[n] : person_in_tags[n][m] = p
      BY DEF InterestsAgree, phase
    <2>1. QED
      BY DEF PlacesInv, InterestsSoFar, Among
  <1>3. PlacesInv => DataRight
    BY <1>1, <1>2 DEF DataRight
  <1>4. QED
    BY <1>3, PlacesInvInit, PlacesInvNext, PTL DEF DataSpec
=============================================================================

------------------------------- MODULE Query2 -------------------------------
(***************************************************************************)
(* query2_Unionfind.cc: the persons are inserted in descending order of    *)
(* birthday, a union-find per tag joins those who know each other, and     *)
(* a query is answered before the first person born too early for it.      *)
(*                                                                         *)
(* The i-th person inserted who has tag t is element i of f[t] and sum[t]. *)
(* The heap of tags is used through what TagRanking says of it, which      *)
(* MyHeap implements: range[t] is the key of t, and find_ans(k) yields the *)
(* k best.                                                                 *)
(***************************************************************************)
EXTENDS Integers, Sequences, FiniteSets, TagNames

CONSTANTS NPerson,     \* Data::nperson
          Birthdays,   \* the birthdays of class Data that are enumerated
          Interests,   \* the tags of class Data that are enumerated
          Queries      \* Queries[q]: the k and the d of query q

Persons == 1 .. NPerson
Pairs == {e \in SUBSET Persons : Cardinality(e) = 2}

ASSUME Query2Assumption ==
    /\ NPerson \in Nat /\ NTag \in Nat
    /\ Name \in [Tags -> Int]
    /\ Birthdays \subseteq [Persons -> Int]
    /\ Interests \subseteq [Persons -> SUBSET Tags]
    /\ \A q \in DOMAIN Queries : Queries[q].k \in 1 .. NTag /\ Queries[q].d \in Int

VARIABLES birthday, tags, friends,   \* the input; friends is a set of pairs
          inserted,   \* the persons inserted, in the order of insertion
          toJoin,     \* the friends of the last one that are still to be joined
          f,          \* f[t]: the parents in the union-find of tag t
          sum,        \* sum[t]: the size of the set of each root
          range,      \* the heap: the largest set of each tag so far
          ans         \* ans[q]: the answer to query q, <<>> before

input == <<birthday, tags, friends>>
vars == <<input, inserted, toJoin, f, sum, range, ans>>

-----------------------------------------------------------------------------
\* cmp_d.
Earlier(a, b) == birthday[a] > birthday[b] \/ (birthday[a] = birthday[b] /\ a < b)

\* The rank of person p in f[t]: myhash[t][p].
Rank(p, t) == Cardinality({q \in Persons : t \in tags[q] /\ (Earlier(q, p) \/ q = p)})

\* The order of persons: the next one to insert.
Waits == Persons \ {inserted[i] : i \in 1 .. Len(inserted)}
NextPerson == CHOOSE p \in Waits : \A q \in Waits \ {p} : Earlier(p, q)

Last == inserted[Len(inserted)]

\* getf: the root of x, and the parents once the path from x is compressed.
Root(p, x) ==
    LET r[y \in DOMAIN p] == IF p[y] = y THEN y ELSE r[p[y]] IN r[x]
Path(p, x) ==
    LET s[y \in DOMAIN p] == IF p[y] = y THEN {y} ELSE {y} \cup s[p[y]] IN s[x]
Compressed(p, x) == [y \in DOMAIN p |-> IF y \in Path(p, x) THEN Root(p, x) ELSE p[y]]

\* Mutant of ListedBefore: the list is left as in Data::friends, sorted by id.
ListedById(a, b) == a < b

\* The order of a list in myfriends.
ListedBefore(a, b) == Earlier(a, b)

\* The friends in the list of p that the loop comes to before it breaks, at the
\* first one that is later than p.
BeforeBreak(p) ==
    LET listed == {q \in Persons : {p, q} \in friends}
    IN {q \in listed : \A r \in listed : r = q \/ ListedBefore(r, q) => ~ Earlier(p, r)}

Larger(a, b) == IF a >= b THEN a ELSE b

\* HeapEle::operator<.
Ahead(s, t) == range[s] > range[t] \/ (range[s] = range[t] /\ Name[s] < Name[t])

\* What find_ans(k) may return: of two tags with one name and one range any may
\* come first.
Best(k) == {s \in [1 .. k -> Tags] :
              /\ \A i, j \in 1 .. k : i # j => s[i] # s[j]
              /\ \A i \in 1 .. k : \A t \in Tags \ {s[j] : j \in 1 .. i - 1} : ~ Ahead(t, s[i])}

Init ==
    /\ birthday \in Birthdays
    /\ tags \in Interests
    /\ friends \in SUBSET Pairs
    /\ inserted = <<>>
    /\ toJoin = {}
    /\ f = [t \in Tags |-> <<>>]
    /\ sum = [t \in Tags |-> <<>>]
    /\ range = [t \in Tags |-> 0]
    /\ ans = [q \in DOMAIN Queries |-> <<>>]

Open == {q \in DOMAIN Queries : ans[q] = <<>>}

\* Mutant of Due: no query is answered after the last person.
DueInside(q) == Waits # {} /\ Queries[q].d > birthday[NextPerson]

\* The query is answered before the next person is inserted.
Due(q) == Waits # {} => Queries[q].d > birthday[NextPerson]

\* Queries are sorted by d, the largest first.
Answer(q) ==
    /\ toJoin = {}
    /\ q \in Open
    /\ \A r \in Open : Queries[r].d <= Queries[q].d
    /\ Due(q)
    /\ \E s \in Best(Queries[q].k) : ans' = [ans EXCEPT ![q] = s]
    /\ UNCHANGED <<input, inserted, toJoin, f, sum, range>>

\* A person of its own in each of its tags, whose friends are to be joined.
Insert(p) ==
    /\ toJoin = {}
    /\ Open # {}
    /\ \A q \in Open : ~ Due(q)
    /\ Waits # {} /\ p = NextPerson
    /\ inserted' = Append(inserted, p)
    /\ toJoin' = BeforeBreak(p)
    /\ f' = [t \in Tags |-> IF t \in tags[p] THEN Append(f[t], Len(f[t]) + 1) ELSE f[t]]
    /\ sum' = [t \in Tags |-> IF t \in tags[p] THEN Append(sum[t], 1) ELSE sum[t]]
    /\ range' = [t \in Tags |-> IF t \in tags[p] THEN Larger(range[t], 1) ELSE range[t]]
    /\ UNCHANGED <<input, ans>>

\* Mutant of Merged: two members of one set are merged again.
MergedAgain(t, q) ==
    LET new == Len(f[t])
        root == Root(f[t], Rank(q, t))
    IN [parent |-> [Compressed(f[t], Rank(q, t)) EXCEPT ![root] = new],
        size |-> [sum[t] EXCEPT ![new] = @ + sum[t][root]]]

\* The union-find of tag t once the set of friend q is merged into that of the
\* last person, which is always a root.
Merged(t, q) ==
    LET new == Len(f[t])
        root == Root(f[t], Rank(q, t))
        path == Compressed(f[t], Rank(q, t))
    IN IF root = new THEN [parent |-> path, size |-> sum[t]]
       ELSE [parent |-> [path EXCEPT ![root] = new],
             size |-> [sum[t] EXCEPT ![new] = @ + sum[t][root]]]

\* The next friend of the list.
Join(q) ==
    /\ q \in toJoin
    /\ \A r \in toJoin \ {q} : ListedBefore(q, r)
    /\ toJoin' = toJoin \ {q}
    /\ LET common == tags[q] \cap tags[Last] IN
          /\ f' = [t \in Tags |-> IF t \in common THEN Merged(t, q).parent ELSE f[t]]
          /\ sum' = [t \in Tags |-> IF t \in common THEN Merged(t, q).size ELSE sum[t]]
          /\ range' = [t \in Tags |->
                IF t \in common THEN Larger(range[t], sum'[t][Len(f[t])]) ELSE range[t]]
    /\ UNCHANGED <<input, inserted, ans>>

Next ==
    \/ \E q \in DOMAIN Queries : Answer(q)
    \/ \E p \in Persons : Insert(p) \/ Join(p)

\* The task runs to its end.
Spec == Init /\ [][Next]_vars /\ WF_vars(Next)

-----------------------------------------------------------------------------
(* Properties.                                                             *)

\* Friendships between persons in S do not lead out of C.
Closed(C, S) == \A a \in C, b \in S : {a, b} \in friends => b \in C

\* The persons connected to p within S: no closed set parts them from p.
Component(S, p) == {q \in S : \A C \in SUBSET S : p \in C /\ Closed(C, S) => q \in C}

\* The size of the largest connected set of persons in S.
LargestIn(S) ==
    IF S = {} THEN 0
    ELSE LET sizes == {Cardinality(Component(S, p)) : p \in S}
         IN CHOOSE n \in sizes : \A m \in sizes : m <= n

With(t, P) == {p \in P : t \in tags[p]}

Placed == Persons \ Waits

TypeOK ==
    /\ toJoin \subseteq Placed
    /\ \A t \in Tags :
          /\ Len(f[t]) = Cardinality(With(t, Placed))
          /\ DOMAIN sum[t] = DOMAIN f[t]
          /\ \A x \in DOMAIN f[t] : f[t][x] \in x .. Len(f[t])
          /\ range[t] \in 0 .. NPerson

\* Between two persons the sets of tag t are exactly the components of the
\* persons inserted who have t, the sum at each root is the size of its set,
\* and the heap has the size of the largest, however paths were compressed.
SetsExact ==
    toJoin = {} => \A t \in Tags :
       LET S == With(t, Placed)
           root == [p \in S |-> Root(f[t], Rank(p, t))]
           component == [p \in S |-> Component(S, p)]
       IN /\ \A p, q \in S : root[p] = root[q] <=> q \in component[p]
          /\ \A p \in S : sum[t][root[p]] = Cardinality(component[p])
          /\ range[t] = LargestIn(S)

\* An answer names the k tags of the largest range among the persons born on
\* day d or later, as query2_Unionfind.cc:97 has it, best first and ties by name:
\* nobody born on that day is missing, and no friendship between two of them.
AnswersRight ==
    \A q \in DOMAIN Queries : ans[q] # <<>> =>
       LET size == [t \in Tags |->
              LargestIn(With(t, {p \in Persons : birthday[p] >= Queries[q].d}))]
           Before(s, t) == size[s] > size[t] \/ (size[s] = size[t] /\ Name[s] < Name[t])
       IN /\ Len(ans[q]) = Queries[q].k
          /\ \A i, j \in DOMAIN ans[q] : i # j => ans[q][i] # ans[q][j]
          /\ \A i \in DOMAIN ans[q] :
                \A t \in Tags \ {ans[q][j] : j \in 1 .. i - 1} : ~ Before(t, ans[q][i])

\* Every query is answered, those for days before the first birthday too:
\* query2_Unionfind.cc:134 asserts it.
AllAnswered == <>(Open = {})

\* src/README.md:40, "forall v in V', v_d > d", and 46-47: the persons born on day
\* d do not count.
AnswersAsDocumented ==
    \A q \in DOMAIN Queries : ans[q] # <<>> =>
       LET size == [t \in Tags |->
              LargestIn(With(t, {p \in Persons : birthday[p] > Queries[q].d}))]
       IN \A i \in DOMAIN ans[q] :
             \A t \in Tags \ {ans[q][j] : j \in 1 .. i - 1} : size[t] <= size[ans[q][i]]
=============================================================================

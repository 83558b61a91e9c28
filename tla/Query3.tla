------------------------------- MODULE Query3 -------------------------------
(***************************************************************************)
(* query3_version5.cc: the k pairs of persons of a place with the most     *)
(* common tags, among those at most h hops apart.                          *)
(*                                                                         *)
(* Every person g in turn looks for one partner only: moveOneStep goes     *)
(* through the tags of g, the rarest first, so that whoever has c of the n *)
(* tags of g is seen by the time n - c tags are done.  It gives up when    *)
(* the k answers found are all better than what is left.  All pairs of     *)
(* the persons in the answers found are then tried again.                  *)
(***************************************************************************)
EXTENDS Network, Sequences, FiniteSetsExt, Sorting

CONSTANTS NTag,         \* Data::ntag
          Networks,     \* the sets of friendships {p, q} that are enumerated
          Interests,    \* the tags of class Data that are enumerated
          Places,       \* the places that are enumerated: at each node of the
                        \* tree its persons and the nodes below, and the
                        \* nodes that have the name asked for
          Questions     \* the pairs <<k, h>> that are enumerated

Tags == 1 .. NTag

\* What bfs3 returns for two persons that it finds no path between.
Far == 2000000000

\* No query asks for as many hops as that.
ASSUME Query3Assumption ==
    /\ NTag \in Nat
    /\ \A E \in Networks : \A e \in E : e \subseteq Persons /\ Cardinality(e) = 2
    /\ Interests \subseteq [Persons -> SUBSET Tags]
    /\ \A x \in Places :
          /\ x.persons \in [DOMAIN x.persons -> SUBSET Persons]
          /\ x.below \in [DOMAIN x.persons -> SUBSET DOMAIN x.persons]
          /\ x.named \subseteq DOMAIN x.persons
    /\ Questions \subseteq (Nat \ {0}) \X (0 .. Far - 1)

VARIABLES friends, tags, place, question,   \* the input
          g,            \* the person whose partner is looked for
          i,            \* i_itr[g]: the tags of g done
          pool,         \* pool[c]: the persons seen with c common tags
          forsake,      \* the persons seen
          answerHeap,   \* the answers found, at most k
          pc,           \* "begin" or "tags", then "done"; the other versions
                        \* have values of their own
          ans

input == <<friends, tags, place, question>>
vars == <<input, g, i, pool, forsake, answerHeap, pc, ans>>

k == question[1]
h == question[2]

\* The node n and all below it.
Under(x, n) ==
    {m \in DOMAIN x.persons :
        \A C \in SUBSET DOMAIN x.persons : n \in C /\ (\A a \in C : x.below[a] \subseteq C) => m \in C}

\* The persons of each node and of all below it.
PersonsOf ==
    [x \in Places |->
        [n \in DOMAIN x.persons |-> UNION {x.persons[m] : m \in Under(x, n)}]]

get_all_persons(n) == PersonsOf[place][n]

\* init: the union over all places of that name.
People == [x \in Places |-> UNION {PersonsOf[x][n] : n \in x.named}]
people == People[place]

-----------------------------------------------------------------------------
Balls ==
    [E \in Networks |->
        LET near == [p \in Persons |-> {q \in Persons : {p, q} \in E}]
            ball[n \in 0 .. NPerson] ==
               IF n = 0 THEN [p \in Persons |-> {p}]
               ELSE LET inner == ball[n - 1] IN
                    [p \in Persons |-> inner[p] \cup UNION {near[q] : q \in inner[p]}]
        IN [n \in 0 .. NPerson |-> ball[n]]]

\* The persons at most n hops from p; NPerson hops reach all that can be reached.
Ball(p, n) == Balls[friends][IF n < NPerson THEN n ELSE NPerson][p]

\* The two searches take levels in turn, p's first, until they meet or limit
\* levels are done, the first in any case: the levels after which they have met.
\* A search with nobody left never meets the other, however long it goes on.
Levels(E, limit, p, q) ==
    LET Reached(r, n) == Balls[E][IF n < NPerson THEN n ELSE NPerson][r] IN
    {n \in 1 .. (IF limit = 0 THEN 1 ELSE limit) :
        Reached(p, (n + 1) \div 2) \cap Reached(q, n \div 2) # {}}

Searches ==
    [x \in Networks \X {y[2] : y \in Questions} |->
        [e \in Persons \X Persons |->
            IF e[1] = e[2] THEN 0
            ELSE LET levels == Levels(x[1], x[2], e[1], e[2]) IN
                 IF levels = {} THEN Far ELSE Min(levels)]]

bfs3(p, q) == Searches[<<friends, h>>][<<p, q>>]

Close(p, q) == bfs3(p, q) <= h

-----------------------------------------------------------------------------
Prefix(s, n) == SubSeq(s, 1, Min({Len(s), n}))

\* Answer3, with its smaller person first, and its operator<.
Answer3(c, p, q) == IF p > q THEN <<c, q, p>> ELSE <<c, p, q>>

Ahead(a, b) ==
    \/ a[1] > b[1]
    \/ a[1] = b[1] /\ a[2] < b[2]
    \/ a[1] = b[1] /\ a[2] = b[2] /\ a[3] < b[3]

Common(p, q) == Cardinality(tags[p] \cap tags[q])

Worst(H) == CHOOSE a \in H : \A b \in H \ {a} : Ahead(b, a)

\* invertedList[t].
Having(t) == {p \in people : t \in tags[p]}

\* invList[p]: the tags of p, those that fewer persons from p on have first.
\* T has the tags, P the persons.
TagOrder(T, P, p) ==
    LET After == [t \in T[p] |-> Cardinality({q \in P : q >= p /\ t \in T[q]})] IN
    Sorted(T[p], LAMBDA s, t : After[s] < After[t] \/ (After[s] = After[t] /\ s < t))

InvLists ==
    [x \in Interests \X Places |-> [p \in People[x[2]] |-> TagOrder(x[1], People[x[2]], p)]]

invList(p) == InvLists[<<tags, place>>][p]

\* curLen: the common tags of those who have not been seen, at most.
curLen == Cardinality(tags[g]) - i

\* candidate[q] and the tags not done: q was in none of the lists before.
CommonFrom(q, n) ==
    Cardinality({m \in n .. Len(invList(g)) : invList(g)[m] \in tags[q]})

\* Mutant of insHeap: the new answer is not compared with the worst.
insHeapFull(a) ==
    IF a \in answerHeap THEN answerHeap
    ELSE IF Cardinality(answerHeap) < k THEN answerHeap \cup {a}
    ELSE (answerHeap \ {Worst(answerHeap)}) \cup {a}

insHeap(a) ==
    IF a \in answerHeap THEN answerHeap
    ELSE IF Cardinality(answerHeap) < k THEN answerHeap \cup {a}
    ELSE IF Ahead(Worst(answerHeap), a) THEN answerHeap
    ELSE (answerHeap \ {Worst(answerHeap)}) \cup {a}

-----------------------------------------------------------------------------
\* Up to where a version begins.
Start ==
    /\ friends \in Networks
    /\ tags \in Interests
    /\ place \in Places
    /\ question \in Questions
    /\ g = 0
    /\ i = 0
    /\ pool = [c \in 0 .. NTag |-> {}]
    /\ forsake = {}
    /\ answerHeap = {}
    /\ ans = <<>>

Init == Start /\ pc = "begin"

\* work: the next person.
Begin(p) ==
    /\ pc = "begin"
    /\ p \in people /\ p > g
    /\ \A q \in people : q > g => q >= p
    /\ g' = p
    /\ i' = 0
    /\ pool' = [c \in 0 .. NTag |-> {}]
    /\ forsake' = {p}
    /\ pc' = "tags"
    /\ UNCHANGED <<input, answerHeap, ans>>

\* All k answers found have more common tags than g can still find.
Hopeless == Cardinality(answerHeap) = k /\ Worst(answerHeap)[1] > curLen

Prune ==
    /\ pc = "tags"
    /\ i < Cardinality(tags[g])
    /\ Hopeless
    /\ pc' = "begin"
    /\ UNCHANGED <<input, g, i, pool, forsake, answerHeap, ans>>

\* The next tag: those it brings up go to the pool, and the first of those with
\* curLen common tags who is close is the partner.
TryTag ==
    /\ pc = "tags"
    /\ i < Cardinality(tags[g])
    /\ ~ Hopeless
    /\ LET seen == Having(invList(g)[i + 1]) \ forsake
           ready == pool[curLen] \cup {q \in seen : CommonFrom(q, i + 1) = curLen}
           close == {q \in ready : Close(g, q)}
       IN /\ forsake' = forsake \cup seen
          /\ IF close = {}
             THEN /\ i' = i + 1
                  /\ pool' = [c \in 0 .. NTag |-> IF c = curLen THEN {}
                                 ELSE pool[c] \cup {q \in seen : CommonFrom(q, i + 1) = c}]
                  /\ UNCHANGED <<answerHeap, pc>>
             ELSE /\ answerHeap' = insHeap(Answer3(curLen, g, Min(close)))
                  /\ pc' = "begin"
                  /\ UNCHANGED <<i, pool>>
    /\ UNCHANGED <<input, g, ans>>

\* Nobody with a common tag is close: anybody close, with 0.
TryAnybody ==
    /\ pc = "tags"
    /\ i = Cardinality(tags[g])
    /\ LET close == {q \in people \ {g} : Close(g, q)} IN
          answerHeap' = IF close = {} THEN answerHeap
                        ELSE insHeap(Answer3(0, g, Min(close)))
    /\ pc' = "begin"
    /\ UNCHANGED <<input, g, i, pool, forsake, ans>>

\* The close pairs of the persons in answerHeap, the first k of them.
Pairs ==
    /\ pc = "begin"
    /\ \A p \in people : p <= g
    /\ LET named == UNION {{a[2], a[3]} : a \in answerHeap}
           found == {<<Common(e[1], e[2]), e[1], e[2]>> :
                        e \in {x \in named \X named : x[1] < x[2] /\ Close(x[1], x[2])}}
       IN ans' = Prefix(Sorted(found, Ahead), k)
    /\ pc' = "done"
    /\ UNCHANGED <<input, g, i, pool, forsake, answerHeap>>

Next ==
    \/ Prune \/ TryTag \/ TryAnybody \/ Pairs
    \/ \E p \in Persons : Begin(p)

-----------------------------------------------------------------------------
(* Properties.                                                             *)

\* All pairs of the place at most h hops apart, by the distance itself.
ClosePairs ==
    {<<Common(e[1], e[2]), e[1], e[2]>> :
        e \in {x \in people \X people : x[1] < x[2] /\ x[2] \in Ball(x[1], h)}}

\* The answer is the k first of all close pairs, or all of them: trying one
\* partner for each person, giving up early and trying again loses no pair.
AnswerIsBest ==
    pc = "done" =>
       /\ {ans[n] : n \in DOMAIN ans} \subseteq ClosePairs
       /\ Len(ans) = IF Cardinality(ClosePairs) < k THEN Cardinality(ClosePairs) ELSE k
       /\ \A n \in DOMAIN ans : \A a \in ClosePairs \ {ans[m] : m \in 1 .. n} : Ahead(ans[n], a)

\* Between two persons the heap has the k first of the pairs that the persons
\* so far put first: each is a close pair with the right number of tags.
HeapIsBest ==
    pc = "begin" =>
       LET close == ClosePairs
           With(p) == {a \in close : p \in {a[2], a[3]}}
           Favourites(p) == {a \in With(p) : \A b \in With(p) \ {a} : Ahead(a, b)}
           favourites == UNION {Favourites(p) : p \in {q \in people : q <= g}}
       IN /\ answerHeap \subseteq favourites
          /\ Cardinality(answerHeap) <= k
          /\ \A a \in favourites \ answerHeap :
                Cardinality(answerHeap) = k /\ \A b \in answerHeap : Ahead(b, a)
=============================================================================

--------------------------- MODULE Query3Versions ---------------------------
(***************************************************************************)
(* The five versions of query 3, one of them in each behaviour: version 5  *)
(* as Query3 has it; versions 3 and 4, which let every person yield its    *)
(* partners one by one, and go on with whoever had the best pair taken     *)
(* from the heap; and two that search from every person to depth h, all    *)
(* pairs kept (query3_force.cc) or only k (query3_version2.cc).  They      *)
(* promise the same answer.                                                *)
(***************************************************************************)
EXTENDS Query3

VARIABLES version,   \* "v2" to "v5" or "force"
          stream,    \* i_itr, pool and forsake of each person that was begun
          heapSize   \* what the code takes for the size of answerHeap

streams == <<version, stream, heapSize>>
versionVars == <<vars, streams>>

VersionsInit ==
    /\ version \in {"v2", "v3", "v4", "v5", "force"}
    /\ stream = <<>>
    /\ heapSize = 0
    /\ Start
    /\ pc \in CASE version = "v5" -> {"begin"}
                [] version \in {"v3", "v4"} -> {"fill"}
                [] version = "force" -> {"search"}
                \* A place with less than a tenth of all persons is done in
                \* another way.
                [] version = "v2" -> {"search", "sort"}

Best(S, n) == {a \in S : Cardinality({b \in S : Ahead(b, a)}) < n}

-----------------------------------------------------------------------------
(* Versions 3 and 4.                                                       *)

\* work: the first step of the next person.
Fill(p) ==
    /\ pc = "fill"
    /\ p \in people /\ p > g
    /\ \A q \in people : q > g => q >= p
    /\ g' = p
    /\ stream' = [q \in DOMAIN stream \cup {p} |->
                     IF q = p THEN [i |-> 0, pool |-> [c \in 0 .. NTag |-> {}], forsake |-> {p}]
                     ELSE stream[q]]
    /\ pc' = "move"
    /\ UNCHANGED <<input, i, pool, forsake, answerHeap, ans, version, heapSize>>

FillEnds ==
    /\ pc = "fill"
    /\ \A p \in people : p <= g
    /\ pc' = "extract"
    /\ UNCHANGED <<input, g, i, pool, forsake, answerHeap, ans, streams>>

\* moveOneStep is called from two loops.
Moving == pc \in {"move", "move again"}
AfterMove == IF pc = "move" THEN "fill" ELSE "erase"

Length == Cardinality(tags[g]) - stream[g].i

MoveHopeless == heapSize = k /\ Worst(answerHeap)[1] > Length

MoveEnds ==
    /\ Moving
    /\ Length = 0 \/ MoveHopeless
    /\ pc' = AfterMove
    /\ UNCHANGED <<input, g, i, pool, forsake, answerHeap, ans, streams>>

\* insHeap of the pairs in S, in any order.
HeapWith(S) == Best(answerHeap \cup S, Cardinality(answerHeap) + Min({Cardinality(S), k - heapSize}))

\* Mutant of MoveTag: the persons put aside are not looked at.
MoveTagOnly ==
    /\ Moving
    /\ Length > 0 /\ ~ MoveHopeless
    /\ LET st == stream[g]
           Shared(q) == CommonFrom(q, st.i + 1)
           list == {q \in Having(invList(g)[st.i + 1]) : q > g} \ st.forsake
           partners == {q \in list : Shared(q) = Length /\ Close(g, q)}
           seen == {q \in list : \A r \in partners : q <= r}
           found == {q \in partners : q \in seen}
           S == {Answer3(Length, g, q) : q \in found}
       IN /\ answerHeap' = HeapWith(S)
          /\ heapSize' = heapSize + Min({Cardinality(S), k - heapSize})
          /\ stream' = [stream EXCEPT ![g] =
                [i |-> IF partners = {} THEN st.i + 1 ELSE st.i,
                 pool |-> st.pool,
                 forsake |-> st.forsake \cup seen]]
          /\ pc' = IF partners = {} THEN pc ELSE AfterMove
    /\ UNCHANGED <<input, g, i, pool, forsake, ans, version>>

\* The next tag, or what is left of it.  All close persons put aside with that
\* many common tags go to the heap; then the list of the tag is gone through,
\* the persons after g only, up to the first who is close.
MoveTag ==
    /\ Moving
    /\ Length > 0 /\ ~ MoveHopeless
    /\ LET st == stream[g]
           Shared(q) == CommonFrom(q, st.i + 1)
           list == {q \in Having(invList(g)[st.i + 1]) : q > g} \ st.forsake
           partners == {q \in list : Shared(q) = Length /\ Close(g, q)}
           seen == {q \in list : \A r \in partners : q <= r}
           found == {q \in st.pool[Length] : Close(g, q)} \cup {q \in partners : q \in seen}
           S == {Answer3(Length, g, q) : q \in found}
       IN /\ answerHeap' = HeapWith(S)
          /\ heapSize' = heapSize + Min({Cardinality(S), k - heapSize})
          /\ stream' = [stream EXCEPT ![g] =
                [i |-> IF partners = {} THEN st.i + 1 ELSE st.i,
                 pool |-> [c \in 0 .. NTag |-> IF c = Length THEN {}
                              ELSE st.pool[c] \cup {q \in seen : Shared(q) = c}],
                 forsake |-> st.forsake \cup seen]]
          /\ pc' = IF partners = {} THEN pc ELSE AfterMove
    /\ UNCHANGED <<input, g, i, pool, forsake, ans, version>>

\* The best pair is an answer, and its first person yields another one while it
\* is still in the heap.
Extract ==
    /\ pc = "extract"
    /\ Len(ans) < k /\ answerHeap # {}
    /\ LET a == CHOOSE a \in answerHeap : Best(answerHeap, 1) = {a} IN
          /\ ans' = Append(ans, a)
          /\ g' = a[2]
    /\ pc' = "move again"
    /\ UNCHANGED <<input, i, pool, forsake, answerHeap, streams>>

Erase ==
    /\ pc = "erase"
    /\ answerHeap' = answerHeap \ {ans[Len(ans)]}
    /\ heapSize' = IF version = "v4" THEN heapSize - 1 ELSE heapSize
    /\ pc' = "extract"
    /\ UNCHANGED <<input, g, i, pool, forsake, ans, version, stream>>

\* Close pairs that are not in the answer, as pairs with 0 common tags.
FillUp ==
    /\ pc = "extract"
    /\ Len(ans) = k \/ answerHeap = {}
    /\ LET dup == {<<ans[n][2], ans[n][3]>> : n \in DOMAIN ans}
           rest == {<<0, e[1], e[2]>> :
                       e \in {x \in (people \X people) \ dup : x[1] < x[2] /\ Close(x[1], x[2])}}
       IN ans' = ans \o Prefix(Sorted(rest, Ahead), k - Len(ans))
    /\ pc' = "done"
    /\ UNCHANGED <<input, g, i, pool, forsake, answerHeap, streams>>

-----------------------------------------------------------------------------
(* Version 2 and query3_force.cc.  g counts the persons that are done.     *)

\* PersonSet is sorted: more tags first.  T has the tags, P the persons.
PersonOrder(T, P) ==
    LET ntags(p) == Cardinality(T[p])
    IN Sorted(P, LAMBDA p, q : ntags(p) > ntags(q) \/ (ntags(p) = ntags(q) /\ p < q))

pset == PersonOrder(tags, people)

\* answers[k - 1] is a pair with 0 common tags until there are k.
Skipped(p) ==
    /\ version = "v2"
    /\ Cardinality(answerHeap) = k
    /\ Cardinality(tags[p]) < Worst(answerHeap)[1]

\* The pairs that bfs finds, of which version 2 keeps k in order.
SearchFrom ==
    /\ pc = "search"
    /\ g < Len(pset)
    /\ g' = g + 1
    /\ LET p == pset[g']
           all == answerHeap \cup {Answer3(Common(p, q), p, q) : q \in {q \in Ball(p, h) \cap people : q > p}}
       IN answerHeap' = IF Skipped(p) THEN answerHeap
                        ELSE IF version = "v2" THEN Best(all, k) ELSE all
    /\ UNCHANGED <<input, i, pool, forsake, pc, ans, streams>>

\* Version 2 takes what is not a pair off the end; if nothing is, it looks in
\* front of the array, where the allocator has no such value.
SearchEnds ==
    /\ pc = "search"
    /\ g = Len(pset)
    /\ ans' = Prefix(Sorted(answerHeap, Ahead), k)
    /\ pc' = "done"
    /\ UNCHANGED <<input, g, i, pool, forsake, answerHeap, streams>>

\* The other way of version 2: all pairs, sorted before distances are looked at,
\* in that order until k are close.
SortPairs ==
    /\ pc = "sort"
    /\ LET all == {<<Common(e[1], e[2]), e[1], e[2]>> : e \in {x \in people \X people : x[1] < x[2]}}
       IN ans' = Prefix(Sorted({a \in all : Close(a[2], a[3])}, Ahead), k)
    /\ pc' = "done"
    /\ UNCHANGED <<input, g, i, pool, forsake, answerHeap, streams>>

VersionsNext ==
    \/ Next /\ UNCHANGED streams
    \/ \E p \in Persons : Fill(p)
    \/ FillEnds \/ MoveEnds \/ MoveTag \/ Extract \/ Erase \/ FillUp
    \/ SearchFrom \/ SearchEnds \/ SortPairs

Spec == VersionsInit /\ [][VersionsNext]_versionVars

-----------------------------------------------------------------------------
(* Properties.                                                             *)

\* In version 5 the heap is what HeapIsBest says.  In versions 3 and 4 what is
\* taken from it comes in order, and is still in it when it is erased through
\* the iterator that was taken before moveOneStep changed the heap.
HeapRight ==
    /\ HeapIsBest
    /\ pc = "erase" => ans[Len(ans)] \in answerHeap
    /\ version \in {"v3", "v4"} =>
          \A n \in 1 .. Len(ans) - 1 : Ahead(ans[n], ans[n + 1])
=============================================================================

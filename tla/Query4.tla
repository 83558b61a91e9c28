------------------------------- MODULE Query4 -------------------------------
(***************************************************************************)
(* query4_wyx.cc with query4.h, and the earlier query4_v2.cc and           *)
(* query4_v3.cc: the k most central members of the forums of a tag.  Sums  *)
(* of distances are bounded from below first, in one of the ways of the    *)
(* modules extended here; a heap then makes exact only those that come to  *)
(* its top.                                                                *)
(***************************************************************************)
EXTENDS RandomChoice, DeltaSearch

VARIABLES heap,      \* heap[v]: the sum whose centrality is in the heap for v
          last,      \* the vertex and the sum popped last
          ans        \* the answer so far

heapVars == <<heap, last, ans>>
vars == <<choiceVars, delta, heapVars>>

\* What the code takes for granted: with use_estimate 2k vertices have sums
\* that are not small; scheduler_bfs reaches all from vertex 0, and no tree is
\* so deep that base gets below 0.
Answerable ==
    /\ query.estimating => Cardinality({v \in Vertices : get_exact_s(v) >= SmallSum}) >= 2 * k
    /\ method = "schedule" => Ball(1, N - 2) = Vertices

Init ==
    /\ ChoiceInit
    /\ DeltaInit
    /\ heap = <<>>
    /\ last = <<0, -1>>
    /\ ans = <<>>
    /\ Answerable

\* All bounds go into the heap, with use_estimate those given up as well.
FillHeap ==
    /\ Goto("estimated", "heap")
    /\ result' = IF query.estimating THEN [v \in Vertices |-> estimated_s(v)] ELSE result
    /\ heap' = result'
    /\ UNCHANGED <<query, degree, depth_max, s_prev, left, cut, choice, delta, last, ans>>

\* The order of priority_queue<HeapEle>: ties go to the smaller vertex.
Precedes(v, s, u, r) ==
    MoreCentral(v, s, u, r) \/ (AsCentral(v, s, u, r) /\ v < u)

IsTop(v) == \A u \in DOMAIN heap \ {v} : Precedes(v, heap[v], u, heap[u])

\* The vertex came out twice in a row with one centrality.
Repeated(v) == v = last[1] /\ AsCentral(v, heap[v], v, last[2])

Emit(v) ==
    /\ pc = "heap"
    /\ v \in DOMAIN heap /\ IsTop(v)
    /\ Repeated(v)
    /\ ans' = Append(ans, v)
    /\ heap' = [u \in DOMAIN heap \ {v} |-> heap[u]]
    /\ last' = <<v, heap[v]>>
    /\ pc' = IF Len(ans') = k THEN "done" ELSE pc
    /\ UNCHANGED <<query, next, degree, estimate, cut, choice, delta>>

\* Mutant of MakeExact: the bound is put back.
MakeExactNot(v) ==
    /\ pc = "heap"
    /\ method # "v2"
    /\ v \in DOMAIN heap /\ IsTop(v)
    /\ ~ Repeated(v)
    /\ exact' = [exact EXCEPT ![v] = heap[v]]
    /\ last' = <<v, heap[v]>>
    /\ UNCHANGED <<query, pc, next, degree, estimate, cut, sampled, calculated, given_up, delta, heap, ans>>

\* get_exact_s, which searches only if exact_s is not known, and the vertex
\* goes back with that centrality.
MakeExact(v) ==
    /\ pc = "heap"
    /\ method # "v2"
    /\ v \in DOMAIN heap /\ IsTop(v)
    /\ ~ Repeated(v)
    /\ exact' = [exact EXCEPT ![v] = IF @ # -1 THEN @ ELSE get_exact_s(v)]
    /\ heap' = [heap EXCEPT ![v] = exact'[v]]
    /\ last' = <<v, heap[v]>>
    /\ UNCHANGED <<query, pc, next, degree, estimate, cut, sampled, calculated, given_up, delta, ans>>

\* query4_v2.cc estimates the vertex again, as deep as there are vertices.
EstimateAgain(v) ==
    /\ pc = "heap"
    /\ method = "v2"
    /\ v \in DOMAIN heap /\ IsTop(v)
    /\ ~ Repeated(v)
    /\ heap' = [heap EXCEPT ![v] = LimitDepth(v, N)]
    /\ last' = <<v, heap[v]>>
    /\ UNCHANGED <<query, pc, next, degree, estimate, cut, choice, delta, ans>>

\* Mutant of RunDry: the loop goes on for ever with an empty heap.
RunDryNever ==
    /\ pc = "heap"
    /\ DOMAIN heap = {}
    /\ UNCHANGED vars

\* There are fewer than k vertices.
RunDry ==
    /\ pc = "heap"
    /\ DOMAIN heap = {}
    /\ pc' = "done"
    /\ UNCHANGED <<query, next, degree, estimate, cut, choice, delta, heap, last, ans>>

Next ==
    \/ EstimatorNext /\ UNCHANGED <<cut, choice, delta, heapVars>>
    \/ HybridNext /\ UNCHANGED <<choice, delta, heapVars>>
    \/ ChoiceNext /\ UNCHANGED <<delta, heapVars>>
    \/ DeltaNext /\ UNCHANGED <<cut, choice, heapVars>>
    \/ FillHeap \/ RunDry
    \/ \E v \in Vertices : Emit(v) \/ MakeExact(v) \/ EstimateAgain(v)

\* The task runs to its end.
Spec == Init /\ [][Next]_vars /\ WF_vars(Next)

-----------------------------------------------------------------------------
(* Properties.                                                             *)

\* When the heap starts no bound is above the sum of distances, by any of the
\* methods, so nobody's centrality is underestimated; and what is exact stays.
\* With use_estimate this is not so for the samples and for those given up.
BoundsHold ==
    pc \in {"heap", "done"} =>
    \A v \in DOMAIN heap \ Samples :
       LET s == get_exact_s(v) IN
       heap[v] < GivenUp => heap[v] <= s /\ (exact[v] # -1 => heap[v] = s)

\* query4_v3.cc:427-429 checked it once: the searches that share distances,
\* and the unions of bitsets too, find for every vertex what a search of its
\* own to the same depth finds.
LimitDepthExact ==
    pc = "heap" /\ method \in {"delta", "schedule", "sse"} =>
    \A v \in Vertices : result[v] = LimitDepth(v, depth_max)

\* The answer is the most central vertices, in order, ties by number: no
\* vertex that was never made exact belongs before one in it.  With
\* use_estimate the samples count by their recorded sums, and those given up
\* do not count.
MostCentral ==
    pc = "done" =>
    LET s == [v \in Vertices |-> IF sampled[v] > 0 THEN exact[v] ELSE get_exact_s(v)]
        kept == {v \in Vertices : result[v] < GivenUp}
    IN \A i \in 1 .. Len(ans) :
          \A v \in kept \ {ans[j] : j \in 1 .. i} : Precedes(ans[i], s[ans[i]], v, s[v])

\* query4_wyx.cc:181 asserts it: what the heap yields never becomes more
\* central, though elements are put back.
CentralityFalls ==
    [][last'[1] # 0 /\ last[1] # 0 => ~ MoreCentral(last'[1], last'[2], last[1], last[2])]_last

\* The query is answered with k vertices, or all when there are fewer.
Answered == <>(pc = "done" /\ Len(ans) = IF k < N THEN k ELSE N)

\* What exact_s holds of a vertex is the sum of its distances; of the samples
\* query4_wyx.cc:104 says "they are not wrong result".
ExactIsExact == \A v \in Vertices : exact[v] # -1 => exact[v] = get_exact_s(v)
=============================================================================

---------------------------- MODULE RandomChoice ----------------------------
(***************************************************************************)
(* The branch use_estimate of query4_wyx.cc, for more than 10000 vertices  *)
(* and k < 20: RandomChoiceEstimator searches the graph from a few random  *)
(* vertices and takes the others' sums in proportion.  The vertices are    *)
(* sorted by these; the first that have real sums give the bound that the  *)
(* HybridEstimator cuts at, and the last half or more is given up.         *)
(***************************************************************************)
EXTENDS HybridEstimator, Sorting

CONSTANTS NSamples,      \* np times the percentage, 20 at least
          SampleDegree,  \* 100: the component of a sample is larger
          SmallSum       \* 10: smaller sums say nothing

ASSUME RandomChoiceAssumption ==
    {NSamples, SampleDegree} \subseteq Nat /\ SmallSum \in Nat \ {0}

VARIABLES exact,       \* exact_s[v], -1 before
          sampled,     \* sampled[v]: how often v is a sample
          calculated,  \* s_calculated, the vertices whose exact_s is used
          given_up     \* those after the position thres

choice == <<exact, sampled, calculated, given_up>>
choiceVars == <<hybridVars, choice>>

ChoiceInit ==
    /\ HybridInit
    /\ exact = [v \in Vertices |-> -1]
    /\ sampled = [v \in Vertices |-> 0]
    /\ calculated = {}
    /\ given_up = {}

Samples == {v \in Vertices : sampled[v] > 0}

\* Centralities compared exactly: (degree - 1)^2 / s, and 0 when s is 0, with
\* the same factor np - 1 in all of them.
Top(v, s) == IF s = 0 THEN 0 ELSE (degree[v] - 1) * (degree[v] - 1)
Bottom(s) == IF s = 0 THEN 1 ELSE s
MoreCentral(v, s, u, r) == Top(v, s) * Bottom(r) > Top(u, r) * Bottom(s)
AsCentral(v, s, u, r) == Top(v, s) * Bottom(r) = Top(u, r) * Bottom(s)

-----------------------------------------------------------------------------
\* Shuffled and cut to size; when there are fewer, resize adds vertices 0.
Sample ==
    /\ Goto("sample", "approximate")
    /\ LET large == {v \in Vertices : degree[v] > SampleDegree}
           n == Min({NSamples, Cardinality(large)})
       IN \E S \in kSubset(n, large) :
             sampled' = [v \in Vertices |-> (IF v \in S THEN 1 ELSE 0)
                                            + (IF v = 1 THEN NSamples - n ELSE 0)]
    /\ UNCHANGED <<query, degree, estimate, cut, exact, calculated, given_up>>

\* bfs_all does not mark its source, which the first friend reaches again.
Reached(s) == IF Near(s) = {} THEN {} ELSE Ball(s, N)
Steps(s, v) == IF v = s THEN 2 ELSE CHOOSE n \in 1 .. N : v \in Ring(s, n)
bfs_all(s) == SumFunction([v \in Reached(s) |-> Steps(s, v)])

\* RandomChoiceEstimator::work.  The additions are atomic, so the order of the
\* searches does not matter.
Approximate ==
    /\ Goto("approximate", "narrow")
    /\ LET of(v) == {s \in Samples : v \in Reached(s)}
           vst_cnt(v) == SumFunction([s \in of(v) |-> sampled[s]])
           sum(v) == SumFunction([s \in of(v) |-> sampled[s] * Steps(s, v)])
       IN approx_result' = [v \in Vertices |->
             IF sampled[v] > 0 THEN bfs_all(v)
             ELSE IF vst_cnt(v) = 0 THEN get_exact_s(v)
             ELSE (sum(v) * degree[v]) \div vst_cnt(v)]
    /\ UNCHANGED <<query, degree, estimate, noneed, sum_bound, choice>>

\* Vertices by approximate sum, then by number.
approx_result_with_person ==
    Sorted(Vertices, LAMBDA v, u : \/ approx_result[v] < approx_result[u]
                                   \/ approx_result[v] = approx_result[u] /\ v < u)

\* The sums of the samples are taken as they are.  Then as many vertices get
\* real sums, in order, as make 2k of them large enough; the k-th best of those
\* bounds the rest.
Narrow ==
    /\ Goto("narrow", "near")
    /\ \E order \in {approx_result_with_person} :
       LET known == [v \in Vertices |->
                        IF sampled[v] > 0 THEN approx_result[v] ELSE get_exact_s(v)]
           Large(n) == {v \in {order[i] : i \in 1 .. n} : known[v] >= SmallSum}
           upto == CHOOSE n \in 1 .. N : /\ Cardinality(Large(n)) = 2 * k
                                         /\ Cardinality(Large(n - 1)) < 2 * k
           some_real_cent == Large(upto)
           Less(v, u) == \/ MoreCentral(u, known[u], v, known[v])
                         \/ AsCentral(u, known[u], v, known[v]) /\ v < u
           kth == CHOOSE v \in some_real_cent :
                     Cardinality({u \in some_real_cent : Less(u, v)}) = k
           bound == known[kth]
           cut_bound == (bound * 11) \div 9
           below == Cardinality({v \in Vertices : approx_result[v] < cut_bound})
           thres == Min({Max({below, (3 * N) \div 10}), N \div 2})
       IN /\ calculated' = Samples \cup {order[i] : i \in 1 .. upto}
          /\ exact' = [v \in Vertices |-> IF v \in calculated' THEN known[v] ELSE -1]
          /\ sum_bound' = bound
          /\ given_up' = {order[i] : i \in thres + 1 .. N}
          /\ noneed' = [v \in Vertices |-> v \in calculated' \cup given_up']
    /\ UNCHANGED <<query, degree, estimate, approx_result, sampled>>

\* estimated_s: what the HybridEstimator found, but for those given up and
\* those that are calculated.
estimated_s(v) ==
    IF v \in calculated THEN exact[v] ELSE IF v \in given_up THEN GivenUp ELSE result[v]

ChoiceNext == Sample \/ Approximate \/ Narrow
=============================================================================

---------------------------- MODULE SumEstimator ----------------------------
(***************************************************************************)
(* SumEstimator.cpp and what query 4 knows of the graph: the members of a  *)
(* tag's forums renumbered, 1 for the vertex 0 of the code, and the sums   *)
(* of distances that a search of limited depth finds.  Vertices not found  *)
(* count as one edge further than the search went.                         *)
(*                                                                         *)
(* The loops over all vertices that OpenMP runs in parallel are one step:  *)
(* every iteration writes only what belongs to its own vertex and reads    *)
(* only what the loop does not write.                                      *)
(***************************************************************************)
EXTENDS Integers, Sequences, FiniteSets, FiniteSetsExt, Bitset

CONSTANTS N,          \* np
          Queries     \* the calls that are enumerated: friends, the set of
                      \* friendships {u, v}; k; method; estimating

Vertices == 1 .. N

Methods == {"bfs_2_dp_1", "bfs_3_dp_1", "bfs_depth", "bfs_2_dp_more",
            "v2", "limit", "sse", "delta", "schedule"}

ASSUME GraphAssumption ==
    /\ N \in Nat \ {0}
    /\ \A q \in Queries :
          /\ \A e \in q.friends : e \subseteq Vertices /\ Cardinality(e) = 2
          /\ q.method \in Methods
          /\ q.k \in Nat \ {0}
          /\ q.estimating \in BOOLEAN

VARIABLES query,     \* the call
          pc,        \* "degree", then the phases of the method,
                     \* "estimated", "heap" and "done"
          next,      \* where the loop of pc has come to
          degree,    \* degree[v]: the size of the component of v, -1 before
          depth_max, \* how deep the vertices are searched
          s_prev,    \* s_prev[v]: the vertices found near v, a bitset
          result,    \* result[v]: the sum of distances found so far
          left       \* nr_remain[v]: the vertices of the component not found

estimate == <<depth_max, s_prev, result, left>>
graphVars == <<query, pc, next, degree, estimate>>

friends == query.friends
k == query.k
method == query.method

Near(v) == {u \in Vertices : {u, v} \in friends}

Balls ==
    [E \in {q.friends : q \in Queries} |->
        LET near == [v \in Vertices |-> {u \in Vertices : {u, v} \in E}]
            ball[n \in 0 .. N] ==
               IF n = 0 THEN [v \in Vertices |-> {v}]
               ELSE LET inner == ball[n - 1] IN
                    [v \in Vertices |-> inner[v] \cup UNION {near[u] : u \in inner[v]}]
        IN [n \in 0 .. N |-> ball[n]]]

\* N edges reach all that can be reached.
UpTo(n) == IF n < N THEN n ELSE N

\* The vertices within n edges of v: what a search of depth n visits.
Ball(v, n) == Balls[friends][UpTo(n)][v]

Ring(v, n) == IF n = 0 THEN {v} ELSE Ball(v, n) \ Ball(v, n - 1)

Sums ==
    [E \in DOMAIN Balls |->
        LET sum[n \in 0 .. N] ==
               IF n = 0 THEN [v \in Vertices |-> 0]
               ELSE [v \in Vertices |->
                        sum[n - 1][v] + n * Cardinality(Balls[E][n][v] \ Balls[E][n - 1][v])]
        IN [n \in 0 .. N |-> sum[n]]]

\* The sum of the distances from v to the vertices within n edges: level by
\* level, each as often as it has vertices.
SumWithin(v, n) == Sums[friends][UpTo(n)][v]

get_exact_s(v) == SumWithin(v, N)

\* LimitDepthEstimator::estimate(v) with depth_max d.
LimitDepth(v, d) == SumWithin(v, d) + (degree[v] - Cardinality(Ball(v, d))) * (d + 1)

GraphInit ==
    /\ query \in Queries
    /\ pc = "degree"
    /\ next = 1
    /\ degree = [v \in Vertices |-> -1]
    /\ depth_max = 0
    /\ s_prev = <<>>
    /\ result = [v \in Vertices |-> 0]
    /\ left = [v \in Vertices |-> 0]

\* The loop of pc goes on, or the next one begins.
Advance(from, to) ==
    /\ pc = from
    /\ IF next < N THEN next' = next + 1 /\ UNCHANGED pc
                   ELSE next' = 1 /\ pc' = to

Goto(from, to) == pc = from /\ pc' = to /\ UNCHANGED next

\* The phase that a method begins with.
FirstPhase ==
    CASE method \in {"bfs_2_dp_1", "bfs_3_dp_1", "bfs_depth", "bfs_2_dp_more"} ->
            IF query.estimating THEN "sample" ELSE "near"
      [] method = "v2" -> "v2"
      [] OTHER -> "diameter"

\* compute_degree: all vertices of the component get its size.
ComputeDegree ==
    /\ Advance("degree", FirstPhase)
    /\ LET found == Ball(next, N) IN
          degree' = [v \in Vertices |->
                        IF degree[next] = -1 /\ v \in found THEN Cardinality(found) ELSE degree[v]]
    /\ UNCHANGED <<query, estimate>>

-----------------------------------------------------------------------------
(* query4_v3.cc chooses the depth by the diameter, taken as what two       *)
(* searches find, the second from a vertex furthest from the first.        *)

Eccentricity(v) == CHOOSE n \in 0 .. N : Ring(v, n) # {} /\ Ring(v, n + 1) = {}
\* Where bfs_diameter may end, by the order of the adjacency lists.
Farthest(v) == Ring(v, Eccentricity(v))

FourTo[n \in Nat] == IF n = 0 THEN 1 ELSE 4 * FourTo[n - 1]

\* floor(log2(d) + 0.5).
RoundLog2(d) == CHOOSE n \in 0 .. 2 * d * d : FourTo[n] <= 2 * d * d /\ 2 * d * d < FourTo[n + 1]

DepthOf(d) == IF d = 0 THEN 2 ELSE Max({2, RoundLog2(d)})

\* Components are swept from their first vertex; the largest result counts.
DoubleSweep ==
    /\ Goto("diameter", method)
    /\ LET roots == {v \in Vertices : \A u \in Ball(v, N) : v <= u} IN
       \E far \in [roots -> Vertices] :
          /\ \A v \in roots : far[v] \in Farthest(v)
          /\ depth_max' = DepthOf(Max({Eccentricity(far[v]) : v \in roots}))
    /\ UNCHANGED <<query, degree, s_prev, result, left>>

\* The loop over LimitDepthEstimator::estimate.
LimitDepthAll ==
    /\ Goto("limit", "estimated")
    /\ result' = [v \in Vertices |-> LimitDepth(v, depth_max)]
    /\ UNCHANGED <<query, degree, depth_max, s_prev, left>>

-----------------------------------------------------------------------------
(* query4_v2.cc: CentralityEstimator with two edges, or with three for     *)
(* large forums among many persons.                                        *)
EstimateV2 ==
    /\ Goto("v2", "estimated")
    /\ depth_max' \in {2, 3}
    /\ result' = [v \in Vertices |-> LimitDepth(v, depth_max')]
    /\ UNCHANGED <<query, degree, s_prev, left>>

-----------------------------------------------------------------------------
(* SSEUnionSetEstimator: the vertices within one more edge are the union   *)
(* of those near the friends, level by level up to depth_max.              *)

len == get_len_from_bit(N)
BitsOf(S) == Bits({v - 1 : v \in S})

\* The bitsets of the friends of v joined, without those of v itself.
\* FoldSet takes the friends in some order: or_arr does not mind.
Joined(v) ==
    LET all == FoldSet(LAMBDA u, b : or_arr(b, s_prev[u], len), {}, Near(v))
    IN and_not_arr(all, s_prev[v], len)

UnionInit ==
    /\ Goto("sse", "level")
    /\ s_prev' = [v \in Vertices |-> BitsOf({v} \cup Near(v))]
    /\ result' = [v \in Vertices |-> Cardinality(Near(v))]
    /\ left' = [v \in Vertices |-> degree[v] - 1 - Cardinality(Near(v))]
    /\ UNCHANGED <<query, degree, depth_max>>

\* One round of work: all threads are joined before s and s_prev are swapped.
UnionLevel ==
    /\ pc = "level"
    /\ LET kk == next + 1
           s == [v \in Vertices |-> Joined(v)]
           c == [v \in Vertices |-> count(s[v], len)]
       IN IF kk > depth_max
          THEN /\ result' = [v \in Vertices |-> result[v] + left[v] * (depth_max + 1)]
               /\ pc' = "estimated" /\ next' = 1
               /\ UNCHANGED <<s_prev, left>>
          ELSE /\ result' = [v \in Vertices |-> result[v] + c[v] * kk]
               /\ left' = [v \in Vertices |-> left[v] - c[v]]
               /\ s_prev' = [v \in Vertices |-> or_arr(s[v], s_prev[v], len)]
               /\ next' = next + 1 /\ UNCHANGED pc
    /\ UNCHANGED <<query, degree, depth_max>>

EstimatorNext ==
    ComputeDegree \/ DoubleSweep \/ LimitDepthAll \/ EstimateV2 \/ UnionInit \/ UnionLevel
=============================================================================

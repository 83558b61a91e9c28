-------------------------- MODULE HybridEstimator --------------------------
(***************************************************************************)
(* HybridEstimator.cpp: lower bounds of the sums of distances.  Every      *)
(* vertex is searched to depth 2 or 3 for itself, and the bitsets of its   *)
(* friends joined give one depth more, or two.  Vertices that are not      *)
(* needed, or whose sum is taken to be above sum_bound, are given up.      *)
(***************************************************************************)
EXTENDS SumEstimator

CONSTANT GivenUp   \* 1e9, far above every sum

\* The friends of all members, counted one by one.
FriendsOfAll(q) == SumFunction([v \in Vertices |-> Cardinality({u \in Vertices : {u, v} \in q.friends})])

\* No guess at a sum comes near GivenUp; and when vertices are given up, GivenUp
\* is so far above that they are less central than all whose sums are known.
ASSUME GivenUpAssumption ==
    /\ GivenUp \in Nat
    /\ \A q \in Queries : GivenUp > IF q.estimating THEN 4 * N * N ELSE 4 * N + FriendsOfAll(q)

VARIABLES noneed,         \* noneed[v]: v is not to be bounded
          sum_bound,      \* GivenUp, or what the samples say
          approx_result   \* <<>>, or the approximate sums

cut == <<noneed, sum_bound, approx_result>>
hybridVars == <<graphVars, cut>>

HybridInit ==
    /\ GraphInit
    /\ noneed = [v \in Vertices |-> FALSE]
    /\ sum_bound = GivenUp
    /\ approx_result = <<>>

\* Without approximate sums false; with them the average error decides.
good_err == IF approx_result = <<>> THEN {FALSE} ELSE BOOLEAN

Remaining(v, d) == degree[v] - Cardinality(Ball(v, d))

\* bfs_depth(3).
bfs_depth ==
    /\ method = "bfs_depth"
    /\ Goto("near", "estimated")
    /\ result' = [v \in Vertices |-> IF noneed[v] THEN GivenUp ELSE LimitDepth(v, 3)]
    /\ depth_max' = 3
    /\ UNCHANGED <<query, degree, s_prev, left, cut>>

\* The guess at how many vertices are three edges from v.
n3_upper(v) ==
    LET Friends(R) == SumFunction([u \in R |-> Cardinality(Near(u))])
    IN Friends(Ring(v, 2)) - Friends(Ring(v, 1)) + Cardinality(Near(v)) + 1

est_s_lowerbound(v) ==
    SumWithin(v, 2) + n3_upper(v) * 3 + (Remaining(v, 2) - n3_upper(v)) * 4

Cut(v) == ~ noneed[v] /\ est_s_lowerbound(v) > sum_bound

\* Mutant of SearchTwo: the vertex itself stays among those not found.
SearchTwoOff ==
    /\ method \in {"bfs_2_dp_1", "bfs_2_dp_more"}
    /\ Goto("near", "union")
    /\ s_prev' = [v \in Vertices |-> BitsOf(Ball(v, 2))]
    /\ left' = [v \in Vertices |-> Remaining(v, 2) + 1]
    /\ result' = [v \in Vertices |-> IF Cut(v) THEN GivenUp ELSE SumWithin(v, 2)]
    /\ noneed' = [v \in Vertices |-> noneed[v] \/ Cut(v)]
    /\ depth_max' = 3
    /\ UNCHANGED <<query, degree, sum_bound, approx_result>>

\* The first loop of bfs_2_dp_1 and of bfs_2_dp_more.
SearchTwo ==
    /\ method \in {"bfs_2_dp_1", "bfs_2_dp_more"}
    /\ Goto("near", "union")
    /\ s_prev' = [v \in Vertices |-> BitsOf(Ball(v, 2))]
    /\ left' = [v \in Vertices |-> Remaining(v, 2)]
    /\ result' = [v \in Vertices |-> IF Cut(v) THEN GivenUp ELSE SumWithin(v, 2)]
    /\ noneed' = [v \in Vertices |-> noneed[v] \/ Cut(v)]
    /\ depth_max' = 3
    /\ UNCHANGED <<query, degree, sum_bound, approx_result>>

\* The first loop of bfs_3_dp_1, and its end when depth 3 is good enough.
SearchThree ==
    /\ pc = "near" /\ method = "bfs_3_dp_1"
    /\ s_prev' = [v \in Vertices |-> BitsOf(Ball(v, 3))]
    /\ left' = [v \in Vertices |-> Remaining(v, 3)]
    /\ \E good \in good_err :
          /\ Goto("near", IF good THEN "estimated" ELSE "union")
          /\ depth_max' = IF good THEN 3 ELSE 4
          /\ result' = [v \in Vertices |-> IF good THEN LimitDepth(v, 3) ELSE SumWithin(v, 3)]
    /\ UNCHANGED <<query, degree, cut>>

Skipped(v) == noneed[v] \/ result[v] = 0 \/ left[v] = 0

\* Mutant of AddDepth: the others count as two depths after it.
AddDepthFar(d) ==
    LET c == [v \in Vertices |-> IF Skipped(v) THEN 0 ELSE count(Joined(v), len)] IN
    /\ left' = [v \in Vertices |-> left[v] - c[v]]
    /\ result' = [v \in Vertices |->
          IF Skipped(v) THEN result[v] ELSE result[v] + c[v] * d + (left[v] - c[v]) * (d + 2)]

\* The vertices found among the friends' are at depth d, the others after it.
AddDepth(d) ==
    LET c == [v \in Vertices |-> IF Skipped(v) THEN 0 ELSE count(Joined(v), len)] IN
    /\ left' = [v \in Vertices |-> left[v] - c[v]]
    /\ result' = [v \in Vertices |->
          IF Skipped(v) THEN result[v] ELSE result[v] + c[v] * d + (left[v] - c[v]) * (d + 1)]

\* The second loop of bfs_2_dp_1 and of bfs_3_dp_1.
UnionNear ==
    /\ method \in {"bfs_2_dp_1", "bfs_3_dp_1"}
    /\ Goto("union", "estimated")
    /\ AddDepth(depth_max)
    /\ UNCHANGED <<query, degree, depth_max, s_prev, cut>>

\* bfs_2_dp_more at depth 3, for all vertices whether needed or not; then
\* depth 4, when asked for or when depth 3 is not good enough.  The bitsets for
\* depth 4 are those of depth 3 alone, what is nearer is not in them.
UnionMore ==
    /\ pc = "union" /\ method = "bfs_2_dp_more"
    /\ LET s == [v \in Vertices |-> Joined(v)]
           c == [v \in Vertices |-> count(s[v], len)]
           rest == [v \in Vertices |-> left[v] - c[v]]
           sum == [v \in Vertices |-> result[v] + c[v] * depth_max]
       IN /\ left' = rest
          /\ \E use_4 \in BOOLEAN, good \in good_err :
                IF use_4 \/ ~ good
                THEN /\ Goto("union", "union4")
                     /\ depth_max' = depth_max + 1
                     /\ s_prev' = s
                     /\ result' = sum
                ELSE /\ Goto("union", "estimated")
                     /\ result' = [v \in Vertices |-> sum[v] + rest[v] * (depth_max + 1)]
                     /\ UNCHANGED <<depth_max, s_prev>>
    /\ UNCHANGED <<query, degree, cut>>

UnionFour ==
    /\ Goto("union4", "estimated")
    /\ AddDepth(depth_max)
    /\ UNCHANGED <<query, degree, depth_max, s_prev, cut>>

HybridNext ==
    bfs_depth \/ SearchTwo \/ SearchThree \/ UnionNear \/ UnionMore \/ UnionFour
=============================================================================

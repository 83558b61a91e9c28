---------------------------- MODULE DeltaSearch ----------------------------
(***************************************************************************)
(* query4_v3.cc: the bounds of LimitDepthEstimator from one search after   *)
(* another that share their distances.  A search starts from a friend of   *)
(* the vertex before it, at a distance base smaller by one, and goes on    *)
(* only where it makes a distance smaller; what an older search found      *)
(* stands for what is too far away.  The searches follow a walk ("delta")  *)
(* or a tree of shortest paths ("schedule"), where they are taken back.    *)
(***************************************************************************)
EXTENDS SumEstimator

VARIABLES dist,     \* dist[v], relative to base
          base,     \* base_dist
          is_done,  \* the vertices that were searched
          path      \* the sources under way, each with the distances that it
                    \* changed: changed_vtx; for "delta" the last one only

delta == <<dist, base, is_done, path>>
deltaVars == <<graphVars, delta>>

Untouched == N + depth_max

DeltaInit ==
    /\ dist = <<>>
    /\ base = 0
    /\ is_done = {}
    /\ path = <<>>

\* Mutant of bfs: a vertex a little further off than it could be is left so.
bfs_stale(old, source, from) ==
    LET queue[n \in 0 .. depth_max] ==
           IF n = 0 THEN {source}
           ELSE {v \in UNION {Near(u) : u \in queue[n - 1]} :
                    old[v] > from + n + 1 /\ \A m \in 0 .. n - 1 : v \notin queue[m]}
        Levels(v) == {n \in 0 .. depth_max : v \in queue[n]}
    IN [v \in Vertices |-> IF Levels(v) = {} THEN old[v] ELSE from + Max(Levels(v))]

\* The distances, old before, after a search from source: those that become
\* smaller are followed.  dist_count moves along: it counts the vertices at
\* each distance.
bfs(old, source, from) ==
    LET queue[n \in 0 .. depth_max] ==
           IF n = 0 THEN {source}
           ELSE {v \in UNION {Near(u) : u \in queue[n - 1]} :
                    old[v] > from + n /\ \A m \in 0 .. n - 1 : v \notin queue[m]}
        Levels(v) == {n \in 0 .. depth_max : v \in queue[n]}
    IN [v \in Vertices |-> IF Levels(v) = {} THEN old[v] ELSE from + Max(Levels(v))]

get_s_by_dist_count(v, d, from) ==
    LET dist_count == [n \in 0 .. depth_max |-> Cardinality({u \in Vertices : d[u] = from + n})]
    IN SumFunction([n \in 0 .. depth_max |-> n * dist_count[n]])
       + (depth_max + 1) * (degree[v] - SumFunction(dist_count))

\* One search and its bound.
Search(old, v, from, before) ==
    LET d == bfs(old, v, from)
        changed == {u \in Vertices : d[u] # old[u]} \cup {v}
    IN /\ dist' = d
       /\ base' = from
       /\ is_done' = is_done \cup {v}
       /\ result' = [result EXCEPT ![v] = get_s_by_dist_count(v, d, from)]
       /\ path' = Append(before, [vtx |-> v, undo |-> [u \in changed |-> old[u]]])

Fresh == [v \in Vertices |-> Untouched]

-----------------------------------------------------------------------------
(* estimate_all_s_using_delta_bfs.                                         *)

\* The loop over the roots skips what is done.
SkipRoot ==
    /\ Advance("delta", "estimated")
    /\ next \in is_done
    /\ UNCHANGED <<query, degree, estimate, delta>>

SearchRoot ==
    /\ Goto("delta", "walk")
    /\ next \notin is_done
    /\ Search(Fresh, next, N - 1, <<>>)
    /\ UNCHANGED <<query, degree, depth_max, s_prev, left>>

cur_vtx == path[Len(path)].vtx

\* The first friend that is not done, whatever the order of the friends.
Walk ==
    /\ Goto("walk", "walk")
    /\ \E v \in Near(cur_vtx) \ is_done : Search(dist, v, base - 1, <<>>)
    /\ UNCHANGED <<query, degree, depth_max, s_prev, left>>

WalkEnds ==
    /\ Goto("walk", "delta")
    /\ Near(cur_vtx) \subseteq is_done
    /\ UNCHANGED <<query, degree, estimate, delta>>

-----------------------------------------------------------------------------
(* estimate_all_s_using_delta_bfs_and_schedule, with scheduler_bfs: the    *)
(* tree of shortest paths from vertex 0.                                   *)

SearchTree ==
    /\ Goto("schedule", "tree")
    /\ Search(Fresh, 1, N - 2, <<>>)
    /\ UNCHANGED <<query, degree, depth_max, s_prev, left>>

\* The children are the friends one level down that nobody else has: those
\* that came earlier in the search are done, with all that is below them.
Children == {v \in Near(cur_vtx) \ is_done : \E n \in 1 .. N : v \in Ring(1, n) /\ cur_vtx \in Ring(1, n - 1)}

Descend ==
    /\ Goto("tree", "tree")
    /\ path # <<>>
    /\ \E v \in Children : Search(dist, v, base - 1, path)
    /\ UNCHANGED <<query, degree, depth_max, s_prev, left>>

\* process_est_rollback, in the order of the changes: each vertex was changed
\* once in a search.
Rollback ==
    /\ pc = "tree"
    /\ path # <<>> /\ Children = {}
    /\ LET undo == path[Len(path)].undo IN
          dist' = [v \in Vertices |-> IF v \in DOMAIN undo THEN undo[v] ELSE dist[v]]
    /\ path' = SubSeq(path, 1, Len(path) - 1)
    /\ base' = base + 1
    /\ pc' = IF path' = <<>> THEN "estimated" ELSE "tree"
    /\ UNCHANGED <<query, next, degree, estimate, is_done>>

DeltaNext ==
    \/ SkipRoot \/ SearchRoot \/ Walk \/ WalkEnds
    \/ SearchTree \/ Descend \/ Rollback
=============================================================================

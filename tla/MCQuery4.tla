------------------------------ MODULE MCQuery4 ------------------------------
(***************************************************************************)
(* Seven vertices on a path have distances up to 6, one more than the      *)
(* deepest bound tells apart.  Each edge of the path may be missing, and   *)
(* two more may be there, so components, cycles and ties occur.            *)
(***************************************************************************)
EXTENDS Query4

PathEdges == {{i, i + 1} : i \in 1 .. 6}
MoreEdges == {{1, 3}, {2, 6}}
AllNetworks == SUBSET (PathEdges \cup MoreEdges)
\* At most two edges of the path are missing.
LargeNetworks == {E \in AllNetworks : Cardinality(PathEdges \ E) <= 2}

Calls(networks, ks, methods, estimates) ==
    [friends : networks, k : ks, method : methods, estimating : estimates]

Hybrid == {"bfs_2_dp_1", "bfs_3_dp_1", "bfs_depth"}

QueriesHere ==
    Calls(AllNetworks, {2, 8}, Hybrid, {FALSE})
    \cup Calls(LargeNetworks, {1}, Hybrid \cup {"bfs_2_dp_more"}, {TRUE})
    \cup Calls(LargeNetworks, {3}, {"bfs_2_dp_more", "sse", "limit", "delta", "schedule", "v2"}, {FALSE})
=============================================================================

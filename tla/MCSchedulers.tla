---------------------------- MODULE MCSchedulers ----------------------------
(***************************************************************************)
(* Inputs for the schedulers.  Two clients may nest two acquisitions, or   *)
(* three may have one each.  With three and two acquisitions of a unit,    *)
(* two clients can hold all the memory and wait for each other's.  Or      *)
(* there are three queries 4 with three tags or two, large or small.       *)
(***************************************************************************)
EXTENDS Schedulers

\* The queries, where the others do nothing.
Q4Inputs ==
    IF scheduler = "q4"
    THEN /\ tag \in {[q \in Queries |-> q], [q \in Queries |-> q \div 2]}
         /\ \E n \in {0, 2, 3} : mem = [q \in Queries |-> IF tag[q] < n THEN 1 ELSE 3]
    ELSE tag = [q \in Queries |-> q] /\ mem = tag

ClientInputs ==
    IF scheduler # "q4"
    THEN \/ depth[0] = 2 /\ depth[1] \in {1, 2} /\ depth[2] = 0
         \/ /\ scheduler = "limit" /\ nr_threads = 1 /\ size[0] = 1 /\ size[1] = 1
            /\ depth[0] = 3 /\ depth[1] = 2 /\ depth[2] = 0
         \/ nr_threads = 2 /\ \A c \in Clients : depth[c] = 1 /\ (size[c] = 2 <=> c = 0)
    ELSE nr_threads = 1 /\ \A c \in Clients : depth[c] = 0 /\ size[c] = 1

MCInit ==
    /\ scheduler \in {"limit", "allocator", "q4"}
    /\ Q4Inputs
    /\ Init
    /\ size[2] = 1
    /\ ClientInputs
    /\ scheduler = "q4" \/ mem_free = 2

MCSpec == MCInit /\ [][Next]_vars /\ WF_vars(Next)
=============================================================================

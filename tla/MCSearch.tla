------------------------------ MODULE MCSearch ------------------------------
(***************************************************************************)
(* A query of type 1 or a query of type 3, which share nothing but the     *)
(* input: the other query stays where it begins.                           *)
(*                                                                         *)
(* Query 1: five persons, so that the largest distance is 4, which takes   *)
(* two levels on each side.  Every graph is enumerated, five of its edges  *)
(* with 0 or 1 replies and the others with 1.  Relabelling the persons     *)
(* maps any query to one of these.                                         *)
(*                                                                         *)
(* Query 3: four of the persons, all of them or three in the place, with   *)
(* every network among them and some choices of three tags: the same,      *)
(* nested, overlapping, disjoint and none, in different orders.            *)
(***************************************************************************)
EXTENDS Query1, Query3Versions

VARIABLES type   \* the query that runs, 1 or 3

Between(S) == {e \in SUBSET S : Cardinality(e) = 2}

CountsHere ==
    [e \in Between(1 .. 5) |->
        IF e \in {{1, 2}, {1, 5}, {2, 4}, {3, 4}, {4, 5}} THEN {0, 1} ELSE {1}]
FriendshipsHere == Between(1 .. 5)
QueriesHere == {<<1, 5, -1>>, <<1, 5, 0>>, <<2, 2, 0>>}

NetworksHere == SUBSET Between(1 .. 4)
InterestsHere ==
    { <<{1, 2, 3}, {1, 2}, {1, 2, 3}, {3}, {}>>,
      <<{1}, {1, 2, 3}, {2, 3}, {1, 2}, {}>>,
      <<{1, 2}, {3}, {1, 2}, {2, 3}, {}>>,
      <<{2}, {1, 2}, {}, {1, 2, 3}, {}>>,
      <<{1, 3}, {1, 3}, {1, 3}, {1, 3}, {}>>,
      <<{3}, {1, 2}, {1, 2, 3}, {1, 2, 3}, {}>> }
\* A city with a place in it, and another of the same name; then all alone.
PlacesHere ==
    { [persons |-> <<{1}, {4}, {2, 3}>>, below |-> <<{2}, {}, {}>>, named |-> {1, 3}],
      [persons |-> <<{2}, {1, 4}, {3}>>, below |-> <<{2}, {}, {1}>>, named |-> {1}] }
QuestionsHere == {<<1, 1>>, <<1, 2>>, <<2, 1>>, <<2, 3>>, <<3, 0>>, <<7, 2>>}

\* The inputs of a query that does not run; that of type 1 is answered at once.
NoQuery1 == ncmts = [e \in {} |-> 0] /\ query = <<2, 2, 0>>
NoQuery3 ==
    /\ version = "v5"
    /\ friends = {}
    /\ tags = <<{2}, {1, 2}, {}, {1, 2, 3}, {}>>
    /\ place \in {x \in PlacesHere : x.named = {1}}
    /\ question = <<1, 1>>

SearchInit ==
    /\ \/ type = 1 /\ NoQuery3
       \/ type = 3 /\ NoQuery1
    /\ Query1Init
    /\ VersionsInit

searchVars == <<type, query1Vars, versionVars>>

Step1 == type = 1 /\ Query1Next /\ UNCHANGED <<type, versionVars>>
Step3 == type = 3 /\ VersionsNext /\ UNCHANGED <<type, query1Vars>>

\* An answered query of type 3 stays so; any other must have a step.  That one of
\* type 1 goes on is for Answered to say.
Ended == (type = 1 \/ pc = "done") /\ UNCHANGED searchVars

\* The task of query 1 runs to its end.
SearchSpec == SearchInit /\ [][Step1 \/ Step3 \/ Ended]_searchVars /\ WF_searchVars(Step1)
=============================================================================

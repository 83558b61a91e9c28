------------------------------ MODULE MCQuery2 ------------------------------
(***************************************************************************)
(* The task of query 2, with the heap of tags as TagRanking has it, or the *)
(* heap alone, with changes and calls of find_ans in any order: the part   *)
(* that does not run stays where it begins.                                *)
(*                                                                         *)
(* Query 2: four persons with every friendship among them and every choice *)
(* of one or both of two tags; nobody has the other two, but all four can  *)
(* be in an answer.  Persons 2 and 3 are born on the same day; as all      *)
(* graphs are enumerated, the order of the others loses nothing.  The      *)
(* queries are before, between, on and after the birthdays.                *)
(*                                                                         *)
(* The heap: four tags make three levels with a missing child; the names   *)
(* are not in the order of the ids.                                        *)
(***************************************************************************)
EXTENDS Query2, MyHeap

VARIABLES part   \* "query2" or "heap"

Names == <<3, 1, 4, 2>>
BirthdaysHere == {<<1, 2, 2, 4>>}
AllInterests == [1 .. 4 -> {{1}, {2}, {1, 2}}]
QueriesHere == << [k |-> 1, d |-> 2], [k |-> 2, d |-> 0], [k |-> 1, d |-> 3], [k |-> 1, d |-> 5] >>

\* The input of a task of query 2 that does not run.
NoQuery2 == friends = {} /\ tags = [p \in 1 .. 4 |-> {1}]

PartsInit ==
    /\ \/ part = "query2"
       \/ part = "heap" /\ NoQuery2
    /\ Init
    /\ HeapInit

partsVars == <<part, vars, heapVars>>

Step2 == part = "query2" /\ Next /\ UNCHANGED <<part, heapVars>>
StepHeap == part = "heap" /\ HeapNext /\ UNCHANGED <<part, vars>>

\* The task of query 2 runs to its end.
PartsSpec == PartsInit /\ [][Step2 \/ StepHeap]_partsVars /\ WF_partsVars(Step2)

\* Every query is answered, those for days before the first birthday too:
\* query2_Unionfind.cc:134 asserts it.
EveryQueryAnswered == part = "query2" => AllAnswered
=============================================================================

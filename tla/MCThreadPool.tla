---------------------------- MODULE MCThreadPool ----------------------------
(***************************************************************************)
(* A small run of main.cpp: the comment task at priority 20, the forum     *)
(* task whose callback start_4 submits two query-4 tasks at priority 10,   *)
(* and one query-3 task at the default priority 5.                         *)
(***************************************************************************)
EXTENDS ThreadPool

CONSTANTS comments, forum, q3, q4a, q4b

AllTasks == {comments, forum, q3, q4a, q4b}
FromMain == {comments, forum, q3}
Spawned == [t \in AllTasks |-> IF t = forum THEN {q4a, q4b} ELSE {}]
Priority == [t \in AllTasks |->
               CASE t = comments -> 20 [] t \in {q4a, q4b} -> 10 [] OTHER -> 5]

\* A smaller program: three tasks, one of which another one submits.
FewTasks == {forum, q3, q4a}
FewFromMain == {forum, q3}
FewSpawned == [t \in FewTasks |-> IF t = forum THEN {q4a} ELSE {}]
FewPriority == [t \in FewTasks |-> IF t = q4a THEN 10 ELSE 5]
=============================================================================

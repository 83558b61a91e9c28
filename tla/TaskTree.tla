------------------------------ MODULE TaskTree ------------------------------
(***************************************************************************)
(* The tasks of one execution, as the pool and its clients see them: every *)
(* task is submitted by the main thread or by one other task, and all can  *)
(* be reached from those of the main thread.                               *)
(***************************************************************************)
EXTENDS Integers

CONSTANTS Tasks,      \* every task
          MainTasks,  \* the tasks the main thread submits
          Children,   \* Children[t]: the tasks that t submits while it runs
          Prio        \* Prio[t]: the priority argument of enqueue

ASSUME TaskForest ==
    /\ MainTasks \subseteq Tasks
    /\ Children \in [Tasks -> SUBSET Tasks]
    /\ Prio \in [Tasks -> Int]
    /\ \A t \in Tasks : Children[t] \cap MainTasks = {}
    /\ \A t, u \in Tasks : t # u => Children[t] \cap Children[u] = {}
    /\ \A S \in SUBSET Tasks :
          /\ MainTasks \subseteq S
          /\ \A t \in S : Children[t] \subseteq S
          => S = Tasks
=============================================================================

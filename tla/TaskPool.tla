------------------------------ MODULE TaskPool ------------------------------
(***************************************************************************)
(* What a client of the thread pool relies on, without threads, locks or   *)
(* condition variables.  A task is submitted by the main thread or by a    *)
(* task that is running (the callback given to enqueue), waits in the      *)
(* queue, is started when no queued task has a higher priority, runs once, *)
(* and finishes after the submissions it makes.  Join, the return of the   *)
(* destructor, happens only when nothing is left to run.                   *)
(***************************************************************************)
EXTENDS TaskTree

VARIABLES status,   \* status[t]: how far task t has come
          joined    \* whether the destructor has returned

vars == <<status, joined>>

Statuses == {"new", "queued", "running", "done"}

With(s) == {t \in Tasks : status[t] = s}

Init ==
    /\ status = [t \in Tasks |-> "new"]
    /\ joined = FALSE

Submit(t) ==
    /\ status[t] = "new"
    /\ \/ t \in MainTasks
       \/ \E p \in With("running") : t \in Children[p]
    /\ ~joined
    /\ status' = [status EXCEPT ![t] = "queued"]
    /\ UNCHANGED joined

Start(t) ==
    /\ status[t] = "queued"
    /\ \A u \in With("queued") : Prio[u] <= Prio[t]
    /\ status' = [status EXCEPT ![t] = "running"]
    /\ UNCHANGED joined

Finish(t) ==
    /\ status[t] = "running"
    /\ Children[t] \cap With("new") = {}
    /\ status' = [status EXCEPT ![t] = "done"]
    /\ UNCHANGED joined

Join ==
    /\ ~joined
    /\ With("done") = Tasks
    /\ joined' = TRUE
    /\ UNCHANGED status

Next ==
    \/ \E t \in Tasks : Submit(t) \/ Start(t) \/ Finish(t)
    \/ Join

Spec == Init /\ [][Next]_vars
=============================================================================

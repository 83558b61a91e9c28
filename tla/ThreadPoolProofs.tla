-------------------------- MODULE ThreadPoolProofs --------------------------
(***************************************************************************)
(* Proofs about ThreadPool for any set of workers, any forest of tasks and *)
(* any priorities: the type invariant, the inductive invariant IInv, and   *)
(* what follows from it.                                                   *)
(***************************************************************************)
EXTENDS ThreadPool, FiniteSetTheorems, TLAPS

\* The parts of the assumptions that typing needs.
LEMMA ConstantTypes ==
    /\ MainTasks \subseteq Tasks
    /\ Children \in [Tasks -> SUBSET Tasks]
    /\ NoTask \notin Tasks
    /\ NoThread \notin Workers
    /\ Workers # {}
  BY TaskForest, PoolAssumption

\* Every variable keeps its type.
LEMMA TypeInit == Init => TypeOK
  <1> SUFFICES ASSUME Init PROVE TypeOK
    OBVIOUS
  <1>1. pc \in [Workers -> WorkerPcs]
    BY DEF Init, WorkerPcs
  <1>2. job \in [Workers -> Tasks \cup {NoTask}]
    BY DEF Init
  <1>3. reg \in [Workers -> Int]
    BY DEF Init
  <1>4. toSubmit \in [Workers -> SUBSET Tasks]
    BY DEF Init
  <1>5. QED
    BY <1>1, <1>2, <1>3, <1>4, ConstantTypes DEF Init, TypeOK, MainPcs

\* Return adds job[w] to done, so that typing a step needs JobInv as well.
LEMMA TypeNext == TypeOK /\ JobInv /\ [Next]_vars => TypeOK'
  <1> SUFFICES ASSUME TypeOK, JobInv, [Next]_vars
               PROVE  TypeOK'
    OBVIOUS
  <1> USE ConstantTypes DEF TypeOK, WorkerPcs, MainPcs
  <1>1. ASSUME NEW w \in Workers, Exit(w) PROVE TypeOK'
    BY <1>1 DEF Exit
  <1>2. ASSUME NEW w \in Workers, FindEmpty(w) PROVE TypeOK'
    BY <1>2 DEF FindEmpty
  <1>3. ASSUME NEW w \in Workers, Wait(w) PROVE TypeOK'
    BY <1>3 DEF Wait
  <1>4. ASSUME NEW w \in Workers, Pop(w) PROVE TypeOK'
    BY <1>4 DEF Pop, Take, Tops
  <1>5. ASSUME NEW w \in Workers, CountUp(w) PROVE TypeOK'
    BY <1>5 DEF CountUp
  <1>6. ASSUME NEW w \in Workers, TaskPush(w) PROVE TypeOK'
    <2>1. PICK t \in toSubmit[w] :
             /\ tasks' = tasks \cup {t}
             /\ toSubmit' = [toSubmit EXCEPT ![w] = @ \ {t}]
      BY <1>6 DEF TaskPush, Push
    <2>2. toSubmit[w] \in SUBSET Tasks
      OBVIOUS
    <2>3. tasks' \in SUBSET Tasks /\ toSubmit' \in [Workers -> SUBSET Tasks]
      BY <2>1, <2>2
    <2>4. QED
      BY <1>6, <2>3 DEF TaskPush
  <1>7. ASSUME NEW w \in Workers, TaskNotify(w) PROVE TypeOK'
    BY <1>7 DEF TaskNotify, NotifyOne, Waiting
  <1>8. ASSUME NEW w \in Workers, Return(w) PROVE TypeOK'
    <2>1. job[w] \in Tasks
      BY <1>8 DEF Return, JobInv
    <2>2. QED
      BY <1>8, <2>1 DEF Return
  <1>9. ASSUME NEW w \in Workers, LoadCount(w) PROVE TypeOK'
    BY <1>9 DEF LoadCount
  <1>10. ASSUME NEW w \in Workers, StoreCount(w) PROVE TypeOK'
    BY <1>10 DEF StoreCount
  <1>11. ASSUME NEW w \in Workers, TestCount(w) PROVE TypeOK'
    BY <1>11 DEF TestCount
  <1>12. ASSUME NEW w \in Workers, TestEmpty(w) PROVE TypeOK'
    BY <1>12 DEF TestEmpty
  <1>13. ASSUME NEW w \in Workers, Leave(w) PROVE TypeOK'
    BY <1>13 DEF Leave, NotifyAll, Waiting
  <1>14. ASSUME NEW w \in Workers, SpuriousWakeup(w) PROVE TypeOK'
    BY <1>14 DEF SpuriousWakeup
  <1>15. ASSUME MainPush PROVE TypeOK'
    BY <1>15 DEF MainPush, Push
  <1>16. ASSUME MainNotify PROVE TypeOK'
    BY <1>16 DEF MainNotify, NotifyOne, Waiting
  <1>17. ASSUME MainNotifyAll PROVE TypeOK'
    BY <1>17 DEF MainNotifyAll, NotifyAll, Waiting
  <1>18. ASSUME SetStop PROVE TypeOK'
    BY <1>18 DEF SetStop
  <1>19. ASSUME JoinAll PROVE TypeOK'
    BY <1>19 DEF JoinAll
  <1>20. ASSUME UNCHANGED vars PROVE TypeOK'
    BY <1>20 DEF vars
  <1>21. QED
    BY <1>1, <1>2, <1>3, <1>4, <1>5, <1>6, <1>7, <1>8, <1>9, <1>10, <1>11,
       <1>12, <1>13, <1>14, <1>15, <1>16, <1>17, <1>18, <1>19, <1>20
    DEF Next, WorkerStep, MainStep

\* A worker holds a task exactly from the pop to the return of the task.
LEMMA JobNext == TypeOK /\ JobInv /\ [Next]_vars => JobInv'
  <1> SUFFICES ASSUME TypeOK, JobInv, [Next]_vars
               PROVE  JobInv'
    OBVIOUS
  <1> USE ConstantTypes DEF TypeOK, WorkerPcs, JobInv
  <1>1. ASSUME NEW w \in Workers, Exit(w) PROVE JobInv'
    BY <1>1 DEF Exit
  <1>2. ASSUME NEW w \in Workers, FindEmpty(w) PROVE JobInv'
    BY <1>2 DEF FindEmpty
  <1>3. ASSUME NEW w \in Workers, Wait(w) PROVE JobInv'
    BY <1>3 DEF Wait
  <1>4. ASSUME NEW w \in Workers, Pop(w) PROVE JobInv'
    BY <1>4 DEF Pop, Take, Tops
  <1>5. ASSUME NEW w \in Workers, CountUp(w) PROVE JobInv'
    BY <1>5 DEF CountUp
  <1>6. ASSUME NEW w \in Workers, TaskPush(w) PROVE JobInv'
    BY <1>6 DEF TaskPush, Push
  <1>7. ASSUME NEW w \in Workers, TaskNotify(w) PROVE JobInv'
    BY <1>7 DEF TaskNotify, NotifyOne, Waiting
  <1>8. ASSUME NEW w \in Workers, Return(w) PROVE JobInv'
    BY <1>8 DEF Return
  <1>9. ASSUME NEW w \in Workers, LoadCount(w) PROVE JobInv'
    BY <1>9 DEF LoadCount
  <1>10. ASSUME NEW w \in Workers, StoreCount(w) PROVE JobInv'
    BY <1>10 DEF StoreCount
  <1>11. ASSUME NEW w \in Workers, TestCount(w) PROVE JobInv'
    BY <1>11 DEF TestCount
  <1>12. ASSUME NEW w \in Workers, TestEmpty(w) PROVE JobInv'
    BY <1>12 DEF TestEmpty
  <1>13. ASSUME NEW w \in Workers, Leave(w) PROVE JobInv'
    BY <1>13 DEF Leave, NotifyAll, Waiting
  <1>14. ASSUME NEW w \in Workers, SpuriousWakeup(w) PROVE JobInv'
    BY <1>14 DEF SpuriousWakeup
  <1>15. ASSUME MainPush PROVE JobInv'
    BY <1>15 DEF MainPush, Push
  <1>16. ASSUME MainNotify PROVE JobInv'
    BY <1>16 DEF MainNotify, NotifyOne, Waiting
  <1>17. ASSUME MainNotifyAll PROVE JobInv'
    BY <1>17 DEF MainNotifyAll, NotifyAll, Waiting
  <1>18. ASSUME SetStop PROVE JobInv'
    BY <1>18 DEF SetStop
  <1>19. ASSUME JoinAll PROVE JobInv'
    BY <1>19 DEF JoinAll
  <1>20. ASSUME UNCHANGED vars PROVE JobInv'
    BY <1>20 DEF vars
  <1>21. QED
    BY <1>1, <1>2, <1>3, <1>4, <1>5, <1>6, <1>7, <1>8, <1>9, <1>10,
       <1>11, <1>12, <1>13, <1>14, <1>15, <1>16, <1>17, <1>18, <1>19,
       <1>20
    DEF Next, WorkerStep, MainStep

\* queue_mutex is held from a failed test of the queue to the wait only, and
\* no task is pushed in between.
LEMMA MutexNext == TypeOK /\ MutexInv /\ WaitInv /\ [Next]_vars => (MutexInv /\ WaitInv)'
  <1> SUFFICES ASSUME TypeOK, MutexInv, WaitInv, [Next]_vars
               PROVE  (MutexInv /\ WaitInv)'
    OBVIOUS
  <1> USE ConstantTypes DEF TypeOK, WorkerPcs, MutexInv, WaitInv
  <1>1. ASSUME NEW w \in Workers, Exit(w) PROVE (MutexInv /\ WaitInv)'
    BY <1>1 DEF Exit
  <1>2. ASSUME NEW w \in Workers, FindEmpty(w) PROVE (MutexInv /\ WaitInv)'
    BY <1>2 DEF FindEmpty
  <1>3. ASSUME NEW w \in Workers, Wait(w) PROVE (MutexInv /\ WaitInv)'
    BY <1>3 DEF Wait
  <1>4. ASSUME NEW w \in Workers, Pop(w) PROVE (MutexInv /\ WaitInv)'
    BY <1>4 DEF Pop, Take, Tops
  <1>5. ASSUME NEW w \in Workers, CountUp(w) PROVE (MutexInv /\ WaitInv)'
    BY <1>5 DEF CountUp
  <1>6. ASSUME NEW w \in Workers, TaskPush(w) PROVE (MutexInv /\ WaitInv)'
    BY <1>6 DEF TaskPush, Push
  <1>7. ASSUME NEW w \in Workers, TaskNotify(w) PROVE (MutexInv /\ WaitInv)'
    BY <1>7 DEF TaskNotify, NotifyOne, Waiting
  <1>8. ASSUME NEW w \in Workers, Return(w) PROVE (MutexInv /\ WaitInv)'
    BY <1>8 DEF Return
  <1>9. ASSUME NEW w \in Workers, LoadCount(w) PROVE (MutexInv /\ WaitInv)'
    BY <1>9 DEF LoadCount
  <1>10. ASSUME NEW w \in Workers, StoreCount(w) PROVE (MutexInv /\ WaitInv)'
    BY <1>10 DEF StoreCount
  <1>11. ASSUME NEW w \in Workers, TestCount(w) PROVE (MutexInv /\ WaitInv)'
    BY <1>11 DEF TestCount
  <1>12. ASSUME NEW w \in Workers, TestEmpty(w) PROVE (MutexInv /\ WaitInv)'
    BY <1>12 DEF TestEmpty
  <1>13. ASSUME NEW w \in Workers, Leave(w) PROVE (MutexInv /\ WaitInv)'
    BY <1>13 DEF Leave, NotifyAll, Waiting
  <1>14. ASSUME NEW w \in Workers, SpuriousWakeup(w) PROVE (MutexInv /\ WaitInv)'
    BY <1>14 DEF SpuriousWakeup
  <1>15. ASSUME MainPush PROVE (MutexInv /\ WaitInv)'
    BY <1>15 DEF MainPush, Push
  <1>16. ASSUME MainNotify PROVE (MutexInv /\ WaitInv)'
    BY <1>16 DEF MainNotify, NotifyOne, Waiting
  <1>17. ASSUME MainNotifyAll PROVE (MutexInv /\ WaitInv)'
    BY <1>17 DEF MainNotifyAll, NotifyAll, Waiting
  <1>18. ASSUME SetStop PROVE (MutexInv /\ WaitInv)'
    BY <1>18 DEF SetStop
  <1>19. ASSUME JoinAll PROVE (MutexInv /\ WaitInv)'
    BY <1>19 DEF JoinAll
  <1>20. ASSUME UNCHANGED vars PROVE (MutexInv /\ WaitInv)'
    BY <1>20 DEF vars
  <1>21. QED
    BY <1>1, <1>2, <1>3, <1>4, <1>5, <1>6, <1>7, <1>8, <1>9, <1>10,
       <1>11, <1>12, <1>13, <1>14, <1>15, <1>16, <1>17, <1>18, <1>19,
       <1>20
    DEF Next, WorkerStep, MainStep

\* stop is set once the main thread has nothing more to enqueue, and no
\* worker leaves before.
LEMMA StopNext == TypeOK /\ StopInv /\ [Next]_vars => StopInv'
  <1> SUFFICES ASSUME TypeOK, StopInv, [Next]_vars
               PROVE  StopInv'
    OBVIOUS
  <1> USE ConstantTypes DEF TypeOK, WorkerPcs, MainPcs, StopInv, MayExit
  <1>1. ASSUME NEW w \in Workers, Exit(w) PROVE StopInv'
    BY <1>1 DEF Exit
  <1>2. ASSUME NEW w \in Workers, FindEmpty(w) PROVE StopInv'
    BY <1>2 DEF FindEmpty
  <1>3. ASSUME NEW w \in Workers, Wait(w) PROVE StopInv'
    BY <1>3 DEF Wait
  <1>4. ASSUME NEW w \in Workers, Pop(w) PROVE StopInv'
    BY <1>4 DEF Pop, Take, Tops
  <1>5. ASSUME NEW w \in Workers, CountUp(w) PROVE StopInv'
    BY <1>5 DEF CountUp
  <1>6. ASSUME NEW w \in Workers, TaskPush(w) PROVE StopInv'
    BY <1>6 DEF TaskPush, Push
  <1>7. ASSUME NEW w \in Workers, TaskNotify(w) PROVE StopInv'
    BY <1>7 DEF TaskNotify, NotifyOne, Waiting
  <1>8. ASSUME NEW w \in Workers, Return(w) PROVE StopInv'
    BY <1>8 DEF Return
  <1>9. ASSUME NEW w \in Workers, LoadCount(w) PROVE StopInv'
    BY <1>9 DEF LoadCount
  <1>10. ASSUME NEW w \in Workers, StoreCount(w) PROVE StopInv'
    BY <1>10 DEF StoreCount
  <1>11. ASSUME NEW w \in Workers, TestCount(w) PROVE StopInv'
    BY <1>11 DEF TestCount
  <1>12. ASSUME NEW w \in Workers, TestEmpty(w) PROVE StopInv'
    BY <1>12 DEF TestEmpty
  <1>13. ASSUME NEW w \in Workers, Leave(w) PROVE StopInv'
    BY <1>13 DEF Leave, NotifyAll, Waiting
  <1>14. ASSUME NEW w \in Workers, SpuriousWakeup(w) PROVE StopInv'
    BY <1>14 DEF SpuriousWakeup
  <1>15. ASSUME MainPush PROVE StopInv'
    BY <1>15 DEF MainPush, Push
  <1>16. ASSUME MainNotify PROVE StopInv'
    BY <1>16 DEF MainNotify, NotifyOne, Waiting
  <1>17. ASSUME MainNotifyAll PROVE StopInv'
    BY <1>17 DEF MainNotifyAll, NotifyAll, Waiting
  <1>18. ASSUME SetStop PROVE StopInv'
    BY <1>18 DEF SetStop
  <1>19. ASSUME JoinAll PROVE StopInv'
    BY <1>19 DEF JoinAll
  <1>20. ASSUME UNCHANGED vars PROVE StopInv'
    BY <1>20 DEF vars
  <1>21. QED
    BY <1>1, <1>2, <1>3, <1>4, <1>5, <1>6, <1>7, <1>8, <1>9, <1>10,
       <1>11, <1>12, <1>13, <1>14, <1>15, <1>16, <1>17, <1>18, <1>19,
       <1>20
    DEF Next, WorkerStep, MainStep

-----------------------------------------------------------------------------
(* The tasks: who runs them, who has still to submit them.                 *)

Data == RunsOnce /\ MainDebt /\ TaskDebt

\* No two submitters owe the same task.
LEMMA Disjointness ==
    /\ \A t \in Tasks : Children[t] \cap MainTasks = {}
    /\ \A t, u \in Tasks : t # u => Children[t] \cap Children[u] = {}
  BY TaskForest

\* A step that leaves the tasks alone.
LEMMA DataStutter ==
    Data /\ UNCHANGED <<tasks, job, toSubmit, mainTodo, done>> => Data'
  BY DEF Data, RunsOnce, MainDebt, TaskDebt, Submitted, Running

\* Taking a task moves it from the queue to the worker: nobody owes it, and
\* its children, which the worker owes from now on, are submitted nowhere.
LEMMA DataPop ==
    ASSUME TypeOK, JobInv, Data, NEW w \in Workers, Pop(w)
    PROVE  Data'
  <1>1. PICK t \in tasks :
           /\ tasks' = tasks \ {t}
           /\ job' = [job EXCEPT ![w] = t]
           /\ toSubmit' = [toSubmit EXCEPT ![w] = Children[t]]
    BY DEF Pop, Take, Tops
  <1>2. job[w] = NoTask /\ t \in Tasks /\ t # NoTask
    BY ConstantTypes DEF Pop, JobInv, TypeOK
  <1>3. t \notin Running /\ t \notin done
    BY <1>2 DEF Data, RunsOnce, Running
  <1>4. Running' = Running \cup {t}
    BY <1>1, <1>2 DEF Running, TypeOK
  <1>5. Submitted' = Submitted /\ UNCHANGED <<done, mainTodo>>
    BY <1>1, <1>4 DEF Submitted, Pop
  <1>6. RunsOnce'
    BY <1>1, <1>2, <1>3, <1>5 DEF Data, RunsOnce, TypeOK, Running
  <1>7. MainDebt'
    BY <1>5 DEF Data, MainDebt
  <1>8. TaskDebt'
    BY <1>1, <1>2, <1>3, <1>4, <1>5 DEF Data, TaskDebt, TypeOK
  <1>9. QED
    BY <1>6, <1>7, <1>8 DEF Data

\* A worker returns from a task only when it owes none of its children.
LEMMA DataReturn ==
    ASSUME TypeOK, JobInv, Data, NEW w \in Workers, Return(w)
    PROVE  Data'
  <1>1. /\ done' = done \cup {job[w]}
        /\ job' = [job EXCEPT ![w] = NoTask]
        /\ toSubmit[w] = {}
        /\ UNCHANGED <<tasks, toSubmit, mainTodo>>
    BY DEF Return
  <1>2. job[w] \in Tasks /\ job[w] # NoTask
    BY ConstantTypes DEF Return, JobInv, TypeOK
  <1>3. Running' = Running \ {job[w]} /\ job[w] \in Running
    BY <1>1, <1>2 DEF Data, RunsOnce, Running, TypeOK
  <1>4. Submitted' = Submitted
    BY <1>1, <1>3 DEF Submitted
  <1>5. RunsOnce'
    BY <1>1, <1>2, ConstantTypes DEF Data, RunsOnce, TypeOK
  <1>6. MainDebt'
    BY <1>1, <1>4 DEF Data, MainDebt
  <1>7. TaskDebt'
    BY <1>1, <1>2, <1>3, <1>4 DEF Data, TaskDebt, TypeOK
  <1>8. QED
    BY <1>5, <1>6, <1>7 DEF Data

\* A task pushes a child that it owes, so the child is nowhere else yet.
LEMMA DataTaskPush ==
    ASSUME TypeOK, JobInv, Data, NEW w \in Workers, TaskPush(w)
    PROVE  Data'
  <1>1. PICK t \in toSubmit[w] :
           /\ tasks' = tasks \cup {t}
           /\ toSubmit' = [toSubmit EXCEPT ![w] = @ \ {t}]
           /\ UNCHANGED <<job, done, mainTodo>>
    BY DEF TaskPush, Push
  <1>2. job[w] \in Tasks /\ job[w] # NoTask
    BY ConstantTypes DEF TaskPush, JobInv, TypeOK
  <1>3. t \in Children[job[w]] /\ t \in Tasks /\ t \notin Submitted
    BY <1>2, ConstantTypes DEF Data, TaskDebt, TypeOK
  <1>4. Running' = Running /\ Submitted' = Submitted \cup {t}
    BY <1>1 DEF Running, Submitted
  <1>5. /\ t \notin mainTodo
        /\ \A v \in Workers : v # w /\ job[v] # NoTask => t \notin Children[job[v]]
        /\ \A u \in Tasks \ (Running \cup done) : t \notin Children[u]
    BY <1>2, <1>3, Disjointness DEF Data, RunsOnce, MainDebt, Running, TypeOK
  <1>6. RunsOnce'
    <2>1. t \notin done /\ \A v \in Workers : job[v] # t
      BY <1>3, ConstantTypes DEF Submitted, Running
    <2>2. QED
      BY <1>1, <2>1 DEF Data, RunsOnce
  <1>7. MainDebt'
    BY <1>1, <1>4, <1>5 DEF Data, MainDebt
  <1>8. TaskDebt'
    <2>1. ASSUME NEW v \in Workers, job[v] # NoTask
          PROVE  /\ toSubmit'[v] \subseteq Children[job[v]]
                 /\ toSubmit'[v] \cap Submitted' = {}
                 /\ Children[job[v]] \ toSubmit'[v] \subseteq Submitted'
      <3>1. CASE v = w
        BY <1>1, <1>3, <1>4, <2>1, <3>1 DEF Data, TaskDebt, TypeOK
      <3>2. CASE v # w
        BY <1>1, <1>4, <1>5, <2>1, <3>2 DEF Data, TaskDebt, TypeOK
      <3>3. QED
        BY <3>1, <3>2
    <2>2. \A u \in done : Children[u] \subseteq Submitted'
      BY <1>4 DEF Data, TaskDebt
    <2>3. \A u \in Tasks \ (Running \cup done) : Children[u] \cap Submitted' = {}
      BY <1>4, <1>5 DEF Data, TaskDebt
    <2>4. QED
      BY <1>1, <1>4, <2>1, <2>2, <2>3 DEF TaskDebt
  <1>9. QED
    BY <1>6, <1>7, <1>8 DEF Data

\* The main thread pushes a task that it owes, which no task submits.
LEMMA DataMainPush ==
    ASSUME TypeOK, JobInv, Data, MainPush
    PROVE  Data'
  <1>1. PICK t \in mainTodo :
           /\ tasks' = tasks \cup {t}
           /\ mainTodo' = mainTodo \ {t}
           /\ UNCHANGED <<job, done, toSubmit>>
    BY DEF MainPush, Push
  <1>2. t \in MainTasks /\ t \in Tasks /\ t \notin Submitted
    BY ConstantTypes DEF Data, MainDebt
  <1>3. Running' = Running /\ Submitted' = Submitted \cup {t}
    BY <1>1 DEF Running, Submitted
  <1>4. \A u \in Tasks : t \notin Children[u]
    BY <1>2, Disjointness
  <1>5. \A v \in Workers : job[v] # NoTask => job[v] \in Tasks
    BY DEF TypeOK
  <1>6. RunsOnce'
    <2>1. t \notin done /\ \A v \in Workers : job[v] # t
      BY <1>2, ConstantTypes DEF Submitted, Running
    <2>2. QED
      BY <1>1, <2>1 DEF Data, RunsOnce
  <1>7. MainDebt'
    BY <1>1, <1>3 DEF Data, MainDebt
  <1>8. TaskDebt'
    BY <1>1, <1>3, <1>4, <1>5 DEF Data, TaskDebt
  <1>9. QED
    BY <1>6, <1>7, <1>8 DEF Data

\* Every task is run once and every submitter owes exactly the tasks it has
\* not submitted: the other steps do not touch the tasks.
LEMMA DataNext == TypeOK /\ JobInv /\ Data /\ [Next]_vars => Data'
  <1> SUFFICES ASSUME TypeOK, JobInv, Data, [Next]_vars
               PROVE  Data'
    OBVIOUS
  <1>1. CASE UNCHANGED <<tasks, job, toSubmit, mainTodo, done>>
    BY <1>1, DataStutter
  <1>2. CASE \E w \in Workers : Pop(w) \/ Return(w) \/ TaskPush(w)
    BY <1>2, DataPop, DataReturn, DataTaskPush
  <1>3. CASE MainPush
    BY <1>3, DataMainPush
  <1>4. QED
    BY <1>1, <1>2, <1>3
    DEF Next, WorkerStep, MainStep, vars, Exit, FindEmpty, Wait, CountUp,
        TaskNotify, LoadCount, StoreCount, TestCount, TestEmpty, Leave,
        SpuriousWakeup, MainNotify, MainNotifyAll, SetStop, JoinAll

-----------------------------------------------------------------------------
(* The wake-ups.                                                           *)

\* A worker falls asleep or leaves only when it has seen the queue empty, and
\* each push is followed by a notification.
LEMMA ServedNext == TypeOK /\ WaitInv /\ StopInv /\ QueueServed /\ [Next]_vars => QueueServed'
  <1> SUFFICES ASSUME TypeOK, WaitInv, StopInv, QueueServed, [Next]_vars
               PROVE  QueueServed'
    OBVIOUS
  <1> USE ConstantTypes DEF TypeOK, WorkerPcs, MainPcs, QueueServed, Awake
  <1>1. ASSUME NEW w \in Workers, Exit(w) PROVE QueueServed'
    BY <1>1 DEF Exit, MayExit
  <1>2. ASSUME NEW w \in Workers, FindEmpty(w) PROVE QueueServed'
    BY <1>2 DEF FindEmpty
  <1>3. ASSUME NEW w \in Workers, Wait(w) PROVE QueueServed'
    BY <1>3 DEF Wait, WaitInv
  <1>4. ASSUME NEW w \in Workers, Pop(w) PROVE QueueServed'
    BY <1>4 DEF Pop, Take, Tops
  <1>5. ASSUME NEW w \in Workers, CountUp(w) PROVE QueueServed'
    BY <1>5 DEF CountUp
  <1>6. ASSUME NEW w \in Workers, TaskPush(w) PROVE QueueServed'
    BY <1>6 DEF TaskPush, Push
  <1>7. ASSUME NEW w \in Workers, TaskNotify(w) PROVE QueueServed'
    BY <1>7 DEF TaskNotify, NotifyOne, Waiting
  <1>8. ASSUME NEW w \in Workers, Return(w) PROVE QueueServed'
    BY <1>8 DEF Return
  <1>9. ASSUME NEW w \in Workers, LoadCount(w) PROVE QueueServed'
    BY <1>9 DEF LoadCount
  <1>10. ASSUME NEW w \in Workers, StoreCount(w) PROVE QueueServed'
    BY <1>10 DEF StoreCount
  <1>11. ASSUME NEW w \in Workers, TestCount(w) PROVE QueueServed'
    BY <1>11 DEF TestCount
  <1>12. ASSUME NEW w \in Workers, TestEmpty(w) PROVE QueueServed'
    BY <1>12 DEF TestEmpty
  <1>13. ASSUME NEW w \in Workers, Leave(w) PROVE QueueServed'
    BY <1>13 DEF Leave, NotifyAll, Waiting
  <1>14. ASSUME NEW w \in Workers, SpuriousWakeup(w) PROVE QueueServed'
    BY <1>14 DEF SpuriousWakeup
  <1>15. ASSUME MainPush PROVE QueueServed'
    BY <1>15 DEF MainPush, Push
  <1>16. ASSUME MainNotify PROVE QueueServed'
    <2>1. ~stop
      BY <1>16 DEF MainNotify, StopInv
    <2>2. \A w \in Workers : pc[w] \notin {"leave", "exited"}
      BY <2>1 DEF StopInv
    <2>3. CASE Waiting = {}
      BY <1>16, <2>2, <2>3 DEF MainNotify, NotifyOne, Waiting
    <2>4. CASE Waiting # {}
      <3>1. PICK w \in Waiting : pc' = [pc EXCEPT ![w] = "woken"]
        BY <1>16, <2>4 DEF MainNotify, NotifyOne
      <3>2. w \in Workers /\ pc'[w] = "woken"
        BY <3>1 DEF Waiting
      <3>3. QED
        BY <3>2
    <2>5. QED
      BY <2>3, <2>4
  <1>17. ASSUME MainNotifyAll PROVE QueueServed'
    BY <1>17 DEF MainNotifyAll, NotifyAll, Waiting
  <1>18. ASSUME SetStop PROVE QueueServed'
    BY <1>18 DEF SetStop
  <1>19. ASSUME JoinAll PROVE QueueServed'
    BY <1>19 DEF JoinAll
  <1>20. ASSUME UNCHANGED vars PROVE QueueServed'
    BY <1>20 DEF vars
  <1>21. QED
    BY <1>1, <1>2, <1>3, <1>4, <1>5, <1>6, <1>7, <1>8, <1>9, <1>10,
       <1>11, <1>12, <1>13, <1>14, <1>15, <1>16, <1>17, <1>18, <1>19,
       <1>20
    DEF Next, WorkerStep, MainStep

-----------------------------------------------------------------------------
(* Counting the wake-ups.                                                  *)

\* Workers that have pushed a task and have still to notify.
Owing == {w \in Workers : pc[w] = "notify"}

\* Sets of workers can be counted.
LEMMA CountWorkers ==
    ASSUME NEW S \in SUBSET Workers
    PROVE  IsFiniteSet(S) /\ Cardinality(S) \in Nat
  BY PoolAssumption, FS_Subset, FS_CardinalityType

\* The bound of NoWakeupLost, with the count of the main thread apart.
LEMMA Due ==
    NotifiesDue = Cardinality(Owing) + (IF mainPc = "notify" THEN 1 ELSE 0)
  BY DEF NotifiesDue, Owing

\* The queue is finite: tasks come in one at a time.
LEMMA FiniteNext == IsFiniteSet(tasks) /\ [Next]_vars => IsFiniteSet(tasks)'
  <1> SUFFICES ASSUME IsFiniteSet(tasks), [Next]_vars PROVE IsFiniteSet(tasks')
    OBVIOUS
  <1>1. ASSUME NEW t, Push(t) PROVE IsFiniteSet(tasks')
    BY <1>1, FS_AddElement DEF Push
  <1>2. ASSUME NEW w \in Workers, Pop(w) PROVE IsFiniteSet(tasks')
    BY <1>2, FS_Subset DEF Pop, Take
  <1>3. ASSUME NEW w \in Workers, TaskPush(w) PROVE IsFiniteSet(tasks')
    BY <1>1, <1>3 DEF TaskPush
  <1>4. ASSUME MainPush PROVE IsFiniteSet(tasks')
    BY <1>1, <1>4 DEF MainPush
  <1>5. QED
    BY <1>2, <1>3, <1>4
    DEF Next, WorkerStep, MainStep, vars, Exit, FindEmpty, Wait, CountUp, Return,
        TaskNotify, LoadCount, StoreCount, TestCount, TestEmpty, Leave,
        SpuriousWakeup, MainNotify, MainNotifyAll, SetStop, JoinAll

\* A step that queues nothing, puts nobody to sleep, and takes nobody from the
\* way to the queue or from a notification.
LEMMA WakeupsKept ==
    ASSUME NoWakeupLost, tasks' = tasks, Seeking \subseteq Seeking', Owing' = Owing,
           mainPc' = "notify" <=> mainPc = "notify", Waiting' \subseteq Waiting,
           IsFiniteSet(tasks)
    PROVE  NoWakeupLost'
  <1>1. /\ Seeking' \in SUBSET Workers /\ Seeking \in SUBSET Workers
        /\ Owing \in SUBSET Workers
    BY DEF Seeking, Owing
  <1>2. Cardinality(Seeking) <= Cardinality(Seeking')
    BY <1>1, CountWorkers, FS_Subset
  <1>3. NotifiesDue' = NotifiesDue /\ NotifiesDue \in Nat
    BY <1>1, CountWorkers, Due DEF NotifiesDue, Owing
  <1>4. QED
    BY <1>1, <1>2, <1>3, CountWorkers, FS_CardinalityType DEF NoWakeupLost

\* Nothing is lost while the queue is empty, or while nobody sleeps.
LEMMA NoneToLose ==
    ASSUME tasks' = {} \/ Waiting' = {}
    PROVE  NoWakeupLost'
  <1>1. Seeking' \in SUBSET Workers /\ Owing' \in SUBSET Workers
    BY DEF Seeking, Owing
  <1>2. NotifiesDue' \in Nat
    BY <1>1, CountWorkers DEF NotifiesDue, Owing
  <1>3. Cardinality({}) = 0
    BY FS_EmptySet
  <1>4. QED
    BY <1>1, <1>2, <1>3, CountWorkers DEF NoWakeupLost

\* The worker that takes a task was on its way to the queue.
LEMMA WakeupPop ==
    ASSUME TypeOK, IsFiniteSet(tasks), NoWakeupLost, NEW w \in Workers, Pop(w)
    PROVE  NoWakeupLost'
  <1>1. PICK t \in tasks : tasks' = tasks \ {t}
    BY DEF Pop, Take, Tops
  <1>2. Cardinality(tasks') = Cardinality(tasks) - 1
    BY <1>1, FS_RemoveElement
  <1>3. /\ w \in Seeking /\ Seeking' = Seeking \ {w}
        /\ Owing' = Owing /\ Waiting' \subseteq Waiting /\ mainPc' = mainPc
    BY DEF Pop, TypeOK, Seeking, Owing, Waiting
  <1>4. Seeking \in SUBSET Workers /\ Owing \in SUBSET Workers
    BY DEF Seeking, Owing
  <1>5. Cardinality(Seeking') = Cardinality(Seeking) - 1
    BY <1>3, <1>4, CountWorkers, FS_RemoveElement
  <1>6. NotifiesDue' = NotifiesDue /\ NotifiesDue \in Nat
    BY <1>3, <1>4, CountWorkers DEF NotifiesDue, Owing
  <1>7. QED
    BY <1>2, <1>3, <1>4, <1>5, <1>6, CountWorkers, FS_CardinalityType DEF NoWakeupLost

\* Who pushes a task owes a notification from then on.
LEMMA WakeupPush ==
    ASSUME TypeOK, IsFiniteSet(tasks), NoWakeupLost,
           MainPush \/ \E w \in Workers : TaskPush(w)
    PROVE  NoWakeupLost'
  <1>1. PICK t : tasks' = tasks \cup {t}
    BY DEF MainPush, TaskPush, Push
  <1>2. Cardinality(tasks') <= Cardinality(tasks) + 1 /\ Cardinality(tasks) \in Nat
    <2>1. Cardinality(tasks) \in Nat
      BY FS_CardinalityType
    <2>2. CASE t \in tasks
      <3>1. tasks' = tasks
        BY <1>1, <2>2
      <3>2. QED
        BY <2>1, <3>1
    <2>3. CASE t \notin tasks
      <3>1. Cardinality(tasks') = Cardinality(tasks) + 1
        BY <1>1, <2>3, FS_AddElement
      <3>2. QED
        BY <2>1, <3>1
    <2>4. QED
      BY <2>1, <2>2, <2>3
  <1>3. Seeking \in SUBSET Workers /\ Owing \in SUBSET Workers
    BY DEF Seeking, Owing
  <1>4. Cardinality(tasks') \in Nat
    BY <1>1, FS_AddElement, FS_CardinalityType
  <1>5. NotifiesDue \in Nat
    BY <1>3, CountWorkers DEF NotifiesDue, Owing
  <1>6. Seeking' = Seeking /\ Waiting' = Waiting /\ NotifiesDue' = NotifiesDue + 1
    <2>1. CASE MainPush
      <3>1. mainPc = "enqueue" /\ mainPc' = "notify" /\ pc' = pc
        BY <2>1 DEF MainPush
      <3>2. Cardinality(Owing)' = Cardinality(Owing)
        BY <3>1 DEF Owing
      <3>3. QED
        BY <3>1, <3>2, <1>3, CountWorkers DEF Seeking, Waiting, NotifiesDue, Owing
    <2>2. ASSUME NEW w \in Workers, TaskPush(w)
          PROVE  Seeking' = Seeking /\ Waiting' = Waiting /\ NotifiesDue' = NotifiesDue + 1
      <3>1. /\ Seeking' = Seeking /\ Waiting' = Waiting /\ mainPc' = mainPc
            /\ w \notin Owing /\ Owing' = Owing \cup {w}
        BY <2>2 DEF TaskPush, TypeOK, Seeking, Waiting, Owing
      <3>2. Cardinality(Owing') = Cardinality(Owing) + 1
        BY <3>1, <1>3, CountWorkers, FS_AddElement
      <3>3. QED
        BY <3>1, <3>2, <1>3, CountWorkers DEF NotifiesDue, Owing
    <2>3. QED
      BY <2>1, <2>2
  <1>7. QED
    BY <1>2, <1>3, <1>4, <1>5, <1>6, CountWorkers DEF NoWakeupLost

\* A notification sends a sleeping worker on its way, if there is one.
LEMMA WakeupNotify ==
    ASSUME TypeOK, IsFiniteSet(tasks), NoWakeupLost,
           MainNotify \/ \E w \in Workers : TaskNotify(w)
    PROVE  NoWakeupLost'
  <1>1. tasks' = tasks /\ Cardinality(tasks) \in Nat
    BY FS_CardinalityType DEF MainNotify, TaskNotify
  <1>2. Seeking \in SUBSET Workers /\ Owing \in SUBSET Workers
    BY DEF Seeking, Owing
  <1>3. NotifiesDue \in Nat
    BY <1>2, CountWorkers DEF NotifiesDue, Owing
  <1>4. CASE Waiting = {}
    <2>1. Waiting' = {}
      <3>1. ASSUME NEW v \in Workers PROVE pc'[v] # "waiting"
        <4>1. pc[v] # "waiting"
          BY <1>4 DEF Waiting
        <4>2. QED
          BY <1>4, <4>1 DEF MainNotify, TaskNotify, NotifyOne, TypeOK
      <3>2. QED
        BY <3>1 DEF Waiting
    <2>2. QED
      BY <2>1, NoneToLose
  <1>5. CASE Waiting # {}
    <2>1. /\ \E v \in Waiting : Seeking' = Seeking \cup {v} /\ v \notin Seeking
          /\ NotifiesDue' = NotifiesDue - 1
      <3>1. CASE MainNotify
        <4>1. PICK v \in Waiting : pc' = [pc EXCEPT ![v] = "woken"]
          BY <1>5, <3>1 DEF MainNotify, NotifyOne
        <4>2. Seeking' = Seeking \cup {v} /\ v \notin Seeking /\ Owing' = Owing
          BY <4>1 DEF TypeOK, Seeking, Owing, Waiting
        <4>3. mainPc = "notify" /\ mainPc' = "enqueue"
          BY <3>1 DEF MainNotify
        <4>4. Cardinality(Owing)' = Cardinality(Owing)
          BY <4>2
        <4>5. QED
          BY <4>2, <4>3, <4>4, <1>2, CountWorkers DEF NotifiesDue, Owing
      <3>2. ASSUME NEW w \in Workers, TaskNotify(w)
            PROVE  /\ \E v \in Waiting : Seeking' = Seeking \cup {v} /\ v \notin Seeking
                   /\ NotifiesDue' = NotifiesDue - 1
        <4>1. PICK v \in Waiting : pc' = [[pc EXCEPT ![w] = "run"] EXCEPT ![v] = "woken"]
          BY <1>5, <3>2 DEF TaskNotify, NotifyOne
        <4>2. pc[w] = "notify" /\ pc[v] = "waiting" /\ v \in Workers /\ v # w
          BY <3>2, <4>1 DEF TaskNotify, Waiting
        <4>3. \A u \in Workers : pc'[u] = IF u = v THEN "woken" ELSE IF u = w THEN "run" ELSE pc[u]
          BY <4>1, <4>2 DEF TypeOK
        <4>4. Seeking' = Seeking \cup {v} /\ v \notin Seeking
          BY <4>2, <4>3 DEF Seeking
        <4>5. Owing' = Owing \ {w} /\ w \in Owing /\ mainPc' = mainPc
          BY <3>2, <4>2, <4>3 DEF Owing, TaskNotify
        <4>6. Cardinality(Owing') = Cardinality(Owing) - 1
          BY <4>5, <1>2, CountWorkers, FS_RemoveElement
        <4>7. QED
          BY <4>4, <4>5, <4>6, <1>2, CountWorkers DEF NotifiesDue, Owing
      <3>3. QED
        BY <3>1, <3>2
    <2>2. Cardinality(Seeking') = Cardinality(Seeking) + 1
      BY <2>1, <1>2, CountWorkers, FS_AddElement
    <2>3. QED
      BY <1>1, <1>2, <1>3, <1>5, <2>1, <2>2, CountWorkers DEF NoWakeupLost
  <1>6. QED
    BY <1>4, <1>5

\* A worker gives up its way to the queue only when it has found it empty, and
\* who notifies all leaves nobody asleep.
LEMMA WakeupsNext ==
    TypeOK /\ WaitInv /\ IsFiniteSet(tasks) /\ NoWakeupLost /\ [Next]_vars => NoWakeupLost'
  <1> SUFFICES ASSUME TypeOK, WaitInv, IsFiniteSet(tasks), NoWakeupLost, [Next]_vars
               PROVE  NoWakeupLost'
    OBVIOUS
  <1>1. CASE \E w \in Workers : Exit(w) \/ FindEmpty(w) \/ Wait(w)
    <2>1. tasks' = {}
      BY <1>1 DEF Exit, MayExit, FindEmpty, Wait, WaitInv
    <2>2. QED
      BY <2>1, NoneToLose
  <1>2. CASE MainNotifyAll \/ \E w \in Workers : Leave(w)
    <2>1. Waiting' = {}
      BY <1>2 DEF MainNotifyAll, Leave, NotifyAll, Waiting, TypeOK
    <2>2. QED
      BY <2>1, NoneToLose
  <1>3. ASSUME NEW w \in Workers,
               \/ CountUp(w) \/ Return(w) \/ LoadCount(w) \/ StoreCount(w)
               \/ TestCount(w) \/ TestEmpty(w) \/ SpuriousWakeup(w)
        PROVE  NoWakeupLost'
    <2>1. tasks' = tasks /\ mainPc' = mainPc
      BY <1>3 DEF CountUp, Return, LoadCount, StoreCount, TestCount, TestEmpty, SpuriousWakeup
    <2>2. \E to \in WorkerPcs \ {"notify", "waiting"} :
             pc' = [pc EXCEPT ![w] = to] /\ (pc[w] = "waiting" => to = "woken")
      BY <1>3 DEF CountUp, Return, LoadCount, StoreCount, TestCount, TestEmpty, SpuriousWakeup,
                  WorkerPcs
    <2>3. pc[w] \notin {"loop", "woken", "notify"}
      BY <1>3 DEF CountUp, Return, LoadCount, StoreCount, TestCount, TestEmpty, SpuriousWakeup
    <2>4. Seeking \subseteq Seeking' /\ Owing' = Owing /\ Waiting' \subseteq Waiting
      BY <2>2, <2>3 DEF Seeking, Owing, Waiting, TypeOK
    <2>5. QED
      BY <2>1, <2>4, WakeupsKept
  <1>4. CASE SetStop \/ JoinAll \/ UNCHANGED vars
    <2>1. /\ tasks' = tasks /\ pc' = pc
          /\ mainPc' = "notify" <=> mainPc = "notify"
      BY <1>4 DEF SetStop, JoinAll, vars
    <2>2. Seeking' = Seeking /\ Owing' = Owing /\ Waiting' = Waiting
      BY <2>1 DEF Seeking, Owing, Waiting
    <2>3. QED
      BY <2>1, <2>2, WakeupsKept
  <1>5. ASSUME NEW w \in Workers, Pop(w) \/ TaskPush(w) \/ TaskNotify(w) PROVE NoWakeupLost'
    BY <1>5, WakeupPop, WakeupPush, WakeupNotify
  <1>6. CASE MainPush \/ MainNotify
    BY <1>6, WakeupPush, WakeupNotify
  <1>7. QED
    BY <1>1, <1>2, <1>3, <1>4, <1>5, <1>6 DEF Next, WorkerStep, MainStep

-----------------------------------------------------------------------------
(* The theorems.                                                           *)

\* ThreadPool.hh and ThreadPool.cpp keep every variable within its type.
THEOREM TypeCorrect == Spec => []TypeOK
  <1>1. Init => JobInv
    BY DEF Init, JobInv
  <1>2. QED
    BY <1>1, TypeInit, TypeNext, JobNext, PTL DEF Spec

\* The empty pool satisfies the invariant.
LEMMA IInvInit == Init => IInv
  <1> SUFFICES ASSUME Init PROVE IInv
    OBVIOUS
  <1>1. TypeOK
    BY TypeInit
  <1>2. MutexInv /\ WaitInv
    BY ConstantTypes DEF Init, MutexInv, WaitInv
  <1>3. JobInv /\ RunsOnce
    BY DEF Init, JobInv, RunsOnce
  <1>4. Submitted = {} /\ Running = {}
    BY DEF Init, Submitted, Running
  <1>5. MainDebt /\ TaskDebt
    BY <1>4, ConstantTypes DEF Init, MainDebt, TaskDebt
  <1>6. StopInv /\ QueueServed
    BY DEF Init, StopInv, QueueServed
  <1>7. QED
    BY <1>1, <1>2, <1>3, <1>5, <1>6 DEF IInv

\* Every step of every worker and of the main thread keeps the invariant.
LEMMA IInvNext == IInv /\ [Next]_vars => IInv'
  BY TypeNext, JobNext, MutexNext, StopNext, DataNext, ServedNext DEF IInv, Data

\* The inductive invariant holds of every pool.
THEOREM Inductive == Spec => []IInv
  BY IInvInit, IInvNext, PTL DEF Spec

\* No task is run twice, or by two workers, or lost back to the queue.
THEOREM EachTaskRunsOnce == Spec => []RunsOnce
  <1>1. IInv => RunsOnce
    BY DEF IInv
  <1>2. QED
    BY <1>1, Inductive, PTL

\* While a worker sleeps, every queued task has a worker on its way to the queue
\* or a notification still to come: enqueue notifies once per push and after the
\* unlock, and a worker sleeps only after it has seen the queue empty.
THEOREM WakeupsSuffice == Spec => []NoWakeupLost
  <1>1. Init => IsFiniteSet(tasks) /\ NoWakeupLost
    <2>1. ASSUME Init PROVE IsFiniteSet(tasks) /\ NoWakeupLost
      <3>1. IsFiniteSet({}) /\ Waiting = {}
        BY <2>1, FS_EmptySet DEF Init, Waiting
      <3>2. QED
        BY <2>1, <3>1 DEF Init, NoWakeupLost
    <2>2. QED
      BY <2>1
  <1>2. IInv => TypeOK /\ WaitInv
    BY DEF IInv
  <1>3. QED
    BY <1>1, <1>2, Inductive, FiniteNext, WakeupsNext, PTL DEF Spec

\* With the main thread in the destructor and no worker awake, the submitted
\* tasks contain those of main and the children of each of them: TaskForest
\* says that these are all tasks.
LEMMA QuietDone == IInv => QuietOnlyWhenDone
  <1> SUFFICES ASSUME IInv, mainPc \in {"join", "joined"},
                      \A w \in Workers : pc[w] \in {"waiting", "exited"}
               PROVE  done = Tasks
    BY DEF QuietOnlyWhenDone
  <1>1. tasks = {}
    BY DEF IInv, QueueServed, Awake
  <1>2. Running = {}
    BY DEF IInv, JobInv, Running
  <1>3. Submitted = done
    BY <1>1, <1>2 DEF Submitted
  <1>4. MainTasks \subseteq done
    BY <1>3 DEF IInv, StopInv, MainDebt
  <1>5. \A t \in done : Children[t] \subseteq done
    BY <1>3 DEF IInv, TaskDebt
  <1>6. done \in SUBSET Tasks
    BY DEF IInv, TypeOK
  <1>7. QED
    BY <1>4, <1>5, <1>6, TaskForest

\* However the shutdown goes, the workers fall silent only after every task,
\* those submitted during the shutdown included, has run.
THEOREM NoTaskAbandoned == Spec => []QuietOnlyWhenDone
  BY QuietDone, Inductive, PTL

-----------------------------------------------------------------------------
(* The refinement of TaskPool.                                             *)

\* The empty pool is an empty TaskPool.
LEMMA RefineInit == Init => Pool!Init
  BY DEF Init, Pool!Init, Status, Running

\* Where each task is according to Status.
LEMMA StatusOf ==
    ASSUME IInv, NEW t \in Tasks
    PROVE  /\ Status[t] = "new" <=> t \notin Submitted
           /\ Status[t] = "queued" <=> t \in tasks
           /\ Status[t] = "running" <=> t \in Running
           /\ Status[t] = "done" <=> t \in done
  <1>1. /\ t \in Running => t \notin tasks \cup done
        /\ ~(t \in tasks /\ t \in done)
    BY DEF IInv, RunsOnce, Running
  <1>2. QED
    BY <1>1 DEF Status, Submitted

\* A push, by whom it may be, changes the status of the pushed task only.
LEMMA RefinePush ==
    ASSUME IInv, NEW t \in Tasks, t \notin Submitted,
           tasks' = tasks \cup {t}, UNCHANGED <<job, done>>
    PROVE  Status[t] = "new" /\ Status' = [Status EXCEPT ![t] = "queued"]
  <1>1. Status[t] = "new"
    BY StatusOf
  <1>2. Running' = Running
    BY DEF Running
  <1>3. QED
    BY <1>1, <1>2 DEF Status, Submitted

\* enqueue called by a task is Submit: the parent is running.
LEMMA RefineTaskPush ==
    ASSUME IInv, NEW w \in Workers, TaskPush(w)
    PROVE  \E t \in Tasks : Pool!Submit(t)
  <1>1. PICK t \in toSubmit[w] : tasks' = tasks \cup {t}
    BY DEF TaskPush, Push
  <1>2. job[w] \in Running /\ job[w] \in Tasks
    BY ConstantTypes DEF TaskPush, IInv, JobInv, TypeOK, Running
  <1>3. t \in Children[job[w]] /\ t \in Tasks /\ t \notin Submitted
    BY <1>2, ConstantTypes DEF IInv, TaskDebt, TypeOK, Running
  <1>4. Status[job[w]] = "running"
    BY <1>2, StatusOf
  <1>5. Status[t] = "new" /\ Status' = [Status EXCEPT ![t] = "queued"]
    BY <1>1, <1>3, RefinePush DEF TaskPush
  <1>6. mainPc # "joined" /\ mainPc' = mainPc
    BY DEF TaskPush, IInv, StopInv
  <1>7. QED
    BY <1>2, <1>3, <1>4, <1>5, <1>6 DEF Pool!Submit, Pool!With

\* enqueue called by the main thread is Submit.
LEMMA RefineMainPush ==
    ASSUME IInv, MainPush
    PROVE  \E t \in Tasks : Pool!Submit(t)
  <1>1. PICK t \in mainTodo : tasks' = tasks \cup {t}
    BY DEF MainPush, Push
  <1>2. t \in MainTasks /\ t \in Tasks /\ t \notin Submitted
    BY ConstantTypes DEF IInv, MainDebt
  <1>3. Status[t] = "new" /\ Status' = [Status EXCEPT ![t] = "queued"]
    BY <1>1, <1>2, RefinePush DEF MainPush
  <1>4. mainPc # "joined" /\ mainPc' # "joined"
    BY DEF MainPush
  <1>5. QED
    BY <1>2, <1>3, <1>4 DEF Pool!Submit

\* The pop of a worker is Start: tasks.top() has the highest priority queued.
LEMMA RefinePop ==
    ASSUME IInv, NEW w \in Workers, Pop(w)
    PROVE  \E t \in Tasks : Pool!Start(t)
  <1>1. PICK t \in tasks :
           /\ \A u \in tasks : Prio[u] <= Prio[t]
           /\ tasks' = tasks \ {t}
           /\ job' = [job EXCEPT ![w] = t]
    BY DEF Pop, Take, Tops
  <1>2. t \in Tasks /\ t # NoTask /\ job[w] = NoTask /\ t \notin done
    BY ConstantTypes DEF Pop, IInv, JobInv, TypeOK, RunsOnce
  <1>3. Running' = Running \cup {t}
    BY <1>1, <1>2 DEF Running, IInv, TypeOK
  <1>4. Status[t] = "queued" /\ \A u \in Pool!With("queued") : u \in tasks
    BY <1>2, StatusOf DEF Pool!With
  <1>5. Status' = [Status EXCEPT ![t] = "running"]
    BY <1>1, <1>2, <1>3 DEF Status, Pop
  <1>6. mainPc' = mainPc
    BY DEF Pop
  <1>7. QED
    BY <1>1, <1>2, <1>4, <1>5, <1>6 DEF Pool!Start

\* The return of a task is Finish: it has submitted all its children.
LEMMA RefineReturn ==
    ASSUME IInv, NEW w \in Workers, Return(w)
    PROVE  \E t \in Tasks : Pool!Finish(t)
  <1> DEFINE t == job[w]
  <1>1. t \in Tasks /\ t # NoTask /\ t \in Running
    BY ConstantTypes DEF Return, IInv, JobInv, TypeOK, Running
  <1>2. Children[t] \subseteq Submitted
    BY <1>1 DEF Return, IInv, TaskDebt
  <1>3. Status[t] = "running" /\ Children[t] \cap Pool!With("new") = {}
    BY <1>1, <1>2, StatusOf DEF Pool!With
  <1>4. Running' = Running \ {t}
    BY <1>1 DEF Return, IInv, RunsOnce, Running, TypeOK
  <1>5. Status' = [Status EXCEPT ![t] = "done"]
    BY <1>1, <1>4 DEF Status, Return
  <1>6. mainPc' = mainPc
    BY DEF Return
  <1>7. QED
    BY <1>1, <1>3, <1>5, <1>6 DEF Pool!Finish

\* The return of the destructor is Join: every worker has exited, and none
\* has before every task was done.
LEMMA RefineJoin ==
    ASSUME IInv, JoinAll
    PROVE  Pool!Join
  <1>1. done = Tasks
    BY QuietDone DEF JoinAll, QuietOnlyWhenDone
  <1>2. Pool!With("done") = Tasks
    BY <1>1, StatusOf DEF Pool!With
  <1>3. Status' = Status
    BY DEF JoinAll, Status, Running
  <1>4. QED
    BY <1>2, <1>3 DEF JoinAll, Pool!Join

\* The steps on locks, counters and wake-ups are invisible to a client.
LEMMA RefineStutter ==
    ASSUME UNCHANGED <<tasks, job, done>>,
           (mainPc = "joined") <=> (mainPc' = "joined")
    PROVE  UNCHANGED Pool!vars
  BY DEF Pool!vars, Status, Running

\* Every step of the pool is a step of TaskPool or leaves the status alone.
LEMMA RefineNext == IInv /\ [Next]_vars => [Pool!Next]_(Pool!vars)
  <1> SUFFICES ASSUME IInv, [Next]_vars
               PROVE  Pool!Next \/ UNCHANGED Pool!vars
    OBVIOUS
  <1>1. CASE \E w \in Workers : TaskPush(w) \/ Pop(w) \/ Return(w)
    BY <1>1, RefineTaskPush, RefinePop, RefineReturn DEF Pool!Next
  <1>2. CASE MainPush \/ JoinAll
    BY <1>2, RefineMainPush, RefineJoin DEF Pool!Next
  <1>3. CASE \E w \in Workers :
               \/ Exit(w) \/ FindEmpty(w) \/ Wait(w) \/ CountUp(w)
               \/ TaskNotify(w) \/ LoadCount(w) \/ StoreCount(w)
               \/ TestCount(w) \/ TestEmpty(w) \/ Leave(w) \/ SpuriousWakeup(w)
    BY <1>3, RefineStutter
    DEF Exit, FindEmpty, Wait, CountUp, TaskNotify, LoadCount, StoreCount,
        TestCount, TestEmpty, Leave, SpuriousWakeup
  <1>4. CASE MainNotify \/ MainNotifyAll \/ SetStop \/ UNCHANGED vars
    BY <1>4, RefineStutter DEF MainNotify, MainNotifyAll, SetStop, vars
  <1>5. QED
    BY <1>1, <1>2, <1>3, <1>4 DEF Next, WorkerStep, MainStep

\* The pool implements TaskPool for any number of workers.
THEOREM PoolImplementsTaskPool == Spec => PoolSpec
  BY RefineInit, RefineNext, Inductive, PTL DEF Spec, PoolSpec, Pool!Spec
=============================================================================

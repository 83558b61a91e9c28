----------------------------- MODULE ThreadPool -----------------------------
(***************************************************************************)
(* lib/ThreadPool.hh and lib/ThreadPool.cpp: the worker loop, enqueue, the *)
(* destructor, and the two lines of main.cpp that shut the pool down.      *)
(*                                                                         *)
(* A step is one access to the state the threads share.  The sections      *)
(* under queue_mutex that touch only data it protects are one step each;   *)
(* the accesses made without it (nr_active_thread, stop and tasks.empty()  *)
(* after a task, the notifications) are steps of their own.                *)
(***************************************************************************)
EXTENDS TaskTree, FiniteSets

CONSTANTS Workers,      \* the threads the constructor launches
          NoTask,       \* not a task: the worker holds no task
          NoThread,     \* not a worker: the mutex is free
          MaxSpurious   \* bound on the spurious wake-ups of one behaviour

ASSUME PoolAssumption ==
    /\ Workers # {} /\ IsFiniteSet(Workers)
    /\ NoTask \notin Tasks
    /\ NoThread \notin Workers
    /\ MaxSpurious \in Nat

VARIABLES tasks,        \* the priority queue
          stop,         \* set by the destructor
          nrActive,     \* nr_active_thread
          queueMutex,   \* the worker that holds queue_mutex across steps
          activeMutex,  \* the worker that holds nr_active_thread_mutex
          pc,           \* pc[w]: where worker w is in its loop
          job,          \* job[w]: the task worker w runs
          reg,          \* reg[w]: nr_active_thread as read by "--"
          toSubmit,     \* toSubmit[w]: what job[w] has still to enqueue
          mainPc,       \* where the main thread is
          mainTodo,     \* the tasks the main thread has still to enqueue
          done,         \* the tasks whose function has returned
          spurious      \* spurious wake-ups so far

vars == <<tasks, stop, nrActive, queueMutex, activeMutex, pc, job, reg,
          toSubmit, mainPc, mainTodo, done, spurious>>

WorkerPcs == {"loop",      \* about to lock queue_mutex at the loop head
              "wait",      \* holds queue_mutex, found no task, will wait
              "waiting",   \* in condition.wait
              "woken",     \* notified, has to lock queue_mutex again
              "count",     \* has popped a task, not yet counted as active
              "run",       \* inside task()
              "notify",    \* inside task(), pushed, has to notify_one
              "load",      \* back from task(), to lock nr_active_thread_mutex
              "store",     \* has read nr_active_thread for the decrement
              "test",      \* about to evaluate stop && nr_active_thread == 0
              "empty",     \* about to evaluate tasks.empty()
              "leave",     \* about to notify_all
              "exited"}

MainPcs == {"enqueue", "notify", "shutdown", "join", "joined"}

TypeOK ==
    /\ tasks \in SUBSET Tasks
    /\ stop \in BOOLEAN
    /\ nrActive \in Int
    /\ queueMutex \in Workers \cup {NoThread}
    /\ activeMutex \in Workers \cup {NoThread}
    /\ pc \in [Workers -> WorkerPcs]
    /\ job \in [Workers -> Tasks \cup {NoTask}]
    /\ reg \in [Workers -> Int]
    /\ toSubmit \in [Workers -> SUBSET Tasks]
    /\ mainPc \in MainPcs
    /\ mainTodo \in SUBSET Tasks
    /\ done \in SUBSET Tasks
    /\ spurious \in Nat

Init ==
    /\ tasks = {}
    /\ stop = FALSE
    /\ nrActive = 0
    /\ queueMutex = NoThread
    /\ activeMutex = NoThread
    /\ pc = [w \in Workers |-> "loop"]
    /\ job = [w \in Workers |-> NoTask]
    /\ reg = [w \in Workers |-> 0]
    /\ toSubmit = [w \in Workers |-> {}]
    /\ mainPc = "enqueue"
    /\ mainTodo = MainTasks
    /\ done = {}
    /\ spurious = 0

-----------------------------------------------------------------------------
(* The queue and the condition variable.                                   *)

Waiting == {w \in Workers : pc[w] = "waiting"}

\* Mutants of MayExit: the queue, or stop, is not looked at.
MayExitQueued == stop /\ nrActive = 0
MayExitEarly == nrActive = 0 /\ tasks = {}

\* The exit test, made while queue_mutex is held.
MayExit == stop /\ nrActive = 0 /\ tasks = {}

\* Mutant of Tops: the priority is ignored.
AnyTask == tasks

\* tasks.top(): of the tasks with the highest priority, any one.
Tops == {t \in tasks : \A u \in tasks : Prio[u] <= Prio[t]}

\* The section of enqueue under queue_mutex.
Push(t) ==
    /\ queueMutex = NoThread
    /\ tasks' = tasks \cup {t}

\* Mutant of NotifyOne and NotifyAll: the notification is missing.
NotifyNobody(p) == pc' = p

\* notify_one applied to the program counters p.
NotifyOne(p) ==
    IF Waiting = {} THEN pc' = p
    ELSE \E w \in Waiting : pc' = [p EXCEPT ![w] = "woken"]

\* notify_all applied to the program counters p.
NotifyAll(p) == pc' = [w \in Workers |-> IF w \in Waiting THEN "woken" ELSE p[w]]

-----------------------------------------------------------------------------
(* The worker loop.                                                        *)

\* Locks queue_mutex, at the loop head or on return from condition.wait,
\* and finds that the pool has shut down.
Exit(w) ==
    /\ pc[w] \in {"loop", "woken"}
    /\ queueMutex = NoThread
    /\ MayExit
    /\ pc' = [pc EXCEPT ![w] = "exited"]
    /\ UNCHANGED <<tasks, stop, nrActive, queueMutex, activeMutex, job, reg,
                   toSubmit, mainPc, mainTodo, done, spurious>>

\* Locks queue_mutex and finds no task: it keeps the mutex until it waits.
FindEmpty(w) ==
    /\ pc[w] \in {"loop", "woken"}
    /\ queueMutex = NoThread
    /\ tasks = {}
    /\ ~MayExit
    /\ queueMutex' = w
    /\ pc' = [pc EXCEPT ![w] = "wait"]
    /\ UNCHANGED <<tasks, stop, nrActive, activeMutex, job, reg,
                   toSubmit, mainPc, mainTodo, done, spurious>>

\* condition.wait releases the mutex and joins the wait set in one step.
Wait(w) ==
    /\ pc[w] = "wait"
    /\ queueMutex' = NoThread
    /\ pc' = [pc EXCEPT ![w] = "waiting"]
    /\ UNCHANGED <<tasks, stop, nrActive, activeMutex, job, reg,
                   toSubmit, mainPc, mainTodo, done, spurious>>

\* A wait may return although nobody notified.
SpuriousWakeup(w) ==
    /\ pc[w] = "waiting"
    /\ spurious < MaxSpurious
    /\ spurious' = spurious + 1
    /\ pc' = [pc EXCEPT ![w] = "woken"]
    /\ UNCHANGED <<tasks, stop, nrActive, queueMutex, activeMutex, job, reg,
                   toSubmit, mainPc, mainTodo, done>>

\* Mutant of Take: the task is copied but not popped.
TakeCopy(w, t) ==
    /\ tasks' = tasks
    /\ job' = [job EXCEPT ![w] = t]
    /\ toSubmit' = [toSubmit EXCEPT ![w] = Children[t]]

\* The task is copied from the queue and popped; running it will submit its
\* children.
Take(w, t) ==
    /\ tasks' = tasks \ {t}
    /\ job' = [job EXCEPT ![w] = t]
    /\ toSubmit' = [toSubmit EXCEPT ![w] = Children[t]]

\* Locks queue_mutex, takes the top task and unlocks.
Pop(w) ==
    /\ pc[w] \in {"loop", "woken"}
    /\ queueMutex = NoThread
    /\ \E t \in Tops : Take(w, t)
    /\ pc' = [pc EXCEPT ![w] = "count"]
    /\ UNCHANGED <<stop, nrActive, queueMutex, activeMutex, reg,
                   mainPc, mainTodo, done, spurious>>

\* __sync_fetch_and_add, after queue_mutex has been released.
CountUp(w) ==
    /\ pc[w] = "count"
    /\ nrActive' = nrActive + 1
    /\ pc' = [pc EXCEPT ![w] = "run"]
    /\ UNCHANGED <<tasks, stop, queueMutex, activeMutex, job, reg,
                   toSubmit, mainPc, mainTodo, done, spurious>>

\* A running task enqueues another one: first the push ...
TaskPush(w) ==
    /\ pc[w] = "run"
    /\ \E t \in toSubmit[w] :
          /\ Push(t)
          /\ toSubmit' = [toSubmit EXCEPT ![w] = @ \ {t}]
    /\ pc' = [pc EXCEPT ![w] = "notify"]
    /\ UNCHANGED <<stop, nrActive, queueMutex, activeMutex, job, reg,
                   mainPc, mainTodo, done, spurious>>

\* ... then, with queue_mutex released, the notification.
TaskNotify(w) ==
    /\ pc[w] = "notify"
    /\ NotifyOne([pc EXCEPT ![w] = "run"])
    /\ UNCHANGED <<tasks, stop, nrActive, queueMutex, activeMutex, job, reg,
                   toSubmit, mainPc, mainTodo, done, spurious>>

\* The function of the task, and its callback, return.
Return(w) ==
    /\ pc[w] = "run"
    /\ toSubmit[w] = {}
    /\ done' = done \cup {job[w]}
    /\ job' = [job EXCEPT ![w] = NoTask]
    /\ pc' = [pc EXCEPT ![w] = "load"]
    /\ UNCHANGED <<tasks, stop, nrActive, queueMutex, activeMutex, reg,
                   toSubmit, mainPc, mainTodo, spurious>>

\* The decrement is a plain read and a plain write: nr_active_thread_mutex
\* orders it against other decrements, but not against CountUp.
LoadCount(w) ==
    /\ pc[w] = "load"
    /\ activeMutex = NoThread
    /\ activeMutex' = w
    /\ reg' = [reg EXCEPT ![w] = nrActive]
    /\ pc' = [pc EXCEPT ![w] = "store"]
    /\ UNCHANGED <<tasks, stop, nrActive, queueMutex, job,
                   toSubmit, mainPc, mainTodo, done, spurious>>

StoreCount(w) ==
    /\ pc[w] = "store"
    /\ nrActive' = reg[w] - 1
    /\ pc' = [pc EXCEPT ![w] = "test"]
    /\ UNCHANGED <<tasks, stop, queueMutex, activeMutex, job, reg,
                   toSubmit, mainPc, mainTodo, done, spurious>>

\* stop && nr_active_thread == 0 without queue_mutex.  The compiler may
\* compare the value it has just stored or read the variable again.
TestCount(w) ==
    /\ pc[w] = "test"
    /\ \E n \in {reg[w] - 1, nrActive} :
          IF stop /\ n = 0
          THEN /\ pc' = [pc EXCEPT ![w] = "empty"]
               /\ UNCHANGED activeMutex
          ELSE /\ pc' = [pc EXCEPT ![w] = "loop"]
               /\ activeMutex' = NoThread
    /\ UNCHANGED <<tasks, stop, nrActive, queueMutex, job, reg,
                   toSubmit, mainPc, mainTodo, done, spurious>>

\* && tasks.empty(), also without queue_mutex.
TestEmpty(w) ==
    /\ pc[w] = "empty"
    /\ IF tasks = {}
       THEN /\ pc' = [pc EXCEPT ![w] = "leave"]
            /\ UNCHANGED activeMutex
       ELSE /\ pc' = [pc EXCEPT ![w] = "loop"]
            /\ activeMutex' = NoThread
    /\ UNCHANGED <<tasks, stop, nrActive, queueMutex, job, reg,
                   toSubmit, mainPc, mainTodo, done, spurious>>

\* The last active worker wakes the others, then returns.
Leave(w) ==
    /\ pc[w] = "leave"
    /\ NotifyAll([pc EXCEPT ![w] = "exited"])
    /\ activeMutex' = NoThread
    /\ UNCHANGED <<tasks, stop, nrActive, queueMutex, job, reg,
                   toSubmit, mainPc, mainTodo, done, spurious>>

-----------------------------------------------------------------------------
(* The main thread: enqueue, then main.cpp:128-129 and the destructor.     *)

MainPush ==
    /\ mainPc = "enqueue"
    /\ \E t \in mainTodo :
          /\ Push(t)
          /\ mainTodo' = mainTodo \ {t}
    /\ mainPc' = "notify"
    /\ UNCHANGED <<stop, nrActive, queueMutex, activeMutex, pc, job, reg,
                   toSubmit, done, spurious>>

MainNotify ==
    /\ mainPc = "notify"
    /\ NotifyOne(pc)
    /\ mainPc' = "enqueue"
    /\ UNCHANGED <<tasks, stop, nrActive, queueMutex, activeMutex, job, reg,
                   toSubmit, mainTodo, done, spurious>>

\* threadpool->condition.notify_all(), before the destructor sets stop.
MainNotifyAll ==
    /\ mainPc = "enqueue"
    /\ mainTodo = {}
    /\ NotifyAll(pc)
    /\ mainPc' = "shutdown"
    /\ UNCHANGED <<tasks, stop, nrActive, queueMutex, activeMutex, job, reg,
                   toSubmit, mainTodo, done, spurious>>

\* The destructor sets stop under queue_mutex and notifies nobody.
SetStop ==
    /\ mainPc = "shutdown"
    /\ queueMutex = NoThread
    /\ stop' = TRUE
    /\ mainPc' = "join"
    /\ UNCHANGED <<tasks, nrActive, queueMutex, activeMutex, pc, job, reg,
                   toSubmit, mainTodo, done, spurious>>

JoinAll ==
    /\ mainPc = "join"
    /\ \A w \in Workers : pc[w] = "exited"
    /\ mainPc' = "joined"
    /\ UNCHANGED <<tasks, stop, nrActive, queueMutex, activeMutex, pc, job,
                   reg, toSubmit, mainTodo, done, spurious>>

-----------------------------------------------------------------------------
WorkerStep(w) ==
    \/ Exit(w) \/ FindEmpty(w) \/ Wait(w) \/ Pop(w) \/ CountUp(w)
    \/ TaskPush(w) \/ TaskNotify(w) \/ Return(w)
    \/ LoadCount(w) \/ StoreCount(w) \/ TestCount(w) \/ TestEmpty(w) \/ Leave(w)

MainStep == MainPush \/ MainNotify \/ MainNotifyAll \/ SetStop \/ JoinAll

Next ==
    \/ \E w \in Workers : WorkerStep(w) \/ SpuriousWakeup(w)
    \/ MainStep

Spec == Init /\ [][Next]_vars

\* The kernel runs every runnable thread, and a task returns.  Nothing is
\* assumed of spurious wake-ups.
FairSpec == Spec /\ WF_vars(MainStep) /\ \A w \in Workers : WF_vars(WorkerStep(w))

-----------------------------------------------------------------------------
(* Properties.                                                             *)

Running == {job[w] : w \in Workers} \ {NoTask}

Submitted == tasks \cup Running \cup done

Awake == {w \in Workers : pc[w] \notin {"waiting", "leave", "exited"}}

\* Workers that will look at the queue before they can block.
Seeking == {w \in Workers : pc[w] \in {"loop", "woken"}}

\* Threads that have pushed a task and have still to notify.
NotifiesDue == Cardinality({w \in Workers : pc[w] = "notify"})
               + (IF mainPc = "notify" THEN 1 ELSE 0)

\* No task is run by two workers, and a task that was taken from the queue
\* does not come back to it: ThreadPool.cpp copies top() and pops in one
\* section under queue_mutex, while enqueue pushes from any thread.
RunsOnce ==
    /\ \A v, w \in Workers : v # w /\ job[v] # NoTask => job[v] # job[w]
    /\ \A w \in Workers : job[w] \notin tasks \cup done
    /\ tasks \cap done = {}

\* No wake-up of enqueue is lost: while a worker sleeps, the queue is never
\* longer than the number of workers on their way to it plus the
\* notifications still to be made.
NoWakeupLost ==
    Waiting # {} => Cardinality(tasks) <= Cardinality(Seeking) + NotifiesDue

\* The destructor waits in join for workers that sleep or have left only when
\* every task has run; so main never prints results that are incomplete, and
\* whatever goes wrong in the shutdown protocol costs no answer.
QuietOnlyWhenDone ==
    /\ mainPc \in {"join", "joined"}
    /\ \A w \in Workers : pc[w] \in {"waiting", "exited"}
    => done = Tasks

\* The pool implements TaskPool: every task is submitted, started by
\* priority, and finished, once and in that order, and the destructor
\* returns only after the last of them.
Status == [t \in Tasks |->
             IF t \in done THEN "done"
             ELSE IF t \in Running THEN "running"
             ELSE IF t \in tasks THEN "queued" ELSE "new"]
Pool == INSTANCE TaskPool WITH status <- Status, joined <- (mainPc = "joined")
PoolSpec == Pool!Spec

\* Every task is run, whatever the shutdown protocol does to the workers.
EveryTaskRuns == \A t \in Tasks : <>(t \in done)

\* When the last active worker leaves with a correct count and no worker is
\* between its test of the queue and its wait, the shutdown works: the woken
\* workers see that they may exit and the destructor returns.
ShutdownCompletes ==
    /\ \E w \in Workers : pc[w] = "leave"
    /\ \A w \in Workers : pc[w] \in {"leave", "waiting", "woken", "loop", "exited"}
    /\ nrActive = 0
    ~> mainPc = "joined"

\* main.cpp:129, "will wait to join all thread", and ThreadPool.hh:137, "the
\* destructor joins all threads": the destructor returns.
DestructorReturns == <>(mainPc = "joined")

-----------------------------------------------------------------------------
(* The inductive invariant behind RunsOnce, QuietOnlyWhenDone and PoolSpec. *)

\* queue_mutex is held across steps only from the test to the wait, and the
\* queue stays empty meanwhile.
MutexInv ==
    \A w \in Workers : pc[w] = "wait" <=> queueMutex = w

WaitInv == (\E w \in Workers : pc[w] = "wait") => tasks = {}

JobInv ==
    \A w \in Workers :
       /\ job[w] # NoTask <=> pc[w] \in {"count", "run", "notify"}
       /\ job[w] = NoTask => toSubmit[w] = {}

\* Each submitter owes exactly the tasks it has not submitted yet.
MainDebt ==
    /\ mainTodo \subseteq MainTasks
    /\ mainTodo \cap Submitted = {}
    /\ MainTasks \ mainTodo \subseteq Submitted

TaskDebt ==
    /\ \A w \in Workers : job[w] # NoTask =>
          /\ toSubmit[w] \subseteq Children[job[w]]
          /\ toSubmit[w] \cap Submitted = {}
          /\ Children[job[w]] \ toSubmit[w] \subseteq Submitted
    /\ \A t \in done : Children[t] \subseteq Submitted
    /\ \A t \in Tasks \ (Running \cup done) : Children[t] \cap Submitted = {}

StopInv ==
    /\ stop <=> mainPc \in {"join", "joined"}
    /\ mainPc \in {"shutdown", "join", "joined"} => mainTodo = {}
    /\ (\E w \in Workers : pc[w] \in {"empty", "leave", "exited"}) => stop
    /\ mainPc = "joined" => \A w \in Workers : pc[w] = "exited"

\* While a task is queued some worker is awake, or the main thread has still
\* to notify.
QueueServed == tasks # {} => Awake # {} \/ mainPc = "notify"

IInv ==
    /\ TypeOK
    /\ MutexInv
    /\ WaitInv
    /\ JobInv
    /\ RunsOnce
    /\ MainDebt
    /\ TaskDebt
    /\ StopInv
    /\ QueueServed
=============================================================================

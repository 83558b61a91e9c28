------------------------------ MODULE Pipeline ------------------------------
(***************************************************************************)
(* One run of the program: main.cpp, the job wrappers, the readers, and    *)
(* the detached threads, over the data of class Data.                      *)
(*                                                                         *)
(* Each thread or pool task is a straight-line program; pc says which      *)
(* phase it is in.  A phase lasts any number of steps of the others, and   *)
(* Uses says which data the phase reads or writes in place.  The data a    *)
(* phase builds become ready, and those it frees are gone, at its end.     *)
(*                                                                         *)
(* The pool is TaskPool with NrWorkers workers: ThreadPool implements it.  *)
(***************************************************************************)
EXTENDS Integers, FiniteSets

CONSTANTS Q3,         \* the query-3 tasks
          Q4,         \* the query-4 tasks
          Destroyer,  \* Destroyer[q]: the thread q may run destroy_q3_data in
          NrWorkers   \* NUM_THREADS

Solo == {"main", "hasher", "places", "nameDestroyer"}
Detached == {"hasher", "places", "nameDestroyer"} \cup {Destroyer[q] : q \in Q3}
Tasks == {"comments", "forum", "q2"} \cup Q3 \cup Q4
Threads == {"main"} \cup Detached \cup Tasks

ASSUME PipelineAssumption ==
    /\ IsFiniteSet(Q3) /\ IsFiniteSet(Q4)
    /\ NrWorkers \in Nat \ {0}
    /\ Q3 \cap Q4 = {}
    /\ (Q3 \cup Q4) \cap (Solo \cup {"comments", "forum", "q2"}) = {}
    /\ DOMAIN Destroyer = Q3
    /\ \A q \in Q3 : Destroyer[q] \notin Solo \cup Tasks
    /\ \A p, q \in Q3 : Destroyer[p] = Destroyer[q] => p = q

MainTasks == {"comments", "forum", "q2"} \cup Q3
Children == [t \in Tasks |-> IF t = "forum" THEN Q4 ELSE {}]

\* The priority arguments of enqueue, 5 by default.
Prio == [t \in Tasks |-> IF t = "comments" THEN 20 ELSE IF t \in Q4 THEN 10 ELSE 5]

Signals == {"friends_hash_built", "tag_read", "q2_finished"}

\* The data of class Data, with q4_persons; "counts" are the ncmts fields of
\* friends, "places" is placeid together with places.
Items == {"friends", "friends_hash", "counts", "birthday", "tag_name", "tags",
          "person_in_tags", "q4_persons", "places"}

VARIABLES pc,      \* pc[t]: the phase of thread or task t
          data,    \* data[d]: "absent", "ready" or "freed"
          flag,    \* flag[s]: the boolean of signal s
          count,   \* the counter of q3.continuation
          large    \* whether Data::nperson > 1e4

vars == <<pc, data, flag, count, large>>

-----------------------------------------------------------------------------
(* What each phase touches.                                                *)

\* The phases in which a thread reads or updates a datum in place.
Uses(t) ==
    CASE pc[t] = "hash"   -> {"friends"}
      [] pc[t] = "filter" -> {"friends_hash"}
      [] pc[t] = "merge"  -> {"friends"}
      [] pc[t] = "query1" -> {"friends", "counts"}
      [] pc[t] = "places" -> {"tags"}
      [] pc[t] = "forum"  -> {"tag_name"}
      [] pc[t] = "query2" -> {"friends", "birthday", "tags", "person_in_tags", "tag_name"}
      [] pc[t] = "query3" -> {"friends", "tags", "places"}
      [] pc[t] = "query4" -> {"friends", "q4_persons"}
      [] OTHER            -> {}

Outside == {"new", "queued", "done"}
Running == {t \in Tasks : pc[t] \notin Outside}
Queued == {t \in Tasks : pc[t] = "queued"}

\* The signal thread t waits for.
SignalOf(t) == IF t = "main" THEN "tag_read"
               ELSE IF t = "comments" THEN "friends_hash_built" ELSE "q2_finished"

Goto(t, from, to) ==
    /\ pc[t] = from
    /\ pc' = [pc EXCEPT ![t] = to]

\* t goes on and starts thread or task u at phase first.
GotoAndStart(t, from, to, u, first) ==
    /\ pc[t] = from
    /\ pc' = [pc EXCEPT ![t] = to, ![u] = first]

Ready(S) == data' = [d \in Items |-> IF d \in S THEN "ready" ELSE data[d]]
Free(S) == data' = [d \in Items |-> IF d \in S THEN "freed" ELSE data[d]]

Init ==
    /\ pc = [t \in Threads |-> IF t = "main" THEN "begin" ELSE "new"]
    /\ data = [d \in Items |-> "absent"]
    /\ flag = [s \in Signals |-> FALSE]
    /\ count = Cardinality(Q3)
    /\ large \in BOOLEAN

-----------------------------------------------------------------------------
(* Signals.  WAIT_FOR locks the mutex of the signal, tests the boolean and *)
(* waits; the thread that raises the signal never takes that mutex, so the *)
(* test and the wait are separate steps.                                   *)

TestSignal(t) ==
    /\ pc[t] = "test"
    /\ pc' = [pc EXCEPT ![t] = IF flag[SignalOf(t)] THEN "passed" ELSE "drowsy"]
    /\ UNCHANGED <<data, flag, count, large>>

FallAsleep(t) ==
    /\ Goto(t, "drowsy", "asleep")
    /\ UNCHANGED <<data, flag, count, large>>

\* Mutant of Raise: the boolean is not set.
RaiseNothing(t, s) ==
    /\ Goto(t, "raise", "notify")
    /\ UNCHANGED <<data, flag, count, large>>

Raise(t, s) ==
    /\ Goto(t, "raise", "notify")
    /\ flag' = [flag EXCEPT ![s] = TRUE]
    /\ UNCHANGED <<data, count, large>>

NotifyWaiters(t, s) ==
    /\ pc[t] = "notify"
    /\ pc' = [u \in Threads |->
                IF u = t THEN "done"
                ELSE IF pc[u] = "asleep" /\ SignalOf(u) = s THEN "test" ELSE pc[u]]
    /\ UNCHANGED <<data, flag, count, large>>

-----------------------------------------------------------------------------
(* The pool.                                                               *)

\* Mutant of Start: first come, first served.
StartAny(t, first) ==
    /\ pc[t] = "queued"
    /\ Cardinality(Running) < NrWorkers
    /\ pc' = [pc EXCEPT ![t] = first]
    /\ UNCHANGED <<data, flag, count, large>>

Start(t, first) ==
    /\ pc[t] = "queued"
    /\ Cardinality(Running) < NrWorkers
    /\ \A u \in Queued : Prio[u] <= Prio[t]
    /\ pc' = [pc EXCEPT ![t] = first]
    /\ UNCHANGED <<data, flag, count, large>>

-----------------------------------------------------------------------------
(* The main thread.                                                        *)

MainBegin ==
    /\ GotoAndStart("main", "begin", "read", "comments", "queued")
    /\ UNCHANGED <<data, flag, count, large>>

\* read_data: allocate, birthdays, sorted friends; starts build_friends_hash.
ReadData ==
    /\ GotoAndStart("main", "read", "submit", "hasher", "hash")
    /\ Ready({"friends", "birthday"})
    /\ UNCHANGED <<flag, count, large>>

SubmitForum ==
    /\ GotoAndStart("main", "submit", "test", "forum", "queued")
    /\ UNCHANGED <<data, flag, count, large>>

SubmitQ2 ==
    /\ GotoAndStart("main", "passed", "start3", "q2", "queued")
    /\ UNCHANGED <<data, flag, count, large>>

\* start_3, one query at a time.
SubmitQ3(q) ==
    /\ pc[q] = "new"
    /\ GotoAndStart("main", "start3", "start3", q, "queued")
    /\ UNCHANGED <<data, flag, count, large>>

Shutdown ==
    /\ \A q \in Q3 : pc[q] # "new"
    /\ Goto("main", "start3", "join")
    /\ UNCHANGED <<data, flag, count, large>>

\* The destructor returns when nothing is queued or running.
Joined ==
    /\ Queued = {} /\ Running = {}
    /\ Goto("main", "join", "print")
    /\ UNCHANGED <<data, flag, count, large>>

-----------------------------------------------------------------------------
(* The detached threads of the readers.                                    *)

BuildFriendsHash ==
    /\ Goto("hasher", "hash", "raise")
    /\ Ready({"friends_hash"})
    /\ UNCHANGED <<flag, count, large>>

ReadPlaces ==
    /\ Goto("places", "places", "raise")
    /\ Ready({"places"})
    /\ UNCHANGED <<flag, count, large>>

-----------------------------------------------------------------------------
(* The comment task: read_comments_tim, then start_1 as its callback.      *)

ReadOwners ==
    /\ Goto("comments", "owners", "test")
    /\ UNCHANGED <<data, flag, count, large>>

BeginFilter ==
    /\ Goto("comments", "passed", "filter")
    /\ UNCHANGED <<data, flag, count, large>>

EndFilter ==
    /\ Goto("comments", "filter", "merge")
    /\ Free({"friends_hash"})
    /\ UNCHANGED <<flag, count, large>>

MergeCounts ==
    /\ Goto("comments", "merge", "query1")
    /\ Ready({"counts"})
    /\ UNCHANGED <<flag, count, large>>

AnswerQuery1 ==
    /\ Goto("comments", "query1", "done")
    /\ UNCHANGED <<data, flag, count, large>>

-----------------------------------------------------------------------------
(* The forum task: read_tags_forums_places, then start_4 as its callback.  *)

ReadTags ==
    /\ GotoAndStart("forum", "tags", "forum", "places", "places")
    /\ Ready({"tag_name", "tags", "person_in_tags"})
    /\ UNCHANGED <<flag, count, large>>

ReadForum ==
    /\ GotoAndStart("forum", "forum", "start4", "nameDestroyer", "test")
    /\ Ready({"q4_persons"})
    /\ UNCHANGED <<flag, count, large>>

SubmitQ4(q) ==
    /\ pc[q] = "new"
    /\ GotoAndStart("forum", "start4", "start4", q, "queued")
    /\ UNCHANGED <<data, flag, count, large>>

\* Mutant of EndForum: the callback does not submit every query.
EndForumEarly ==
    /\ Goto("forum", "start4", "done")
    /\ UNCHANGED <<data, flag, count, large>>

EndForum ==
    /\ \A q \in Q4 : pc[q] # "new"
    /\ Goto("forum", "start4", "done")
    /\ UNCHANGED <<data, flag, count, large>>

-----------------------------------------------------------------------------
(* The query tasks.                                                        *)

AnswerQuery2 ==
    /\ Goto("q2", "query2", "raise")
    /\ Free({"birthday", "person_in_tags"})
    /\ UNCHANGED <<flag, count, large>>

\* Query3Handler::add_query: the work, ...
AnswerQuery3(q) ==
    /\ Goto(q, "query3", "cont")
    /\ UNCHANGED <<data, flag, count, large>>

\* ... continuation->cont() when there are many persons, ...
CountDown(q) ==
    /\ Goto(q, "cont", "look")
    /\ count' = IF large THEN count - 1 ELSE count
    /\ UNCHANGED <<data, flag, large>>

\* Mutant of LookAtCount: the last but one query destroys the data.
LookAtCountEarly(q) ==
    /\ IF count <= 1
       THEN GotoAndStart(q, "look", "done", Destroyer[q], "clear")
       ELSE Goto(q, "look", "done")
    /\ UNCHANGED <<data, flag, count, large>>

\* ... and get_count(), without the mutex of the counter.
LookAtCount(q) ==
    /\ IF count = 0
       THEN GotoAndStart(q, "look", "done", Destroyer[q], "clear")
       ELSE Goto(q, "look", "done")
    /\ UNCHANGED <<data, flag, count, large>>

AnswerQuery4(q) ==
    /\ Goto(q, "query4", "done")
    /\ UNCHANGED <<data, flag, count, large>>

-----------------------------------------------------------------------------
(* The destroyers.                                                         *)

DestroyTagName ==
    /\ Goto("nameDestroyer", "passed", "done")
    /\ Free({"tag_name"})
    /\ UNCHANGED <<flag, count, large>>

DestroyPlaces(t) ==
    /\ Goto(t, "clear", "test")
    /\ Free({"places"})
    /\ UNCHANGED <<flag, count, large>>

DestroyTags(t) ==
    /\ Goto(t, "passed", "done")
    /\ Free({"tags"})
    /\ UNCHANGED <<flag, count, large>>

-----------------------------------------------------------------------------
MainStep ==
    \/ MainBegin \/ ReadData \/ SubmitForum \/ TestSignal("main") \/ FallAsleep("main")
    \/ SubmitQ2 \/ (\E q \in Q3 : SubmitQ3(q)) \/ Shutdown \/ Joined

HasherStep ==
    BuildFriendsHash \/ Raise("hasher", "friends_hash_built")
    \/ NotifyWaiters("hasher", "friends_hash_built")

PlacesStep ==
    ReadPlaces \/ Raise("places", "tag_read") \/ NotifyWaiters("places", "tag_read")

CommentsStep ==
    \/ Start("comments", "owners") \/ ReadOwners
    \/ TestSignal("comments") \/ FallAsleep("comments")
    \/ BeginFilter \/ EndFilter \/ MergeCounts \/ AnswerQuery1

ForumStep ==
    Start("forum", "tags") \/ ReadTags \/ ReadForum
    \/ (\E q \in Q4 : SubmitQ4(q)) \/ EndForum

Query2Step ==
    Start("q2", "query2") \/ AnswerQuery2
    \/ Raise("q2", "q2_finished") \/ NotifyWaiters("q2", "q2_finished")

Query3Step(q) == Start(q, "query3") \/ AnswerQuery3(q) \/ CountDown(q) \/ LookAtCount(q)

Query4Step(q) == Start(q, "query4") \/ AnswerQuery4(q)

NameDestroyerStep ==
    TestSignal("nameDestroyer") \/ FallAsleep("nameDestroyer") \/ DestroyTagName

DestroyerStep(t) ==
    DestroyPlaces(t) \/ TestSignal(t) \/ FallAsleep(t) \/ DestroyTags(t)

Next ==
    \/ MainStep \/ HasherStep \/ PlacesStep \/ CommentsStep \/ ForumStep
    \/ Query2Step \/ NameDestroyerStep
    \/ \E q \in Q3 : Query3Step(q) \/ DestroyerStep(Destroyer[q])
    \/ \E q \in Q4 : Query4Step(q)

Spec == Init /\ [][Next]_vars

\* Every thread the kernel can run gets to run, and every phase ends.
Fairness ==
    /\ WF_vars(MainStep) /\ WF_vars(HasherStep) /\ WF_vars(PlacesStep)
    /\ WF_vars(CommentsStep) /\ WF_vars(ForumStep) /\ WF_vars(Query2Step)
    /\ WF_vars(NameDestroyerStep)
    /\ \A q \in Q3 : WF_vars(Query3Step(q)) /\ WF_vars(DestroyerStep(Destroyer[q]))
    /\ \A q \in Q4 : WF_vars(Query4Step(q))

FairSpec == Spec /\ Fairness

-----------------------------------------------------------------------------
(* Properties.                                                             *)

\* No thread is ever in a phase that uses a datum which is not built yet or
\* is freed already: data.h:76-96 says when each is destroyed, and nothing
\* but the order of the tasks, the three signals and the counter of the
\* query-3 tasks enforces it.
SafeUse == \A t \in Threads : \A d \in Uses(t) : data[d] = "ready"

\* main prints only after every query of every kind has been answered, the
\* query-4 tasks that are submitted while the pool is being destroyed included.
AnswersComplete == pc["main"] = "print" => \A t \in Tasks : pc[t] = "done"

\* The program uses the pool as TaskPool specifies.
Status == [t \in Tasks |-> IF pc[t] \in Outside THEN pc[t] ELSE "running"]
Pool == INSTANCE TaskPool WITH status <- Status, joined <- (pc["main"] = "print")
PoolUse == Pool!Spec

\* main or the comment task sleeps on a signal whose thread has set the boolean,
\* has notified and is gone, so that nobody will notify again.
RaiserOf(s) == CASE s = "tag_read" -> "places"
                 [] s = "friends_hash_built" -> "hasher"
                 [] s = "q2_finished" -> "q2"
WakeupLost ==
    \E t \in {"main", "comments"} :
       /\ pc[t] = "asleep"
       /\ flag[SignalOf(t)]
       /\ pc[RaiserOf(SignalOf(t))] = "done"

\* The only thing that can keep the program from printing its answers, given
\* a pool that shuts down, is a notification that main or the comment task has
\* missed for good: no cycle of waits, no task that waits for a worker held by a
\* task that waits for it.  A destroyer that misses its own stops nothing.
PrintsUnlessWakeupLost == <>(pc["main"] = "print" \/ []WakeupLost)

\* read.cpp:547, "q3 and q2 will start here": once the places are read, the
\* tasks of query 2 and 3 start.
Q2Starts == (pc["places"] = "raise") ~> (pc["q2"] # "new")
=============================================================================

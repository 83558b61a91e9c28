---------------------------- MODULE Q4Scheduler ----------------------------
(***************************************************************************)
(* q4Scheduler.h: the queries 4 on threads of their own, as many as there  *)
(* are slots and memory for.  Its use in job_wrapper.h is commented out.   *)
(*                                                                         *)
(* work_mt protects jobs; n_free, mem_free and mem_using are changed by    *)
(* atomic additions, and mem_free by a plain store too.  Only who holds    *)
(* work_mt takes from n_free or reads it.                                  *)
(***************************************************************************)
EXTENDS Integers, FiniteSets

CONSTANTS Queries,   \* q4_set: 0, 1, ..
          NThread,   \* n_thread
          Readings,  \* what get_free_mem may return
          Main,      \* the thread that makes the scheduler
          Nobody     \* no thread

ASSUME Q4Assumption ==
    /\ Queries \subseteq Nat /\ IsFiniteSet(Queries)
    /\ Main \notin Queries /\ Nobody \notin Queries \cup {Main}
    /\ NThread \in Nat \ {0}
    /\ Readings \subseteq Nat

VARIABLES tag,       \* the tag of each query
          mem,       \* its size, that depends on the tag only
          jobs,
          n_free, mem_free, mem_using,
          holder,    \* who has locked work_mt
          rest,      \* the jobs from itr on
          pc,        \* where main and the thread of each job are
          reg        \* the value that refresh_mem will store

given == <<tag, mem>>
locked == <<jobs, holder, rest>>
q4Vars == <<given, locked, n_free, mem_free, mem_using, pc, reg>>

\* Q4Job::operator <, for which queries with one tag are the same job.
Larger(p, q) == mem[p] > mem[q] \/ (mem[p] = mem[q] /\ tag[p] > tag[q])

\* What the queries are: their sizes are a hundredth of a number of persons.
Q4Given == tag \in [Queries -> Nat] /\ mem \in [Queries -> Nat]

\* The constructor, and main's call of work.  Of equal jobs the set has the first.
Q4Init ==
    /\ jobs = {q \in Queries : \A p \in Queries : p < q => Larger(p, q) \/ Larger(q, p)}
    /\ n_free = NThread
    /\ mem_free \in Readings
    /\ mem_using = 0
    /\ holder = Nobody
    /\ rest = {}
    /\ pc = [q \in Queries \cup {Main} |-> IF q = Main THEN "work" ELSE "no thread"]
    /\ reg = [q \in Queries |-> 0]

Steps(q, here, there) == q # Nobody /\ pc[q] = here /\ pc' = [pc EXCEPT ![q] = there]

\* work: without a slot, no job is looked at.
Lock(q) ==
    /\ Steps(q, "work", "scan")
    /\ holder = Nobody /\ holder' = q
    /\ rest' = IF n_free = 0 THEN {} ELSE jobs
    /\ UNCHANGED <<given, jobs, n_free, mem_free, mem_using, reg>>

\* *itr.
Here == {q \in rest : \A p \in rest \ {q} : Larger(q, p)}

PassJob ==
    /\ Steps(holder, "scan", "scan")
    /\ \E q \in Here : mem[q] >= mem_free /\ rest' = rest \ {q}
    /\ UNCHANGED <<given, jobs, holder, n_free, mem_free, mem_using, reg>>

\* A job that fits when it is tested; mem_free may change before it is taken from.
TakeThread ==
    /\ Steps(holder, "scan", "fits")
    /\ \E q \in Here : mem[q] < mem_free
    /\ n_free' = n_free - 1
    /\ UNCHANGED <<given, locked, mem_free, mem_using, reg>>

TakeMemory ==
    /\ Steps(holder, "fits", "start")
    /\ \E q \in Here : mem_free' = mem_free - mem[q]
    /\ UNCHANGED <<given, locked, n_free, mem_using, reg>>

StartJob ==
    /\ holder # Nobody /\ pc[holder] = "start"
    /\ \E q \in Here :
          /\ mem_using' = mem_using + mem[q]
          /\ pc' = [pc EXCEPT ![q] = "answer", ![holder] = "next"]
          /\ jobs' = jobs \ {q}
          /\ rest' = rest \ {q}
    /\ UNCHANGED <<given, n_free, mem_free, holder, reg>>

\* Mutant of NextJob: the loop goes on without a slot.
NextJobAnyway ==
    /\ Steps(holder, "next", "scan")
    /\ UNCHANGED <<given, locked, n_free, mem_free, mem_using, reg>>

NextJob ==
    /\ Steps(holder, "next", "scan")
    /\ rest' = IF n_free = 0 THEN {} ELSE rest
    /\ UNCHANGED <<given, jobs, holder, n_free, mem_free, mem_using, reg>>

Unlock ==
    /\ Steps(holder, "scan", "done")
    /\ rest = {}
    /\ holder' = Nobody
    /\ UNCHANGED <<given, jobs, rest, n_free, mem_free, mem_using, reg>>

\* do_job: add_query, three additions, refresh_mem in two steps, and work.
DoJob(q) ==
    \/ /\ Steps(q, "answer", "answered")
       /\ n_free' = n_free + 1
       /\ UNCHANGED <<mem_free, mem_using, reg>>
    \/ /\ Steps(q, "answered", "using")
       /\ mem_free' = mem_free + mem[q]
       /\ UNCHANGED <<n_free, mem_using, reg>>
    \/ /\ Steps(q, "using", "refresh")
       /\ mem_using' = mem_using - mem[q]
       /\ UNCHANGED <<n_free, mem_free, reg>>
    \/ /\ Steps(q, "refresh", "store")
       /\ \E free \in Readings : reg' = [reg EXCEPT ![q] = free - mem_using]
       /\ UNCHANGED <<n_free, mem_free, mem_using>>
    \/ /\ Steps(q, "store", "work")
       /\ mem_free' = reg[q]
       /\ UNCHANGED <<n_free, mem_using, reg>>

Q4Next ==
    \/ \E q \in Queries \cup {Main} : Lock(q)
    \/ PassJob \/ TakeThread \/ TakeMemory \/ StartJob \/ NextJob \/ Unlock
    \/ \E q \in Queries : DoJob(q) /\ UNCHANGED <<given, locked>>

Q4Spec == Q4Given /\ Q4Init /\ [][Q4Next]_q4Vars

-----------------------------------------------------------------------------
\* There are never more queries at work than slots; and when all threads have
\* ended, slots and memory are all given back and no job is left that would
\* fit: whoever stores mem_free last looks at the jobs once more.
JobsServed ==
    /\ Cardinality({q \in Queries : pc[q] = "answer"}) <= NThread
    /\ (\A q \in DOMAIN pc : pc[q] \in {"no thread", "done"}) =>
          /\ n_free = NThread /\ mem_using = 0
          /\ \A q \in jobs : mem[q] >= mem_free
          /\ \A q \in Queries : \E p \in jobs \cup {p \in Queries : pc[p] = "done"} : tag[p] = tag[q]
=============================================================================

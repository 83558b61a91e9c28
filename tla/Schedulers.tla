----------------------------- MODULE Schedulers -----------------------------
(***************************************************************************)
(* The memory schedulers, one of them in each behaviour.                   *)
(***************************************************************************)
EXTENDS MemLimitScheduler, SigmodAllocator, Q4Scheduler

VARIABLES scheduler   \* the one that this behaviour is of

vars == <<scheduler, clientVars, blocked, threads, waiting, freeSlots,
          freeMem, acquired, scan, aborted, raced, failed, q4Vars>>

Init ==
    /\ scheduler \in {"limit", "allocator", "q4"}
    /\ LimitInit
    /\ AllocatorInit
    /\ Q4Given
    /\ Q4Init

Next ==
    /\ UNCHANGED scheduler
    /\ \/ scheduler = "limit" /\ LimitNext /\ UNCHANGED <<failed, q4Vars>>
       \/ scheduler = "allocator" /\ AllocatorNext
          /\ UNCHANGED <<freeMem, acquired, scan, aborted, raced, q4Vars>>
       \/ scheduler = "q4" /\ Q4Next
          /\ UNCHANGED <<clientVars, blocked, threads, waiting, freeSlots,
                         freeMem, acquired, scan, aborted, raced, failed>>

\* The kernel runs every thread that can run.
Spec == Init /\ [][Next]_vars /\ WF_vars(Next)

\* What the memory schedulers keep and promise, each of its own clients.
LimitMemoryKept == scheduler = "limit" => MemoryKept
LimitEveryoneServed == scheduler = "limit" => EveryoneServed
AllocatorReserveKept == scheduler = "allocator" => ReserveKept
AllocatorSlotsAccounted == scheduler = "allocator" => SlotsAccounted
AllocatorEveryoneLeaves == scheduler = "allocator" => EveryoneLeaves
=============================================================================

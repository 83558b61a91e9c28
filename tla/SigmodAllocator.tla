--------------------------- MODULE SigmodAllocator ---------------------------
(***************************************************************************)
(* lib/allocator.hh, with clients like thread_func of                      *)
(* lib/sigmod_allocator_test.cc: enter, depth times alloc, as often        *)
(* dealloc, exit.  The free memory that the kernel reports is Memory less  *)
(* what the clients have.                                                  *)
(*                                                                         *)
(* schedule holds alloc_mutex and reads the free memory once; a slot given *)
(* back meanwhile could as well be given back before.  It is one step.     *)
(***************************************************************************)
EXTENDS Acquisitions

CONSTANTS EnterMemory,   \* ENTER_REQUIRE_MEMORY
          ReserveMemory  \* reserve_mem

ASSUME AllocatorAssumption == EnterMemory \in Nat \ {0} /\ ReserveMemory \in Nat

VARIABLES failed   \* the clients whose alloc has failed and whose slot is not back

allocatorVars == <<clientVars, blocked, threads, waiting, freeSlots, failed>>

AllocatorInit == AcquisitionsInit /\ failed = {}

\* The clients call one thing after the other.
LastAlloc(c) == depth[c] + 1
LastCall(c) == 2 * depth[c] + 2
Runs(c) == c \notin blocked \cup failed

\* The blocks that c has: those it got less those it gave back.
Blocks(c) ==
    LET got == (IF calls[c] > LastAlloc(c) THEN LastAlloc(c) ELSE calls[c]) - 1
        back == IF calls[c] = LastCall(c) THEN depth[c] ELSE calls[c] - LastAlloc(c)
    IN IF calls[c] = 0 THEN 0 ELSE IF back < 0 THEN got ELSE got - back

Allocated == Cardinality(Units([c \in Clients |-> Blocks(c)]))

get_fake_free_mem == IF Memory < Allocated THEN 0 ELSE Memory - Allocated

Called(c) == calls' = [calls EXCEPT ![c] = @ + 1]

Enter(c) ==
    /\ Runs(c)
    /\ calls[c] = 0
    /\ Called(c)
    /\ blocked' = blocked \cup {c}
    /\ threads' = threads \cup {Thread(c, "insert")}
    /\ UNCHANGED <<nr_threads, size, depth, waiting, freeSlots, failed>>

Allocating(c) == Runs(c) /\ calls[c] \in 1 .. depth[c]

\* Mutant of HasMemory: the reserve is forgotten.
HasAnyMemory(c) == size[c] <= get_fake_free_mem

HasMemory(c) == size[c] + ReserveMemory <= get_fake_free_mem

AllocSucceeds(c) ==
    /\ Allocating(c)
    /\ HasMemory(c)
    /\ Called(c)
    /\ UNCHANGED <<nr_threads, size, depth, blocked, threads, waiting, freeSlots, failed>>

\* There is too little memory, or _mm_malloc returns none though there is.
AllocFails(c) ==
    /\ Allocating(c)
    /\ blocked' = blocked \cup {c}
    /\ threads' = threads \cup {Thread(c, "insert")}
    /\ failed' = failed \cup {c}
    /\ UNCHANGED <<clientVars, waiting, freeSlots>>

\* The client gives its slot back and waits; then it tries again.
GiveSlotBack(c) ==
    /\ c \in failed
    /\ freeSlots' = freeSlots + 1
    /\ failed' = failed \ {c}
    /\ UNCHANGED <<clientVars, blocked, threads, waiting>>

Dealloc(c) ==
    /\ Runs(c)
    /\ calls[c] \in LastAlloc(c) .. LastCall(c) - 2
    /\ Called(c)
    /\ UNCHANGED <<nr_threads, size, depth, blocked, threads, waiting, freeSlots, failed>>

\* Mutant of Exit: nothing is scheduled.
ExitSilently(c) ==
    /\ Runs(c)
    /\ calls[c] = LastCall(c) - 1
    /\ Called(c)
    /\ freeSlots' = freeSlots + 1
    /\ UNCHANGED <<nr_threads, size, depth, blocked, threads, waiting, failed>>

Exit(c) ==
    /\ Runs(c)
    /\ calls[c] = LastCall(c) - 1
    /\ Called(c)
    /\ freeSlots' = freeSlots + 1
    /\ threads' = threads \cup {Thread(c, "schedule")}
    /\ UNCHANGED <<nr_threads, size, depth, blocked, waiting, failed>>

-----------------------------------------------------------------------------
(* The detached threads.                                                   *)

is_enter(a) == a.call = 1

\* An acquisition of enter asks for EnterMemory, and is let in with more.
Required(t) == IF t.call = 1 THEN EnterMemory ELSE size[t.id]

wait_mem(t) ==
    /\ t.at = "insert"
    /\ waiting' = Inserted([Acquisition(t) EXCEPT !.mem_size = Required(t)])
    /\ threads' = IF t.call = 1 THEN Moved(t, "schedule") ELSE Gone(t)
    /\ UNCHANGED <<clientVars, blocked, freeSlots, failed>>

Fits(a, free) == IF is_enter(a) THEN free > EnterMemory ELSE free >= a.mem_size + ReserveMemory

\* The loop of schedule goes through the acquisitions in order.  What it lets on
\* before it comes to a, and the memory that is for those that are not to enter:
Earlier(granted, a) == {b \in granted : Before(b, a)}
MemoryFor(S) == Cardinality(UNION {{b} \X (1 .. b.mem_size) : b \in {c \in S : ~ is_enter(c)}})

\* Mutant of LetsOn: the loop goes on when there is no slot left.
LetsOnFull(granted, a) == Fits(a, get_fake_free_mem - MemoryFor(Earlier(granted, a)))

LetsOn(granted, a) ==
    /\ Cardinality(Earlier(granted, a)) < freeSlots
    /\ Fits(a, get_fake_free_mem - MemoryFor(Earlier(granted, a)))

\* The one set that it lets on.
Grants == {granted \in SUBSET waiting : \A a \in waiting : a \in granted <=> LetsOn(granted, a)}

schedule(t) ==
    /\ t.at = "schedule"
    /\ \E granted \in Grants :
          /\ blocked' = blocked \ {a.id : a \in granted}
          /\ waiting' = waiting \ granted
          /\ freeSlots' = freeSlots - Cardinality(granted)
    /\ threads' = Gone(t)
    /\ UNCHANGED <<clientVars, failed>>

AllocatorNext ==
    \/ \E c \in Clients :
          \/ Enter(c) \/ AllocSucceeds(c) \/ AllocFails(c) \/ GiveSlotBack(c)
          \/ Dealloc(c) \/ Exit(c)
    \/ \E t \in threads : wait_mem(t) \/ schedule(t)

AllocatorSpec == AllocatorInit /\ [][AllocatorNext]_allocatorVars

-----------------------------------------------------------------------------
(* Properties.                                                             *)

\* Two clients that both saw memory for one never both take it, those that
\* waited and were told there is some included.
ReserveKept == Allocated = 0 \/ Allocated + ReserveMemory <= Memory

\* The clients inside that do not wait, those between a failed alloc and its wait
\* counted twice if they were let on before it, have each a slot of the
\* nr_threads; and no slot is given that is not there, so that no more clients
\* go on than there are slots.
Inside == {c \in Clients : calls[c] > 0 /\ calls[c] < LastCall(c) /\ c \notin blocked}
SlotsAccounted ==
    /\ freeSlots >= 0
    /\ freeSlots + Cardinality(Inside) + Cardinality(failed) = nr_threads

\* Everyone gets through, unless someone waits for memory for ever: enter and
\* exit schedule, a failed alloc and dealloc do not.
EveryoneLeaves ==
    <>((\A c \in Clients : calls[c] = LastCall(c))
       \/ [](\E a \in waiting : ~ is_enter(a)))
=============================================================================

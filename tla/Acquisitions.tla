---------------------------- MODULE Acquisitions ----------------------------
(***************************************************************************)
(* What lib/mem_limit_scheduler.hh and lib/allocator.hh have in common:    *)
(* clients that wait for memory, each on a mutex of its own that the       *)
(* scheduler unlocks, and a set of acquisitions, the largest first.  A     *)
(* call to a scheduler starts a detached thread that does the work.        *)
(***************************************************************************)
EXTENDS Integers, FiniteSets

CONSTANTS Clients,   \* the clients, named by their ids
          Slots,     \* the values of nr_threads
          Memory,    \* the memory there is
          MemSizes,  \* the sizes that may be asked for
          Depths     \* how many acquisitions a client nests

ASSUME AcquisitionsAssumption ==
    /\ Clients \subseteq Nat
    /\ Slots \subseteq Nat \ {0}
    /\ Memory \in Nat
    /\ MemSizes \subseteq Nat \ {0}
    /\ Depths \subseteq Nat

VARIABLES nr_threads,  \* the slots there are
          size,        \* mem_size: what a client asks for each time
          depth,       \* how many acquisitions it nests
          calls,       \* the calls it has made
          blocked,     \* the clients whose mutex is locked
          threads,     \* the detached threads: whose call, which, and where it is
          waiting,     \* acquisitions_bigger_size_first
          freeSlots    \* nr_free_slots

clientVars == <<nr_threads, size, depth, calls>>

Thread(c, at) == [id |-> c, call |-> calls[c] + 1, at |-> at, reg |-> 0]
Acquisition(t) == [id |-> t.id, mem_size |-> size[t.id], call |-> t.call]

\* AcquisitionBiggerSizeFirst.
Before(a, b) == a.mem_size > b.mem_size \/ (a.mem_size = b.mem_size /\ a.id < b.id)

\* Mutant of SamePlace: the ids are not looked at.
SameSize(a, b) == a.mem_size = b.mem_size

\* For a set ordered so, one of the two is as good as the other.
SamePlace(a, b) == ~ Before(a, b) /\ ~ Before(b, a)

Inserted(a) == IF \E b \in waiting : SamePlace(a, b) THEN waiting ELSE waiting \cup {a}

\* The one at the beginning of S.
First(S) == {a \in S : \A b \in S \ {a} : Before(a, b)}

Moved(t, at) == (threads \ {t}) \cup {[t EXCEPT !.at = at]}
Gone(t) == threads \ {t}

\* Memory by units: the u-th of the b-th block of a client that has blocks[c].
Units(blocks) == UNION {({c} \X (1 .. blocks[c])) \X (1 .. size[c]) : c \in Clients}

AcquisitionsInit ==
    /\ nr_threads \in Slots
    /\ size \in [Clients -> MemSizes]
    /\ depth \in [Clients -> Depths]
    /\ calls = [c \in Clients |-> 0]
    /\ blocked = {}
    /\ threads = {}
    /\ waiting = {}
    /\ freeSlots = nr_threads

\* A client that waits has its acquisition in the set, or a thread that will
\* insert it, and one of them only: else nothing will ever unlock its mutex.
Asking(c) == {t \in threads : t.id = c /\ t.at = "insert"}
Asked(c) == {a \in waiting : a.id = c}
NobodyForgotten ==
    \A c \in blocked : Cardinality(Asking(c)) + Cardinality(Asked(c)) = 1
=============================================================================

-------------------------- MODULE MemLimitScheduler --------------------------
(***************************************************************************)
(* lib/mem_limit_scheduler.hh, with clients like the two thread functions  *)
(* of lib/mem_limit_scheduler_test.cc: depth acquisitions, one inside the  *)
(* other, then as many releases.                                           *)
(*                                                                         *)
(* nr_free_slots is counted up under one mutex and down under another, so  *)
(* each ++ and -- is a load and a store.  nr_active is printed only.       *)
(***************************************************************************)
EXTENDS Acquisitions

VARIABLES freeMem,    \* free_mem
          acquired,   \* acquired_mem_by_id, 0 for an id that it does not have
          scan,       \* the acquisitions that the loop of schedule has not come to
          aborted,    \* an assertion has failed
          raced       \* history: an update of nr_free_slots was lost

limitVars == <<clientVars, blocked, threads, waiting, freeSlots,
               freeMem, acquired, scan, aborted, raced>>

LimitInit ==
    /\ AcquisitionsInit
    /\ freeMem = Memory
    /\ acquired = [c \in Clients |-> 0]
    /\ scan = {}
    /\ aborted = FALSE
    /\ raced = FALSE

At(t, at) == ~ aborted /\ t \in threads /\ t.at = at

-----------------------------------------------------------------------------
(* The clients.                                                            *)

Goes(c) == ~ aborted /\ c \notin blocked

\* The client locks its mutex, starts add_acquisition, and locks it again.
Acquire(c) ==
    /\ Goes(c)
    /\ calls[c] < depth[c]
    /\ threads' = threads \cup {Thread(c, "insert")}
    /\ calls' = [calls EXCEPT ![c] = @ + 1]
    /\ blocked' = blocked \cup {c}
    /\ UNCHANGED <<nr_threads, size, depth, waiting, freeSlots, freeMem, acquired, scan, aborted, raced>>

Release(c) ==
    /\ Goes(c)
    /\ calls[c] \in depth[c] .. 2 * depth[c] - 1
    /\ threads' = threads \cup {Thread(c, "return")}
    /\ calls' = [calls EXCEPT ![c] = @ + 1]
    /\ UNCHANGED <<nr_threads, size, depth, blocked, waiting, freeSlots, freeMem, acquired, scan, aborted, raced>>

-----------------------------------------------------------------------------
(* The mutexes: acquisitions_bigger_size_first_mutex during schedule, and  *)
(* acquired_mem_by_id_mutex from the load of nr_free_slots to its store.   *)

Scheduling == \E t \in threads : t.at \in {"scan", "take"}
Counting == \E t \in threads : t.at = "give"

Loaded(t, at) == (threads \ {t}) \cup {[t EXCEPT !.at = at, !.reg = freeSlots]}

-----------------------------------------------------------------------------
(* add_acquisition.                                                        *)

Insert(t) ==
    /\ At(t, "insert")
    /\ ~ Scheduling
    /\ waiting' = Inserted(Acquisition(t))
    /\ threads' = Moved(t, "record")
    /\ UNCHANGED <<clientVars, blocked, freeSlots, freeMem, acquired, scan, aborted, raced>>

\* The first acquisition is recorded by its size, a nested one by 1; a nested
\* one gives a slot back, for its client waits.
Record(t) ==
    /\ At(t, "record")
    /\ ~ Counting
    /\ IF acquired[t.id] = 0
       THEN /\ acquired' = [acquired EXCEPT ![t.id] = size[t.id]]
            /\ threads' = Moved(t, "schedule")
       ELSE /\ acquired' = [acquired EXCEPT ![t.id] = @ + 1]
            /\ threads' = Loaded(t, "give")
    /\ UNCHANGED <<clientVars, blocked, waiting, freeSlots, freeMem, scan, aborted, raced>>

\* Mutant of GiveSlot: a release does not schedule.
GiveSlotSilently(t) ==
    /\ At(t, "give")
    /\ freeSlots' = t.reg + 1
    /\ raced' = (raced \/ t.reg # freeSlots)
    /\ threads' = IF t.call > depth[t.id] THEN Gone(t) ELSE Moved(t, "schedule")
    /\ UNCHANGED <<clientVars, blocked, waiting, freeMem, acquired, scan, aborted>>

\* nr_free_slots ++, here and in sys_release.
GiveSlot(t) ==
    /\ At(t, "give")
    /\ freeSlots' = t.reg + 1
    /\ raced' = (raced \/ t.reg # freeSlots)
    /\ threads' = Moved(t, "schedule")
    /\ UNCHANGED <<clientVars, blocked, waiting, freeMem, acquired, scan, aborted>>

-----------------------------------------------------------------------------
(* sys_release.                                                            *)

ReturnMemory(t) ==
    /\ At(t, "return")
    /\ freeMem' = freeMem + size[t.id]
    /\ threads' = Moved(t, "unrecord")
    /\ UNCHANGED <<clientVars, blocked, waiting, freeSlots, acquired, scan, aborted, raced>>

\* assert(idit != acquired_mem_by_id.end()).
ReleaseUnknown(t) ==
    /\ At(t, "unrecord")
    /\ ~ Counting
    /\ acquired[t.id] = 0
    /\ aborted' = TRUE
    /\ UNCHANGED <<clientVars, blocked, threads, waiting, freeSlots, freeMem, acquired, scan, raced>>

\* The slot comes back when the count is 0; another release schedules nothing.
Unrecord(t) ==
    /\ At(t, "unrecord")
    /\ ~ Counting
    /\ acquired[t.id] > 0
    /\ acquired' = [acquired EXCEPT ![t.id] = @ - 1]
    /\ threads' = IF acquired[t.id] = 1 THEN Loaded(t, "give") ELSE Gone(t)
    /\ UNCHANGED <<clientVars, blocked, waiting, freeSlots, freeMem, scan, aborted, raced>>

-----------------------------------------------------------------------------
(* schedule.                                                               *)

BeginScan(t) ==
    /\ At(t, "schedule")
    /\ ~ Scheduling
    /\ scan' = waiting
    /\ threads' = Moved(t, "scan")
    /\ UNCHANGED <<clientVars, blocked, waiting, freeSlots, freeMem, acquired, aborted, raced>>

Looks(t) == At(t, "scan") /\ scan # {} /\ freeSlots # 0

\* Mutant of Grant: free_mem is not looked at.
GrantUnseen(t) ==
    /\ Looks(t)
    /\ \E a \in First(scan) :
          /\ freeMem' = freeMem - a.mem_size
          /\ blocked' = blocked \ {a.id}
          /\ waiting' = waiting \ {a}
          /\ scan' = scan \ {a}
    /\ threads' = Loaded(t, "take")
    /\ UNCHANGED <<clientVars, freeSlots, acquired, aborted, raced>>

\* The client's mutex is unlocked while the acquisition is in the set, but
\* nobody else looks at the set before it is erased.
Grant(t) ==
    /\ Looks(t)
    /\ \E a \in First(scan) :
          /\ freeMem >= a.mem_size
          /\ freeMem' = freeMem - a.mem_size
          /\ blocked' = blocked \ {a.id}
          /\ waiting' = waiting \ {a}
          /\ scan' = scan \ {a}
    /\ threads' = Loaded(t, "take")
    /\ UNCHANGED <<clientVars, freeSlots, acquired, aborted, raced>>

PassOver(t) ==
    /\ Looks(t)
    /\ \E a \in First(scan) : freeMem < a.mem_size /\ scan' = scan \ {a}
    /\ UNCHANGED <<clientVars, blocked, threads, waiting, freeSlots, freeMem, acquired, aborted, raced>>

\* nr_free_slots --.
TakeSlot(t) ==
    /\ At(t, "take")
    /\ freeSlots' = t.reg - 1
    /\ raced' = (raced \/ t.reg # freeSlots)
    /\ threads' = Moved(t, "scan")
    /\ UNCHANGED <<clientVars, blocked, waiting, freeMem, acquired, scan, aborted>>

EndScan(t) ==
    /\ At(t, "scan")
    /\ scan = {} \/ freeSlots = 0
    /\ scan' = {}
    /\ threads' = Gone(t)
    /\ UNCHANGED <<clientVars, blocked, waiting, freeSlots, freeMem, acquired, aborted, raced>>

LimitNext ==
    \/ \E c \in Clients : Acquire(c) \/ Release(c)
    \/ \E t \in threads :
          \/ Insert(t) \/ Record(t) \/ GiveSlot(t)
          \/ ReturnMemory(t) \/ ReleaseUnknown(t) \/ Unrecord(t)
          \/ BeginScan(t) \/ Grant(t) \/ PassOver(t) \/ TakeSlot(t) \/ EndScan(t)

LimitSpec == LimitInit /\ [][LimitNext]_limitVars

-----------------------------------------------------------------------------
(* Properties.                                                             *)

Returned(c) == calls[c] = 2 * depth[c] /\ c \notin blocked

\* The acquisitions of c that were granted and whose memory is not back yet.
Granted(c) ==
    LET asked == IF calls[c] < depth[c] THEN calls[c] ELSE depth[c]
        released == calls[c] - asked
        onTheWay == {t \in threads : t.id = c /\ t.at = "return"}
    IN asked - released + Cardinality(onTheWay) - (IF c \in blocked THEN 1 ELSE 0)

\* free_mem is what there is less what the clients hold, whatever is under way,
\* and is never less than nothing: memory is granted only while there is some,
\* so that the clients together never hold more than mem_size_max.
MemoryKept ==
    /\ \A c \in Clients : Granted(c) >= 0
    /\ freeMem >= 0
    /\ freeMem = Memory - Cardinality(Units([c \in Clients |-> Granted(c)]))

\* All memory is held, and whoever has not returned waits for more.
OutOfMemory == freeMem = 0 /\ \A c \in Clients : Returned(c) \/ c \in blocked

\* With sizes of 1, which acquired_mem_by_id counts right, every client is served
\* and returns, though a nested release frees memory and schedules nobody.
\* Three things alone can prevent it: a lost update of nr_free_slots, the
\* assertion in sys_release, and clients that hold all the memory and wait for
\* each other's for ever, which nested acquisitions can come to.
EveryoneServed ==
    (\A c \in Clients : size[c] = 1) =>
        <>(aborted \/ raced \/ (\A c \in Clients : Returned(c)) \/ []OutOfMemory)
=============================================================================

-------------------------- MODULE SchedulerProofs --------------------------
(***************************************************************************)
(* Proofs about the schedulers of memory and of query 4's jobs, whatever   *)
(* the clients, the jobs, their sizes and the slots:                       *)
(* lib/mem_limit_scheduler.hh, q4Scheduler.h, lib/allocator.hh, and in the *)
(* end Schedulers, that is one of the three.                               *)
(***************************************************************************)
EXTENDS Schedulers, Counting, TLAPS

-----------------------------------------------------------------------------
(* MemLimitScheduler: who waits is not forgotten.                          *)

\* Where a detached thread is.
Phases == {"insert", "record", "give", "return", "unrecord", "schedule", "scan", "take"}
ThreadRecords == [id : Clients, call : Nat, at : Phases, reg : Int]

\* What the variables are, as far as the invariant depends on it.
LimitTypes ==
    /\ size \in [Clients -> Nat]
    /\ depth \in [Clients -> Nat]
    /\ calls \in [Clients -> Nat]
    /\ blocked \subseteq Clients
    /\ threads \subseteq ThreadRecords
    /\ waiting \subseteq [id : Clients, mem_size : Nat, call : Nat]
    /\ freeSlots \in Int

\* The threads that will insert an acquisition.
Asks == {t \in threads : t.at = "insert"}

\* A client that waits has one thread or one acquisition that will let it go on,
\* and who does not wait has none: else a second one could take the place of the
\* first in a set that looks at client and size only.
OneEach ==
    /\ \A t \in Asks : t.id \in blocked
    /\ \A a \in waiting : a.id \in blocked
    /\ \A t, u \in Asks : t.id = u.id => t = u
    /\ \A a, b \in waiting : a.id = b.id => a = b
    /\ \A t \in Asks, a \in waiting : t.id # a.id
    /\ \A c \in blocked : (\E t \in Asks : t.id = c) \/ (\E a \in waiting : a.id = c)

\* schedule looks at acquisitions that are in the set.
ScanWaits == scan \subseteq waiting

LimitInv == LimitTypes /\ OneEach /\ ScanWaits

-----------------------------------------------------------------------------
\* Sizes and ids are numbers, so that the order is one.
LEMMA ClientsAreNat == Clients \subseteq Nat /\ MemSizes \subseteq Nat /\ Depths \subseteq Nat /\ Slots \subseteq Nat
  BY AcquisitionsAssumption

\* Nobody waits in the beginning.
LEMMA LimitInvInit == LimitInit => LimitInv
  <1> SUFFICES ASSUME LimitInit PROVE LimitInv
    OBVIOUS
  <1> USE DEF LimitInit, AcquisitionsInit
  <1>1. LimitTypes
    <2>1. size \in [Clients -> Nat] /\ depth \in [Clients -> Nat]
      BY ClientsAreNat
    <2>2. calls \in [Clients -> Nat]
      OBVIOUS
    <2>3. freeSlots \in Int
      BY ClientsAreNat
    <2>4. QED
      BY <2>1, <2>2, <2>3 DEF LimitTypes
  <1>2. OneEach /\ ScanWaits
    BY DEF OneEach, ScanWaits, Asks
  <1>3. QED
    BY <1>1, <1>2 DEF LimitInv

\* A thread that goes on from elsewhere than "insert", or ends, to elsewhere,
\* leaves the threads that ask as they are.
LEMMA MovedAsks ==
    ASSUME LimitTypes, NEW t \in threads, t.at # "insert", NEW at \in Phases, at # "insert",
           threads' \in {Moved(t, at), Loaded(t, at), Gone(t)}
    PROVE  /\ Asks' = Asks
           /\ threads' \subseteq ThreadRecords
  <1>1. t \in ThreadRecords /\ freeSlots \in Int
    BY DEF LimitTypes
  <1>2. /\ [t EXCEPT !.at = at] \in ThreadRecords
        /\ [t EXCEPT !.at = at].at = at
        /\ [t EXCEPT !.at = at, !.reg = freeSlots] \in ThreadRecords
        /\ [t EXCEPT !.at = at, !.reg = freeSlots].at = at
    BY <1>1 DEF ThreadRecords
  <1>3. QED
    BY <1>2 DEF Moved, Loaded, Gone, Asks, LimitTypes

\* A step that changes neither those that ask, nor those that wait.
LEMMA QuietStep ==
    ASSUME LimitInv, Asks' = Asks, UNCHANGED <<size, depth, blocked, waiting>>,
           calls' \in [Clients -> Nat], freeSlots' \in Int, scan' \subseteq scan \cup waiting,
           threads' \subseteq ThreadRecords
    PROVE  LimitInv'
  BY DEF LimitInv, LimitTypes, OneEach, ScanWaits

\* A client asks when nothing of it is under way.
LEMMA AcquireStep ==
    ASSUME LimitInv, NEW c \in Clients, Acquire(c)
    PROVE  LimitInv'
  <1> DEFINE new == Thread(c, "insert")
  <1>1. new \in ThreadRecords /\ new.id = c /\ new.at = "insert"
    BY DEF Thread, LimitInv, LimitTypes, ThreadRecords, Phases
  <1>2. threads' = threads \cup {new} /\ blocked' = blocked \cup {c} /\ c \notin blocked
    BY DEF Acquire, Goes
  <1>3. Asks' = Asks \cup {new}
    BY <1>1, <1>2 DEF Asks
  <1>4. LimitTypes'
    BY <1>1, <1>2 DEF Acquire, LimitInv, LimitTypes
  <1>5. OneEach'
    BY <1>1, <1>2, <1>3 DEF Acquire, LimitInv, OneEach
  <1>6. QED
    BY <1>4, <1>5 DEF Acquire, LimitInv, ScanWaits

\* The acquisition takes the place of its thread: no other of this client is in
\* the set, so that it is inserted.
LEMMA InsertStep ==
    ASSUME LimitInv, NEW t \in threads, Insert(t)
    PROVE  LimitInv'
  <1> DEFINE a == Acquisition(t)
             new == [t EXCEPT !.at = "record"]
  <1>1. /\ t \in ThreadRecords
        /\ t.at = "insert" /\ t \in Asks
        /\ waiting' = Inserted(a) /\ threads' = (threads \ {t}) \cup {new}
        /\ UNCHANGED <<size, depth, calls, blocked, freeSlots, scan>>
    BY DEF Insert, At, Moved, Asks, LimitInv, LimitTypes, clientVars
  <1>2. new \in ThreadRecords /\ new.at = "record"
    BY <1>1 DEF ThreadRecords, Phases
  <1>3. a \in [id : Clients, mem_size : Nat, call : Nat] /\ a.id = t.id
    BY <1>1 DEF Acquisition, LimitInv, LimitTypes, ThreadRecords
  <1>4. \A b \in waiting : ~ SamePlace(a, b)
    <2>1. SUFFICES ASSUME NEW b \in waiting PROVE ~ SamePlace(a, b)
      OBVIOUS
    <2>2. b.id # a.id
      BY <1>1, <1>3 DEF LimitInv, OneEach
    <2>3. a.id \in Nat /\ b.id \in Nat /\ a.mem_size \in Nat /\ b.mem_size \in Nat
      BY <1>3, ClientsAreNat DEF LimitInv, LimitTypes
    <2>4. QED
      BY <2>2, <2>3 DEF SamePlace, Before
  <1>5. waiting' = waiting \cup {a}
    BY <1>1, <1>4 DEF Inserted
  <1>6. Asks' = Asks \ {t}
    BY <1>1, <1>2 DEF Asks
  <1>7. LimitTypes'
    BY <1>1, <1>2, <1>3, <1>5 DEF LimitInv, LimitTypes
  <1>8. OneEach'
    BY <1>1, <1>3, <1>5, <1>6 DEF LimitInv, OneEach
  <1>9. QED
    BY <1>1, <1>5, <1>7, <1>8 DEF LimitInv, ScanWaits

\* The client goes on and its acquisition, the only one, leaves the set.
LEMMA GrantStep ==
    ASSUME LimitInv, NEW t \in threads, Grant(t)
    PROVE  LimitInv'
  <1>1. PICK a \in scan :
           /\ blocked' = blocked \ {a.id}
           /\ waiting' = waiting \ {a}
           /\ scan' = scan \ {a}
    BY DEF Grant, First
  <1>2. /\ t.at # "insert" /\ threads' = Loaded(t, "take")
        /\ UNCHANGED <<size, depth, calls, freeSlots>>
    BY DEF Grant, Looks, At, clientVars
  <1>3. a \in waiting
    BY DEF LimitInv, ScanWaits
  <1>4. /\ Asks' = Asks
        /\ threads' \subseteq ThreadRecords
    BY <1>2, MovedAsks DEF LimitInv, Phases
  <1>5. LimitTypes'
    BY <1>1, <1>2, <1>4 DEF LimitInv, LimitTypes
  <1>6. OneEach'
    BY <1>1, <1>3, <1>4 DEF LimitInv, OneEach
  <1>7. QED
    BY <1>1, <1>5, <1>6 DEF LimitInv, ScanWaits

\* Release starts a thread that asks for nothing.
LEMMA ReleaseStep ==
    ASSUME LimitInv, NEW c \in Clients, Release(c)
    PROVE  LimitInv'
  <1> DEFINE new == Thread(c, "return")
  <1>1. new \in ThreadRecords /\ new.at = "return"
    BY DEF Thread, LimitInv, LimitTypes, ThreadRecords, Phases
  <1>2. Asks' = Asks
    BY <1>1 DEF Release, Asks
  <1>3. QED
    BY <1>1, <1>2, QuietStep DEF Release, LimitInv, LimitTypes

\* The other steps of the threads.
LEMMA ThreadStep ==
    ASSUME LimitInv, NEW t \in threads,
           \/ Record(t) \/ GiveSlot(t) \/ ReturnMemory(t) \/ ReleaseUnknown(t) \/ Unrecord(t)
           \/ BeginScan(t) \/ PassOver(t) \/ TakeSlot(t) \/ EndScan(t)
    PROVE  LimitInv'
  <1> USE DEF At, clientVars, Phases
  <1>1. t.reg \in Int /\ calls \in [Clients -> Nat] /\ freeSlots \in Int /\ LimitTypes
        /\ threads \subseteq ThreadRecords
    BY DEF LimitInv, LimitTypes, ThreadRecords
  <1>2. CASE Record(t)
    BY <1>1, <1>2, MovedAsks, QuietStep DEF Record
  <1>3. CASE GiveSlot(t)
    BY <1>1, <1>3, MovedAsks, QuietStep DEF GiveSlot
  <1>4. CASE ReturnMemory(t)
    BY <1>1, <1>4, MovedAsks, QuietStep DEF ReturnMemory
  <1>5. CASE ReleaseUnknown(t)
    BY <1>1, <1>5, QuietStep DEF ReleaseUnknown, Asks
  <1>6. CASE Unrecord(t)
    BY <1>1, <1>6, MovedAsks, QuietStep DEF Unrecord
  <1>7. CASE BeginScan(t)
    BY <1>1, <1>7, MovedAsks, QuietStep DEF BeginScan
  <1>8. CASE PassOver(t)
    BY <1>1, <1>8, QuietStep DEF PassOver, Looks, Asks
  <1>9. CASE TakeSlot(t)
    BY <1>1, <1>9, MovedAsks, QuietStep DEF TakeSlot
  <1>10. CASE EndScan(t)
    BY <1>1, <1>10, MovedAsks, QuietStep DEF EndScan
  <1>11. QED
    BY <1>2, <1>3, <1>4, <1>5, <1>6, <1>7, <1>8, <1>9, <1>10

\* Every step keeps the invariant.
LEMMA LimitInvNext == LimitInv /\ [LimitNext]_limitVars => LimitInv'
  <1> SUFFICES ASSUME LimitInv, [LimitNext]_limitVars PROVE LimitInv'
    OBVIOUS
  <1>1. CASE \E c \in Clients : Acquire(c) \/ Release(c)
    BY <1>1, AcquireStep, ReleaseStep
  <1>2. CASE \E t \in threads : Insert(t) \/ Grant(t)
    BY <1>2, InsertStep, GrantStep
  <1>3. CASE \E t \in threads :
           \/ Record(t) \/ GiveSlot(t) \/ ReturnMemory(t) \/ ReleaseUnknown(t) \/ Unrecord(t)
           \/ BeginScan(t) \/ PassOver(t) \/ TakeSlot(t) \/ EndScan(t)
    BY <1>3, ThreadStep
  <1>4. CASE UNCHANGED limitVars
    BY <1>4 DEF limitVars, clientVars, LimitInv, LimitTypes, OneEach, ScanWaits, Asks
  <1>5. QED
    BY <1>1, <1>2, <1>3, <1>4 DEF LimitNext

\* One of the two sets has one element and the other has none.
LEMMA OneEachCounts == OneEach => NobodyForgotten
  <1> SUFFICES ASSUME OneEach, NEW c \in blocked
               PROVE  Cardinality(Asking(c)) + Cardinality(Asked(c)) = 1
    BY DEF NobodyForgotten
  <1>1. CASE \E t \in Asks : t.id = c
    <2>1. PICK t \in Asks : t.id = c
      BY <1>1
    <2>2. Asking(c) = {t} /\ Asked(c) = {}
      BY <2>1 DEF OneEach, Asking, Asked, Asks
    <2>3. Cardinality(Asking(c)) = 1 /\ Cardinality(Asked(c)) = 0
      BY <2>2, FS_Singleton, FS_EmptySet, Zenon
    <2>4. QED
      BY <2>3
  <1>2. CASE \E a \in waiting : a.id = c
    <2>1. PICK a \in waiting : a.id = c
      BY <1>2
    <2>2. Asking(c) = {} /\ Asked(c) = {a}
      BY <2>1 DEF OneEach, Asking, Asked, Asks
    <2>3. Cardinality(Asking(c)) = 0 /\ Cardinality(Asked(c)) = 1
      BY <2>2, FS_Singleton, FS_EmptySet, Zenon
    <2>4. QED
      BY <2>3
  <1>3. QED
    BY <1>1, <1>2 DEF OneEach

-----------------------------------------------------------------------------
(* The memory: free_mem and what the clients hold.                         *)

\* The threads of c that will give its memory back, and how often c was granted.
OnTheWay(c) == {t \in threads : t.id = c /\ t.at = "return"}
Holding == [c \in Clients |-> Granted(c)]

\* Each thread is of a call that was made, an acquisition has its client's size,
\* and a client waits only between its first call and its last acquisition.
CallsInv ==
    /\ IsFiniteSet(threads)
    /\ \A t \in threads : t.call <= calls[t.id]
    /\ \A a \in waiting : a.mem_size = size[a.id]
    /\ \A c \in Clients : calls[c] <= 2 * depth[c]
    /\ \A c \in blocked : calls[c] >= 1 /\ calls[c] <= depth[c]

MemoryInv ==
    /\ freeMem \in Nat
    /\ IsFiniteSet(Units(Holding))
    /\ freeMem = Memory - Cardinality(Units(Holding))

MemLimitInv == LimitInv /\ CallsInv /\ MemoryInv

\* One block more of a client is size[c] units more.
LEMMA UnitsAdd ==
    ASSUME size \in [Clients -> Nat], NEW f, NEW g, NEW c \in Clients,
           f[c] \in Nat, g[c] = f[c] + 1, \A d \in Clients : d # c => g[d] = f[d]
    PROVE  /\ IsFiniteSet(Units(g)) <=> IsFiniteSet(Units(f))
           /\ IsFiniteSet(Units(f)) => Cardinality(Units(g)) = Cardinality(Units(f)) + size[c]
  <1> DEFINE B(h, d) == ({d} \X (1 .. h[d])) \X (1 .. size[d])
             new == {<<c, g[c]>>} \X (1 .. size[c])
  <1>1. 1 .. g[c] = (1 .. f[c]) \cup {g[c]} /\ g[c] \notin 1 .. f[c]
    OBVIOUS
  <1>2. B(g, c) = B(f, c) \cup new /\ B(f, c) \cap new = {}
    BY <1>1
  <1>3. Units(g) = UNION {B(g, d) : d \in Clients} /\ Units(f) = UNION {B(f, d) : d \in Clients}
    BY DEF Units
  <1>4. \A d \in Clients : d # c => B(g, d) = B(f, d) /\ B(f, d) \cap new = {}
    OBVIOUS
  <1> HIDE DEF B
  <1>5. Units(g) = Units(f) \cup new /\ Units(f) \cap new = {}
    BY <1>2, <1>3, <1>4
  <1>6. IsFiniteSet(new) /\ Cardinality(new) = size[c]
    <2>1. size[c] \in Nat
      OBVIOUS
    <2>2. IsFiniteSet(1 .. size[c]) /\ Cardinality(1 .. size[c]) = size[c]
      BY <2>1, FS_Interval
    <2>3. IsFiniteSet({<<c, g[c]>>}) /\ Cardinality({<<c, g[c]>>}) = 1
      BY FS_Singleton
    <2>4. IsFiniteSet(new) /\ Cardinality(new) = Cardinality({<<c, g[c]>>}) * Cardinality(1 .. size[c])
      BY <2>2, <2>3, FS_Product
    <2>5. QED
      BY <2>1, <2>2, <2>3, <2>4
  <1> HIDE DEF new
  <1>7. IsFiniteSet(Units(g)) => IsFiniteSet(Units(f))
    BY <1>5, FS_Subset
  <1>8. ASSUME IsFiniteSet(Units(f))
        PROVE  IsFiniteSet(Units(g)) /\ Cardinality(Units(g)) = Cardinality(Units(f)) + size[c]
    <2>1. /\ IsFiniteSet(Units(g))
          /\ Cardinality(Units(g)) = Cardinality(Units(f)) + Cardinality(new) - Cardinality(Units(f) \cap new)
      BY <1>5, <1>6, <1>8, FS_Union
    <2>2. Cardinality(Units(f) \cap new) = 0
      BY <1>5, FS_EmptySet
    <2>3. Cardinality(Units(f)) \in Nat /\ size[c] \in Nat
      BY <1>8, FS_CardinalityType
    <2>4. QED
      BY <1>6, <2>1, <2>2, <2>3
  <1>9. QED
    BY <1>7, <1>8

\* The units are those of the function's values at the clients.
LEMMA UnitsSame ==
    ASSUME NEW f, NEW g, \A c \in Clients : g[c] = f[c] PROVE Units(g) = Units(f)
  BY DEF Units

\* What a client of depth d has after k calls, of n that are under way; b is 1 when
\* it waits.
LEMMA ShareIsNat ==
    ASSUME NEW k \in Nat, NEW d \in Nat, NEW n \in Nat, NEW b \in {0, 1},
           k <= 2 * d, b = 1 => k >= 1 /\ k <= d
    PROVE  (IF k < d THEN k ELSE d) - (k - (IF k < d THEN k ELSE d)) + n - b \in Nat
  OBVIOUS

\* Nobody is granted less than nothing.
LEMMA GrantedIsNat ==
    ASSUME LimitInv, CallsInv, NEW c \in Clients PROVE Granted(c) \in Nat
  <1> DEFINE n == Cardinality(OnTheWay(c))
  <1>1. n \in Nat
    <2>1. IsFiniteSet(OnTheWay(c))
      BY FS_Subset DEF CallsInv, OnTheWay
    <2>2. QED
      BY <2>1, FS_CardinalityType
  <1>2. /\ calls[c] \in Nat /\ depth[c] \in Nat /\ calls[c] <= 2 * depth[c]
        /\ c \in blocked => calls[c] >= 1 /\ calls[c] <= depth[c]
    BY DEF LimitInv, LimitTypes, CallsInv
  <1>3. Granted(c) = (IF calls[c] < depth[c] THEN calls[c] ELSE depth[c])
                     - (calls[c] - (IF calls[c] < depth[c] THEN calls[c] ELSE depth[c])) + n
                     - (IF c \in blocked THEN 1 ELSE 0)
    BY DEF Granted, OnTheWay
  <1> HIDE DEF n
  <1>4. QED
    BY <1>1, <1>2, <1>3

\* What nobody gets or gives back stays the same, ...
LEMMA HeldSame ==
    ASSUME MemoryInv, UNCHANGED <<size, freeMem>>,
           \A d \in Clients : Granted(d)' = Granted(d)
    PROVE  MemoryInv'
  <1> PICK g : g = Holding'
    OBVIOUS
  <1>1. Units(Holding)' = Units(g)
    BY DEF Units
  <1>2. \A d \in Clients : g[d] = Holding[d]
    BY DEF Holding
  <1>3. Units(g) = Units(Holding)
    BY <1>2, UnitsSame
  <1>4. QED
    BY <1>1, <1>3 DEF MemoryInv

\* ... one client gets what leaves free_mem, ...
LEMMA HeldMore ==
    ASSUME MemoryInv, UNCHANGED size, size \in [Clients -> Nat], NEW c \in Clients,
           Granted(c) \in Nat, Granted(c)' = Granted(c) + 1,
           \A d \in Clients : d # c => Granted(d)' = Granted(d),
           freeMem' = freeMem - size[c], freeMem >= size[c]
    PROVE  MemoryInv'
  <1> PICK g : g = Holding'
    OBVIOUS
  <1>1. Units(Holding)' = Units(g)
    BY DEF Units
  <1>2. \A d \in Clients : d # c => g[d] = Holding[d]
    BY DEF Holding
  <1>3. Holding[c] \in Nat /\ g[c] = Holding[c] + 1
    BY DEF Holding
  <1>4. /\ IsFiniteSet(Units(g))
        /\ Cardinality(Units(g)) = Cardinality(Units(Holding)) + size[c]
    BY <1>2, <1>3, UnitsAdd DEF MemoryInv
  <1>5. Cardinality(Units(Holding)) \in Nat /\ size[c] \in Nat /\ Memory \in Nat
    BY FS_CardinalityType, AcquisitionsAssumption DEF MemoryInv
  <1>6. freeMem = Memory - Cardinality(Units(Holding))
    BY DEF MemoryInv
  <1>7. freeMem' = Memory - Cardinality(Units(g)) /\ freeMem' \in Nat
    BY <1>4, <1>5, <1>6 DEF MemoryInv
  <1>8. QED
    BY <1>1, <1>4, <1>7 DEF MemoryInv

\* ... or gives back what comes to it.
LEMMA HeldLess ==
    ASSUME MemoryInv, UNCHANGED size, size \in [Clients -> Nat], NEW c \in Clients,
           Granted(c)' \in Nat, Granted(c) = Granted(c)' + 1,
           \A d \in Clients : d # c => Granted(d)' = Granted(d),
           freeMem' = freeMem + size[c]
    PROVE  MemoryInv'
  <1> PICK g : g = Holding'
    OBVIOUS
  <1>1. Units(Holding)' = Units(g)
    BY DEF Units
  <1>2. \A d \in Clients : d # c => Holding[d] = g[d]
    BY DEF Holding
  <1>3. g[c] \in Nat /\ Holding[c] = g[c] + 1
    BY DEF Holding
  <1>4. /\ IsFiniteSet(Units(g))
        /\ Cardinality(Units(Holding)) = Cardinality(Units(g)) + size[c]
    BY <1>2, <1>3, UnitsAdd DEF MemoryInv
  <1>5. Cardinality(Units(g)) \in Nat /\ size[c] \in Nat /\ Memory \in Nat
    BY <1>4, FS_CardinalityType, AcquisitionsAssumption
  <1>6. freeMem = Memory - Cardinality(Units(Holding))
    BY DEF MemoryInv
  <1>7. freeMem' = Memory - Cardinality(Units(g)) /\ freeMem' \in Nat
    BY <1>4, <1>5, <1>6 DEF MemoryInv
  <1>8. QED
    BY <1>1, <1>4, <1>7 DEF MemoryInv

\* A client's share depends on its calls, on whether it waits, and on its threads.
LEMMA GrantedSame ==
    ASSUME UNCHANGED depth, NEW d \in Clients, calls'[d] = calls[d],
           OnTheWay(d)' = OnTheWay(d), d \in blocked' <=> d \in blocked
    PROVE  Granted(d)' = Granted(d)
  BY DEF Granted, OnTheWay

\* A thread that goes on: the others, and what is on the way, stay.
LEMMA GoesOn ==
    ASSUME LimitInv, CallsInv, UNCHANGED calls, NEW t \in threads, NEW at \in Phases, at # "return",
           threads' \in {Moved(t, at), Loaded(t, at), Gone(t)}
    PROVE  /\ IsFiniteSet(threads')
           /\ \A u \in threads' : u.call <= calls'[u.id]
           /\ \A d \in Clients : OnTheWay(d)' = OnTheWay(d) \ {t}
  <1> DEFINE m == [t EXCEPT !.at = at]
             l == [t EXCEPT !.at = at, !.reg = freeSlots]
  <1>1. t \in ThreadRecords
    BY DEF LimitInv, LimitTypes
  <1>2. /\ m.at = at /\ m.id = t.id /\ m.call = t.call
        /\ l.at = at /\ l.id = t.id /\ l.call = t.call
    BY <1>1 DEF ThreadRecords
  <1> HIDE DEF m, l
  <1>3. \/ threads' = (threads \ {t}) \cup {m}
        \/ threads' = (threads \ {t}) \cup {l}
        \/ threads' = threads \ {t}
    BY DEF Moved, Loaded, Gone, m, l
  <1>4. IsFiniteSet(threads \ {t})
    BY FS_RemoveElement DEF CallsInv
  <1>5. IsFiniteSet(threads')
    <2>1. /\ IsFiniteSet((threads \ {t}) \cup {m})
          /\ IsFiniteSet((threads \ {t}) \cup {l})
      BY <1>4, FS_AddElement
    <2>2. QED
      BY <1>3, <1>4, <2>1
  <1>6. \A u \in threads' : u.call <= calls'[u.id]
    BY <1>2, <1>3 DEF CallsInv
  <1>7. ASSUME NEW d \in Clients PROVE OnTheWay(d)' = OnTheWay(d) \ {t}
    BY <1>2, <1>3 DEF OnTheWay
  <1>8. QED
    BY <1>5, <1>6, <1>7

\* A step that grants nothing and gives nothing back.
LEMMA KeepsMemory ==
    ASSUME LimitInv, CallsInv, MemoryInv, UNCHANGED <<size, depth, calls, blocked, freeMem>>,
           waiting' \subseteq waiting, NEW t \in threads, t.at # "return",
           \/ UNCHANGED threads
           \/ \E at \in Phases : at # "return" /\ threads' \in {Moved(t, at), Loaded(t, at), Gone(t)}
    PROVE  CallsInv' /\ MemoryInv'
  <1>1. /\ IsFiniteSet(threads')
        /\ \A u \in threads' : u.call <= calls'[u.id]
        /\ \A d \in Clients : OnTheWay(d)' = OnTheWay(d)
    <2>1. CASE UNCHANGED threads
      BY <2>1 DEF CallsInv, OnTheWay
    <2>2. CASE \E at \in Phases : at # "return" /\ threads' \in {Moved(t, at), Loaded(t, at), Gone(t)}
      <3>1. PICK at \in Phases : at # "return" /\ threads' \in {Moved(t, at), Loaded(t, at), Gone(t)}
        BY <2>2
      <3>2. /\ IsFiniteSet(threads')
            /\ \A u \in threads' : u.call <= calls'[u.id]
            /\ \A d \in Clients : OnTheWay(d)' = OnTheWay(d) \ {t}
        BY <3>1, GoesOn
      <3>3. \A d \in Clients : t \notin OnTheWay(d)
        BY DEF OnTheWay
      <3>4. \A d \in Clients : OnTheWay(d) \ {t} = OnTheWay(d)
        BY <3>3
      <3>5. QED
        BY <3>2, <3>4
    <2>3. QED
      BY <2>1, <2>2
  <1>2. CallsInv'
    BY <1>1 DEF CallsInv
  <1>3. \A d \in Clients : Granted(d)' = Granted(d)
    BY <1>1, GrantedSame
  <1>4. QED
    BY <1>2, <1>3, HeldSame

\* A call is no grant: the client waits for it.
LEMMA AcquireKeeps ==
    ASSUME LimitInv, CallsInv, MemoryInv, NEW c \in Clients, Acquire(c)
    PROVE  CallsInv' /\ MemoryInv'
  <1> DEFINE new == Thread(c, "insert")
  <1>1. new.id = c /\ new.at = "insert" /\ new.call = calls[c] + 1
    BY DEF Thread
  <1> HIDE DEF new
  <1>2. /\ threads' = threads \cup {new} /\ blocked' = blocked \cup {c} /\ c \notin blocked
        /\ calls[c] < depth[c] /\ calls'[c] = calls[c] + 1
        /\ \A d \in Clients : d # c => calls'[d] = calls[d]
        /\ UNCHANGED <<size, depth, waiting, freeMem>>
    BY DEF Acquire, Goes, new, LimitInv, LimitTypes
  <1>3. calls \in [Clients -> Nat] /\ depth \in [Clients -> Nat] /\ blocked \subseteq Clients
        /\ \A t \in threads : t.id \in Clients /\ t.call \in Nat
    BY DEF LimitInv, LimitTypes, ThreadRecords
  <1>4. CallsInv'
    <2>1. IsFiniteSet(threads')
      BY <1>2, FS_AddElement DEF CallsInv
    <2>2. \A t \in threads' : t.call <= calls'[t.id]
      BY <1>1, <1>2, <1>3 DEF CallsInv
    <2>3. QED
      BY <1>2, <1>3, <2>1, <2>2 DEF CallsInv
  <1>5. \A d \in Clients : OnTheWay(d)' = OnTheWay(d)
    BY <1>1, <1>2 DEF OnTheWay
  <1>6. Granted(c)' = Granted(c)
    <2> DEFINE n == Cardinality(OnTheWay(c))
    <2>1. n \in Nat
      <3>1. IsFiniteSet(OnTheWay(c))
        BY FS_Subset DEF CallsInv, OnTheWay
      <3>2. QED
        BY <3>1, FS_CardinalityType
    <2>2. Granted(c) = calls[c] - 0 + n - 0
      BY <1>2, <1>3 DEF Granted, OnTheWay
    <2>3. Granted(c)' = calls'[c] - 0 + n - 1
      <3>1. Cardinality(OnTheWay(c))' = n
        BY <1>5
      <3>2. calls'[c] <= depth'[c] /\ c \in blocked'
        BY <1>2, <1>3
      <3>3. (IF calls'[c] < depth'[c] THEN calls'[c] ELSE depth'[c]) = calls'[c] /\ calls'[c] - calls'[c] = 0
        BY <1>2, <1>3, <3>2
      <3>4. QED
        BY <3>1, <3>2, <3>3 DEF Granted, OnTheWay
    <2>4. QED
      BY <1>2, <1>3, <2>1, <2>2, <2>3
  <1>7. \A d \in Clients : Granted(d)' = Granted(d)
    <2>1. ASSUME NEW d \in Clients, d # c PROVE Granted(d)' = Granted(d)
      BY <1>2, <1>5, <2>1, GrantedSame
    <2>2. QED
      BY <1>6, <2>1
  <1>8. QED
    BY <1>2, <1>4, <1>7, HeldSame

\* With the call the memory is on its way, in a thread that is not there yet.
LEMMA ReleaseKeeps ==
    ASSUME LimitInv, CallsInv, MemoryInv, NEW c \in Clients, Release(c)
    PROVE  CallsInv' /\ MemoryInv'
  <1> DEFINE new == Thread(c, "return")
  <1>1. new.id = c /\ new.at = "return" /\ new.call = calls[c] + 1
    BY DEF Thread
  <1> HIDE DEF new
  <1>2. /\ threads' = threads \cup {new} /\ c \notin blocked
        /\ calls[c] \in depth[c] .. 2 * depth[c] - 1 /\ calls'[c] = calls[c] + 1
        /\ \A d \in Clients : d # c => calls'[d] = calls[d]
        /\ UNCHANGED <<size, depth, blocked, waiting, freeMem>>
    BY DEF Release, Goes, new, LimitInv, LimitTypes
  <1>3. calls \in [Clients -> Nat] /\ depth \in [Clients -> Nat] /\ blocked \subseteq Clients
        /\ \A t \in threads : t.id \in Clients /\ t.call \in Nat
    BY DEF LimitInv, LimitTypes, ThreadRecords
  <1>4. CallsInv'
    <2>1. IsFiniteSet(threads')
      BY <1>2, FS_AddElement DEF CallsInv
    <2>2. \A t \in threads' : t.call <= calls'[t.id]
      BY <1>1, <1>2, <1>3 DEF CallsInv
    <2>3. calls'[c] <= 2 * depth[c]
      BY <1>2, <1>3
    <2>4. QED
      BY <1>2, <1>3, <2>1, <2>2, <2>3 DEF CallsInv
  <1>5. new \notin threads
    BY <1>1, <1>3 DEF CallsInv
  <1>6. Granted(c)' = Granted(c)
    <2> DEFINE n == Cardinality(OnTheWay(c))
    <2>1. IsFiniteSet(OnTheWay(c)) /\ n \in Nat
      <3>1. IsFiniteSet(OnTheWay(c))
        BY FS_Subset DEF CallsInv, OnTheWay
      <3>2. QED
        BY <3>1, FS_CardinalityType
    <2>2. Granted(c) = depth[c] - (calls[c] - depth[c]) + n - 0
      BY <1>2, <1>3 DEF Granted, OnTheWay
    <2>3. OnTheWay(c)' = OnTheWay(c) \cup {new} /\ new \notin OnTheWay(c)
      BY <1>1, <1>2, <1>5 DEF OnTheWay
    <2>4. Cardinality(OnTheWay(c))' = n + 1
      BY <2>1, <2>3, FS_AddElement
    <2>5. Granted(c)' = depth[c] - (calls'[c] - depth[c]) + (n + 1) - 0
      <3>1. (IF calls'[c] < depth'[c] THEN calls'[c] ELSE depth'[c]) = depth[c] /\ c \notin blocked'
        BY <1>2, <1>3
      <3>2. QED
        BY <2>4, <3>1 DEF Granted, OnTheWay
    <2>6. QED
      BY <1>2, <1>3, <2>1, <2>2, <2>5
  <1>7. \A d \in Clients : Granted(d)' = Granted(d)
    <2>1. ASSUME NEW d \in Clients, d # c PROVE Granted(d)' = Granted(d)
      <3>1. OnTheWay(d)' = OnTheWay(d)
        BY <1>1, <1>2, <2>1 DEF OnTheWay
      <3>2. QED
        BY <1>2, <2>1, <3>1, GrantedSame
    <2>2. QED
      BY <1>6, <2>1
  <1>8. QED
    BY <1>2, <1>4, <1>7, HeldSame

\* The acquisition that is inserted has its client's size.
LEMMA InsertKeeps ==
    ASSUME LimitInv, CallsInv, MemoryInv, NEW t \in threads, Insert(t)
    PROVE  CallsInv' /\ MemoryInv'
  <1>1. /\ t.at = "insert" /\ threads' = Moved(t, "record")
        /\ waiting' = Inserted(Acquisition(t))
        /\ UNCHANGED <<size, depth, calls, blocked, freeMem>>
    BY DEF Insert, At, clientVars
  <1>2. /\ IsFiniteSet(threads')
        /\ \A u \in threads' : u.call <= calls'[u.id]
        /\ \A d \in Clients : OnTheWay(d)' = OnTheWay(d) \ {t} /\ t \notin OnTheWay(d)
    BY <1>1, GoesOn DEF OnTheWay, Phases
  <1>3. \A a \in waiting' : a.mem_size = size'[a.id]
    BY <1>1 DEF Inserted, Acquisition, CallsInv
  <1>4. CallsInv'
    BY <1>1, <1>2, <1>3 DEF CallsInv
  <1>5. \A d \in Clients : Granted(d)' = Granted(d)
    BY <1>1, <1>2, GrantedSame
  <1>6. QED
    BY <1>1, <1>4, <1>5, HeldSame

\* What schedule takes from free_mem is what the client gets.
LEMMA GrantKeeps ==
    ASSUME LimitInv, CallsInv, MemoryInv, NEW t \in threads, Grant(t)
    PROVE  CallsInv' /\ MemoryInv'
  <1>1. PICK a \in scan :
           /\ freeMem >= a.mem_size
           /\ freeMem' = freeMem - a.mem_size
           /\ blocked' = blocked \ {a.id}
           /\ waiting' = waiting \ {a}
    BY DEF Grant, First
  <1>2. /\ t.at = "scan" /\ threads' = Loaded(t, "take")
        /\ UNCHANGED <<size, depth, calls>>
    BY DEF Grant, Looks, At, clientVars
  <1>3. a \in waiting /\ a.id \in blocked /\ a.id \in Clients /\ a.mem_size = size[a.id]
    BY DEF LimitInv, ScanWaits, OneEach, LimitTypes, CallsInv
  <1>4. /\ IsFiniteSet(threads')
        /\ \A u \in threads' : u.call <= calls'[u.id]
        /\ \A d \in Clients : OnTheWay(d)' = OnTheWay(d) \ {t} /\ t \notin OnTheWay(d)
    BY <1>2, GoesOn DEF OnTheWay, Phases
  <1>5. CallsInv'
    BY <1>1, <1>2, <1>4 DEF CallsInv
  <1>6. \A d \in Clients : d # a.id => Granted(d)' = Granted(d)
    <2>1. ASSUME NEW d \in Clients, d # a.id PROVE Granted(d)' = Granted(d)
      <3>1. d \in blocked' <=> d \in blocked
        BY <1>1, <2>1
      <3>2. QED
        BY <1>2, <1>4, <3>1, GrantedSame
    <2>2. QED
      BY <2>1
  <1>7. Granted(a.id) \in Nat /\ Granted(a.id)' = Granted(a.id) + 1
    <2> DEFINE c == a.id
               n == Cardinality(OnTheWay(c))
    <2>1. Granted(c) \in Nat /\ calls[c] \in Nat /\ depth[c] \in Nat
      BY <1>3, GrantedIsNat DEF LimitInv, LimitTypes
    <2>2. Granted(c) = (IF calls[c] < depth[c] THEN calls[c] ELSE depth[c])
                       - (calls[c] - (IF calls[c] < depth[c] THEN calls[c] ELSE depth[c]))
                       + n - 1
      BY <1>3 DEF Granted, OnTheWay
    <2>3. OnTheWay(c)' = OnTheWay(c) /\ calls' = calls /\ depth' = depth /\ c \notin blocked'
      BY <1>1, <1>2, <1>3, <1>4
    <2>4. Granted(c)' = (IF calls[c] < depth[c] THEN calls[c] ELSE depth[c])
                        - (calls[c] - (IF calls[c] < depth[c] THEN calls[c] ELSE depth[c]))
                        + n - 0
      BY <2>3 DEF Granted, OnTheWay
    <2>5. n \in Nat
      <3>1. IsFiniteSet(OnTheWay(c))
        BY FS_Subset DEF CallsInv, OnTheWay
      <3>2. QED
        BY <3>1, FS_CardinalityType
    <2> HIDE DEF n
    <2>6. QED
      BY <2>1, <2>2, <2>4, <2>5
  <1>8. size \in [Clients -> Nat]
    BY DEF LimitInv, LimitTypes
  <1>9. QED
    BY <1>1, <1>2, <1>3, <1>5, <1>6, <1>7, <1>8, HeldMore

\* What comes back to free_mem is no longer on its way.
LEMMA ReturnKeeps ==
    ASSUME LimitInv, LimitInv', CallsInv, MemoryInv, NEW t \in threads, ReturnMemory(t)
    PROVE  CallsInv' /\ MemoryInv'
  <1> DEFINE c == t.id
  <1>1. /\ t.at = "return" /\ threads' = Moved(t, "unrecord")
        /\ freeMem' = freeMem + size[c]
        /\ UNCHANGED <<size, depth, calls, blocked, waiting>>
    BY DEF ReturnMemory, At, clientVars
  <1>2. c \in Clients
    BY DEF LimitInv, LimitTypes, ThreadRecords
  <1>3. /\ IsFiniteSet(threads')
        /\ \A u \in threads' : u.call <= calls'[u.id]
        /\ \A d \in Clients : OnTheWay(d)' = OnTheWay(d) \ {t}
    BY <1>1, GoesOn DEF Phases
  <1>4. CallsInv'
    BY <1>1, <1>3 DEF CallsInv
  <1>5. \A d \in Clients : d # c => Granted(d)' = Granted(d)
    <2>1. ASSUME NEW d \in Clients, d # c PROVE Granted(d)' = Granted(d)
      <3>1. t \notin OnTheWay(d)
        BY <2>1 DEF OnTheWay
      <3>2. OnTheWay(d)' = OnTheWay(d)
        BY <1>3, <3>1
      <3>3. QED
        BY <1>1, <3>2, GrantedSame
    <2>2. QED
      BY <2>1
  <1>6. Granted(c)' \in Nat /\ Granted(c) = Granted(c)' + 1
    <2> DEFINE asked == (IF calls[c] < depth[c] THEN calls[c] ELSE depth[c])
               k == IF c \in blocked THEN 1 ELSE 0
               n == Cardinality(OnTheWay(c))
    <2>1. t \in OnTheWay(c) /\ IsFiniteSet(OnTheWay(c))
      BY <1>1, FS_Subset DEF CallsInv, OnTheWay
    <2>2. n \in Nat /\ Cardinality(OnTheWay(c) \ {t}) = n - 1
      BY <2>1, FS_RemoveElement, FS_CardinalityType
    <2>3. Granted(c) = asked - (calls[c] - asked) + n - k
      BY DEF Granted, OnTheWay
    <2>4. Granted(c)' = asked - (calls[c] - asked) + (n - 1) - k
      <3>1. Cardinality(OnTheWay(c))' = n - 1
        BY <1>2, <1>3, <2>2
      <3>2. QED
        BY <1>1, <3>1 DEF Granted, OnTheWay
    <2>5. calls[c] \in Nat /\ depth[c] \in Nat /\ k \in {0, 1} /\ n - 1 \in Nat
      <3>1. calls[c] \in Nat /\ depth[c] \in Nat
        BY <1>2 DEF LimitInv, LimitTypes
      <3>2. n # 0
        BY <2>1, FS_EmptySet
      <3>3. QED
        BY <2>2, <3>1, <3>2
    <2>6. calls[c] <= 2 * depth[c] /\ (k = 1 => calls[c] >= 1 /\ calls[c] <= depth[c])
      BY <1>2 DEF CallsInv
    <2> HIDE DEF k, n
    <2>7. Granted(c)' \in Nat
      BY <2>4, <2>5, <2>6, ShareIsNat
    <2>8. asked \in Int
      BY <2>5
    <2> HIDE DEF asked
    <2>9. QED
      BY <2>2, <2>3, <2>4, <2>5, <2>7, <2>8
  <1>7. size \in [Clients -> Nat]
    BY DEF LimitInv, LimitTypes
  <1>8. QED
    BY <1>1, <1>2, <1>4, <1>5, <1>6, <1>7, HeldLess

\* The other steps of the threads do neither.
LEMMA ThreadKeeps ==
    ASSUME LimitInv, CallsInv, MemoryInv, NEW t \in threads,
           \/ Record(t) \/ GiveSlot(t) \/ ReleaseUnknown(t) \/ Unrecord(t)
           \/ BeginScan(t) \/ PassOver(t) \/ TakeSlot(t) \/ EndScan(t)
    PROVE  CallsInv' /\ MemoryInv'
  <1> USE DEF At, clientVars, Phases
  <1>1. CASE Record(t)
    BY <1>1, KeepsMemory DEF Record
  <1>2. CASE GiveSlot(t)
    BY <1>2, KeepsMemory DEF GiveSlot
  <1>3. CASE ReleaseUnknown(t)
    BY <1>3, KeepsMemory DEF ReleaseUnknown
  <1>4. CASE Unrecord(t)
    BY <1>4, KeepsMemory DEF Unrecord
  <1>5. CASE BeginScan(t)
    BY <1>5, KeepsMemory DEF BeginScan
  <1>6. CASE PassOver(t)
    BY <1>6, KeepsMemory DEF PassOver, Looks
  <1>7. CASE TakeSlot(t)
    BY <1>7, KeepsMemory DEF TakeSlot
  <1>8. CASE EndScan(t)
    BY <1>8, KeepsMemory DEF EndScan
  <1>9. QED
    BY <1>1, <1>2, <1>3, <1>4, <1>5, <1>6, <1>7, <1>8

\* Nobody holds anything in the beginning.
LEMMA MemLimitInvInit == LimitInit => MemLimitInv
  <1> SUFFICES ASSUME LimitInit PROVE CallsInv /\ MemoryInv
    BY LimitInvInit DEF MemLimitInv
  <1>1. /\ threads = {} /\ waiting = {} /\ blocked = {} /\ freeMem = Memory
        /\ \A c \in Clients : calls[c] = 0
    BY DEF LimitInit, AcquisitionsInit
  <1>2. size \in [Clients -> Nat] /\ depth \in [Clients -> Nat]
    BY LimitInvInit DEF LimitInv, LimitTypes
  <1>3. CallsInv
    BY <1>1, <1>2, FS_EmptySet DEF CallsInv
  <1>4. \A c \in Clients : Granted(c) = 0
    <2>1. \A c \in Clients : OnTheWay(c) = {}
      BY <1>1 DEF OnTheWay
    <2>2. \A c \in Clients : (IF calls[c] < depth[c] THEN calls[c] ELSE depth[c]) = 0
      BY <1>1, <1>2
    <2>3. QED
      BY <1>1, <2>1, <2>2, FS_EmptySet DEF Granted, OnTheWay
  <1>5. Units(Holding) = {}
    BY <1>4 DEF Units, Holding
  <1>6. MemoryInv
    BY <1>1, <1>5, FS_EmptySet, AcquisitionsAssumption DEF MemoryInv
  <1>7. QED
    BY <1>3, <1>6

\* Every step keeps the invariant with the memory.
LEMMA MemLimitInvNext == MemLimitInv /\ [LimitNext]_limitVars => MemLimitInv'
  <1> SUFFICES ASSUME MemLimitInv, [LimitNext]_limitVars PROVE CallsInv' /\ MemoryInv'
    BY LimitInvNext DEF MemLimitInv
  <1>1. LimitInv /\ CallsInv /\ MemoryInv /\ LimitInv'
    BY LimitInvNext DEF MemLimitInv
  <1>2. CASE \E c \in Clients : Acquire(c) \/ Release(c)
    BY <1>1, <1>2, AcquireKeeps, ReleaseKeeps
  <1>3. CASE \E t \in threads : Insert(t) \/ Grant(t) \/ ReturnMemory(t)
    BY <1>1, <1>3, InsertKeeps, GrantKeeps, ReturnKeeps
  <1>4. CASE \E t \in threads :
           \/ Record(t) \/ GiveSlot(t) \/ ReleaseUnknown(t) \/ Unrecord(t)
           \/ BeginScan(t) \/ PassOver(t) \/ TakeSlot(t) \/ EndScan(t)
    BY <1>1, <1>4, ThreadKeeps
  <1>5. CASE UNCHANGED limitVars
    <2>1. UNCHANGED <<size, depth, calls, blocked, waiting, threads, freeMem>>
      BY <1>5 DEF limitVars, clientVars
    <2>2. CallsInv'
      BY <1>1, <2>1 DEF CallsInv
    <2>3. \A d \in Clients : Granted(d)' = Granted(d)
      BY <2>1 DEF Granted
    <2>4. QED
      BY <1>1, <2>1, <2>2, <2>3, HeldSame
  <1>6. QED
    BY <1>2, <1>3, <1>4, <1>5 DEF LimitNext

\* What the invariant says of the memory.
LEMMA MemLimitKept == MemLimitInv => MemoryKept
  BY GrantedIsNat DEF MemLimitInv, MemoryInv, MemoryKept, Holding

-----------------------------------------------------------------------------
\* The invariant holds throughout, however many clients nest however many calls.
THEOREM LimitInductive == LimitSpec => []LimitInv
  BY LimitInvInit, LimitInvNext, PTL DEF LimitSpec

\* Nobody that waits is forgotten by lib/mem_limit_scheduler.hh: its acquisition
\* is in the set or about to be inserted, once.
THEOREM LimitForgetsNobody == LimitSpec => []NobodyForgotten
  <1>1. LimitInv => NobodyForgotten
    BY OneEachCounts DEF LimitInv
  <1>2. QED
    BY LimitInductive, <1>1, PTL

\* Memory is granted once and comes back once, and only while there is some.
THEOREM LimitKeepsMemory == LimitSpec => []MemoryKept
  BY MemLimitInvInit, MemLimitInvNext, MemLimitKept, PTL DEF LimitSpec

-----------------------------------------------------------------------------
(* Q4Scheduler: the invariant.                                             *)

\* Where a thread is: in the locked part, or elsewhere.
AtWork == {"scan", "fits", "start", "next"}
Q4Places == {"no thread", "answer", "answered", "using", "refresh", "store", "work", "done"} \cup AtWork

\* What the counters are.
Numbers ==
    /\ n_free \in Int /\ mem_free \in Int /\ mem_using \in Int
    /\ reg \in [Queries -> Int]

\* Where the threads are; a job that waits has none.
Places ==
    /\ pc = [q \in Queries \cup {Main} |-> pc[q]]
    /\ pc[Main] \in {"work", "done"} \cup AtWork
    /\ \A q \in Queries : pc[q] \in Q4Places
    /\ jobs \subseteq {q \in Queries : pc[q] = "no thread"}

\* The lock is held exactly from Lock to Unlock.
Locking ==
    /\ holder \in Queries \cup {Main, Nobody}
    /\ \A q \in Queries \cup {Main} : pc[q] \in AtWork <=> holder = q
    /\ rest \subseteq jobs
    /\ holder = Nobody => rest = {}

Q4Types == Q4Given /\ Numbers /\ Places /\ Locking

\* Every slot is free, of a query that is answered, or of one that will be.
Answering == {q \in Queries : pc[q] = "answer"}
SlotTaken == holder # Nobody /\ pc[holder] \in {"fits", "start"}
SlotsKept ==
    /\ n_free + Cardinality(Answering) + (IF SlotTaken THEN 1 ELSE 0) = NThread
    /\ holder # Nobody /\ pc[holder] = "scan" /\ rest # {} => n_free > 0
    /\ n_free >= 0

\* mem_using counts the memory, unit by unit, of the queries that have not given
\* it back.
UnitsOf(q) == {q} \X (1 .. mem[q])
Using == {q \in Queries : pc[q] \in {"answer", "answered", "using"}}
UnitsInUse == UNION {UnitsOf(q) : q \in Using}
UsingKept == IsFiniteSet(UnitsInUse) /\ mem_using = Cardinality(UnitsInUse)

\* A job that would fit is one that somebody is going to look at.
Active(q) == pc[q] \in {"answer", "answered", "using", "refresh", "store", "work"}
SomeoneActive == \E q \in Queries \cup {Main} : Active(q)
JobsSeen == \A q \in jobs : mem[q] < mem_free => SomeoneActive \/ q \in rest

\* Of the queries with one tag one is a job, or has been.
JobOf(q) == \E p \in Queries : tag[p] = tag[q] /\ (p \in jobs \/ pc[p] # "no thread")
JobsKept == \A q \in Queries : JobOf(q)

Q4Inv == Q4Types /\ SlotsKept /\ UsingKept /\ JobsSeen /\ JobsKept

\* Main and Nobody are none of the queries.
LEMMA Q4Names == Main \notin Queries /\ Nobody \notin Queries /\ Nobody # Main
  BY Q4Assumption

\* NThread is not 0 and Readings are numbers.
LEMMA Q4Values == NThread \in Nat /\ NThread # 0 /\ Readings \subseteq Nat
  BY Q4Assumption

-----------------------------------------------------------------------------
(* Counting.                                                               *)

\* A query has as many units as its size says.
LEMMA UnitsCount ==
    ASSUME Q4Given, NEW q \in Queries
    PROVE  IsFiniteSet(UnitsOf(q)) /\ Cardinality(UnitsOf(q)) = mem[q]
  <1>1. mem[q] \in Nat
    BY DEF Q4Given
  <1>2. IsFiniteSet(1 .. mem[q]) /\ Cardinality(1 .. mem[q]) = mem[q]
    BY <1>1, FS_Interval
  <1>3. IsFiniteSet({q}) /\ Cardinality({q}) = 1
    BY FS_Singleton
  <1>4. /\ IsFiniteSet({q} \X (1 .. mem[q]))
        /\ Cardinality({q} \X (1 .. mem[q])) = Cardinality({q}) * Cardinality(1 .. mem[q])
    BY <1>2, <1>3, FS_Product
  <1>5. QED
    BY <1>1, <1>2, <1>3, <1>4 DEF UnitsOf

\* The queries are finitely many.
LEMMA FiniteQueries == ASSUME NEW S \in SUBSET Queries PROVE IsFiniteSet(S) /\ Cardinality(S) \in Nat
  BY Q4Assumption, FS_Subset, FS_CardinalityType

\* A query that begins adds its units, one that gives back takes them away.
LEMMA UnitsChange ==
    ASSUME Q4Given, UNCHANGED mem, UsingKept, NEW q \in Queries,
           \/ /\ q \notin Using /\ Using' = Using \cup {q}
              /\ mem_using' = mem_using + mem[q]
           \/ /\ q \in Using /\ Using' = Using \ {q}
              /\ mem_using' = mem_using - mem[q]
    PROVE  UsingKept'
  <1>1. IsFiniteSet(UnitsOf(q)) /\ Cardinality(UnitsOf(q)) = mem[q] /\ mem[q] \in Nat
    BY UnitsCount DEF Q4Given
  <1>2. UnitsInUse' = UNION {UnitsOf(p) : p \in Using'}
    BY DEF UnitsInUse, UnitsOf
  <1>3. CASE q \notin Using /\ Using' = Using \cup {q} /\ mem_using' = mem_using + mem[q]
    <2>1. UnitsInUse' = UnitsInUse \cup UnitsOf(q)
      BY <1>2, <1>3 DEF UnitsInUse
    <2>2. UnitsInUse \cap UnitsOf(q) = {}
      BY <1>3 DEF UnitsInUse, UnitsOf
    <2>3. /\ IsFiniteSet(UnitsInUse \cup UnitsOf(q))
          /\ Cardinality(UnitsInUse \cup UnitsOf(q)) =
                Cardinality(UnitsInUse) + Cardinality(UnitsOf(q)) - Cardinality(UnitsInUse \cap UnitsOf(q))
      BY <1>1, FS_Union DEF UsingKept
    <2>4. Cardinality(UnitsInUse) \in Nat
      BY FS_CardinalityType DEF UsingKept
    <2>5. Cardinality(UnitsInUse \cap UnitsOf(q)) = 0
      BY <2>2, FS_EmptySet
    <2>6. mem_using = Cardinality(UnitsInUse)
      BY DEF UsingKept
    <2>7. mem_using' = Cardinality(UnitsInUse')
      BY <1>1, <1>3, <2>1, <2>3, <2>4, <2>5, <2>6
    <2>8. QED
      BY <2>1, <2>3, <2>7 DEF UsingKept
  <1>4. CASE q \in Using /\ Using' = Using \ {q} /\ mem_using' = mem_using - mem[q]
    <2>1. UnitsInUse = UnitsInUse' \cup UnitsOf(q)
      BY <1>2, <1>4 DEF UnitsInUse
    <2>2. UnitsInUse' \cap UnitsOf(q) = {}
      BY <1>2, <1>4 DEF UnitsOf
    <2>3. IsFiniteSet(UnitsInUse')
      BY <2>1, FS_Subset DEF UsingKept
    <2>4. /\ Cardinality(UnitsInUse' \cup UnitsOf(q)) =
                Cardinality(UnitsInUse') + Cardinality(UnitsOf(q)) - Cardinality(UnitsInUse' \cap UnitsOf(q))
      BY <1>1, <2>3, FS_Union
    <2>5. Cardinality(UnitsInUse') \in Nat
      BY <2>3, FS_CardinalityType
    <2>6. Cardinality(UnitsInUse' \cap UnitsOf(q)) = 0
      BY <2>2, FS_EmptySet
    <2>7. mem_using = Cardinality(UnitsInUse)
      BY DEF UsingKept
    <2>8. mem_using' = Cardinality(UnitsInUse')
      BY <1>1, <1>4, <2>1, <2>4, <2>5, <2>6, <2>7
    <2>9. QED
      BY <2>3, <2>8 DEF UsingKept
  <1>5. QED
    BY <1>3, <1>4

\* So that the answered ones can be counted.
LEMMA AnsweringCount == IsFiniteSet(Answering) /\ Cardinality(Answering) \in Nat
  BY FiniteQueries DEF Answering

-----------------------------------------------------------------------------
(* The steps.                                                              *)

\* The first query of each tag is a job in the beginning.
LEMMA Q4InvInit == Q4Given /\ Q4Init => Q4Inv
  <1> SUFFICES ASSUME Q4Given, Q4Init PROVE Q4Inv
    OBVIOUS
  <1> USE Q4Names
  <1>1. /\ \A q \in Queries : pc[q] = "no thread"
        /\ pc[Main] = "work"
        /\ pc = [q \in Queries \cup {Main} |-> pc[q]]
    BY DEF Q4Init
  <1>2. Q4Types
    <2>1. Numbers
      <3>1. n_free \in Int /\ mem_free \in Int /\ mem_using \in Int
        <4>1. n_free = NThread /\ mem_free \in Readings /\ mem_using = 0
          BY DEF Q4Init
        <4>2. QED
          BY <4>1, Q4Values
      <3>2. QED
        BY <3>1 DEF Q4Init, Numbers
    <2>2. Places
      BY <1>1 DEF Q4Init, Places, AtWork, Q4Places
    <2>3. Locking
      BY <1>1 DEF Q4Init, Locking, AtWork
    <2>4. QED
      BY <2>1, <2>2, <2>3 DEF Q4Types
  <1>3. SlotsKept
    <2>1. Answering = {} /\ ~ SlotTaken
      BY <1>1 DEF Answering, SlotTaken, Q4Init
    <2>2. QED
      <3>1. n_free = NThread /\ Cardinality(Answering) = 0 /\ holder = Nobody
        BY <2>1, FS_EmptySet DEF Q4Init
      <3>2. NThread \in Nat
        BY Q4Values
      <3>3. QED
        BY <2>1, <3>1, <3>2 DEF SlotsKept
  <1>4. UsingKept
    <2>1. Using = {}
      BY <1>1 DEF Using
    <2>2. UnitsInUse = {}
      BY <2>1 DEF UnitsInUse
    <2>3. QED
      BY <2>2, FS_EmptySet DEF UsingKept, Q4Init
  <1>5. JobsSeen
    BY <1>1 DEF JobsSeen, SomeoneActive, Active
  <1>6. JobsKept
    <2>1. SUFFICES ASSUME NEW q \in Queries PROVE JobOf(q)
      BY DEF JobsKept
    <2> DEFINE T == {p \in Queries : tag[p] = tag[q]}
    <2>2. T \in SUBSET Nat /\ T # {}
      BY Q4Assumption
    <2>3. PICK n \in T : \A m \in T : n <= m
      BY <2>2, LeastNumber
    <2>4. ASSUME NEW p \in Queries, p < n PROVE Larger(p, n) \/ Larger(n, p)
      <3>1. tag[p] # tag[n]
        <4>1. tag[p] = tag[n] => p \in T
          BY <2>3
        <4>2. p \in T => n <= p /\ n \in Nat /\ p \in Nat
          BY <2>2, <2>3
        <4>3. QED
          BY <2>4, <4>1, <4>2
      <3>2. tag[p] \in Nat /\ tag[n] \in Nat /\ mem[p] \in Nat /\ mem[n] \in Nat
        BY DEF Q4Given
      <3>3. QED
        BY <3>1, <3>2 DEF Larger
    <2>5. n \in jobs
      BY <2>4 DEF Q4Init
    <2>6. QED
      BY <2>5 DEF JobOf
  <1>7. QED
    BY <1>2, <1>3, <1>4, <1>5, <1>6 DEF Q4Inv

\* What a step leaves alone of the lists of queries.
LEMMA SameUsing ==
    ASSUME UsingKept, Using' = Using, UNCHANGED <<mem, mem_using>> PROVE UsingKept'
  BY DEF UsingKept, UnitsInUse, UnitsOf

\* A query that has a thread never loses it.
LEMMA JobsStayKept ==
    ASSUME JobsKept, UNCHANGED tag, \A q \in jobs : q \in jobs' \/ pc'[q] # "no thread",
           \A q \in Queries : pc[q] # "no thread" => pc'[q] # "no thread"
    PROVE  JobsKept'
  <1>1. SUFFICES ASSUME NEW q \in Queries PROVE JobOf(q)'
    BY DEF JobsKept
  <1>2. PICK p \in Queries : tag[p] = tag[q] /\ (p \in jobs \/ pc[p] # "no thread")
    BY DEF JobsKept, JobOf
  <1>3. QED
    BY <1>2 DEF JobOf

\* Without a slot, some query is being answered and its thread will look again.
LEMMA LockStep ==
    ASSUME Q4Inv, NEW q \in Queries \cup {Main}, Lock(q) PROVE Q4Inv'
  <1> USE Q4Names
  <1>1. /\ holder = Nobody /\ holder' = q /\ q # Nobody
        /\ pc[q] = "work" /\ pc'[q] = "scan"
        /\ \A p \in Queries \cup {Main} : p # q => pc'[p] = pc[p]
        /\ pc' = [p \in Queries \cup {Main} |-> pc'[p]]
        /\ rest' = IF n_free = 0 THEN {} ELSE jobs
        /\ UNCHANGED <<tag, mem, jobs, n_free, mem_free, mem_using, reg>>
    BY DEF Q4Inv, Q4Types, Numbers, Places, Locking, Lock, Steps, given
  <1>2. Q4Types'
    <2>1. Numbers'
      BY <1>1 DEF Q4Inv, Q4Types, Numbers, Q4Given
    <2>2. Places'
      BY <1>1 DEF Q4Inv, Q4Types, Places, AtWork, Q4Places
    <2>3. Locking'
      BY <1>1 DEF Q4Inv, Q4Types, Locking, Places, AtWork
    <2>4. QED
      BY <1>1, <2>1, <2>2, <2>3 DEF Q4Inv, Q4Types, Numbers, Places, Locking, Q4Given
  <1>3. Answering' = Answering /\ Using' = Using
    BY <1>1 DEF Answering, Using
  <1>4. SlotsKept'
    <2>1. ~ SlotTaken /\ ~ SlotTaken'
      BY <1>1 DEF SlotTaken
    <2>2. n_free \in Int /\ Cardinality(Answering) \in Nat
      BY AnsweringCount DEF Q4Inv, Q4Types, Numbers
    <2>3. QED
      BY <1>1, <1>3, <2>1, <2>2 DEF Q4Inv, SlotsKept
  <1>5. UsingKept'
    BY <1>1, <1>3, SameUsing DEF Q4Inv
  <1>6. JobsSeen'
    <2>1. CASE n_free = 0
      <3>1. Answering # {}
        <4>1. ~ SlotTaken
          BY <1>1 DEF SlotTaken
        <4>2. n_free + Cardinality(Answering) + 0 = NThread
          BY <4>1 DEF Q4Inv, SlotsKept
        <4>3. Cardinality(Answering) # 0
          BY <2>1, <4>2, AnsweringCount, Q4Values
        <4>4. QED
          BY <4>3, FS_EmptySet
      <3>2. SomeoneActive'
        BY <1>3, <3>1 DEF Answering, SomeoneActive, Active
      <3>3. QED
        BY <3>2 DEF JobsSeen
    <2>2. CASE n_free # 0
      BY <1>1, <2>2 DEF JobsSeen
    <2>3. QED
      BY <2>1, <2>2
  <1>7. JobsKept'
    BY <1>1, JobsStayKept DEF Q4Inv
  <1>8. QED
    BY <1>2, <1>4, <1>5, <1>6, <1>7 DEF Q4Inv

\* A job that is passed over does not fit.
LEMMA PassJobStep == ASSUME Q4Inv, PassJob PROVE Q4Inv'
  <1> USE Q4Names
  <1>1. PICK q \in Here : mem[q] >= mem_free /\ rest' = rest \ {q}
    BY DEF PassJob
  <1>2. /\ holder # Nobody /\ pc[holder] = "scan" /\ pc' = pc
        /\ UNCHANGED <<tag, mem, jobs, holder, n_free, mem_free, mem_using, reg>>
    BY DEF Q4Inv, Q4Types, Numbers, Places, Locking, PassJob, Steps, given
  <1>3. q \in rest
    BY DEF Here
  <1>4. Q4Types'
    <2>1. Numbers'
      BY <1>1, <1>2 DEF Q4Inv, Q4Types, Numbers, Q4Given
    <2>2. Places'
      BY <1>1, <1>2 DEF Q4Inv, Q4Types, Places, AtWork, Q4Places
    <2>3. Locking'
      BY <1>1, <1>2 DEF Q4Inv, Q4Types, Locking, Places, AtWork
    <2>4. QED
      BY <1>1, <1>2, <2>1, <2>2, <2>3 DEF Q4Inv, Q4Types, Numbers, Places, Locking, Q4Given
  <1>5. Answering' = Answering /\ Using' = Using /\ SlotTaken' = SlotTaken
    BY <1>2 DEF Answering, Using, SlotTaken
  <1>6. SlotsKept'
    BY <1>1, <1>2, <1>3, <1>5 DEF Q4Inv, SlotsKept
  <1>7. UsingKept'
    BY <1>2, <1>5, SameUsing DEF Q4Inv
  <1>8. JobsSeen'
    <2>1. SomeoneActive' = SomeoneActive
      BY <1>2 DEF SomeoneActive, Active
    <2>2. mem[q] \in Nat /\ mem_free \in Int
      BY <1>3 DEF Q4Inv, Q4Types, Numbers, Places, Locking, Q4Given
    <2>3. QED
      BY <1>1, <1>2, <2>1, <2>2 DEF Q4Inv, JobsSeen
  <1>9. JobsKept'
    BY <1>2, JobsStayKept DEF Q4Inv
  <1>10. QED
    BY <1>4, <1>6, <1>7, <1>8, <1>9 DEF Q4Inv

\* A slot is there while the loop looks at a job.
LEMMA TakeThreadStep == ASSUME Q4Inv, TakeThread PROVE Q4Inv'
  <1> USE Q4Names
  <1>1. /\ holder # Nobody /\ holder \in Queries \cup {Main}
        /\ pc[holder] = "scan" /\ pc'[holder] = "fits"
        /\ \A p \in Queries \cup {Main} : p # holder => pc'[p] = pc[p]
        /\ pc' = [p \in Queries \cup {Main} |-> pc'[p]]
        /\ n_free' = n_free - 1
        /\ rest # {}
        /\ UNCHANGED <<tag, mem, jobs, rest, holder, mem_free, mem_using, reg>>
    BY DEF Q4Inv, Q4Types, Numbers, Places, Locking, TakeThread, Steps, given, locked, Here
  <1>2. Q4Types'
    <2>1. Numbers'
      BY <1>1 DEF Q4Inv, Q4Types, Numbers, Q4Given
    <2>2. Places'
      BY <1>1 DEF Q4Inv, Q4Types, Places, AtWork, Q4Places
    <2>3. Locking'
      BY <1>1 DEF Q4Inv, Q4Types, Locking, Places, AtWork
    <2>4. QED
      BY <1>1, <2>1, <2>2, <2>3 DEF Q4Inv, Q4Types, Numbers, Places, Locking, Q4Given
  <1>3. Answering' = Answering /\ Using' = Using
    BY <1>1 DEF Answering, Using
  <1>4. SlotsKept'
    <2>1. ~ SlotTaken /\ SlotTaken'
      BY <1>1 DEF SlotTaken
    <2>2. n_free \in Int /\ Cardinality(Answering) \in Nat
      BY AnsweringCount DEF Q4Inv, Q4Types, Numbers
    <2>3. QED
      BY <1>1, <1>3, <2>1, <2>2 DEF Q4Inv, SlotsKept
  <1>5. UsingKept'
    BY <1>1, <1>3, SameUsing DEF Q4Inv
  <1>6. JobsSeen'
    BY <1>1 DEF Q4Inv, JobsSeen, SomeoneActive, Active
  <1>7. JobsKept'
    BY <1>1, JobsStayKept DEF Q4Inv
  <1>8. QED
    BY <1>2, <1>4, <1>5, <1>6, <1>7 DEF Q4Inv

\* With less memory free, no job fits that did not.
LEMMA TakeMemoryStep == ASSUME Q4Inv, TakeMemory PROVE Q4Inv'
  <1> USE Q4Names
  <1>0. PICK q \in Here : mem_free' = mem_free - mem[q]
    BY DEF TakeMemory
  <1>1. /\ holder # Nobody /\ holder \in Queries \cup {Main}
        /\ pc[holder] = "fits" /\ pc'[holder] = "start"
        /\ \A p \in Queries \cup {Main} : p # holder => pc'[p] = pc[p]
        /\ pc' = [p \in Queries \cup {Main} |-> pc'[p]]
        /\ q \in Queries /\ mem[q] \in Nat /\ mem_free \in Int
        /\ UNCHANGED <<tag, mem, jobs, rest, holder, n_free, mem_using, reg>>
    BY DEF Q4Inv, Q4Types, Numbers, Places, Locking, Q4Given, TakeMemory, Steps, given, locked, Here
  <1>2. Q4Types'
    <2>1. Numbers'
      BY <1>0, <1>1 DEF Q4Inv, Q4Types, Numbers, Q4Given
    <2>2. Places'
      BY <1>0, <1>1 DEF Q4Inv, Q4Types, Places, AtWork, Q4Places
    <2>3. Locking'
      BY <1>0, <1>1 DEF Q4Inv, Q4Types, Locking, Places, AtWork
    <2>4. QED
      BY <1>0, <1>1, <2>1, <2>2, <2>3 DEF Q4Inv, Q4Types, Numbers, Places, Locking, Q4Given
  <1>3. Answering' = Answering /\ Using' = Using
    BY <1>1 DEF Answering, Using
  <1>4. SlotsKept'
    <2>1. SlotTaken /\ SlotTaken'
      BY <1>1 DEF SlotTaken
    <2>2. n_free \in Int /\ Cardinality(Answering) \in Nat
      BY AnsweringCount DEF Q4Inv, Q4Types, Numbers
    <2>3. QED
      BY <1>1, <1>3, <2>1, <2>2 DEF Q4Inv, SlotsKept
  <1>5. UsingKept'
    BY <1>1, <1>3, SameUsing DEF Q4Inv
  <1>6. JobsSeen'
    <2>1. SomeoneActive => SomeoneActive'
      BY <1>1 DEF SomeoneActive, Active
    <2>2. \A p \in jobs : mem[p] \in Nat
      BY DEF Q4Inv, Q4Types, Numbers, Places, Locking, Q4Given
    <2>3. \A p \in jobs : mem[p] < mem_free' => mem[p] < mem_free
      BY <1>0, <1>1, <2>2
    <2>4. QED
      BY <1>1, <2>1, <2>3 DEF Q4Inv, JobsSeen
  <1>7. JobsKept'
    BY <1>1, JobsStayKept DEF Q4Inv
  <1>8. QED
    BY <1>2, <1>4, <1>5, <1>6, <1>7 DEF Q4Inv

\* The slot and the memory go to the thread of the job.
LEMMA StartJobStep == ASSUME Q4Inv, StartJob PROVE Q4Inv'
  <1>1. PICK q \in Here :
           /\ mem_using' = mem_using + mem[q]
           /\ pc' = [pc EXCEPT ![q] = "answer", ![holder] = "next"]
           /\ jobs' = jobs \ {q} /\ rest' = rest \ {q}
    BY DEF StartJob
  <1>2. q \in Queries /\ q \in rest /\ q \in jobs /\ pc[q] = "no thread" /\ mem[q] \in Nat
    BY DEF Here, Q4Inv, Q4Types, Numbers, Places, Locking, Q4Given
  <1>3. /\ holder # Nobody /\ holder \in Queries \cup {Main} /\ pc[holder] = "start"
        /\ q # holder
        /\ UNCHANGED <<tag, mem, holder, n_free, mem_free, reg>>
    BY <1>2 DEF StartJob, given, Q4Inv, Q4Types, Numbers, Places, Locking
  <1>4. /\ pc'[q] = "answer" /\ pc'[holder] = "next"
        /\ \A p \in Queries \cup {Main} : p # holder /\ p # q => pc'[p] = pc[p]
        /\ pc' = [p \in Queries \cup {Main} |-> pc'[p]]
    BY <1>1, <1>2, <1>3 DEF Q4Inv, Q4Types, Numbers, Places, Locking
  <1>5. Q4Types'
    <2>1. Numbers'
      <3>1. mem_using \in Int /\ mem_using' = mem_using + mem[q] /\ n_free \in Int /\ mem_free \in Int
        BY <1>1 DEF Q4Inv, Q4Types, Numbers
      <3>2. mem_using' \in Int
        <4>1. mem[q] \in Nat
          BY <1>2
        <4>2. mem_using \in Int
          BY <3>1
        <4>3. mem_using + mem[q] \in Int
          BY <4>1, <4>2
        <4>4. QED
          BY <3>1, <4>3
      <3>3. QED
        BY <1>3, <3>1, <3>2 DEF Q4Inv, Q4Types, Numbers
    <2>2. Places'
      BY <1>1, <1>2, <1>3, <1>4 DEF Q4Inv, Q4Types, Places, AtWork, Q4Places
    <2>3. Locking'
      BY <1>1, <1>2, <1>3, <1>4 DEF Q4Inv, Q4Types, Locking, Places, AtWork
    <2>4. QED
      BY <1>1, <1>2, <1>3, <1>4, <2>1, <2>2, <2>3 DEF Q4Inv, Q4Types, Numbers, Places, Locking, Q4Given
  <1>6. SlotsKept'
    <2>1. Answering' = Answering \cup {q} /\ q \notin Answering
      BY <1>2, <1>3, <1>4 DEF Answering
    <2>2. Cardinality(Answering') = Cardinality(Answering) + 1 /\ Cardinality(Answering) \in Nat
      BY <2>1, FiniteQueries, FS_AddElement DEF Answering
    <2>3. SlotTaken /\ ~ SlotTaken'
      BY <1>3, <1>4 DEF SlotTaken
    <2>4. QED
      BY <1>3, <1>4, <2>2, <2>3 DEF Q4Inv, SlotsKept, Q4Types, Numbers
  <1>7. UsingKept'
    <2>1. q \notin Using /\ Using' = Using \cup {q}
      BY <1>2, <1>3, <1>4 DEF Using
    <2>2. QED
      BY <1>1, <1>2, <1>3, <2>1, UnitsChange DEF Q4Inv, Q4Types, Numbers, Places, Locking
  <1>8. JobsSeen'
    BY <1>2, <1>4 DEF JobsSeen, SomeoneActive, Active
  <1>9. JobsKept'
    BY <1>1, <1>2, <1>3, <1>4, JobsStayKept DEF Q4Inv
  <1>10. QED
    BY <1>5, <1>6, <1>7, <1>8, <1>9 DEF Q4Inv

\* The loop stops without a slot; then some query is being answered.
LEMMA NextJobStep == ASSUME Q4Inv, NextJob PROVE Q4Inv'
  <1> USE Q4Names
  <1>1. /\ holder # Nobody /\ holder \in Queries \cup {Main}
        /\ pc[holder] = "next" /\ pc'[holder] = "scan"
        /\ \A p \in Queries \cup {Main} : p # holder => pc'[p] = pc[p]
        /\ pc' = [p \in Queries \cup {Main} |-> pc'[p]]
        /\ rest' = IF n_free = 0 THEN {} ELSE rest
        /\ UNCHANGED <<tag, mem, jobs, holder, n_free, mem_free, mem_using, reg>>
    BY DEF Q4Inv, Q4Types, Numbers, Places, Locking, NextJob, Steps, given
  <1>2. Q4Types'
    <2>1. Numbers'
      BY <1>1 DEF Q4Inv, Q4Types, Numbers, Q4Given
    <2>2. Places'
      BY <1>1 DEF Q4Inv, Q4Types, Places, AtWork, Q4Places
    <2>3. Locking'
      BY <1>1 DEF Q4Inv, Q4Types, Locking, Places, AtWork
    <2>4. QED
      BY <1>1, <2>1, <2>2, <2>3 DEF Q4Inv, Q4Types, Numbers, Places, Locking, Q4Given
  <1>3. Answering' = Answering /\ Using' = Using
    BY <1>1 DEF Answering, Using
  <1>4. SlotsKept'
    <2>1. ~ SlotTaken /\ ~ SlotTaken'
      BY <1>1 DEF SlotTaken
    <2>2. n_free \in Int /\ Cardinality(Answering) \in Nat
      BY AnsweringCount DEF Q4Inv, Q4Types, Numbers
    <2>3. QED
      BY <1>1, <1>3, <2>1, <2>2 DEF Q4Inv, SlotsKept
  <1>5. UsingKept'
    BY <1>1, <1>3, SameUsing DEF Q4Inv
  <1>6. JobsSeen'
    <2>1. CASE n_free = 0
      <3>1. Answering # {}
        <4>1. ~ SlotTaken
          BY <1>1 DEF SlotTaken
        <4>2. n_free + Cardinality(Answering) + 0 = NThread
          BY <4>1 DEF Q4Inv, SlotsKept
        <4>3. Cardinality(Answering) # 0
          BY <2>1, <4>2, AnsweringCount, Q4Values
        <4>4. QED
          BY <4>3, FS_EmptySet
      <3>2. SomeoneActive'
        BY <1>3, <3>1 DEF Answering, SomeoneActive, Active
      <3>3. QED
        BY <3>2 DEF JobsSeen
    <2>2. CASE n_free # 0
      BY <1>1, <2>2 DEF Q4Inv, JobsSeen, SomeoneActive, Active
    <2>3. QED
      BY <2>1, <2>2
  <1>7. JobsKept'
    BY <1>1, JobsStayKept DEF Q4Inv
  <1>8. QED
    BY <1>2, <1>4, <1>5, <1>6, <1>7 DEF Q4Inv

\* Whoever unlocks has looked at all jobs.
LEMMA UnlockStep == ASSUME Q4Inv, Unlock PROVE Q4Inv'
  <1> USE Q4Names
  <1>1. /\ holder # Nobody /\ holder \in Queries \cup {Main}
        /\ pc[holder] = "scan" /\ pc'[holder] = "done"
        /\ \A p \in Queries \cup {Main} : p # holder => pc'[p] = pc[p]
        /\ pc' = [p \in Queries \cup {Main} |-> pc'[p]]
        /\ rest = {} /\ holder' = Nobody
        /\ UNCHANGED <<tag, mem, jobs, rest, n_free, mem_free, mem_using, reg>>
    BY DEF Q4Inv, Q4Types, Numbers, Places, Locking, Unlock, Steps, given
  <1>2. Q4Types'
    <2>1. Numbers'
      BY <1>1 DEF Q4Inv, Q4Types, Numbers, Q4Given
    <2>2. Places'
      BY <1>1 DEF Q4Inv, Q4Types, Places, AtWork, Q4Places
    <2>3. Locking'
      BY <1>1 DEF Q4Inv, Q4Types, Locking, Places, AtWork
    <2>4. QED
      BY <1>1, <2>1, <2>2, <2>3 DEF Q4Inv, Q4Types, Numbers, Places, Locking, Q4Given
  <1>3. Answering' = Answering /\ Using' = Using
    BY <1>1 DEF Answering, Using
  <1>4. SlotsKept'
    <2>1. ~ SlotTaken /\ ~ SlotTaken'
      BY <1>1 DEF SlotTaken
    <2>2. n_free \in Int /\ Cardinality(Answering) \in Nat
      BY AnsweringCount DEF Q4Inv, Q4Types, Numbers
    <2>3. QED
      BY <1>1, <1>3, <2>1, <2>2 DEF Q4Inv, SlotsKept
  <1>5. UsingKept'
    BY <1>1, <1>3, SameUsing DEF Q4Inv
  <1>6. JobsSeen'
    BY <1>1 DEF Q4Inv, JobsSeen, SomeoneActive, Active
  <1>7. JobsKept'
    BY <1>1, JobsStayKept DEF Q4Inv
  <1>8. QED
    BY <1>2, <1>4, <1>5, <1>6, <1>7 DEF Q4Inv

\* A thread that answers gives back its slot, then its memory, and stays active
\* until it looks at the jobs.
LEMMA DoJobStep ==
    ASSUME Q4Inv, NEW q \in Queries, DoJob(q), UNCHANGED <<given, locked>> PROVE Q4Inv'
  <1> USE Q4Names
  <1>1. /\ UNCHANGED <<tag, mem, jobs, holder, rest>>
        /\ \A p \in Queries \cup {Main} : p # q => pc'[p] = pc[p]
        /\ pc' = [p \in Queries \cup {Main} |-> pc'[p]]
        /\ \/ /\ pc[q] = "answer" /\ pc'[q] = "answered"
              /\ n_free' = n_free + 1 /\ UNCHANGED <<mem_free, mem_using, reg>>
           \/ /\ pc[q] = "answered" /\ pc'[q] = "using"
              /\ mem_free' = mem_free + mem[q] /\ UNCHANGED <<n_free, mem_using, reg>>
           \/ /\ pc[q] = "using" /\ pc'[q] = "refresh"
              /\ mem_using' = mem_using - mem[q] /\ UNCHANGED <<n_free, mem_free, reg>>
           \/ /\ pc[q] = "refresh" /\ pc'[q] = "store"
              /\ reg' \in [Queries -> Int] /\ UNCHANGED <<n_free, mem_free, mem_using>>
           \/ /\ pc[q] = "store" /\ pc'[q] = "work"
              /\ mem_free' = reg[q] /\ UNCHANGED <<n_free, mem_using, reg>>
    <2>1. reg \in [Queries -> Int] /\ mem_using \in Int
      BY DEF Q4Inv, Q4Types, Numbers
    <2>2. \A free \in Readings : [reg EXCEPT ![q] = free - mem_using] \in [Queries -> Int]
      BY <2>1, Q4Values
    <2>3. pc = [p \in Queries \cup {Main} |-> pc[p]]
      BY DEF Q4Inv, Q4Types, Places
    <2>4. QED
      BY <2>2, <2>3 DEF DoJob, Steps, given, locked
  <1>2. mem[q] \in Nat /\ mem_free \in Int /\ mem_using \in Int /\ n_free \in Int /\ reg[q] \in Int
    BY DEF Q4Inv, Q4Types, Numbers, Places, Locking, Q4Given
  <1>3. Active(q) /\ Active(q)' /\ q # holder
    BY <1>1 DEF Active, Q4Inv, Q4Types, Numbers, Places, Locking, AtWork
  <1>4. Q4Types'
    <2>1. Numbers'
      BY <1>1, <1>2, <1>3 DEF Q4Inv, Q4Types, Numbers, Q4Given
    <2>2. Places'
      BY <1>1, <1>2, <1>3 DEF Q4Inv, Q4Types, Places, AtWork, Q4Places
    <2>3. Locking'
      BY <1>1, <1>2, <1>3 DEF Q4Inv, Q4Types, Locking, Places, AtWork
    <2>4. QED
      BY <1>1, <1>2, <1>3, <2>1, <2>2, <2>3 DEF Q4Inv, Q4Types, Numbers, Places, Locking, Q4Given
  <1>5. SlotTaken' = SlotTaken /\ (pc'[holder] = pc[holder] \/ holder = Nobody)
    BY <1>1, <1>3 DEF SlotTaken, Q4Inv, Q4Types, Numbers, Places, Locking
  <1>6. SlotsKept'
    <2>1. CASE pc[q] = "answer"
      <3>1. q \in Answering /\ Answering' = Answering \ {q} /\ n_free' = n_free + 1
        BY <1>1, <2>1 DEF Answering
      <3>2. Cardinality(Answering') = Cardinality(Answering) - 1 /\ Cardinality(Answering) \in Nat
        BY <3>1, FiniteQueries, FS_RemoveElement DEF Answering
      <3>3. QED
        BY <1>1, <1>2, <1>5, <3>1, <3>2 DEF Q4Inv, SlotsKept
    <2>2. CASE pc[q] # "answer"
      <3>1. Answering' = Answering /\ n_free' = n_free
        BY <1>1, <2>2 DEF Answering
      <3>2. QED
        BY <1>1, <1>2, <1>5, <3>1 DEF Q4Inv, SlotsKept
    <2>3. QED
      BY <2>1, <2>2
  <1>7. UsingKept'
    <2>1. CASE pc[q] = "using"
      <3>1. q \in Using /\ Using' = Using \ {q} /\ mem_using' = mem_using - mem[q]
        BY <1>1, <2>1 DEF Using
      <3>2. QED
        BY <1>1, <3>1, UnitsChange DEF Q4Inv, Q4Types, Numbers, Places, Locking
    <2>2. CASE pc[q] # "using"
      <3>1. Using' = Using /\ mem_using' = mem_using
        BY <1>1, <2>2 DEF Using
      <3>2. QED
        BY <1>1, <3>1, SameUsing DEF Q4Inv
    <2>3. QED
      BY <2>1, <2>2
  <1>8. JobsSeen'
    BY <1>3 DEF JobsSeen, SomeoneActive
  <1>9. JobsKept'
    BY <1>1, JobsStayKept DEF Q4Inv
  <1>10. QED
    BY <1>4, <1>6, <1>7, <1>8, <1>9 DEF Q4Inv

\* Every step.
LEMMA Q4InvNext == Q4Inv /\ [Q4Next]_q4Vars => Q4Inv'
  <1> SUFFICES ASSUME Q4Inv, [Q4Next]_q4Vars PROVE Q4Inv'
    OBVIOUS
  <1>1. CASE UNCHANGED q4Vars
    <2>1. UNCHANGED <<tag, mem, jobs, n_free, mem_free, mem_using, holder, rest, pc, reg>>
      BY <1>1 DEF q4Vars, given, locked
    <2>2. Q4Types'
      BY <2>1 DEF Q4Inv, Q4Types, Numbers, Places, Locking, Q4Given
    <2>3. SlotsKept'
      BY <2>1 DEF Q4Inv, SlotsKept, SlotTaken, Answering
    <2>4. UsingKept'
      BY <2>1, SameUsing DEF Q4Inv, Using
    <2>5. JobsSeen'
      BY <2>1 DEF Q4Inv, JobsSeen, SomeoneActive, Active
    <2>6. JobsKept'
      BY <2>1, JobsStayKept DEF Q4Inv
    <2>7. QED
      BY <2>2, <2>3, <2>4, <2>5, <2>6 DEF Q4Inv
  <1>2. QED
    BY <1>1, LockStep, PassJobStep, TakeThreadStep, TakeMemoryStep, StartJobStep,
       NextJobStep, UnlockStep, DoJobStep DEF Q4Next

\* What the property asks for follows: with no active thread nobody has a slot
\* or memory, and no job fits.
LEMMA Q4InvServes == Q4Inv => JobsServed
  <1> SUFFICES ASSUME Q4Inv PROVE JobsServed
    OBVIOUS
  <1> USE Q4Names
  <1>1. Cardinality(Answering) <= NThread
    <2>1. n_free \in Int /\ n_free >= 0 /\ Cardinality(Answering) \in Nat
      BY AnsweringCount DEF Q4Inv, SlotsKept, Q4Types, Numbers
    <2>2. \E d \in {0, 1} : n_free + Cardinality(Answering) + d = NThread
      BY DEF Q4Inv, SlotsKept
    <2>3. QED
      BY <2>1, <2>2
  <1>2. ASSUME \A q \in DOMAIN pc : pc[q] \in {"no thread", "done"}
        PROVE  /\ n_free = NThread /\ mem_using = 0
               /\ \A q \in jobs : mem[q] >= mem_free
               /\ \A q \in Queries : \E p \in jobs \cup {p \in Queries : pc[p] = "done"} : tag[p] = tag[q]
    <2>1. \A q \in Queries \cup {Main} : pc[q] \in {"no thread", "done"}
      BY <1>2 DEF Q4Inv, Q4Types, Numbers, Places, Locking
    <2>2. holder = Nobody
      BY <2>1 DEF Q4Inv, Q4Types, Numbers, Places, Locking, AtWork
    <2>3. n_free = NThread
      <3>1. Answering = {} /\ ~ SlotTaken
        BY <2>1, <2>2 DEF Answering, SlotTaken
      <3>2. QED
        BY <3>1, FS_EmptySet DEF Q4Inv, SlotsKept, Q4Types, Numbers
    <2>4. mem_using = 0
      <3>1. Using = {}
        BY <2>1 DEF Using
      <3>2. UnitsInUse = {}
        BY <3>1 DEF UnitsInUse
      <3>3. QED
        BY <3>2, FS_EmptySet DEF Q4Inv, UsingKept
    <2>5. ~ SomeoneActive
      BY <2>1 DEF SomeoneActive, Active
    <2>6. \A q \in jobs : q \in Queries /\ mem[q] \in Nat /\ mem_free \in Int
      BY DEF Q4Inv, Q4Types, Numbers, Places, Locking, Q4Given
    <2>7. \A q \in jobs : mem[q] >= mem_free
      <3>1. rest = {}
        BY <2>2 DEF Q4Inv, Q4Types, Locking
      <3>2. QED
        BY <2>5, <2>6, <3>1 DEF Q4Inv, JobsSeen
    <2>8. ASSUME NEW q \in Queries
          PROVE  \E p \in jobs \cup {p \in Queries : pc[p] = "done"} : tag[p] = tag[q]
      BY <2>1 DEF Q4Inv, JobsKept, JobOf
    <2>9. QED
      BY <2>3, <2>4, <2>7, <2>8
  <1>3. QED
    BY <1>1, <1>2 DEF JobsServed, Answering

\* The invariant of q4Scheduler.h holds throughout.
THEOREM Q4Inductive == Q4Spec => []Q4Inv
  BY Q4InvInit, Q4InvNext, PTL DEF Q4Spec

-----------------------------------------------------------------------------
(* SigmodAllocator: the invariant.                                         *)

\* What the detached threads of the allocator are.
AllocatorThreads == [id : Clients, call : Nat, at : {"insert", "schedule"}, reg : Int]

\* What the variables are.
AllocatorTypes ==
    /\ nr_threads \in Nat
    /\ size \in [Clients -> Nat \ {0}]
    /\ depth \in [Clients -> Nat]
    /\ calls \in [Clients -> Nat]
    /\ blocked \subseteq Clients
    /\ threads \subseteq AllocatorThreads
    /\ waiting \subseteq [id : Clients, mem_size : Nat, call : Nat]
    /\ IsFiniteSet(waiting)
    /\ freeSlots \in Nat

\* How far the clients are; who waits or has failed is between enter and exit.
Progress ==
    /\ \A c \in Clients : calls[c] <= LastCall(c)
    /\ \A c \in blocked : calls[c] > 0 /\ calls[c] < LastCall(c)

\* What the clients have can be counted.
Having == [c \in Clients |-> Blocks(c)]
ReserveInv == IsFiniteSet(Units(Having)) /\ ReserveKept

SlotsInv == IsFiniteSet(Inside) /\ IsFiniteSet(failed) /\ SlotsAccounted

AllocatorInv == AllocatorTypes /\ OneEach /\ Progress /\ ReserveInv /\ SlotsInv

-----------------------------------------------------------------------------
(* SigmodAllocator: the order of the acquisitions, and what is let on.     *)

\* The order of acquisitions of different clients is one, so that one is the last.
LEMMA LastOne ==
    ASSUME NEW S, IsFiniteSet(S), S # {},
           S \subseteq [id : Clients, mem_size : Nat, call : Nat],
           \A a, b \in S : a.id = b.id => a = b
    PROVE  \E a \in S : \A b \in S \ {a} : Before(b, a)
  <1> DEFINE R == {p \in S \X S : Before(p[1], p[2])}
  <1>1. \A a, b \in S : <<a, b>> \in R <=> Before(a, b)
    OBVIOUS
  <1>2. \A b \in S : b.mem_size \in Nat /\ b.id \in Nat
    BY ClientsAreNat
  <1> HIDE DEF R
  <1>3. Orders(R, S)
    <2>1. \A a \in S : <<a, a>> \notin R
      BY <1>1, <1>2 DEF Before
    <2>2. \A a, b \in S : a # b => <<a, b>> \in R \/ <<b, a>> \in R
      BY <1>1, <1>2 DEF Before
    <2>3. \A a, b, c \in S : <<a, b>> \in R /\ <<b, c>> \in R => <<a, c>> \in R
      BY <1>1, <1>2 DEF Before
    <2>4. QED
      BY <2>1, <2>2, <2>3 DEF Orders
  <1>4. QED
    BY <1>1, <1>3, FirstAndLast

\* schedule lets no more on than there are slots.
LEMMA GrantsHaveSlots ==
    ASSUME AllocatorTypes, OneEach, NEW granted \in Grants
    PROVE  /\ granted \subseteq waiting /\ IsFiniteSet(granted)
           /\ Cardinality(granted) \in Nat /\ Cardinality(granted) <= freeSlots
  <1>1. granted \subseteq waiting /\ \A a \in granted : LetsOn(granted, a)
    BY DEF Grants
  <1>2. IsFiniteSet(granted) /\ Cardinality(granted) \in Nat /\ freeSlots \in Nat
    BY <1>1, FS_Subset, FS_CardinalityType DEF AllocatorTypes
  <1>3. CASE granted = {}
    BY <1>1, <1>2, <1>3, FS_EmptySet
  <1>4. CASE granted # {}
    <2>1. /\ granted \subseteq [id : Clients, mem_size : Nat, call : Nat]
          /\ \A a, b \in granted : a.id = b.id => a = b
      BY <1>1 DEF AllocatorTypes, OneEach
    <2>2. PICK a \in granted : \A b \in granted \ {a} : Before(b, a)
      BY <1>2, <1>4, <2>1, LastOne
    <2>3. Cardinality(Earlier(granted, a)) < freeSlots
      BY <1>1 DEF LetsOn
    <2>4. IsFiniteSet(Earlier(granted, a)) /\ granted \ {a} \subseteq Earlier(granted, a)
      BY <1>2, <2>2, FS_Subset DEF Earlier
    <2>5. Cardinality(granted \ {a}) <= Cardinality(Earlier(granted, a))
      BY <2>4, FS_Subset
    <2>6. Cardinality(granted \ {a}) = Cardinality(granted) - 1
      BY <1>2, FS_RemoveElement
    <2>7. Cardinality(Earlier(granted, a)) \in Nat
      BY <2>4, FS_CardinalityType
    <2>8. QED
      BY <1>1, <1>2, <2>3, <2>5, <2>6, <2>7
  <1>5. QED
    BY <1>3, <1>4

\* As many clients go on as acquisitions leave the set.
LEMMA AsManyClients ==
    ASSUME AllocatorTypes, OneEach, NEW S \in SUBSET waiting
    PROVE  /\ IsFiniteSet({a.id : a \in S})
           /\ Cardinality({a.id : a \in S}) = Cardinality(S)
  <1> DEFINE ids == {a.id : a \in S}
             f == [a \in S |-> a.id]
  <1>1. IsFiniteSet(S)
    BY FS_Subset DEF AllocatorTypes
  <1>2. f \in Bijection(S, ids)
    <2>1. f \in Injection(S, ids)
      BY DEF OneEach, Injection, IsInjective
    <2>2. f \in Surjection(S, ids)
      BY DEF Surjection
    <2>3. QED
      BY <2>1, <2>2 DEF Bijection
  <1> HIDE DEF f, ids
  <1>3. ExistsBijection(S, ids)
    BY <1>2 DEF ExistsBijection
  <1>4. IsFiniteSet(ids) /\ Cardinality(S) = Cardinality(ids)
    BY <1>1, <1>3, FS_Bijection
  <1>5. QED
    BY <1>4 DEF ids

-----------------------------------------------------------------------------
(* SigmodAllocator: the steps.                                             *)

\* In the beginning all slots are free and nobody has anything.
LEMMA AllocatorInvInit == AllocatorInit => AllocatorInv
  <1> SUFFICES ASSUME AllocatorInit PROVE AllocatorInv
    OBVIOUS
  <1> USE DEF AllocatorInit, AcquisitionsInit
  <1>1. AllocatorTypes
    <2>1. /\ size \in [Clients -> Nat \ {0}] /\ depth \in [Clients -> Nat]
          /\ nr_threads \in Nat
      BY AcquisitionsAssumption
    <2>2. IsFiniteSet(waiting)
      BY FS_EmptySet
    <2>3. QED
      BY <2>1, <2>2 DEF AllocatorTypes
  <1>2. OneEach
    BY DEF OneEach, Asks
  <1>3. Progress
    <2>1. ASSUME NEW c \in Clients PROVE calls[c] <= LastCall(c)
      BY <1>1 DEF AllocatorTypes, LastCall
    <2>2. QED
      BY <2>1 DEF Progress
  <1>4. ReserveInv
    <2>1. \A c \in Clients : Blocks(c) = 0
      BY DEF Blocks
    <2>2. Units(Having) = {}
      BY <2>1 DEF Units, Having
    <2>3. IsFiniteSet(Units(Having)) /\ Cardinality(Units(Having)) = 0
      BY <2>2, FS_EmptySet
    <2>4. QED
      BY <2>3 DEF ReserveInv, ReserveKept, Allocated, Having
  <1>5. SlotsInv
    <2>1. Inside = {} /\ failed = {}
      BY DEF Inside
    <2>2. QED
      BY <1>1, <2>1, FS_EmptySet DEF SlotsInv, SlotsAccounted, AllocatorTypes
  <1>6. QED
    BY <1>1, <1>2, <1>3, <1>4, <1>5 DEF AllocatorInv

\* What a client of depth d has after k calls.
LEMMA NumberOfBlocks ==
    ASSUME NEW k \in Nat, NEW d \in Nat, k <= 2 * d + 2
    PROVE  LET got == (IF k > d + 1 THEN d + 1 ELSE k) - 1
               back == IF k = 2 * d + 2 THEN d ELSE k - (d + 1)
               has == IF k = 0 THEN 0 ELSE IF back < 0 THEN got ELSE got - back
           IN /\ has \in Nat
              /\ has = IF k = 0 THEN 0
                       ELSE IF k <= d + 1 THEN k - 1
                       ELSE IF k = 2 * d + 2 THEN 0
                       ELSE 2 * d + 1 - k
  <1>1. CASE k = 0
    BY <1>1
  <1>2. CASE k > 0 /\ k <= d
    BY <1>2
  <1>3. CASE k = d + 1
    BY <1>3
  <1>4. CASE k > d + 1 /\ k < 2 * d + 2
    BY <1>4
  <1>5. CASE k = 2 * d + 2
    BY <1>5
  <1>6. QED
    BY <1>1, <1>2, <1>3, <1>4, <1>5

\* The calls of the clients, where they are, bound the blocks that they have.
LEMMA BlocksOf ==
    ASSUME AllocatorTypes, Progress, NEW c \in Clients
    PROVE  /\ calls[c] \in Nat /\ depth[c] \in Nat /\ calls[c] <= 2 * depth[c] + 2
           /\ Blocks(c) = IF calls[c] = 0 THEN 0
                          ELSE IF calls[c] <= depth[c] + 1 THEN calls[c] - 1
                          ELSE IF calls[c] = 2 * depth[c] + 2 THEN 0
                          ELSE 2 * depth[c] + 1 - calls[c]
           /\ Blocks(c) \in Nat
  <1>1. calls[c] \in Nat /\ depth[c] \in Nat /\ calls[c] <= 2 * depth[c] + 2
    BY DEF AllocatorTypes, Progress, LastCall
  <1>2. /\ Blocks(c) = IF calls[c] = 0 THEN 0
                       ELSE IF calls[c] <= depth[c] + 1 THEN calls[c] - 1
                       ELSE IF calls[c] = 2 * depth[c] + 2 THEN 0
                       ELSE 2 * depth[c] + 1 - calls[c]
        /\ Blocks(c) \in Nat
    BY <1>1, NumberOfBlocks DEF Blocks, LastAlloc, LastCall
  <1>3. QED
    BY <1>1, <1>2

\* A step after which everyone has what it had.
LEMMA NothingTaken ==
    ASSUME ReserveInv, UNCHANGED size, \A c \in Clients : Blocks(c)' = Blocks(c)
    PROVE  ReserveInv'
  <1> PICK g : g = Having'
    OBVIOUS
  <1>1. Units(Having)' = Units(g)
    BY DEF Units
  <1>2. \A c \in Clients : g[c] = Having[c]
    BY DEF Having
  <1>3. Units(g) = Units(Having)
    BY <1>2, UnitsSame
  <1>4. Allocated = Cardinality(Units(Having)) /\ Allocated' = Cardinality(Units(Having)')
    BY DEF Allocated, Having
  <1>5. QED
    BY <1>1, <1>3, <1>4 DEF ReserveInv, ReserveKept

\* One client gets a block, ...
LEMMA BlockTaken ==
    ASSUME ReserveInv, UNCHANGED size, size \in [Clients -> Nat \ {0}], NEW c \in Clients,
           Blocks(c) \in Nat, Blocks(c)' = Blocks(c) + 1, HasMemory(c),
           \A d \in Clients : d # c => Blocks(d)' = Blocks(d)
    PROVE  ReserveInv'
  <1> PICK g : g = Having'
    OBVIOUS
  <1>1. Units(Having)' = Units(g)
    BY DEF Units
  <1>2. \A d \in Clients : d # c => g[d] = Having[d]
    BY DEF Having
  <1>3. Having[c] \in Nat /\ g[c] = Having[c] + 1
    BY DEF Having
  <1>4. size \in [Clients -> Nat] /\ size[c] \in Nat \ {0}
    OBVIOUS
  <1>5. /\ IsFiniteSet(Units(g))
        /\ Cardinality(Units(g)) = Cardinality(Units(Having)) + size[c]
    BY <1>2, <1>3, <1>4, UnitsAdd DEF ReserveInv
  <1>6. Allocated = Cardinality(Units(Having)) /\ Allocated' = Cardinality(Units(Having)')
    BY DEF Allocated, Having
  <1>7. Allocated \in Nat
    BY <1>6, FS_CardinalityType DEF ReserveInv
  <1>8. Memory \in Nat /\ ReserveMemory \in Nat
    BY AcquisitionsAssumption, AllocatorAssumption
  <1>9. Allocated' + ReserveMemory <= Memory
    <2>1. Allocated' = Allocated + size[c]
      BY <1>1, <1>5, <1>6
    <2>2. size[c] + ReserveMemory <= IF Memory < Allocated THEN 0 ELSE Memory - Allocated
      BY DEF HasMemory, get_fake_free_mem
    <2>3. QED
      BY <1>4, <1>7, <1>8, <2>1, <2>2
  <1>10. QED
    BY <1>1, <1>5, <1>9 DEF ReserveInv, ReserveKept

\* ... or gives one back.
LEMMA BlockBack ==
    ASSUME ReserveInv, UNCHANGED size, size \in [Clients -> Nat \ {0}], NEW c \in Clients,
           Blocks(c)' \in Nat, Blocks(c) = Blocks(c)' + 1,
           \A d \in Clients : d # c => Blocks(d)' = Blocks(d)
    PROVE  ReserveInv'
  <1> PICK g : g = Having'
    OBVIOUS
  <1>1. Units(Having)' = Units(g)
    BY DEF Units
  <1>2. \A d \in Clients : d # c => Having[d] = g[d]
    BY DEF Having
  <1>3. g[c] \in Nat /\ Having[c] = g[c] + 1
    BY DEF Having
  <1>4. size \in [Clients -> Nat] /\ size[c] \in Nat \ {0}
    OBVIOUS
  <1>5. /\ IsFiniteSet(Units(g))
        /\ Cardinality(Units(Having)) = Cardinality(Units(g)) + size[c]
    BY <1>2, <1>3, <1>4, UnitsAdd DEF ReserveInv
  <1>6. Allocated = Cardinality(Units(Having)) /\ Allocated' = Cardinality(Units(Having)')
    BY DEF Allocated, Having
  <1>7. Allocated' \in Nat /\ Allocated = Allocated' + size[c]
    BY <1>1, <1>5, <1>6, FS_CardinalityType
  <1>8. Memory \in Nat /\ ReserveMemory \in Nat
    BY AcquisitionsAssumption, AllocatorAssumption
  <1>9. Allocated = 0 \/ Allocated + ReserveMemory <= Memory
    BY DEF ReserveInv, ReserveKept
  <1>10. Allocated' = 0 \/ Allocated' + ReserveMemory <= Memory
    <2> DEFINE n == Allocated'
               m == Allocated
               s == size[c]
    <2>1. n \in Nat /\ s \in Nat /\ m = n + s /\ (m = 0 \/ m + ReserveMemory <= Memory)
      BY <1>4, <1>7, <1>9
    <2> HIDE DEF n, m, s
    <2>2. n = 0 \/ n + ReserveMemory <= Memory
      BY <2>1, <1>8
    <2>3. QED
      BY <2>2 DEF n
  <1>11. QED
    BY <1>1, <1>5, <1>10 DEF ReserveInv, ReserveKept

\* Blocks depend on the calls and the depth only.
LEMMA BlocksSame ==
    ASSUME UNCHANGED depth, NEW d \in Clients, calls'[d] = calls[d]
    PROVE  Blocks(d)' = Blocks(d)
  BY DEF Blocks, LastAlloc, LastCall

\* The same after a step, of the calls and the depth then.
LEMMA BlocksOfNext ==
    ASSUME AllocatorTypes', Progress', NEW c \in Clients
    PROVE  /\ calls'[c] \in Nat /\ depth'[c] \in Nat
           /\ Blocks(c)' = IF calls'[c] = 0 THEN 0
                           ELSE IF calls'[c] <= depth'[c] + 1 THEN calls'[c] - 1
                           ELSE IF calls'[c] = 2 * depth'[c] + 2 THEN 0
                           ELSE 2 * depth'[c] + 1 - calls'[c]
           /\ Blocks(c)' \in Nat
  <1>1. calls'[c] \in Nat /\ depth'[c] \in Nat /\ calls'[c] <= 2 * depth'[c] + 2
    BY DEF AllocatorTypes, Progress, LastCall
  <1>2. QED
    BY <1>1, NumberOfBlocks DEF Blocks, LastAlloc, LastCall

\* A client that goes to wait asks, when nothing of it is under way.
LEMMA WaitingStep ==
    ASSUME AllocatorTypes, OneEach, NEW c \in Clients, c \notin blocked,
           blocked' = blocked \cup {c}, threads' = threads \cup {Thread(c, "insert")},
           UNCHANGED waiting
    PROVE  OneEach' /\ threads' \subseteq AllocatorThreads
  <1> DEFINE new == Thread(c, "insert")
  <1>1. new.id = c /\ new.at = "insert" /\ new \in AllocatorThreads
    BY DEF Thread, AllocatorTypes, AllocatorThreads
  <1> HIDE DEF new
  <1>2. threads' = threads \cup {new}
    BY DEF new
  <1>3. Asks' = Asks \cup {new}
    BY <1>1, <1>2 DEF Asks
  <1>4. OneEach'
    BY <1>1, <1>3 DEF OneEach
  <1>5. QED
    BY <1>1, <1>2, <1>4 DEF AllocatorTypes

\* What becomes of the clients that wait and of those inside when the call of one
\* that runs is made.
LEMMA CallStep ==
    ASSUME AllocatorTypes, Progress, NEW c \in Clients, c \notin blocked, Called(c),
           UNCHANGED depth, calls[c] < LastCall(c)
    PROVE  /\ calls' \in [Clients -> Nat] /\ calls'[c] = calls[c] + 1
           /\ \A d \in Clients : d # c => calls'[d] = calls[d]
           /\ \A d \in Clients : calls'[d] <= LastCall(d)'
           /\ \A d \in blocked : calls'[d] > 0 /\ calls'[d] < LastCall(d)'
  <1>1. calls \in [Clients -> Nat] /\ depth \in [Clients -> Nat]
    BY DEF AllocatorTypes
  <1>2. /\ calls' \in [Clients -> Nat] /\ calls'[c] = calls[c] + 1
        /\ \A d \in Clients : d # c => calls'[d] = calls[d]
    BY <1>1 DEF Called
  <1>3. \A d \in Clients : LastCall(d)' = LastCall(d) /\ LastCall(d) \in Nat
    BY <1>1 DEF LastCall
  <1>4. calls'[c] <= LastCall(c)'
    BY <1>1, <1>2, <1>3
  <1>5. ASSUME NEW d \in Clients PROVE calls'[d] <= LastCall(d)'
    BY <1>2, <1>3, <1>4 DEF Progress
  <1>6. ASSUME NEW d \in blocked PROVE calls'[d] > 0 /\ calls'[d] < LastCall(d)'
    <2>1. d \in Clients /\ d # c
      BY DEF AllocatorTypes
    <2>2. QED
      BY <1>2, <1>3, <2>1 DEF Progress
  <1>7. QED
    BY <1>2, <1>5, <1>6

\* The slots are accounted for as long as the same clients are inside, ...
LEMMA SameInside ==
    ASSUME SlotsInv, Inside' = Inside, UNCHANGED <<nr_threads, freeSlots, failed>>
    PROVE  SlotsInv'
  BY DEF SlotsInv, SlotsAccounted

\* ... one fails, and is not inside any more, ...
LEMMA OneFails ==
    ASSUME SlotsInv, freeSlots \in Nat, NEW c, c \in Inside, c \notin failed,
           Inside' = Inside \ {c}, failed' = failed \cup {c}, UNCHANGED <<nr_threads, freeSlots>>
    PROVE  SlotsInv'
  <1>1. /\ IsFiniteSet(Inside) /\ IsFiniteSet(failed)
        /\ freeSlots + Cardinality(Inside) + Cardinality(failed) = nr_threads
    BY DEF SlotsInv, SlotsAccounted
  <1>2. /\ IsFiniteSet(Inside \ {c})
        /\ Cardinality(Inside \ {c}) = Cardinality(Inside) - 1
    BY <1>1, FS_RemoveElement
  <1>3. /\ IsFiniteSet(failed \cup {c})
        /\ Cardinality(failed \cup {c}) = Cardinality(failed) + 1
    BY <1>1, FS_AddElement
  <1>4. Cardinality(Inside) \in Nat /\ Cardinality(failed) \in Nat
    BY <1>1, FS_CardinalityType
  <1>5. freeSlots' + Cardinality(Inside') + Cardinality(failed') = nr_threads'
    BY <1>1, <1>2, <1>3, <1>4
  <1>6. QED
    BY <1>2, <1>3, <1>5 DEF SlotsInv, SlotsAccounted

\* ... or one leaves, or gives its slot back after it has failed.
LEMMA OneLess ==
    ASSUME SlotsInv, freeSlots \in Nat, NEW c, freeSlots' = freeSlots + 1, UNCHANGED nr_threads,
           \/ c \in Inside /\ Inside' = Inside \ {c} /\ UNCHANGED failed
           \/ c \in failed /\ failed' = failed \ {c} /\ Inside' = Inside
    PROVE  SlotsInv'
  <1>1. /\ IsFiniteSet(Inside) /\ IsFiniteSet(failed)
        /\ freeSlots + Cardinality(Inside) + Cardinality(failed) = nr_threads
    BY DEF SlotsInv, SlotsAccounted
  <1>2. /\ IsFiniteSet(Inside \ {c})
        /\ c \in Inside => Cardinality(Inside \ {c}) = Cardinality(Inside) - 1
    BY <1>1, FS_RemoveElement
  <1>3. /\ IsFiniteSet(failed \ {c})
        /\ c \in failed => Cardinality(failed \ {c}) = Cardinality(failed) - 1
    BY <1>1, FS_RemoveElement
  <1>4. Cardinality(Inside) \in Nat /\ Cardinality(failed) \in Nat
    BY <1>1, FS_CardinalityType
  <1>5. IsFiniteSet(Inside') /\ IsFiniteSet(failed')
    BY <1>1, <1>2, <1>3
  <1>6. freeSlots' + Cardinality(Inside') + Cardinality(failed') = nr_threads'
    BY <1>1, <1>2, <1>3, <1>4
  <1>7. QED
    BY <1>5, <1>6 DEF SlotsInv, SlotsAccounted

\* enter: the client waits at once.
LEMMA EnterKeeps == ASSUME AllocatorInv, NEW c \in Clients, Enter(c) PROVE AllocatorInv'
  <1>0. /\ AllocatorTypes /\ OneEach /\ Progress /\ ReserveInv /\ SlotsInv
        /\ depth[c] \in Nat /\ calls[c] = 0
    BY DEF AllocatorInv, AllocatorTypes, Enter
  <1>1. /\ c \notin blocked /\ blocked' = blocked \cup {c}
        /\ threads' = threads \cup {Thread(c, "insert")}
        /\ Called(c) /\ UNCHANGED <<nr_threads, size, depth, waiting, freeSlots, failed>>
    BY DEF Enter, Runs
  <1>2. OneEach' /\ threads' \subseteq AllocatorThreads
    BY <1>0, <1>1, WaitingStep
  <1>3. /\ calls' \in [Clients -> Nat] /\ calls'[c] = 1
        /\ \A d \in Clients : d # c => calls'[d] = calls[d]
        /\ \A d \in Clients : calls'[d] <= LastCall(d)'
        /\ \A d \in blocked : calls'[d] > 0 /\ calls'[d] < LastCall(d)'
    <2>1. calls[c] < LastCall(c)
      BY <1>0 DEF LastCall
    <2>2. QED
      BY <1>0, <1>1, <2>1, CallStep
  <1>4. AllocatorTypes'
    BY <1>0, <1>1, <1>2, <1>3 DEF AllocatorTypes
  <1>5. Progress'
    <2>1. LastCall(c)' > 1
      BY <1>0, <1>1 DEF LastCall
    <2>2. QED
      BY <1>1, <1>3, <2>1 DEF Progress
  <1>6. ReserveInv'
    <2>1. Blocks(c) = 0 /\ Blocks(c)' = 0
      <3>1. Blocks(c) = 0
        BY <1>0 DEF Blocks
      <3>2. Blocks(c)' = 0
        BY <1>3, <1>4, <1>5, BlocksOfNext
      <3>3. QED
        BY <3>1, <3>2
    <2>2. \A d \in Clients : d # c => Blocks(d)' = Blocks(d)
      BY <1>1, <1>3, BlocksSame
    <2>3. QED
      BY <1>0, <1>1, <2>1, <2>2, NothingTaken
  <1>7. SlotsInv'
    <2>1. \A d \in Clients : LastCall(d)' = LastCall(d)
      BY <1>1 DEF LastCall
    <2>2. Inside' = Inside
      BY <1>0, <1>1, <1>3, <2>1 DEF Inside
    <2>3. QED
      BY <1>0, <1>1, <2>2, SameInside
  <1>8. QED
    BY <1>2, <1>4, <1>5, <1>6, <1>7 DEF AllocatorInv

\* alloc that finds memory: a block more.
LEMMA AllocSucceedsKeeps ==
    ASSUME AllocatorInv, NEW c \in Clients, AllocSucceeds(c) PROVE AllocatorInv'
  <1>0. /\ AllocatorTypes /\ OneEach /\ Progress /\ ReserveInv /\ SlotsInv
        /\ depth[c] \in Nat /\ calls[c] \in Nat /\ calls[c] > 0 /\ calls[c] <= depth[c]
    BY DEF AllocatorInv, AllocatorTypes, AllocSucceeds, Allocating
  <1>1. /\ c \notin blocked /\ HasMemory(c) /\ Called(c)
        /\ UNCHANGED <<nr_threads, size, depth, blocked, threads, waiting, freeSlots, failed>>
    BY DEF AllocSucceeds, Allocating, Runs
  <1>2. OneEach'
    BY <1>0, <1>1 DEF OneEach, Asks
  <1>3. /\ calls' \in [Clients -> Nat] /\ calls'[c] = calls[c] + 1
        /\ \A d \in Clients : d # c => calls'[d] = calls[d]
        /\ \A d \in Clients : calls'[d] <= LastCall(d)'
        /\ \A d \in blocked : calls'[d] > 0 /\ calls'[d] < LastCall(d)'
    <2>1. calls[c] < LastCall(c)
      BY <1>0 DEF LastCall
    <2>2. QED
      BY <1>0, <1>1, <2>1, CallStep
  <1>4. AllocatorTypes'
    BY <1>0, <1>1, <1>3 DEF AllocatorTypes
  <1>5. Progress'
    BY <1>1, <1>3 DEF Progress
  <1>6. ReserveInv'
    <2>1. Blocks(c) = calls[c] - 1
      BY <1>0, BlocksOf
    <2>2. Blocks(c)' = calls[c]
      <3>1. depth'[c] = depth[c]
        BY <1>1
      <3>2. QED
        BY <1>0, <1>3, <1>4, <1>5, <3>1, BlocksOfNext
    <2>3. \A d \in Clients : d # c => Blocks(d)' = Blocks(d)
      BY <1>1, <1>3, BlocksSame
    <2>4. size \in [Clients -> Nat \ {0}]
      BY <1>0 DEF AllocatorTypes
    <2>5. QED
      BY <1>0, <1>1, <2>1, <2>2, <2>3, <2>4, BlockTaken
  <1>7. SlotsInv'
    <2>1. \A d \in Clients : LastCall(d)' = LastCall(d)
      BY <1>1 DEF LastCall
    <2>2. calls'[c] > 0 /\ calls'[c] < LastCall(c) /\ calls[c] < LastCall(c)
      BY <1>0, <1>3 DEF LastCall
    <2>3. Inside' = Inside
      BY <1>0, <1>1, <1>3, <2>1, <2>2 DEF Inside
    <2>4. QED
      BY <1>0, <1>1, <2>3, SameInside
  <1>8. QED
    BY <1>2, <1>4, <1>5, <1>6, <1>7 DEF AllocatorInv

\* dealloc: a block less.
LEMMA DeallocKeeps ==
    ASSUME AllocatorInv, NEW c \in Clients, Dealloc(c) PROVE AllocatorInv'
  <1>0. /\ AllocatorTypes /\ OneEach /\ Progress /\ ReserveInv /\ SlotsInv
        /\ depth[c] \in Nat /\ calls[c] \in Nat
        /\ calls[c] > depth[c] /\ calls[c] <= 2 * depth[c]
    <2>1. AllocatorTypes
      BY DEF AllocatorInv
    <2>2. depth[c] \in Nat /\ calls[c] \in Nat
      BY <2>1 DEF AllocatorTypes
    <2>3. calls[c] \in LastAlloc(c) .. LastCall(c) - 2
      BY DEF Dealloc
    <2>4. calls[c] > depth[c] /\ calls[c] <= 2 * depth[c]
      BY <2>2, <2>3 DEF LastAlloc, LastCall
    <2>5. QED
      BY <2>2, <2>4 DEF AllocatorInv
  <1>1. /\ c \notin blocked /\ Called(c)
        /\ UNCHANGED <<nr_threads, size, depth, blocked, threads, waiting, freeSlots, failed>>
    BY DEF Dealloc, Runs
  <1>2. OneEach'
    BY <1>0, <1>1 DEF OneEach, Asks
  <1>3. /\ calls' \in [Clients -> Nat] /\ calls'[c] = calls[c] + 1
        /\ \A d \in Clients : d # c => calls'[d] = calls[d]
        /\ \A d \in Clients : calls'[d] <= LastCall(d)'
        /\ \A d \in blocked : calls'[d] > 0 /\ calls'[d] < LastCall(d)'
    <2>1. calls[c] < LastCall(c)
      BY <1>0 DEF LastCall
    <2>2. QED
      BY <1>0, <1>1, <2>1, CallStep
  <1>4. AllocatorTypes'
    BY <1>0, <1>1, <1>3 DEF AllocatorTypes
  <1>5. Progress'
    BY <1>1, <1>3 DEF Progress
  <1>6. ReserveInv'
    <2>1. Blocks(c) = 2 * depth[c] + 1 - calls[c]
      BY <1>0, BlocksOf
    <2>2. Blocks(c)' = 2 * depth[c] - calls[c]
      <3>1. depth'[c] = depth[c]
        BY <1>1
      <3>2. QED
        BY <1>0, <1>3, <1>4, <1>5, <3>1, BlocksOfNext
    <2>3. \A d \in Clients : d # c => Blocks(d)' = Blocks(d)
      BY <1>1, <1>3, BlocksSame
    <2>4. size \in [Clients -> Nat \ {0}]
      BY <1>0 DEF AllocatorTypes
    <2>5. Blocks(c)' \in Nat /\ Blocks(c) = Blocks(c)' + 1
      BY <1>0, <2>1, <2>2
    <2>6. QED
      BY <1>0, <1>1, <2>3, <2>4, <2>5, BlockBack
  <1>7. SlotsInv'
    <2>1. \A d \in Clients : LastCall(d)' = LastCall(d)
      BY <1>1 DEF LastCall
    <2>2. calls[c] > 0 /\ calls'[c] > 0 /\ calls'[c] < LastCall(c) /\ calls[c] < LastCall(c)
      BY <1>0, <1>3 DEF LastCall
    <2>3. Inside' = Inside
      BY <1>0, <1>1, <1>3, <2>1, <2>2 DEF Inside
    <2>4. QED
      BY <1>0, <1>1, <2>3, SameInside
  <1>8. QED
    BY <1>2, <1>4, <1>5, <1>6, <1>7 DEF AllocatorInv

\* Steps after which everyone has made the same calls.
LEMMA SameCalls ==
    ASSUME AllocatorInv, UNCHANGED <<size, depth, calls>>
    PROVE  ReserveInv' /\ \A c \in Clients : LastCall(c)' = LastCall(c)
  <1>1. \A c \in Clients : Blocks(c)' = Blocks(c)
    BY BlocksSame
  <1>2. QED
    BY <1>1, NothingTaken DEF AllocatorInv, LastCall

\* alloc that finds no memory: the client is to wait, and to give its slot back.
LEMMA AllocFailsKeeps ==
    ASSUME AllocatorInv, NEW c \in Clients, AllocFails(c) PROVE AllocatorInv'
  <1>0. /\ AllocatorTypes /\ OneEach /\ Progress /\ ReserveInv /\ SlotsInv
        /\ depth[c] \in Nat /\ calls[c] \in Nat /\ calls[c] > 0 /\ calls[c] <= depth[c]
        /\ freeSlots \in Nat
    BY DEF AllocatorInv, AllocatorTypes, AllocFails, Allocating
  <1>1. /\ c \notin blocked /\ blocked' = blocked \cup {c}
        /\ c \notin failed /\ failed' = failed \cup {c}
        /\ threads' = threads \cup {Thread(c, "insert")}
        /\ UNCHANGED <<nr_threads, size, depth, calls, waiting, freeSlots>>
    BY DEF AllocFails, Allocating, Runs, clientVars
  <1>2. OneEach' /\ threads' \subseteq AllocatorThreads
    BY <1>0, <1>1, WaitingStep
  <1>3. AllocatorTypes'
    BY <1>0, <1>1, <1>2 DEF AllocatorTypes
  <1>4. ReserveInv' /\ \A d \in Clients : LastCall(d)' = LastCall(d)
    BY <1>1, SameCalls
  <1>5. calls[c] < LastCall(c)
    BY <1>0 DEF LastCall
  <1>6. Progress'
    BY <1>0, <1>1, <1>4, <1>5 DEF Progress, AllocatorTypes
  <1>7. SlotsInv'
    <2>1. c \in Inside /\ Inside' = Inside \ {c}
      BY <1>0, <1>1, <1>4, <1>5 DEF Inside
    <2>2. QED
      BY <1>0, <1>1, <2>1, OneFails
  <1>8. QED
    BY <1>2, <1>3, <1>4, <1>6, <1>7 DEF AllocatorInv

\* The slot of a client that has failed comes back.
LEMMA GiveSlotBackKeeps ==
    ASSUME AllocatorInv, NEW c \in Clients, GiveSlotBack(c) PROVE AllocatorInv'
  <1>0. AllocatorTypes /\ OneEach /\ Progress /\ SlotsInv /\ freeSlots \in Nat
    BY DEF AllocatorInv, AllocatorTypes
  <1>1. /\ c \in failed /\ failed' = failed \ {c} /\ freeSlots' = freeSlots + 1
        /\ UNCHANGED <<nr_threads, size, depth, calls, blocked, threads, waiting>>
    BY DEF GiveSlotBack, clientVars
  <1>2. ReserveInv' /\ \A d \in Clients : LastCall(d)' = LastCall(d)
    BY <1>1, SameCalls
  <1>3. AllocatorTypes' /\ OneEach'
    BY <1>0, <1>1 DEF AllocatorTypes, OneEach, Asks
  <1>4. Progress'
    BY <1>0, <1>1, <1>2 DEF Progress, AllocatorTypes
  <1>5. SlotsInv'
    <2>1. Inside' = Inside
      BY <1>1, <1>2 DEF Inside
    <2>2. QED
      BY <1>0, <1>1, <2>1, OneLess
  <1>6. QED
    BY <1>2, <1>3, <1>4, <1>5 DEF AllocatorInv

\* exit: the client leaves, with a thread that schedules.
LEMMA ExitKeeps ==
    ASSUME AllocatorInv, NEW c \in Clients, Exit(c) PROVE AllocatorInv'
  <1> DEFINE new == Thread(c, "schedule")
  <1>0. /\ AllocatorTypes /\ OneEach /\ Progress /\ ReserveInv /\ SlotsInv
        /\ depth[c] \in Nat /\ calls[c] = 2 * depth[c] + 1 /\ freeSlots \in Nat
    <2>1. AllocatorTypes
      BY DEF AllocatorInv
    <2>2. depth[c] \in Nat
      BY <2>1 DEF AllocatorTypes
    <2>3. calls[c] = LastCall(c) - 1
      BY DEF Exit
    <2>4. calls[c] = 2 * depth[c] + 1
      BY <2>2, <2>3 DEF LastCall
    <2>5. QED
      BY <2>2, <2>4 DEF AllocatorInv, AllocatorTypes
  <1>1. /\ c \notin blocked /\ Called(c) /\ freeSlots' = freeSlots + 1
        /\ threads' = threads \cup {new}
        /\ UNCHANGED <<nr_threads, size, depth, blocked, waiting, failed>>
    BY DEF Exit, Runs
  <1>2. new.at = "schedule" /\ new \in AllocatorThreads
    BY <1>0 DEF Thread, AllocatorTypes, AllocatorThreads
  <1> HIDE DEF new
  <1>3. OneEach'
    <2>1. Asks' = Asks
      BY <1>1, <1>2 DEF Asks
    <2>2. QED
      BY <1>0, <1>1, <2>1 DEF OneEach
  <1>4. /\ calls' \in [Clients -> Nat] /\ calls'[c] = calls[c] + 1
        /\ \A d \in Clients : d # c => calls'[d] = calls[d]
        /\ \A d \in Clients : calls'[d] <= LastCall(d)'
        /\ \A d \in blocked : calls'[d] > 0 /\ calls'[d] < LastCall(d)'
    <2>1. calls[c] < LastCall(c)
      BY <1>0 DEF LastCall
    <2>2. QED
      BY <1>0, <1>1, <2>1, CallStep
  <1>5. AllocatorTypes'
    BY <1>0, <1>1, <1>2, <1>4 DEF AllocatorTypes
  <1>6. Progress'
    BY <1>1, <1>4 DEF Progress
  <1>7. ReserveInv'
    <2>1. Blocks(c) = 0
      BY <1>0, BlocksOf
    <2>2. Blocks(c)' = 0
      <3>1. depth'[c] = depth[c]
        BY <1>1
      <3>2. QED
        BY <1>0, <1>4, <1>5, <1>6, <3>1, BlocksOfNext
    <2>3. \A d \in Clients : d # c => Blocks(d)' = Blocks(d)
      BY <1>1, <1>4, BlocksSame
    <2>4. QED
      BY <1>0, <1>1, <2>1, <2>2, <2>3, NothingTaken
  <1>8. SlotsInv'
    <2>1. \A d \in Clients : LastCall(d)' = LastCall(d)
      BY <1>1 DEF LastCall
    <2>2. calls[c] > 0 /\ calls[c] < LastCall(c) /\ calls'[c] = LastCall(c)
      BY <1>0, <1>4 DEF LastCall
    <2>3. LastCall(c) \in Nat
      BY <1>0 DEF LastCall
    <2>4. ~ (calls'[c] < LastCall(c))
      BY <2>2, <2>3
    <2>5. c \in Inside /\ Inside' = Inside \ {c}
      BY <1>0, <1>1, <1>4, <2>1, <2>2, <2>4 DEF Inside
    <2>6. QED
      BY <1>0, <1>1, <2>5, OneLess
  <1>9. QED
    BY <1>3, <1>5, <1>6, <1>7, <1>8 DEF AllocatorInv

\* The acquisition takes the place of its thread: no other of this client is in
\* the set, so that it is inserted.
LEMMA wait_memKeeps ==
    ASSUME AllocatorInv, NEW t \in threads, wait_mem(t) PROVE AllocatorInv'
  <1> DEFINE a == [Acquisition(t) EXCEPT !.mem_size = Required(t)]
             new == [t EXCEPT !.at = "schedule"]
  <1>0. /\ AllocatorTypes /\ OneEach /\ Progress /\ SlotsInv
        /\ t \in AllocatorThreads
    BY DEF AllocatorInv, AllocatorTypes
  <1>1. /\ t.at = "insert" /\ t \in Asks /\ waiting' = Inserted(a)
        /\ threads' \in {(threads \ {t}) \cup {new}, threads \ {t}}
        /\ UNCHANGED <<nr_threads, size, depth, calls, blocked, freeSlots, failed>>
    BY DEF wait_mem, Moved, Gone, Asks, clientVars
  <1>2. new \in AllocatorThreads /\ new.at = "schedule"
    BY <1>0 DEF AllocatorThreads
  <1>3. a \in [id : Clients, mem_size : Nat, call : Nat] /\ a.id = t.id
    <2>1. t.id \in Clients /\ t.call \in Nat /\ size[t.id] \in Nat
      BY <1>0 DEF AllocatorTypes, AllocatorThreads
    <2>2. Required(t) \in Nat
      BY <2>1, AllocatorAssumption DEF Required
    <2>3. QED
      BY <2>1, <2>2 DEF Acquisition
  <1> HIDE DEF a, new
  <1>4. \A b \in waiting : ~ SamePlace(a, b)
    <2>1. SUFFICES ASSUME NEW b \in waiting PROVE ~ SamePlace(a, b)
      OBVIOUS
    <2>2. b.id # a.id
      BY <1>0, <1>1, <1>3 DEF OneEach
    <2>3. a.id \in Nat /\ b.id \in Nat /\ a.mem_size \in Nat /\ b.mem_size \in Nat
      BY <1>0, <1>3, ClientsAreNat DEF AllocatorTypes
    <2>4. QED
      BY <2>2, <2>3 DEF SamePlace, Before
  <1>5. waiting' = waiting \cup {a}
    BY <1>1, <1>4 DEF Inserted
  <1>6. Asks' = Asks \ {t}
    BY <1>1, <1>2 DEF Asks
  <1>7. IsFiniteSet(waiting')
    BY <1>0, <1>5, FS_AddElement DEF AllocatorTypes
  <1>8. AllocatorTypes'
    BY <1>0, <1>1, <1>2, <1>3, <1>5, <1>7 DEF AllocatorTypes
  <1>9. OneEach'
    BY <1>0, <1>1, <1>3, <1>5, <1>6 DEF OneEach
  <1>10. ReserveInv' /\ \A d \in Clients : LastCall(d)' = LastCall(d)
    BY <1>1, SameCalls
  <1>11. Progress'
    BY <1>0, <1>1, <1>10 DEF Progress, AllocatorTypes
  <1>12. SlotsInv'
    <2>1. Inside' = Inside
      BY <1>1, <1>10 DEF Inside
    <2>2. QED
      BY <1>0, <1>1, <2>1, SameInside
  <1>13. QED
    BY <1>8, <1>9, <1>10, <1>11, <1>12 DEF AllocatorInv

\* schedule: the clients that go on are inside again, each with a slot.
LEMMA scheduleKeeps ==
    ASSUME AllocatorInv, NEW t \in threads, schedule(t) PROVE AllocatorInv'
  <1>0. AllocatorTypes /\ OneEach /\ Progress /\ SlotsInv /\ freeSlots \in Nat
    BY DEF AllocatorInv, AllocatorTypes
  <1> PICK granted \in Grants :
        /\ blocked' = blocked \ {a.id : a \in granted}
        /\ waiting' = waiting \ granted
        /\ freeSlots' = freeSlots - Cardinality(granted)
    BY DEF schedule
  <1> DEFINE ids == {a.id : a \in granted}
  <1>1. /\ t.at = "schedule" /\ threads' = threads \ {t}
        /\ UNCHANGED <<nr_threads, size, depth, calls, failed>>
    BY DEF schedule, Gone, clientVars
  <1>2. /\ granted \subseteq waiting
        /\ Cardinality(granted) \in Nat /\ Cardinality(granted) <= freeSlots
    BY <1>0, GrantsHaveSlots
  <1>3. IsFiniteSet(ids) /\ Cardinality(ids) = Cardinality(granted)
    BY <1>0, <1>2, AsManyClients
  <1>4. ids \subseteq blocked
    BY <1>0, <1>2 DEF OneEach
  <1>5. Asks' = Asks
    BY <1>1 DEF Asks
  <1>6. OneEach'
    BY <1>0, <1>1, <1>2, <1>5 DEF OneEach
  <1>7. freeSlots' \in Nat
    BY <1>0, <1>2
  <1>8. IsFiniteSet(waiting')
    BY <1>0, FS_Subset DEF AllocatorTypes
  <1>9. AllocatorTypes'
    BY <1>0, <1>1, <1>7, <1>8 DEF AllocatorTypes
  <1>10. ReserveInv' /\ \A d \in Clients : LastCall(d)' = LastCall(d)
    BY <1>1, SameCalls
  <1>11. Progress'
    BY <1>0, <1>1, <1>10 DEF Progress, AllocatorTypes
  <1>12. SlotsInv'
    <2>1. Inside' = Inside \cup ids /\ Inside \cap ids = {}
      <3>1. \A c \in ids : c \in Clients /\ calls[c] > 0 /\ calls[c] < LastCall(c)
        BY <1>0, <1>4 DEF Progress, AllocatorTypes
      <3>2. QED
        BY <1>1, <1>4, <1>10, <3>1 DEF Inside
    <2>2. /\ IsFiniteSet(Inside) /\ IsFiniteSet(failed)
          /\ freeSlots + Cardinality(Inside) + Cardinality(failed) = nr_threads
      BY <1>0 DEF SlotsInv, SlotsAccounted
    <2> HIDE DEF ids
    <2>3. /\ IsFiniteSet(Inside \cup ids)
          /\ Cardinality(Inside \cup ids) =
                Cardinality(Inside) + Cardinality(ids) - Cardinality(Inside \cap ids)
      BY <1>3, <2>2, FS_Union
    <2>4. Cardinality(Inside \cap ids) = 0
      BY <2>1, FS_EmptySet
    <2>5. Cardinality(Inside) \in Nat /\ Cardinality(failed) \in Nat
      BY <2>2, FS_CardinalityType
    <2>6. freeSlots' + Cardinality(Inside') + Cardinality(failed') = nr_threads'
      BY <1>0, <1>1, <1>2, <1>3, <2>1, <2>2, <2>3, <2>4, <2>5
    <2>7. QED
      BY <1>1, <1>7, <2>1, <2>2, <2>3, <2>6 DEF SlotsInv, SlotsAccounted
  <1>13. QED
    BY <1>6, <1>9, <1>10, <1>11, <1>12 DEF AllocatorInv

\* Every step keeps the invariant.
LEMMA AllocatorInvNext == AllocatorInv /\ [AllocatorNext]_allocatorVars => AllocatorInv'
  <1> SUFFICES ASSUME AllocatorInv, [AllocatorNext]_allocatorVars PROVE AllocatorInv'
    OBVIOUS
  <1>1. CASE \E c \in Clients :
           \/ Enter(c) \/ AllocSucceeds(c) \/ AllocFails(c) \/ GiveSlotBack(c)
           \/ Dealloc(c) \/ Exit(c)
    BY <1>1, EnterKeeps, AllocSucceedsKeeps, AllocFailsKeeps, GiveSlotBackKeeps,
       DeallocKeeps, ExitKeeps
  <1>2. CASE \E t \in threads : wait_mem(t) \/ schedule(t)
    BY <1>2, wait_memKeeps, scheduleKeeps
  <1>3. CASE UNCHANGED allocatorVars
    <2>1. UNCHANGED <<nr_threads, size, depth, calls, blocked, threads, waiting, freeSlots, failed>>
      BY <1>3 DEF allocatorVars, clientVars
    <2>2. ReserveInv' /\ \A d \in Clients : LastCall(d)' = LastCall(d)
      BY <2>1, SameCalls
    <2>3. AllocatorTypes' /\ OneEach'
      BY <2>1 DEF AllocatorInv, AllocatorTypes, OneEach, Asks
    <2>4. Progress'
      BY <2>1, <2>2 DEF AllocatorInv, Progress, AllocatorTypes
    <2>5. Inside' = Inside
      BY <2>1, <2>2 DEF Inside
    <2>6. SlotsInv'
      BY <2>1, <2>5, SameInside DEF AllocatorInv
    <2>7. QED
      BY <2>2, <2>3, <2>4, <2>6 DEF AllocatorInv
  <1>4. QED
    BY <1>1, <1>2, <1>3 DEF AllocatorNext

\* The invariant of lib/allocator.hh holds throughout, whatever the clients.
THEOREM AllocatorInductive == AllocatorSpec => []AllocatorInv
  BY AllocatorInvInit, AllocatorInvNext, PTL DEF AllocatorSpec

-----------------------------------------------------------------------------
(* Schedulers: the three, one in each behaviour.                           *)

\* A scheduler that a behaviour is not of stays as it was in the beginning.
SchedulersInv ==
    /\ scheduler # "allocator" => MemLimitInv
    /\ scheduler # "limit" => AllocatorInv
    /\ Q4Inv

\* The invariants of all three hold in the beginning, ...
LEMMA SchedulersInvInit == Init => SchedulersInv
  BY MemLimitInvInit, AllocatorInvInit, Q4InvInit DEF Init, SchedulersInv

\* ... and a step of one scheduler changes nothing of another.
LEMMA SchedulersInvNext == SchedulersInv /\ [Next]_vars => SchedulersInv'
  <1> SUFFICES ASSUME SchedulersInv, [Next]_vars PROVE SchedulersInv'
    OBVIOUS
  <1>1. scheduler' = scheduler
    BY DEF Next, vars
  <1>2. scheduler # "allocator" => [LimitNext]_limitVars
    BY DEF Next, vars, limitVars
  <1>3. scheduler # "limit" => [AllocatorNext]_allocatorVars
    BY DEF Next, vars, allocatorVars
  <1>4. [Q4Next]_q4Vars
    BY DEF Next, vars
  <1>5. QED
    BY <1>1, <1>2, <1>3, <1>4, MemLimitInvNext, AllocatorInvNext, Q4InvNext DEF SchedulersInv

\* So they hold throughout.
LEMMA SchedulersInductive == Spec => []SchedulersInv
  BY SchedulersInvInit, SchedulersInvNext, PTL DEF Spec

\* lib/mem_limit_scheduler.hh: memory is granted once and comes back once, and
\* the clients together never hold more than there is.
THEOREM LimitMemoryIsKept == Spec => []LimitMemoryKept
  <1>1. SchedulersInv => LimitMemoryKept
    BY MemLimitKept DEF SchedulersInv, LimitMemoryKept
  <1>2. QED
    BY SchedulersInductive, <1>1, PTL

\* lib/allocator.hh: two clients never both take what each was told there is, so
\* that the reserve stays.
THEOREM AllocatorReserveIsKept == Spec => []AllocatorReserveKept
  <1>1. SchedulersInv => AllocatorReserveKept
    BY DEF SchedulersInv, AllocatorReserveKept, AllocatorInv, ReserveInv
  <1>2. QED
    BY SchedulersInductive, <1>1, PTL

\* Each slot of lib/allocator.hh is free, of a client inside, or on its way back
\* after a failed alloc: none is lost, none is given twice, and none is given
\* that is not there, so that no more clients go on than there are slots.
THEOREM AllocatorSlotsAreAccounted == Spec => []AllocatorSlotsAccounted
  <1>1. SchedulersInv => AllocatorSlotsAccounted
    BY DEF SchedulersInv, AllocatorSlotsAccounted, AllocatorInv, SlotsInv
  <1>2. QED
    BY SchedulersInductive, <1>1, PTL

\* Nobody that waits in one of these two is forgotten.
THEOREM NobodyIsForgotten == Spec => []NobodyForgotten
  <1>1. SchedulersInv => NobodyForgotten
    BY OneEachCounts DEF SchedulersInv, MemLimitInv, LimitInv, AllocatorInv
  <1>2. QED
    BY SchedulersInductive, <1>1, PTL

\* q4Scheduler.h: when nobody works any more, each job was done or does not fit,
\* and slots and memory are back; never are more queries answered than there are
\* slots.
THEOREM JobsAreServed == Spec => []JobsServed
  <1>1. SchedulersInv => JobsServed
    BY Q4InvServes DEF SchedulersInv
  <1>2. QED
    BY SchedulersInductive, <1>1, PTL
=============================================================================

------------------------------- MODULE Query1 -------------------------------
(***************************************************************************)
(* query1_force.cc: bfs2 searches from both ends of a query in turn, one   *)
(* level at a time, over the friendships with enough replies.              *)
(*                                                                         *)
(* The deque of a side is the rest of the level it takes, when it is the   *)
(* side that moves, followed by the persons found for the next one.  A     *)
(* step takes one person and looks at all the friends of that person; the  *)
(* order within a level makes no difference and is left open.              *)
(***************************************************************************)
EXTENDS Network

CONSTANTS Friendships,  \* the pairs {p, q} that may be friends
          Counts,       \* Counts[e]: the values of ncmts enumerated for e
          Queries       \* the queries <<p1, p2, x>> that are enumerated

ASSUME Query1Assumption ==
    /\ Friendships \subseteq SUBSET Persons
    /\ Counts \in [Friendships -> SUBSET Nat]
    /\ Queries \subseteq Persons \X Persons \X Int

VARIABLES ncmts,     \* ncmts[{p, q}]: the replies counted for two friends
          query,     \* the query
          side,      \* the side whose level is taken, 1 or 2
          level,     \* the persons of that level still to be taken
          queue,     \* queue[s]: the persons of the next level of side s
          vst,       \* vst[s]: the persons visited from side s
          depth,     \* depth[s]: the levels begun on side s
          answer     \* what bfs2 returns, Searching before

query1Vars == <<ncmts, query, side, level, queue, vst, depth, answer>>

Searching == -2
NotFound == -1
Sides == {1, 2}

\* The friendships that bfs2 does not skip: for x = -1, all of them.
Edges == {e \in DOMAIN ncmts : query[3] >= 0 => ncmts[e] > query[3]}

Near(p) == {q \in Persons : {p, q} \in Edges}

Query1Init ==
    /\ \E E \in SUBSET Friendships :
          ncmts \in {g \in [E -> UNION {Counts[e] : e \in E}] : \A e \in E : g[e] \in Counts[e]}
    /\ query \in Queries
    /\ side = 2
    /\ level = {}
    /\ queue = [s \in Sides |-> {query[s]}]
    /\ vst = [s \in Sides |-> {query[s]}]
    /\ depth = [s \in Sides |-> 0]
    /\ answer = IF query[1] = query[2] THEN 0 ELSE Searching

\* Side s begins the level it has queued.
BeginLevel(s) ==
    /\ side' = s
    /\ level' = queue[s]
    /\ queue' = [queue EXCEPT ![s] = {}]
    /\ depth' = [depth EXCEPT ![s] = @ + 1]
    /\ UNCHANGED <<ncmts, query, vst, answer>>

\* The head of the loop, with both queues tested ...
Round ==
    /\ answer = Searching
    /\ side = 2 /\ level = {}
    /\ queue[1] # {} /\ queue[2] # {}
    /\ BeginLevel(1)

\* Mutant of GiveUp: it takes two empty queues to stop.
GiveUpBoth ==
    /\ answer = Searching
    /\ side = 2 /\ level = {}
    /\ queue[1] = {} /\ queue[2] = {}
    /\ answer' = NotFound
    /\ UNCHANGED <<ncmts, query, side, level, queue, vst, depth>>

GiveUp ==
    /\ answer = Searching
    /\ side = 2 /\ level = {}
    /\ queue[1] = {} \/ queue[2] = {}
    /\ answer' = NotFound
    /\ UNCHANGED <<ncmts, query, side, level, queue, vst, depth>>

\* ... and its second half, where they are not tested again.
Turn ==
    /\ answer = Searching
    /\ side = 1 /\ level = {}
    /\ BeginLevel(2)

Other == 3 - side

Found(p) == Near(p) \ vst[side]

\* Mutant of Meet: the last edge is not counted.
MeetShort(p) ==
    /\ answer = Searching
    /\ p \in level
    /\ Found(p) \cap vst[Other] # {}
    /\ answer' = depth[1] + depth[2] - 1
    /\ UNCHANGED <<ncmts, query, side, level, queue, vst, depth>>

Meet(p) ==
    /\ answer = Searching
    /\ p \in level
    /\ Found(p) \cap vst[Other] # {}
    /\ answer' = depth[1] + depth[2]
    /\ UNCHANGED <<ncmts, query, side, level, queue, vst, depth>>

\* Mutant of Visit: the persons found are not queued.
VisitOnly(p) ==
    /\ answer = Searching
    /\ p \in level
    /\ Found(p) \cap vst[Other] = {}
    /\ level' = level \ {p}
    /\ vst' = [vst EXCEPT ![side] = @ \cup Found(p)]
    /\ UNCHANGED <<ncmts, query, side, queue, depth, answer>>

Visit(p) ==
    /\ answer = Searching
    /\ p \in level
    /\ Found(p) \cap vst[Other] = {}
    /\ level' = level \ {p}
    /\ vst' = [vst EXCEPT ![side] = @ \cup Found(p)]
    /\ queue' = [queue EXCEPT ![side] = @ \cup Found(p)]
    /\ UNCHANGED <<ncmts, query, side, depth, answer>>

Query1Next ==
    \/ Round \/ GiveUp \/ Turn
    \/ \E p \in Persons : Meet(p) \/ Visit(p)

\* The task runs to its end.
Query1Spec == Query1Init /\ [][Query1Next]_query1Vars /\ WF_query1Vars(Query1Next)

-----------------------------------------------------------------------------
(* Properties.                                                             *)

Query1Types ==
    /\ DOMAIN ncmts \subseteq Friendships
    /\ \A e \in DOMAIN ncmts : ncmts[e] \in Nat
    /\ query \in Queries
    /\ side \in Sides
    /\ level \in SUBSET Persons
    /\ queue \in [Sides -> SUBSET Persons]
    /\ vst \in [Sides -> SUBSET Persons]
    /\ depth \in [Sides -> Nat]
    /\ answer \in Int

\* The answer is the length of a shortest path over the friendships that bfs2
\* does not skip, those with more than x replies (query1_force.cc:38): it never
\* stops one level early or late, on either side.
Shortest ==
    answer >= 0 => /\ Joined(Edges, query[1], query[2], answer)
                   /\ \A n \in 0 .. answer - 1 : ~ Joined(Edges, query[1], query[2], n)

\* A set of persons that no friendship with enough replies leaves.
Enclosed(S) == \A p \in S : Near(p) \subseteq S

\* The answer -1 means that no path of friendships with more than x replies joins
\* the two: one of the searches has seen everybody that can be reached from its
\* end.
NotFoundMeansApart ==
    answer = NotFound => \E S \in SUBSET Persons :
                            query[1] \in S /\ query[2] \notin S /\ Enclosed(S)

\* The queries of a list without end would hold up every other answer.
Answered == <>(answer # Searching)

\* src/README.md:29-30: "calculate the length of shortest path between p1 and p2
\* such that each edge e on the path has weight e_w \ge x", x replies included.
EdgesAsDocumented == {e \in DOMAIN ncmts : query[3] >= 0 => ncmts[e] >= query[3]}
ShortestAsDocumented ==
    answer >= 0 => \A n \in 0 .. answer - 1 : ~ Joined(EdgesAsDocumented, query[1], query[2], n)

-----------------------------------------------------------------------------
(* What the two searches know, behind Shortest and NotFoundMeansApart.     *)

\* The persons of side s that were found but not taken yet.
Pending(s) == queue[s] \cup (IF s = side THEN level ELSE {})

\* Whoever was taken has only visited friends.
VisitInv ==
    \A s \in Sides :
       /\ query[s] \in vst[s]
       /\ Pending(s) \subseteq vst[s]
       /\ \A p \in vst[s] \ Pending(s) : Near(p) \subseteq vst[s]

\* The two searches have not met.
Apart == answer = Searching => vst[1] \cap vst[2] = {}

\* Whoever was visited can be reached in as many edges as levels were begun.
Reached ==
    /\ \A s \in Sides : \A p \in vst[s] :
          \E n \in 0 .. depth[s] : Joined(Edges, query[s], p, n)
    /\ \A p \in level : \E n \in 0 .. depth[side] - 1 : Joined(Edges, query[side], p, n)

\* Whoever can be reached in fewer edges was visited in an earlier level, and
\* whoever can be reached in as many once the level is taken.
Covered ==
    \A s \in Sides : \A p \in Persons :
       /\ \A n \in 0 .. depth[s] - 1 : Joined(Edges, query[s], p, n) => p \in vst[s] \ queue[s]
       /\ ~ (s = side /\ level # {}) /\ Joined(Edges, query[s], p, depth[s]) => p \in vst[s]

\* The second half of the loop has a level to take.
TurnInv == answer = Searching /\ side = 1 => queue[2] # {}

\* At every step each side has visited exactly those it can have come to in the
\* levels that it has begun, and whoever it has done with has only visited
\* friends; the sides have nobody in common until they meet.
SearchInv == Query1Types /\ VisitInv /\ Apart /\ Reached /\ Covered /\ TurnInv
=============================================================================

------------------------------- MODULE MyHeap -------------------------------
(***************************************************************************)
(* heap.h, used as query2_Unionfind.cc uses it: every tag is inserted with *)
(* range 0, then ranges are raised with change, and find_ans takes the k   *)
(* best tags out with get and inserts them again.                          *)
(*                                                                         *)
(* heap[1] is the root, as in the code, where heap[0] is never used.  The  *)
(* loops of move_up and move_down are one step per swap; cursor is their   *)
(* parameter p, and mode says which of them runs and for whom.             *)
(***************************************************************************)
EXTENDS Integers, Sequences, TagNames

CONSTANT MaxRange   \* bound on the ranges that are enumerated

ASSUME HeapAssumption ==
    NTag \in Nat \ {0} /\ Name \in [Tags -> Int] /\ MaxRange \in Nat

VARIABLES heap,     \* the vector of HeapEle
          place,    \* place[t]: the index of tag t in heap
          mode,     \* "idle", "up", "down" or "change" (down, then up)
          cursor,   \* the position that moves
          id,       \* the tag given to change
          filled,   \* how many tags the loop of work has inserted
          want,     \* the k of the running find_ans, 0 when none runs
          tmp,      \* the elements find_ans has taken
          back,     \* how many of them it has inserted again
          answer    \* the tags the last find_ans returned

heapVars == <<heap, place, mode, cursor, id, filled, want, tmp, back, answer>>

Elements == [range : 0 .. MaxRange, tag : Tags]

\* Mutant of Better: the names are not compared.
BetterRange(a, b) == a.range > b.range

\* HeapEle::operator<.
Better(a, b) == a.range > b.range \/ (a.range = b.range /\ Name[a.tag] < Name[b.tag])

HeapInit ==
    /\ heap = <<>>
    /\ place = [t \in Tags |-> 0]
    /\ mode = "idle"
    /\ cursor = 1
    /\ id = 1
    /\ filled = 0
    /\ want = 0
    /\ tmp = <<>>
    /\ back = 0
    /\ answer = <<>>

-----------------------------------------------------------------------------
\* Mutant of SwapWith: the place of one element only is kept.
SwapWith1(q) ==
    /\ heap' = [heap EXCEPT ![cursor] = heap[q], ![q] = heap[cursor]]
    /\ place' = [place EXCEPT ![heap[q].tag] = cursor]

\* swap(cursor, q).
SwapWith(q) ==
    /\ heap' = [heap EXCEPT ![cursor] = heap[q], ![q] = heap[cursor]]
    /\ place' = [place EXCEPT ![heap[q].tag] = cursor, ![heap[cursor].tag] = q]

\* The position that move_down goes to from p: p when it stops.
Lowest(p) ==
    LET left == 2 * p
        right == left + 1
        q == IF left <= Len(heap) /\ Better(heap[left], heap[p]) THEN left ELSE p
    IN IF right <= Len(heap) /\ Better(heap[right], heap[q]) THEN right ELSE q

\* insert: to the end, then move_up.
Put(e) ==
    /\ heap' = Append(heap, e)
    /\ place' = [place EXCEPT ![e.tag] = Len(heap) + 1]
    /\ mode' = "up"
    /\ cursor' = Len(heap) + 1

MoveDown ==
    /\ mode \in {"down", "change"}
    /\ Lowest(cursor) # cursor
    /\ SwapWith(Lowest(cursor))
    /\ cursor' = Lowest(cursor)
    /\ UNCHANGED <<mode, id, filled, want, tmp, back, answer>>

\* move_down returns, and change goes on with move_up(place[id]).
StopDown ==
    /\ mode \in {"down", "change"}
    /\ Lowest(cursor) = cursor
    /\ IF mode = "change" THEN mode' = "up" /\ cursor' = place[id]
                          ELSE mode' = "idle" /\ UNCHANGED cursor
    /\ UNCHANGED <<heap, place, id, filled, want, tmp, back, answer>>

Rises == cursor > 1 /\ Better(heap[cursor], heap[cursor \div 2])

MoveUp ==
    /\ mode = "up"
    /\ Rises
    /\ SwapWith(cursor \div 2)
    /\ cursor' = cursor \div 2
    /\ UNCHANGED <<mode, id, filled, want, tmp, back, answer>>

StopUp ==
    /\ mode = "up"
    /\ ~ Rises
    /\ mode' = "idle"
    /\ UNCHANGED <<heap, place, cursor, id, filled, want, tmp, back, answer>>

-----------------------------------------------------------------------------
(* Query2Handler::work.                                                    *)

Fill ==
    /\ mode = "idle"
    /\ filled < NTag
    /\ Put([range |-> 0, tag |-> filled + 1])
    /\ filled' = filled + 1
    /\ UNCHANGED <<id, want, tmp, back, answer>>

\* heap.change(t, r): no effect unless it raises the range.
Change(t, r) ==
    /\ mode = "idle" /\ filled = NTag /\ want = 0
    /\ heap[place[t]].range < r
    /\ heap' = [heap EXCEPT ![place[t]].range = r]
    /\ mode' = "change"
    /\ cursor' = place[t]
    /\ id' = t
    /\ UNCHANGED <<place, filled, want, tmp, back, answer>>

-----------------------------------------------------------------------------
(* find_ans.                                                               *)

Ask(k) ==
    /\ mode = "idle" /\ filled = NTag /\ want = 0
    /\ want' = k
    /\ tmp' = <<>>
    /\ back' = 0
    /\ UNCHANGED <<heap, place, mode, cursor, id, filled, answer>>

\* tmp.push_back(heap.get()): the last element replaces the root.
Get ==
    /\ mode = "idle"
    /\ Len(tmp) < want
    /\ tmp' = Append(tmp, heap[1])
    /\ LET last == heap[Len(heap)] IN
          /\ heap' = SubSeq([heap EXCEPT ![1] = last], 1, Len(heap) - 1)
          /\ place' = [place EXCEPT ![last.tag] = 1]
    /\ mode' = "down"
    /\ cursor' = 1
    /\ UNCHANGED <<id, filled, want, back, answer>>

PutBack ==
    /\ mode = "idle"
    /\ want > 0 /\ Len(tmp) = want /\ back < want
    /\ Put(tmp[back + 1])
    /\ back' = back + 1
    /\ UNCHANGED <<id, filled, want, tmp, answer>>

Return ==
    /\ mode = "idle"
    /\ want > 0 /\ back = want
    /\ answer' = [i \in 1 .. want |-> tmp[i].tag]
    /\ want' = 0
    /\ UNCHANGED <<heap, place, mode, cursor, id, filled, tmp, back>>

HeapNext ==
    \/ MoveDown \/ StopDown \/ MoveUp \/ StopUp
    \/ Fill \/ Get \/ PutBack \/ Return
    \/ \E t \in Tags, r \in 1 .. MaxRange : Change(t, r)
    \/ \E k \in Tags : Ask(k)

HeapSpec == HeapInit /\ [][HeapNext]_heapVars

-----------------------------------------------------------------------------
(* Properties.                                                             *)

Out == {tmp[i] : i \in back + 1 .. Len(tmp)}
Held == {heap[i] : i \in 1 .. Len(heap)} \cup Out

HeapTypeOK ==
    /\ heap \in Seq(Elements)
    /\ place \in [Tags -> Nat]
    /\ mode \in {"idle", "up", "down", "change"}
    /\ cursor \in Nat \ {0}
    /\ id \in Tags
    /\ filled \in 0 .. NTag
    /\ want \in 0 .. NTag
    /\ tmp \in Seq(Elements)
    /\ back \in 0 .. Len(tmp)
    /\ answer \in Seq(Tags)

\* The back pointers are exact at every step, also in the middle of a move:
\* change finds the element of a tag through place alone.
PlaceExact == \A i \in 1 .. Len(heap) : place[heap[i].tag] = i

\* Every tag inserted is in the heap or among the elements taken, not in both.
Parted ==
    /\ {e.tag : e \in Held} = 1 .. filled
    /\ \A i \in 1 .. Len(heap), j \in back + 1 .. Len(tmp) : heap[i].tag # tmp[j].tag

InOrder(i) == ~ Better(heap[i], heap[i \div 2])

\* The children of the position that moves are not better than its parent.
Bridged == \A i \in 2 .. Len(heap) :
               i \div 2 = cursor /\ cursor > 1 => ~ Better(heap[i], heap[cursor \div 2])

\* Heap order holds but for the element that moves: it may be better than its
\* parent while it rises, and worse than its children while it sinks.
HeapOrder ==
    /\ mode = "idle" => \A i \in 2 .. Len(heap) : InOrder(i)
    /\ mode \in {"up", "change"} =>
          /\ cursor \in 1 .. Len(heap)
          /\ \A i \in 2 .. Len(heap) : i # cursor => InOrder(i)
          /\ Bridged
    /\ mode = "down" =>
          /\ \A i \in 2 .. Len(heap) : i \div 2 # cursor => InOrder(i)
          /\ Bridged
    /\ mode = "change" => heap[cursor].tag = id

\* find_ans: what was taken are different tags, best first; what was put back
\* is in the heap as it was, and nothing else in the heap is better.
TakenBest ==
    /\ want = 0 => back = Len(tmp)
    /\ Len(tmp) < want => back = 0
    /\ want > 0 => filled = NTag /\ Len(tmp) <= want
    /\ filled < NTag => want = 0 /\ tmp = <<>>
    /\ want > 0 =>
          /\ \A i, j \in 1 .. Len(tmp) : i < j => tmp[i].tag # tmp[j].tag /\ ~ Better(tmp[j], tmp[i])
          /\ \A n \in 1 .. back : \E j \in 1 .. Len(heap) : heap[j] = tmp[n]
          /\ \A i \in 1 .. Len(tmp), j \in 1 .. Len(heap) :
                (\A n \in 1 .. back : heap[j] # tmp[n]) => ~ Better(heap[j], tmp[i])

IInv == HeapTypeOK /\ PlaceExact /\ Parted /\ HeapOrder /\ TakenBest

\* The heap implements TagRanking: find_ans returns the k best tags in order,
\* and takes nothing away.
RangeOf == [t \in Tags |->
              IF \E e \in Held : e.tag = t
              THEN (CHOOSE e \in Held : e.tag = t).range ELSE 0]
Ranking == INSTANCE TagRanking WITH range <- RangeOf
RankingSpec == Ranking!Spec
=============================================================================

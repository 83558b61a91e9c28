---------------------------- MODULE CommentCounts ----------------------------
(***************************************************************************)
(* read_comments_tim of read.cpp: the replies between friends are counted  *)
(* in a sorted vector, and the counts merged into the friend lists.  Query *)
(* 1 reads the result, as if ncmts were the same on both sides of a        *)
(* friendship.                                                             *)
(*                                                                         *)
(* A row of comment_replyOf_comment.csv is the pair of the owners of its   *)
(* two comments; as the pairs are sorted, the file is a bag of pairs.      *)
(***************************************************************************)
EXTENDS Integers, Sequences, FiniteSets

CONSTANTS NPerson,      \* Data::nperson
          MaxReplies    \* bound on the rows that are the same pair

Persons == 1 .. NPerson
Pairs == Persons \X Persons

ASSUME CommentAssumption == NPerson \in Nat /\ MaxReplies \in Nat

VARIABLES rows,      \* rows[p]: how often the pair p occurs in the file
          friends,   \* the pairs <<i, j>> with j in friends[i]
          pc,        \* "filter", "aggregate", "merge", "done" or "crashed"
          comments,  \* comments[p]: how often the vector comments holds p
          count,     \* the vector of a pair and its number, from index 0
          index,     \* the position of the merge in count
          toVisit,   \* the entries of the friend lists not visited yet
          ncmts      \* ncmts[<<i, j>>]: the member of the entry j of friends[i]

vars == <<rows, friends, pc, comments, count, index, toVisit, ncmts>>

Less(p, q) == p[1] < q[1] \/ (p[1] = q[1] /\ p[2] < q[2])

Smaller(a, b) == IF a <= b THEN a ELSE b

\* Friendships are listed from both sides, and nobody is a friend of himself.
Networks == {F \in SUBSET {p \in Pairs : p[1] # p[2]} : \A p \in F : <<p[2], p[1]>> \in F}

Init ==
    /\ rows \in [Pairs -> 0 .. MaxReplies]
    /\ \A p, q \in Pairs : p[1] = p[2] /\ q[1] = q[2] => rows[p] = rows[q]
    /\ friends \in Networks
    /\ pc = "filter"
    /\ comments = [p \in Pairs |-> 0]
    /\ count = <<>>
    /\ index = 0
    /\ toVisit = friends
    /\ ncmts = [p \in friends |-> 0]

\* The replies to oneself and to strangers are dropped.
Filter ==
    /\ pc = "filter"
    /\ pc' = "aggregate"
    /\ comments' = [p \in Pairs |-> IF p[1] # p[2] /\ p \in friends THEN rows[p] ELSE 0]
    /\ UNCHANGED <<rows, friends, count, index, toVisit, ncmts>>

Counted == {p \in Pairs : comments[p] > 0}

\* sort, and one element of count for each run of equal pairs.
Aggregate ==
    /\ pc = "aggregate"
    /\ Counted # {}
    /\ pc' = "merge"
    /\ count' = [m \in 1 .. Cardinality(Counted) |->
                    LET p == CHOOSE p \in Counted : Cardinality({q \in Counted : Less(q, p)}) = m - 1
                    IN [first |-> p, second |-> comments[p]]]
    /\ UNCHANGED <<rows, friends, comments, index, toVisit, ncmts>>

\* comments[0] of an empty vector is read through a null pointer.
ReadEmpty ==
    /\ pc = "aggregate"
    /\ Counted = {}
    /\ pc' = "crashed"
    /\ UNCHANGED <<rows, friends, comments, count, index, toVisit, ncmts>>

\* count[m] of the code.
At(m) == count[m + 1]

\* From left to before right.
Stretches == (0 .. Len(count)) \X (0 .. Len(count))

\* Mutant of find_count: the search starts without the last element.
find_count_short(pivot) ==
    LET search[s \in Stretches] ==
           LET mid == (s[1] + s[2]) \div 2
           IN IF s[1] + 1 < s[2]
              THEN IF ~ Less(pivot, At(mid).first) THEN search[<<mid, s[2]>>] ELSE search[<<s[1], mid>>]
              ELSE s[1]
        found == At(search[<<0, Len(count) - 1>>])
    IN IF found.first = pivot THEN found.second ELSE 0

\* The binary search for the largest element that is not above pivot.
find_count(pivot) ==
    LET search[s \in Stretches] ==
           LET mid == (s[1] + s[2]) \div 2
           IN IF s[1] + 1 < s[2]
              THEN IF ~ Less(pivot, At(mid).first) THEN search[<<mid, s[2]>>] ELSE search[<<s[1], mid>>]
              ELSE s[1]
        found == At(search[<<0, Len(count)>>])
    IN IF found.first = pivot THEN found.second ELSE 0

\* Mutant of Advanced: the merge steps over the element it stands on.
AdvancedPast(p) ==
    CHOOSE m \in index .. Len(count) :
       /\ m = Len(count) \/ (m > index /\ ~ Less(At(m).first, p))
       /\ \A n \in index + 1 .. m - 1 : Less(At(n).first, p)

\* Where index stands after the while loop for pair p: Len(count) is its end.
Advanced(p) ==
    CHOOSE m \in index .. Len(count) :
       /\ m = Len(count) \/ ~ Less(At(m).first, p)
       /\ \A n \in index .. m - 1 : Less(At(n).first, p)

\* The next entry p of the friend lists, which are sorted by pid.
Merge(p) ==
    /\ pc = "merge"
    /\ p \in toVisit
    /\ \A q \in toVisit \ {p} : Less(p, q)
    /\ index' = Advanced(p)
    /\ index' < Len(count)
    /\ toVisit' = toVisit \ {p}
    /\ ncmts' = [ncmts EXCEPT ![p] =
                    IF At(index').first = p
                    THEN Smaller(At(index').second, find_count(<<p[2], p[1]>>)) ELSE 0]
    /\ UNCHANGED <<rows, friends, pc, comments, count>>

\* Mutant of Finish: the loops do not break at the end of count.
FinishVisited ==
    /\ pc = "merge"
    /\ toVisit = {}
    /\ pc' = "done"
    /\ UNCHANGED <<rows, friends, comments, count, index, toVisit, ncmts>>

\* The loops break at the end of count, and the entries that are left keep the
\* 0 they were made with; or every entry was visited.
Finish ==
    /\ pc = "merge"
    /\ \A p \in toVisit : (\A q \in toVisit \ {p} : Less(p, q)) => Advanced(p) = Len(count)
    /\ pc' = "done"
    /\ UNCHANGED <<rows, friends, comments, count, index, toVisit, ncmts>>

Next ==
    \/ Filter \/ Aggregate \/ ReadEmpty \/ Finish
    \/ \E p \in Pairs : Merge(p)

-----------------------------------------------------------------------------
(* Properties.                                                             *)

\* What the number of a friendship should be: the replies both ways.
Mutual(p) == Smaller(rows[p], rows[<<p[2], p[1]>>])

\* When the task is done every entry has the number of replies the two made to
\* each other, the entries the merge never came to included.  Query 1 relies on
\* it, and on the number being the same in both lists.
CountsRight ==
    pc = "done" => \A p \in friends : ncmts[p] = Mutual(p) /\ ncmts[p] = ncmts[<<p[2], p[1]>>]

\* While the merge runs: count has each pair once and in order, what lies
\* before index is before every entry to come, and the entries are right so far.
MergeInv ==
    /\ index <= Len(count)
    /\ \A m \in 0 .. Len(count) - 2 : Less(At(m).first, At(m + 1).first)
    /\ \A m \in 0 .. index - 1, p \in toVisit : Less(At(m).first, p)
    /\ \A p \in friends : ncmts[p] = IF p \in toVisit THEN 0 ELSE Mutual(p)

\* The task ends: the callback that starts query 1 comes after it.
Ends == <>(pc \in {"done", "crashed"})
=============================================================================

--------------------------- MODULE CommentReaders ---------------------------
(***************************************************************************)
(* The three readers of comments in read.cpp, one of them in each          *)
(* behaviour: read_comments_tim, as CommentCounts has it; read_comments,   *)
(* that counts in a map for each person; and read_comments_2file, that     *)
(* reads both files at once and keeps the owners of the last comments      *)
(* only.  They promise the same numbers.                                   *)
(***************************************************************************)
EXTENDS CommentCounts

CONSTANTS NComment,   \* the comments are 0 .. NComment - 1, in this order
          CacheLen    \* COMMENT_CACHE_LEN

Comments == 0 .. NComment - 1
NoPerson == 0

ASSUME CommentReadersAssumption == NComment \in Nat \ {0} /\ CacheLen \in Nat \ {0}

VARIABLES reader,      \* "tim", "map" or "2file"
          creator,     \* creator[c]: the person of comment c in the first file
          replies,     \* the second file: pairs of a comment and what it replies to
          row,         \* the rows of the second file that are read
          owner,       \* the vector owner, or the array comment_owner
          read,        \* the comments of the first file that are read
          comment_map  \* comment_map[p]: the replies of p[1] to p[2]

files == <<reader, creator, replies>>
readerVars == <<vars, files, row, owner, read, comment_map>>

\* The id of the comment: all ids are multiples of 10.
cid(c) == 10 * c

\* The pairs of the two files that are p.
RowsOf(p) == Cardinality({r \in 1 .. Len(replies) :
                             <<creator[replies[r][1]], creator[replies[r][2]]>> = p})

\* Each comment replies to one that is older, or to none.  The third reader is
\* for files in which that one is not much older.
Files ==
    /\ creator \in [Comments -> Persons]
    /\ \E to \in [Comments -> Comments \cup {-1}] :
          /\ \A c \in Comments : to[c] < c
          /\ reader = "2file" => \A c \in Comments : to[c] # -1 => cid(c) - cid(to[c]) < CacheLen
          /\ LET made == {c \in Comments : to[c] # -1}
                 nth(n) == CHOOSE c \in made : Cardinality({d \in made : d < c}) = n - 1
             IN replies = [n \in 1 .. Cardinality(made) |-> <<nth(n), to[nth(n)]>>]
    /\ rows = [p \in Pairs |-> RowsOf(p)]
    /\ friends \in Networks
    /\ pc = CASE reader = "map" -> "owners" [] reader = "2file" -> "replies"
    /\ comments = [p \in Pairs |-> 0]
    /\ count = <<>>
    /\ index = 0
    /\ toVisit = friends
    /\ ncmts = [p \in friends |-> 0]

ReadersInit ==
    /\ \/ reader = "tim" /\ creator = <<>> /\ replies = <<>> /\ Init
       \/ reader \in {"map", "2file"} /\ Files
    /\ row = 0
    /\ owner = IF reader = "2file" THEN [s \in 0 .. CacheLen - 1 |-> NoPerson] ELSE <<>>
    /\ read = 0
    /\ comment_map = [p \in Pairs |-> 0]

\* read_comments: the first file.
ReadCreators ==
    /\ pc = "owners"
    /\ owner' = creator
    /\ read' = NComment
    /\ pc' = "replies"
    /\ UNCHANGED <<rows, friends, comments, count, index, toVisit, ncmts, files, row, comment_map>>

\* read_comments: a reply to oneself is not counted.
CountReply ==
    /\ reader = "map" /\ pc = "replies"
    /\ row < Len(replies)
    /\ row' = row + 1
    /\ LET p == <<owner[replies[row'][1]], owner[replies[row'][2]]>>
       IN comment_map' = IF p[1] = p[2] THEN comment_map ELSE [comment_map EXCEPT ![p] = @ + 1]
    /\ UNCHANGED <<rows, friends, pc, comments, count, index, toVisit, ncmts, files, owner, read>>

Slot(c) == cid(c) % CacheLen

\* Mutant of ReadUpTo: the owner is looked up when the row is read.
ReadUpToLate ==
    /\ reader = "2file" /\ pc = "replies"
    /\ row < Len(replies)
    /\ row' = row + 1
    /\ LET c == replies[row'][1]
           p2 == owner[Slot(replies[row'][2])]
       IN /\ owner' = [s \in DOMAIN owner |->
                          IF \E d \in read .. c : Slot(d) = s
                          THEN creator[CHOOSE d \in read .. c :
                                  Slot(d) = s /\ \A e \in d + 1 .. c : Slot(e) # s]
                          ELSE owner[s]]
          /\ read' = c + 1
          /\ comment_map' = IF p2 = NoPerson THEN comment_map
                            ELSE [comment_map EXCEPT ![<<creator[c], p2>>] = @ + 1]
    /\ UNCHANGED <<rows, friends, pc, comments, count, index, toVisit, ncmts, files>>

\* read_comments_2file: the first file is read up to the comment that replies,
\* each owner over the one CacheLen before, and then the other owner looked up.
ReadUpTo ==
    /\ reader = "2file" /\ pc = "replies"
    /\ row < Len(replies)
    /\ row' = row + 1
    /\ LET c == replies[row'][1] IN
          /\ owner' = [s \in DOMAIN owner |->
                          IF \E d \in read .. c : Slot(d) = s
                          THEN creator[CHOOSE d \in read .. c :
                                  Slot(d) = s /\ \A e \in d + 1 .. c : Slot(e) # s]
                          ELSE owner[s]]
          /\ read' = c + 1
          /\ comment_map' = [comment_map EXCEPT ![<<creator[c], owner'[Slot(replies[row'][2])]>>] = @ + 1]
    /\ UNCHANGED <<rows, friends, pc, comments, count, index, toVisit, ncmts, files>>

\* Both readers end alike.
TakeCounts ==
    /\ pc = "replies"
    /\ row = Len(replies)
    /\ ncmts' = [p \in friends |-> Smaller(comment_map[p], comment_map[<<p[2], p[1]>>])]
    /\ toVisit' = {}
    /\ pc' = "done"
    /\ UNCHANGED <<rows, friends, comments, count, index, files, row, owner, read, comment_map>>

ReadersNext ==
    \/ Next /\ UNCHANGED <<files, row, owner, read, comment_map>>
    \/ ReadCreators \/ CountReply \/ ReadUpTo \/ TakeCounts

ReadersSpec == ReadersInit /\ [][ReadersNext]_readerVars
=============================================================================

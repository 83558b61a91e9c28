----------------------------- MODULE MCReaders -----------------------------
(***************************************************************************)
(* The readers of comments, or those of tags, forums and places.           *)
(*                                                                         *)
(* Three persons: up to six pairs in count, so that the binary search      *)
(* halves more than once, and every pair 0, 1 or 2 times in the file.      *)
(* Four comments, and every way to reply; the other two readers are run    *)
(* with all friends or none.                                               *)
(*                                                                         *)
(* Three tags, two of them of one name, and two forums, with every file of *)
(* up to two rows for the tags of forums and three for their members.      *)
(***************************************************************************)
EXTENDS CommentReaders, DataReader

VARIABLES task   \* "comments" or "data"

UpTo(S, n) == UNION {[1 .. m -> S] : m \in 0 .. n}
FilesHere ==
    { [tag |-> << <<20, "a">>, <<10, "b">>, <<30, "a">> >>,
       q4_tag_set |-> asked,
       interest |-> interest,
       forumTag |-> forumTag,
       member |-> [n \in DOMAIN forums |-> <<forums[n], n % 2>>],
       place |-> << <<0, "x">>, <<2, "y">>, <<1, "x">> >>,
       isPartOf |-> {<<2, 0>>},
       located |-> << <<1, 2>>, <<0, 1>> >>,
       org |-> <<2, 1>>,
       atOrg |-> << <<0, 1>>, <<1, 1>> >>] :
         asked \in {{"a", "c"}, {"b"}},
         interest \in { << <<0, 20>>, <<1, 10>>, <<1, 30>> >>, << <<1, 10>>, <<0, 10>>, <<0, 20>> >> },
         forumTag \in UpTo({1, 2} \X {10, 20, 30}, 2),
         forums \in UpTo({1, 2}, 3) \ {<<>>} }

AFile == CHOOSE f \in FilesHere : TRUE

AllInit ==
    \/ /\ task = "comments"
       /\ file = AFile /\ DataInit
       /\ \/ reader = "tim"
          \/ reader \in {"map", "2file"} /\ friends \in {{}, {p \in Pairs : p[1] # p[2]}}
       /\ ReadersInit
    \/ /\ task = "data"
       /\ reader = "tim" /\ friends = {} /\ rows = [p \in Pairs |-> 0] /\ ReadersInit
       /\ DataInit

AllNext ==
    /\ UNCHANGED task
    /\ \/ task = "comments" /\ ReadersNext /\ UNCHANGED dataVars
       \/ task = "data" /\ DataNext /\ UNCHANGED readerVars

\* The tasks and the thread run to their ends.
Spec == AllInit /\ [][AllNext]_<<task, readerVars, dataVars>> /\ WF_<<task, readerVars, dataVars>>(AllNext)

\* The readers end: the callbacks that start query 1 and query 4, and the
\* signal for queries 2 and 3, come after.
AllEnd ==
    /\ task = "comments" => Ends
    /\ task = "data" => <>(AtEnd("reader", "member") /\ at["places"] = "done")
=============================================================================

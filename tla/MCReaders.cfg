\* Three persons, each pair up to twice; four comments, with a window of three;
\* 2408 sets of files.  The tasks end.
SPECIFICATION Spec
CONSTANTS
    NPerson = 3
    MaxReplies = 2
    NComment = 4
    CacheLen = 30
    PersonIds = {0, 1}
    Forums = {1, 2}
    TagIds = {10, 20, 30}
    Names = {"a", "b", "c"}
    None = None
    DataFiles <- FilesHere
INVARIANTS MergeInv CountsRight MembersRight DataRight
PROPERTIES AllEnd
CHECK_DEADLOCK FALSE

------------------------------ MODULE TagNames ------------------------------
(***************************************************************************)
(* The tags of query 2 and the order of their names.                       *)
(***************************************************************************)
EXTENDS Integers

CONSTANTS NTag,   \* Data::ntag
          Name    \* Name[t]: the place of tag_name[t] in the order of strings

Tags == 1 .. NTag
=============================================================================

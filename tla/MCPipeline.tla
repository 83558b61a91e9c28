----------------------------- MODULE MCPipeline -----------------------------
(***************************************************************************)
(* Two query-3 tasks, so that the counter has a last but one, one query-4  *)
(* task, and workers too few for all tasks.                                *)
(***************************************************************************)
EXTENDS Pipeline

CONSTANTS q3a, q3b, d3a, d3b, q4

Q3Tasks == {q3a, q3b}
Q4Tasks == {q4}
DestroyerOf == [q \in Q3Tasks |-> IF q = q3a THEN d3a ELSE d3b]
=============================================================================

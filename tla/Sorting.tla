------------------------------ MODULE Sorting ------------------------------
(***************************************************************************)
(* What std::sort makes of the elements of a set, in an order Before that  *)
(* has no ties: each element has its place by how many go before it.       *)
(***************************************************************************)
EXTENDS Integers, FiniteSets

Sorted(S, Before(_, _)) ==
    [n \in 1 .. Cardinality(S) |->
        CHOOSE a \in S : Cardinality({b \in S : Before(b, a)}) = n - 1]
=============================================================================

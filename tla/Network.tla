------------------------------ MODULE Network ------------------------------
(***************************************************************************)
(* The persons of class Data, and what it means that friendships join two  *)
(* of them: queries 1 and 3 ask for distances in such a network.           *)
(***************************************************************************)
EXTENDS Integers, FiniteSets

CONSTANT NPerson     \* Data::nperson

Persons == 1 .. NPerson

ASSUME NetworkAssumption == NPerson \in Nat

\* w is a walk of n edges from p to q, by the friendships E.
Walk(E, w, p, q, n) ==
    /\ w[0] = p /\ w[n] = q
    /\ \A j \in 0 .. n - 1 : {w[j], w[j + 1]} \in E

Joined(E, p, q, n) == \E w \in [0 .. n -> Persons] : Walk(E, w, p, q, n)
=============================================================================

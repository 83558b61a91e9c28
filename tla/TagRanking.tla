----------------------------- MODULE TagRanking -----------------------------
(***************************************************************************)
(* What query 2 relies on from its heap of tags: the range of a tag only   *)
(* grows, and find_ans(k) returns k tags, best first.                      *)
(***************************************************************************)
EXTENDS Integers, Sequences, TagNames

VARIABLES range,    \* range[t]: the range of tag t so far
          answer    \* what the last find_ans returned

vars == <<range, answer>>

Ahead(s, t) == range[s] > range[t] \/ (range[s] = range[t] /\ Name[s] < Name[t])

Init ==
    /\ range = [t \in Tags |-> 0]
    /\ answer = <<>>

Raise(t) ==
    /\ range'[t] > range[t]
    /\ range' = [range EXCEPT ![t] = range'[t]]
    /\ UNCHANGED answer

\* The tags of s, best first: no tag that is not before s[i] is ahead of s[i].
BestFirst(s) ==
    \A i \in 1 .. Len(s) :
       \A t \in Tags \ {s[j] : j \in 1 .. i - 1} : ~ Ahead(t, s[i])

Ask(k) ==
    /\ answer' \in [1 .. k -> Tags]
    /\ \A i, j \in 1 .. k : i # j => answer'[i] # answer'[j]
    /\ BestFirst(answer')
    /\ UNCHANGED range

Next == \/ \E t \in Tags : Raise(t)
        \/ \E k \in Tags : Ask(k)

Spec == Init /\ [][Next]_vars
=============================================================================

------------------------------ MODULE MCActor ------------------------------
(* Instances of Actor for TLC.                                             *)
EXTENDS Actor, TLC

CONSTANTS s1, s2, w1, w2, d1

TwoUnbounded == [k \in 0 .. 1 |-> 0]
OneBounded == [k \in {0} |-> 2]
Both == {0, 1}
OnlyFirst == {0}
OnlySecond == {1}

Threads == Permutations({s1, s2}) \cup Permutations({w1, w2})
=============================================================================

------------------------------ MODULE MCBanker ------------------------------
(* The Banker on a small instance: two resources, and demands below, at and *)
(* above what the system owns of them.                                      *)
EXTENDS Banker

CONSTANTS R1, R2

MCTotal == [r \in Resources |-> IF r = R1 THEN 2 ELSE 1]

Vectors(n) == [Resources -> 0 .. n]

MCAmounts == {v \in Vectors(2) : v[R2] <= 1 /\ \E r \in Resources : v[r] > 0}
\* Demands around the totals, (2, 1); task_create() accepts those beyond them as well.
MCDemands == {v \in Vectors(3) : /\ \A r \in Resources : v[r] - Total[r] \in -1 .. 1
                                 /\ v[R1] + v[R2] \in 2 .. 3}
=============================================================================

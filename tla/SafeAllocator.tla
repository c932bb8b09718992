--------------------------- MODULE SafeAllocator ---------------------------
(***************************************************************************)
(* What the Banker's algorithm promises, without the algorithm: resources  *)
(* are granted only into a state from which every live task can still get  *)
(* all it declared, one task after the other.  No grant is ever obliged.   *)
(***************************************************************************)
EXTENDS Integers

CONSTANTS
    N,          \* number of task slots
    Resources,
    Total,      \* Total[r]: what the system owns of r
    Demands     \* the maximum demands tasks may declare

Pids == 0 .. N - 1

\* What the theorems suppose: task_create() itself does not refuse a larger demand.
SafeAllocatorAssumption ==
    /\ N \in Nat
    /\ Total \in [Resources -> Nat]
    /\ Demands \subseteq [Resources -> Nat]
    /\ \A d \in Demands : \A r \in Resources : d[r] <= Total[r]

VARIABLES live, available, allocation, need

vars == <<live, available, allocation, need>>

Zero == [r \in Resources |-> 0]

-----------------------------------------------------------------------------

\* The orders of all slots: each slot at one place.
Orders == {ord \in [1 .. N -> Pids] :
              /\ \A i, j \in 1 .. N : ord[i] = ord[j] => i = j
              /\ \A p \in Pids : \E i \in 1 .. N : ord[i] = p}

\* work[i]: what is free of r once the first i tasks of the order have ended.  It
\* starts from av, ends with everything returned, and suffices for each next task.
Suffices(ord, m, r, av, al, nd) ==
    \E work \in [0 .. m -> 0 .. Total[r]] :
        /\ work[0] = av[r]
        /\ work[m] = Total[r]
        /\ \A i, j \in 0 .. m : i <= j => work[i] <= work[j]
        /\ \A i \in 1 .. m : /\ work[i] = work[i - 1] + al[ord[i]][r]
                             /\ nd[ord[i]][r] <= work[i - 1]

\* Some order of the live tasks lets all of them run to completion.
SafeFor(lv, av, al, nd) ==
    \E ord \in Orders, m \in 0 .. N :
        /\ lv = {ord[i] : i \in 1 .. m}
        /\ \A r \in Resources : Suffices(ord, m, r, av, al, nd)

Safe == SafeFor(live, available, allocation, need)

-----------------------------------------------------------------------------

Init ==
    /\ live = {}
    /\ available = Total
    /\ allocation = [p \in Pids |-> Zero]
    /\ need = [p \in Pids |-> Zero]

Create(p, demand) ==
    /\ p \notin live
    /\ live' = live \cup {p}
    /\ need' = [need EXCEPT ![p] = demand]
    /\ UNCHANGED <<available, allocation>>

End(p) ==
    /\ p \in live
    /\ live' = live \ {p}
    /\ available' = [r \in Resources |-> available[r] + allocation[p][r]]
    /\ allocation' = [allocation EXCEPT ![p] = Zero]
    /\ UNCHANGED need

Grant(p, amount) ==
    /\ p \in live
    /\ \A r \in Resources : amount[r] <= need[p][r] /\ amount[r] <= available[r]
    /\ available' = [r \in Resources |-> available[r] - amount[r]]
    /\ allocation' = [allocation EXCEPT ![p] = [r \in Resources |-> @[r] + amount[r]]]
    /\ need' = [need EXCEPT ![p] = [r \in Resources |-> @[r] - amount[r]]]
    /\ UNCHANGED live
    /\ SafeFor(live, available', allocation', need')

GiveBack(p, amount) ==
    /\ p \in live
    /\ \A r \in Resources : amount[r] <= allocation[p][r]
    /\ available' = [r \in Resources |-> available[r] + amount[r]]
    /\ allocation' = [allocation EXCEPT ![p] = [r \in Resources |-> @[r] - amount[r]]]
    /\ need' = [need EXCEPT ![p] = [r \in Resources |-> @[r] + amount[r]]]
    /\ UNCHANGED live

\* The amounts that can be asked for or given back.
Portions == {v \in [Resources -> UNION {0 .. Total[r] : r \in Resources}] :
               \A r \in Resources : v[r] <= Total[r]}

Next ==
    \E p \in Pids :
        \/ \E d \in Demands : Create(p, d)
        \/ End(p)
        \/ \E v \in Portions : Grant(p, v) \/ GiveBack(p, v)

Spec == Init /\ [][Next]_vars

-----------------------------------------------------------------------------

TypeOK ==
    /\ live \subseteq Pids
    /\ available \in [Resources -> Nat]
    /\ allocation \in [Pids -> [Resources -> Nat]]
    /\ need \in [Pids -> [Resources -> Nat]]

\* Deadlock is avoided: whenever tasks live, one of them can be given everything it
\* still needs from what is free, so it can end and return what it holds.
SomeoneCanFinish ==
    live # {} => \E p \in live : \A r \in Resources : need[p][r] <= available[r]
=============================================================================

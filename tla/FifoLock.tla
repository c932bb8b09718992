------------------------------ MODULE FifoLock ------------------------------
(***************************************************************************)
(* What a mutex_t promises: one owner, and waiters that become owner in    *)
(* the order in which they asked.                                          *)
(***************************************************************************)
EXTENDS Integers, Sequences

CONSTANTS Pids, NoTask
VARIABLES owner, waiting

Init == owner = NoTask /\ waiting = << >>

Acquire(p) ==
    /\ owner = NoTask
    /\ owner' = p
    /\ UNCHANGED waiting

Wait(p) ==
    /\ owner # NoTask
    /\ waiting' = Append(waiting, p)
    /\ UNCHANGED owner

Release ==
    /\ owner # NoTask
    /\ waiting = << >>
    /\ owner' = NoTask
    /\ UNCHANGED waiting

HandOver ==
    /\ owner # NoTask
    /\ waiting # << >>
    /\ owner' = Head(waiting)
    /\ waiting' = Tail(waiting)

Next == (\E p \in Pids : Acquire(p) \/ Wait(p)) \/ Release \/ HandOver

Spec == Init /\ [][Next]_<<owner, waiting>>
=============================================================================

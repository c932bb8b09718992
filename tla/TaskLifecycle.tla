--------------------------- MODULE TaskLifecycle ---------------------------
(***************************************************************************)
(* What the scheduler promises of the life of a task, with no queue, level *)
(* or quantum: a started task waits, at most one task runs, a running task *)
(* is only ever exchanged for a waiting one, and only a running task ends. *)
(***************************************************************************)
CONSTANT Pids
VARIABLES waiting, running

TypeOK ==
    /\ waiting \subseteq Pids
    /\ \E p \in Pids : running \in {{}, {p}}
    /\ waiting \cap running = {}

Init == waiting = {} /\ running = {}

Start(p) ==
    /\ p \notin waiting \cup running
    /\ waiting' = waiting \cup {p}
    /\ UNCHANGED running

Dispatch(p) ==
    /\ running = {}
    /\ p \in waiting
    /\ waiting' = waiting \ {p}
    /\ running' = {p}

Exchange(p, next) ==
    /\ running = {p}
    /\ next \in waiting
    /\ waiting' = (waiting \ {next}) \cup {p}
    /\ running' = {next}

Finish(p) ==
    /\ running = {p}
    /\ running' = {}
    /\ UNCHANGED waiting

Next ==
    \/ \E p \in Pids : Start(p) \/ Dispatch(p) \/ Finish(p)
    \/ \E p, next \in Pids : Exchange(p, next)

Spec == Init /\ [][Next]_<<waiting, running>>
=============================================================================

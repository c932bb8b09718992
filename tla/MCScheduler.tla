---------------------------- MODULE MCScheduler ----------------------------
(* Two tasks, called by anyone in any order, or by the kernel alone, kills *)
(* included.  A killed task that runs again can be killed again, so        *)
(* task_count sinks without end: MaxDeficit bounds it.                     *)
EXTENDS Kernel

CONSTANT MaxDeficit

VARIABLE caller

mcVars == <<vars, caller>>

MCQuantums == [q \in Levels |-> IF q = 1 THEN 2 ELSE 1]

MCInit == Init /\ caller \in {"anyone", "kernel"}

AtBound == task_count = -MaxDeficit /\ UNCHANGED vars

MCNext ==
    /\ UNCHANGED caller
    /\ \/ AtBound
       \/ caller = "anyone" /\ Next /\ task_count' >= -MaxDeficit
       \/ caller = "kernel" /\ KernelNext /\ task_count' >= -MaxDeficit

MCSpec == MCInit /\ [][MCNext]_mcVars

\* The kernel never loses a live task: it runs or has a queue entry, across kills of
\* queued and running tasks and reuse of their slots.  (schedule() called while a task
\* runs would lose it; the kernel does not.)
KernelLosesNoTask == caller = "kernel" => LiveIsPlaced

\* Under the kernel's calls at most one task is RUNNING, and it is current_pid.
KernelRunsOne == caller = "kernel" => RunningIsCurrent
=============================================================================

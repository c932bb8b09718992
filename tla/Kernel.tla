------------------------------- MODULE Kernel -------------------------------
(***************************************************************************)
(* The scheduler as the running kernel drives it: the shell starts a task  *)
(* with "sim-load &" and ends one with "kill <pid>" (src/shell.c), and the *)
(* keyboard loop polls system_tick() while no key is down (src/io.c).  No  *)
(* other call of scheduler.h that moves a task is made by the kernel; in   *)
(* particular nothing calls priority_boost().                              *)
(***************************************************************************)
EXTENDS Scheduler

CONSTANT Loads      \* the work that "sim-load &" gives a task, 50 ticks in the code

ASSUME KernelAssumption == Loads \subseteq Nat \ {0}

SimLoad == \E w \in Loads : NewTask(w)

Kill(p) == TaskTerminate(p)

\* The shell before its first kill: tasks end only by finishing their work.
UnkilledNext == ~Overrun /\ (SimLoad \/ SystemTick)

KernelNext ==
    \/ UnkilledNext
    \/ ~Overrun /\ \E p \in Pids : Kill(p)
    \/ AfterOverrun

\* read_char() ticks as long as it waits for a key; a user who leaves the
\* keyboard alone now and then is all the fairness there is.
TickFairness == WF_vars(~Overrun /\ SystemTick)

KernelSpec   == Init /\ [][KernelNext]_vars
UnkilledSpec == Init /\ [][UnkilledNext]_vars /\ TickFairness

-----------------------------------------------------------------------------
(* Kills included. *)

\* No live task is ever lost: it runs or has a queue entry, across kills of queued
\* and running tasks and reuse of their slots.
LiveIsPlaced == \A p \in Live : p = current_pid \/ p \in Queued

\* At most one task is RUNNING, and it is current_pid: every schedule() comes from
\* an idle tick or from a yield that put the running task back first.
RunningIsCurrent == \A p \in Pids : state[p] = RUNNING => p = current_pid

\* "kill <pid>" stops a process: only task_create() brings a terminated one back.
KilledStaysDead ==
    [][\A p \in Pids : p \notin Live /\ p \in Live' => task_count' = task_count + 1]_vars

-----------------------------------------------------------------------------
(* Without kills. *)

\* Every live task is in exactly one place, the CPU or one queue entry, and a
\* terminated one is in none.
PlacedOnce == \A p \in Pids : InOnePlace(p)

\* Whenever the running task changes, the new one is on the highest level that
\* any task waiting at that moment is on.
BestLevelRuns ==
    [][current_pid' \notin {NoTask, current_pid} =>
          \A p \in Pids : state'[p] = READY =>
              priority_level'[current_pid'] <= priority_level'[p]]_vars

\* The scheduler implements the life cycle of tasks.
Lifecycle == INSTANCE TaskLifecycle
    WITH waiting <- {p \in Pids : state[p] = READY},
         running <- {p \in Pids : state[p] = RUNNING}
LifecycleSpec == Lifecycle!Spec

\* Once the user starts no further task, every task completes.
WorkCompletes ==
    <>[][~SimLoad]_vars => \A p \in Pids : p \in Live ~> p \notin Live
=============================================================================

------------------------------ MODULE MCKernel ------------------------------
(* The kernel's scheduling on two or three tasks, with quanta of 1, 2 and 2 *)
(* ticks: a task of 6 units or more uses up the quantum of every level.     *)
EXTENDS Kernel

CONSTANT MaxDeficit   \* how far kills of tasks that run again may take task_count below 0

MCQuantums == [q \in Levels |-> IF q = 0 THEN 1 ELSE 2]

AtBound == task_count = -MaxDeficit /\ UNCHANGED vars
MCKernelNext == AtBound \/ (KernelNext /\ task_count' >= -MaxDeficit)
MCKernelSpec == Init /\ [][MCKernelNext]_vars
=============================================================================

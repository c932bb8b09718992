------------------------------ MODULE MCMutex ------------------------------
(* Three tasks, a ring as long as the task table, as in the code (16 and 16). *)
EXTENDS Mutex
MCQuantums == [q \in Levels |-> IF q = 0 THEN 2 ELSE 1]
=============================================================================

------------------------------ MODULE Spinlock ------------------------------
(***************************************************************************)
(* The test-and-set lock of src/sync.c between CPUs.  A call that takes it *)
(* starts at "acquire", passes "spin" while the lock is taken, continues   *)
(* at a label of its own and ends through "release".                       *)
(***************************************************************************)
EXTENDS Integers

CONSTANT CPUs

VARIABLES
    locked,     \* spinlock_t.locked
    pc          \* where each CPU is in its call

spinVars == <<locked, pc>>

Outside == {"idle", "acquire", "spin"}

SpinInit == locked = FALSE /\ pc = [c \in CPUs |-> "idle"]

At(c, label) == pc[c] = label
Go(c, label) == pc' = [pc EXCEPT ![c] = label]

-----------------------------------------------------------------------------
(* A definition marked "bug:" is a variant a slip in the code would give; the runs *)
(* put it in the place of the definition after it to show that a property notices. *)

\* bug: a taken lock is taken again.
TestAndSetBlind(c, first) == At(c, "acquire") /\ locked' = TRUE /\ Go(c, first)
\* __atomic_test_and_set()
TestAndSet(c, first) ==
    /\ At(c, "acquire")
    /\ locked' = TRUE
    /\ Go(c, IF locked THEN "spin" ELSE first)

\* The inner loop reads the lock until it is free.
SpinRead(c) ==
    /\ At(c, "spin")
    /\ Go(c, IF locked THEN "spin" ELSE "acquire")
    /\ UNCHANGED locked

\* bug: the early return forgets the lock.
ReleaseForgotten(c) == At(c, "release") /\ Go(c, "idle") /\ UNCHANGED locked
Release(c) == At(c, "release") /\ locked' = FALSE /\ Go(c, "idle")

-----------------------------------------------------------------------------

\* One CPU at a time is past the lock, and the lock is set exactly while one is.
OneHolder ==
    /\ \A c, d \in CPUs : pc[c] \notin Outside /\ pc[d] \notin Outside => c = d
    /\ locked <=> \E c \in CPUs : pc[c] \notin Outside

\* The lock is always given back, on every path through every call: no early return
\* leaves the other CPUs spinning.
LockReleased == locked ~> ~locked
=============================================================================

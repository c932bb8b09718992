------------------------------- MODULE Mutex -------------------------------
(***************************************************************************)
(* mutex_t of src/sync.c on top of the scheduler: mutex_lock() by the      *)
(* running task, the ring of waiters, the hand-over in mutex_unlock().     *)
(*                                                                         *)
(* The clients are the model's: tasks that ask only while they neither own *)
(* nor wait for the mutex, and release only while they own it.  The calls  *)
(* of ipc_send() and ipc_receive() come in that order, with nothing        *)
(* between them.  The mutex's spinlock is free at each call, since no call *)
(* is preempted.                                                           *)
(***************************************************************************)
EXTENDS Scheduler

CONSTANT MAX_BLOCKED_QUEUE

ASSUME MutexAssumption == MAX_BLOCKED_QUEUE \in Nat \ {0}

Ring == 0 .. MAX_BLOCKED_QUEUE - 1

VARIABLES
    owner_pid,
    blocked_queue, queue_head, queue_tail,   \* the ring of waiters
    dropped   \* history: tasks that asked while the ring was full

ring == <<blocked_queue, queue_head, queue_tail>>
mvars == <<vars, owner_pid, ring, dropped>>

(* A definition marked "bug:" is a variant a slip in the code would give; the runs *)
(* put it in the place of the definition after it to show that a property notices. *)

After(i) == (i + 1) % MAX_BLOCKED_QUEUE

\* The waiters, first come first.
Waiting ==
    [k \in 1 .. (queue_tail - queue_head) % MAX_BLOCKED_QUEUE |->
        blocked_queue[(queue_head + k - 1) % MAX_BLOCKED_QUEUE]]
Waiters == {Waiting[k] : k \in DOMAIN Waiting}

-----------------------------------------------------------------------------

MutexInit ==
    /\ Init
    /\ owner_pid = NoTask
    /\ blocked_queue = [i \in Ring |-> NoTask]
    /\ queue_head = 0
    /\ queue_tail = 0
    /\ dropped = {}

\* mutex_lock() on a free mutex.
LockFree ==
    /\ current_pid # NoTask
    /\ owner_pid = NoTask
    /\ owner_pid' = current_pid
    /\ UNCHANGED <<vars, ring, dropped>>

\* bug: the ring counts as full one place too early.
RingFullEarly == After(After(queue_tail)) = queue_head
RingFull == After(queue_tail) = queue_head

\* mutex_lock() on a mutex that is owned: the ring takes the caller unless it is
\* full, task_block() sets it BLOCKED, and task_yield() sets it READY again, queues
\* it and dispatches.
LockOwned ==
    /\ current_pid # NoTask
    /\ owner_pid # NoTask
    /\ \/ /\ ~RingFull
          /\ blocked_queue' = [blocked_queue EXCEPT ![queue_tail] = current_pid]
          /\ queue_tail' = After(queue_tail)
          /\ UNCHANGED dropped
       \/ /\ RingFull
          /\ dropped' = dropped \cup {current_pid}
          /\ UNCHANGED <<blocked_queue, queue_tail>>
    /\ Yield(FALSE, remaining_quantum)
    /\ UNCHANGED <<remaining_work, task_count, owner_pid, queue_head>>

\* bug: the waiter is queued whether BLOCKED or not.
UnlockRequeues ==
    /\ queue_head # queue_tail
    /\ LET next == blocked_queue[queue_head]
       IN /\ owner_pid' = next
          /\ state' = [state EXCEPT ![next] = READY]
          /\ queues' = Enqueue(next, priority_level[next])
          /\ UNCHANGED <<tcbs, current_pid, task_count>>
    /\ queue_head' = After(queue_head)
    /\ UNCHANGED <<blocked_queue, queue_tail, dropped>>
\* bug: the last waiter is served first.
UnlockToLast ==
    /\ queue_head # queue_tail
    /\ LET last == (queue_tail - 1) % MAX_BLOCKED_QUEUE
       IN owner_pid' = blocked_queue[last] /\ queue_tail' = last
    /\ UNCHANGED <<vars, blocked_queue, queue_head, dropped>>
\* bug: the waiter leaves the ring but does not become the owner.
UnlockForgets ==
    /\ queue_head # queue_tail
    /\ owner_pid' = NoTask
    /\ queue_head' = After(queue_head)
    /\ UNCHANGED <<vars, blocked_queue, queue_tail, dropped>>
\* mutex_unlock() with a waiter: the first one owns the mutex; task_unblock() moves
\* it only if it is BLOCKED.
UnlockToWaiter ==
    /\ queue_head # queue_tail
    /\ LET next == blocked_queue[queue_head]
       IN /\ owner_pid' = next
          /\ IF state[next] = BLOCKED THEN TaskUnblock(next) ELSE UNCHANGED vars
    /\ queue_head' = After(queue_head)
    /\ UNCHANGED <<blocked_queue, queue_tail, dropped>>

UnlockToNobody ==
    /\ queue_head = queue_tail
    /\ owner_pid' = NoTask
    /\ UNCHANGED <<vars, ring, dropped>>

-----------------------------------------------------------------------------

AskFor == current_pid \notin Waiters \cup {owner_pid} /\ (LockFree \/ LockOwned)
GiveUp == current_pid # NoTask /\ current_pid = owner_pid
             /\ (UnlockToWaiter \/ UnlockToNobody)

MutexNext ==
    \/ AskFor
    \/ GiveUp
    \/ (TaskCreate \/ SystemTick) /\ UNCHANGED <<owner_pid, ring, dropped>>

\* Ticks go on, and an owner that runs again and again releases at last.
MutexSpec ==
    /\ MutexInit /\ [][MutexNext]_mvars
    /\ WF_mvars(SystemTick /\ UNCHANGED <<owner_pid, ring, dropped>>)
    /\ SF_mvars(GiveUp)

-----------------------------------------------------------------------------

\* A ring of MAX_BLOCKED_QUEUE places holds one waiter less; with one task owning
\* the mutex and every other one waiting, none is turned away unnoticed.
NoWaiterDropped == dropped = {}

\* Blocking, unblocking and handing over leave every live task in exactly one place.
OnePlace == \A p \in Pids : InOnePlace(p)

\* The mutex implements a lock that is handed over in the order of the requests.
Fifo == INSTANCE FifoLock WITH owner <- owner_pid, waiting <- Waiting
FifoSpec == Fifo!Spec

\* Every waiter becomes the owner.
WaiterServed == \A p \in Pids : p \in Waiters ~> owner_pid = p

\* Tasks "un-schedule themselves into TASK_BLOCKED": a waiter is BLOCKED.
WaitersBlocked == \A p \in Waiters : state[p] = BLOCKED
=============================================================================

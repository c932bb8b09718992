------------------------------ MODULE Scheduler ------------------------------
(***************************************************************************)
(* The multi-level feedback queue of src/scheduler.c: the task table, the  *)
(* three ready queues, the running task, and every operation of            *)
(* scheduler.h that touches them.  Resources (Banker), mailboxes (Mailbox) *)
(* and mutexes (Mutex) are modules of their own; Kernel restricts the      *)
(* calls to the ones the shell and the keyboard loop make.                 *)
(*                                                                         *)
(* One action is one call: nothing in the kernel preempts a call, because  *)
(* system_tick() is polled from read_char() and no interrupt is enabled.   *)
(***************************************************************************)
EXTENDS Integers, Sequences, FiniteSets

CONSTANTS
    MAX_TASKS,   \* slots of the task table, and of each queue's array
    Quantums,    \* quantums[]: ticks granted on each level
    WorkUnits    \* arguments task_set_work() is called with, besides Infinite

NUM_QUEUES == 3
Pids   == 0 .. MAX_TASKS - 1
Levels == 0 .. NUM_QUEUES - 1
Lowest == NUM_QUEUES - 1
NoTask == -1          \* current_pid when nothing runs
Infinite == -1        \* remaining_work of a task that never completes

READY == "READY"
RUNNING == "RUNNING"
BLOCKED == "BLOCKED"
TERMINATED == "TERMINATED"
TaskStates == {READY, RUNNING, BLOCKED, TERMINATED}

ASSUME SchedulerAssumption ==
    /\ MAX_TASKS \in Nat \ {0}
    /\ Quantums \in [Levels -> Nat \ {0}]
    /\ WorkUnits \subseteq Nat \ {0}

VARIABLES
    state,              \* tasks[p].state
    priority_level,     \* tasks[p].priority_level
    remaining_quantum,  \* tasks[p].remaining_quantum; 0 stands for every value <= 0
    remaining_work,     \* tasks[p].remaining_work
    queues,             \* queues[q][0 .. queue_counts[q] - 1], as a sequence
    current_pid,
    task_count

tcbs == <<priority_level, remaining_quantum, remaining_work>>
vars == <<state, tcbs, queues, current_pid, task_count>>

Live == {p \in Pids : state[p] # TERMINATED}
Entries(q) == {queues[q][i] : i \in DOMAIN queues[q]}
Queued == UNION {Entries(q) : q \in Levels}
\* The queue entries that hold p.
Places(p) == {e \in Levels \X (1 .. MAX_TASKS) :
                 e[2] <= Len(queues[e[1]]) /\ queues[e[1]][e[2]] = p}

\* A queue longer than its array: the write behind it lands in the next queue
\* (or behind the last one), and what follows is outside the model.
Overrun == \E q \in Levels : Len(queues[q]) > MAX_TASKS

-----------------------------------------------------------------------------
(* The steps the calls are made of, on the values the call has computed so far.   *)
(* A definition marked "bug:" is a variant a slip in the code would give; the runs *)
(* put it in the place of the definition after it to show that a property notices. *)

\* bug: an append to a full queue is dropped.
EnqueueUnlessFull(p, q) ==
    IF Len(queues[q]) < MAX_TASKS THEN [queues EXCEPT ![q] = Append(@, p)] ELSE queues
\* bug: only new tasks and those on Q0 are appended.
EnqueueOnlyNew(p, q) == IF q = 0 THEN [queues EXCEPT ![q] = Append(@, p)] ELSE queues
Enqueue(p, q) == [queues EXCEPT ![q] = Append(@, p)]

\* bug: any queue that is not empty will do.
SelectsAny(qs, q) == qs[q] # << >>
\* schedule() serves q: the first queue that is not empty.
Selects(qs, q) == qs[q] # << >> /\ \A higher \in 0 .. q - 1 : qs[higher] = << >>

\* bug: queue_counts[q] is not decremented.
HeadKept(qs, q) == qs
HeadRemoved(qs, q) == [qs EXCEPT ![q] = Tail(@)]

\* The rest of a call that ends in schedule(): the head of the selected queue runs,
\* whatever its state; with every queue empty nothing changes.
Dispatch(qs, st, cur) ==
    \/ /\ \A q \in Levels : qs[q] = << >>
       /\ queues' = qs /\ state' = st /\ current_pid' = cur
    \/ \E q \in Levels :
       /\ Selects(qs, q)
       /\ queues' = HeadRemoved(qs, q)
       /\ state' = [st EXCEPT ![Head(qs[q])] = RUNNING]
       /\ current_pid' = Head(qs[q])

LevelAfterYield(p, full) ==
    IF full /\ priority_level[p] < Lowest THEN priority_level[p] + 1 ELSE priority_level[p]

\* bug: the quantum is refilled before the level is changed.
QuantumOfOldLevel(p, q, rq) ==
    IF q # priority_level[p] THEN [rq EXCEPT ![p] = Quantums[priority_level[p]]] ELSE rq
\* Only a demotion to level q refills the quantum.
QuantumAfterYield(p, q, rq) ==
    IF q # priority_level[p] THEN [rq EXCEPT ![p] = Quantums[q]] ELSE rq

\* task_yield() of the running task, from the quanta rq the caller left.
Yield(usedFullQuantum, rq) ==
    LET p == current_pid
        q == LevelAfterYield(p, usedFullQuantum)
    IN /\ priority_level' = [priority_level EXCEPT ![p] = q]
       /\ remaining_quantum' = QuantumAfterYield(p, q, rq)
       /\ Dispatch(Enqueue(p, q), [state EXCEPT ![p] = READY], NoTask)

\* bug: task_count is not decremented.
EndTaskUncounted(p) ==
    /\ state' = [state EXCEPT ![p] = TERMINATED]
    /\ task_count' = task_count
\* task_terminate(p): no effect on a terminated task; the queues and current_pid
\* keep p.
EndTask(p) ==
    /\ state' = [state EXCEPT ![p] = TERMINATED]
    /\ task_count' = IF state[p] = TERMINATED THEN task_count ELSE task_count - 1

\* task_create() into the first free slot, then task_set_work(w) on it.
NewTask(w) ==
    /\ task_count < MAX_TASKS
    /\ \E p \in Pids \ Live :
       /\ \A lower \in 0 .. p - 1 : lower \in Live
       /\ state' = [state EXCEPT ![p] = READY]
       /\ priority_level' = [priority_level EXCEPT ![p] = 0]
       /\ remaining_quantum' = [remaining_quantum EXCEPT ![p] = Quantums[0]]
       /\ remaining_work' = [remaining_work EXCEPT ![p] = w]
       /\ queues' = Enqueue(p, 0)
    /\ task_count' = task_count + 1
    /\ UNCHANGED current_pid

-----------------------------------------------------------------------------
(* The calls of scheduler.h.  A call that returns without effect is a stutter. *)

Init ==
    /\ state = [p \in Pids |-> TERMINATED]
    /\ priority_level = [p \in Pids |-> 0]
    /\ remaining_quantum = [p \in Pids |-> 0]
    /\ remaining_work = [p \in Pids |-> 0]
    /\ queues = [q \in Levels |-> << >>]
    /\ current_pid = NoTask
    /\ task_count = 0

TaskCreate == NewTask(Infinite)

TaskTerminate(p) ==
    /\ p \in Live
    /\ EndTask(p)
    /\ UNCHANGED <<tcbs, queues, current_pid>>

Schedule ==
    /\ Dispatch(queues, state, current_pid)
    /\ UNCHANGED <<tcbs, task_count>>

TaskYield(usedFullQuantum) ==
    /\ current_pid # NoTask
    /\ Yield(usedFullQuantum, remaining_quantum)
    /\ UNCHANGED <<remaining_work, task_count>>

\* Q1, then Q2, is appended to Q0.
BoostedQueues ==
    [q \in Levels |-> IF q = 0 THEN queues[0] \o queues[1] \o queues[2] ELSE << >>]

PriorityBoost ==
    LET below == Entries(1) \cup Entries(2)
    IN /\ priority_level' = [p \in Pids |-> IF p \in below THEN 0 ELSE priority_level[p]]
       /\ remaining_quantum' = [p \in Pids |-> IF p \in below THEN Quantums[0]
                                                              ELSE remaining_quantum[p]]
       /\ queues' = BoostedQueues
       /\ UNCHANGED <<state, remaining_work, current_pid, task_count>>

TaskSetWork(p, w) ==
    /\ p \in Live
    /\ remaining_work' = [remaining_work EXCEPT ![p] = w]
    /\ UNCHANGED <<state, priority_level, remaining_quantum, queues, current_pid, task_count>>

TaskBlock(p) ==
    /\ p \in Live
    /\ state' = [state EXCEPT ![p] = BLOCKED]
    /\ UNCHANGED <<tcbs, queues, current_pid, task_count>>

TaskUnblock(p) ==
    /\ state[p] = BLOCKED
    /\ state' = [state EXCEPT ![p] = READY]
    /\ queues' = Enqueue(p, priority_level[p])
    /\ UNCHANGED <<tcbs, current_pid, task_count>>

\* bug: schedule() on every tick.
TickIdleAlways == Schedule
\* system_tick() with nothing running.
TickIdle == current_pid = NoTask /\ Schedule

\* system_tick() that uses up the running task's last unit of work.
TickCompletes ==
    /\ current_pid # NoTask
    /\ remaining_work[current_pid] = 1
    /\ remaining_work' = [remaining_work EXCEPT ![current_pid] = 0]
    /\ EndTask(current_pid)
    /\ current_pid' = NoTask
    /\ UNCHANGED <<priority_level, remaining_quantum, queues>>

\* bug: only the work done on Q0 is charged.
WorkUncharged(p) == IF priority_level[p] = 0 THEN remaining_work[p] - 1 ELSE remaining_work[p]
\* bug: infinite work is charged too.
WorkAlwaysCharged(p) == remaining_work[p] - 1
\* A tick takes one unit from work that is finite.
WorkCharged(p) == IF remaining_work[p] > 0 THEN remaining_work[p] - 1 ELSE remaining_work[p]

\* system_tick() otherwise: the tick is charged, and a used-up quantum yields.
TickCharges ==
    /\ current_pid # NoTask
    /\ remaining_work[current_pid] # 1
    /\ remaining_work' = [remaining_work EXCEPT ![current_pid] = WorkCharged(current_pid)]
    /\ UNCHANGED task_count
    /\ \/ /\ remaining_quantum[current_pid] > 1
          /\ remaining_quantum' = [remaining_quantum EXCEPT ![current_pid] = @ - 1]
          /\ UNCHANGED <<state, priority_level, queues, current_pid>>
       \/ /\ remaining_quantum[current_pid] <= 1
          /\ Yield(TRUE, [remaining_quantum EXCEPT ![current_pid] = 0])

SystemTick == TickIdle \/ TickCompletes \/ TickCharges

\* Undefined behaviour from here on: nothing is claimed about it.
AfterOverrun == Overrun /\ UNCHANGED vars

Next ==
    \/ AfterOverrun
    \/ /\ ~Overrun
       /\ \/ TaskCreate
          \/ Schedule
          \/ PriorityBoost
          \/ SystemTick
          \/ \E full \in BOOLEAN : TaskYield(full)
          \/ \E p \in Pids : TaskTerminate(p) \/ TaskBlock(p) \/ TaskUnblock(p)
          \/ \E p \in Pids, w \in WorkUnits \cup {Infinite} : TaskSetWork(p, w)

Spec == Init /\ [][Next]_vars

-----------------------------------------------------------------------------
(* For the callers that keep to the rules (Kernel before its first kill, Mutex). *)

\* p, while it lives, is in exactly one place, the CPU or one queue entry; terminated,
\* in none.
InOnePlace(p) ==
    Cardinality(Places(p)) + (IF current_pid = p THEN 1 ELSE 0) = IF p \in Live THEN 1 ELSE 0

-----------------------------------------------------------------------------
(* What holds whatever calls are made, and in whatever order. *)

TypeOK ==
    /\ state \in [Pids -> TaskStates]
    /\ priority_level \in [Pids -> Levels]
    /\ remaining_quantum \in [Pids -> Nat]
    /\ remaining_work \in [Pids -> Nat \cup {Infinite}]
    /\ queues \in [Levels -> Seq(Pids)]
    /\ current_pid \in Pids \cup {NoTask}
    /\ task_count \in Int

\* A task that is READY can be found: it has an entry in some queue, so some
\* later schedule() reaches it.  task_create(), task_yield() and task_unblock()
\* must each append whenever they make a task READY, and schedule() must leave
\* no READY task behind when it removes an entry.
ReadyIsQueued == \A p \in Pids : state[p] = READY => p \in Queued

\* task_create()'s early return "task_count >= MAX_TASKS" never refuses while a
\* slot is free: kills, completions and tasks that run again after a kill may
\* make the counter too small, never too large.
FullMeansNoFreeSlot == task_count >= MAX_TASKS => Live = Pids

\* A live task above the lowest level always has ticks left, never more than its
\* level grants: demotion, boost and creation all refill the quantum they reset.
UpperLevelsHaveQuantum ==
    \A p \in Live : priority_level[p] < Lowest =>
        remaining_quantum[p] \in 1 .. Quantums[priority_level[p]]

\* A task sinks one level at a time, only while it is the running task, and with
\* the full quantum of its new level.
DemotionByExpiry ==
    [][\A p \in Pids : priority_level'[p] > priority_level[p] =>
          /\ current_pid = p
          /\ priority_level'[p] = priority_level[p] + 1
          /\ remaining_quantum'[p] = Quantums[priority_level'[p]]]_vars
=============================================================================

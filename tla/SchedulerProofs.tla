--------------------------- MODULE SchedulerProofs ---------------------------
(***************************************************************************)
(* The scheduler and its callers, for every size of the task table and     *)
(* every choice of quanta and work.                                        *)
(*                                                                         *)
(* Under arbitrary calls the state stays in range, a READY task can be     *)
(* found, the counter never refuses a free slot, an upper level always has *)
(* ticks left, and a task sinks only by being demoted.  Two strengthenings *)
(* make the invariant inductive.  A terminated task that still has a queue *)
(* entry, or is still the running one, can become live again, so the       *)
(* quantum of every such task is bounded, not only that of the live ones;  *)
(* and task_count is at most the number of live tasks.                     *)
(*                                                                         *)
(* The kernel: the shell and the keyboard loop, kills included, lose no    *)
(* live task and keep current_pid the only RUNNING one.  Both are false of *)
(* the scheduler under arbitrary calls (a schedule() while a task runs     *)
(* drops it), so the proof is about the calls the kernel makes.  Before    *)
(* the first kill each live task is in one place, the best level runs, and *)
(* the scheduler implements TaskLifecycle.                                 *)
(*                                                                         *)
(* mutex_t, for every size of the ring of waiters.  The ring is reasoned   *)
(* about in three steps: what index arithmetic modulo its size does        *)
(* (RingIndex), what an append and a removal do to the sequence of waiters *)
(* it stands for (Pushed, Popped), and the invariant MInv about that       *)
(* sequence.  The tasks a mutex moves are settled, in the sense of         *)
(* Settled: no one is ever left BLOCKED.                                   *)
(***************************************************************************)
EXTENDS MCScheduler, Mutex, FiniteSetTheorems, SequenceTheorems, TLAPS

Of(s) == {s[i] : i \in DOMAIN s}
QueuedIn(qs) == UNION {Of(qs[q]) : q \in Levels}
LiveIn(st) == {p \in Pids : st[p] # TERMINATED}

ReadyFound(st, qs) == \A p \in Pids : st[p] = READY => p \in QueuedIn(qs)
InLevel(p, lv, rq) == lv[p] < Lowest => rq[p] \in 1 .. Quantums[lv[p]]
KnownInLevel(st, qs, cur, lv, rq) ==
    \A p \in Pids : p \in LiveIn(st) \/ p \in QueuedIn(qs) \/ p = cur => InLevel(p, lv, rq)
Covered(n, st) == n <= Cardinality(LiveIn(st))

Typed(st, qs, cur) ==
    /\ st \in [Pids -> TaskStates]
    /\ qs \in [Levels -> Seq(Pids)]
    /\ cur \in Pids \cup {NoTask}

IInv ==
    /\ TypeOK
    /\ ReadyFound(state, queues)
    /\ KnownInLevel(state, queues, current_pid, priority_level, remaining_quantum)
    /\ Covered(task_count, state)

-----------------------------------------------------------------------------
(* What the steps on sequences do to the set of entries. *)

LEMMA OfAppend ==
    ASSUME NEW s \in Seq(Pids), NEW p \in Pids
    PROVE  Append(s, p) \in Seq(Pids) /\ Of(Append(s, p)) = Of(s) \cup {p}
<1>1. /\ Append(s, p) \in Seq(Pids)
      /\ DOMAIN Append(s, p) = 1 .. Len(s) + 1 /\ DOMAIN s = 1 .. Len(s) /\ Len(s) \in Nat
      /\ Append(s, p)[Len(s) + 1] = p
      /\ \A i \in 1 .. Len(s) : Append(s, p)[i] = s[i]
  OBVIOUS
<1>2. ASSUME NEW x \in Of(Append(s, p)) PROVE x \in Of(s) \cup {p}
  <2>1. PICK i \in 1 .. Len(s) + 1 : x = Append(s, p)[i]
    BY <1>1, <1>2 DEF Of
  <2>2. i \in 1 .. Len(s) \/ i = Len(s) + 1
    BY <1>1, <2>1
  <2> QED BY <1>1, <2>1, <2>2 DEF Of
<1>3. ASSUME NEW x \in Of(s) PROVE x \in Of(Append(s, p))
  <2>1. PICK i \in 1 .. Len(s) : x = s[i]
    BY <1>1, <1>3 DEF Of
  <2>2. i \in 1 .. Len(s) + 1 /\ Append(s, p)[i] = x
    BY <1>1, <2>1
  <2> QED BY <1>1, <2>2 DEF Of
<1>4. p \in Of(Append(s, p))
  <2>1. Len(s) + 1 \in 1 .. Len(s) + 1
    BY <1>1
  <2> QED BY <1>1, <2>1 DEF Of
<1> QED BY <1>1, <1>2, <1>3, <1>4

LEMMA OfTail ==
    ASSUME NEW s \in Seq(Pids), s # << >>
    PROVE  /\ Head(s) \in Pids /\ Tail(s) \in Seq(Pids)
           /\ Of(s) = Of(Tail(s)) \cup {Head(s)}
<1>1. /\ Head(s) \in Pids /\ Tail(s) \in Seq(Pids)
      /\ Len(Tail(s)) = Len(s) - 1
      /\ \A i \in 1 .. Len(Tail(s)) : Tail(s)[i] = s[i + 1]
  BY HeadTailProperties
<1>2. /\ Len(s) \in Nat \ {0} /\ DOMAIN s = 1 .. Len(s)
      /\ DOMAIN Tail(s) = 1 .. Len(s) - 1 /\ Head(s) = s[1]
  BY <1>1, EmptySeq, LenProperties
<1>3. ASSUME NEW x \in Of(s) PROVE x \in Of(Tail(s)) \cup {Head(s)}
  <2>1. PICK i \in 1 .. Len(s) : x = s[i]
    BY <1>2, <1>3 DEF Of
  <2>2. CASE i = 1
    BY <1>2, <2>1, <2>2
  <2>3. CASE i # 1
    <3>1. i - 1 \in 1 .. Len(s) - 1 /\ (i - 1) + 1 = i
      BY <1>2, <2>1, <2>3
    <3>2. Tail(s)[i - 1] = x
      BY <1>1, <2>1, <3>1
    <3> QED BY <1>2, <3>1, <3>2 DEF Of
  <2> QED BY <2>2, <2>3
<1>4. ASSUME NEW x \in Of(Tail(s)) PROVE x \in Of(s)
  <2>1. PICK i \in 1 .. Len(s) - 1 : x = Tail(s)[i]
    BY <1>2, <1>4 DEF Of
  <2>2. i + 1 \in 1 .. Len(s) /\ s[i + 1] = x
    BY <1>1, <1>2, <2>1
  <2> QED BY <1>2, <2>2 DEF Of
<1>5. Head(s) \in Of(s)
  <2>1. 1 \in 1 .. Len(s)
    BY <1>2
  <2> QED BY <1>2, <2>1 DEF Of
<1> QED BY <1>1, <1>3, <1>4, <1>5

LEMMA OfConcat ==
    ASSUME NEW s \in Seq(Pids), NEW t \in Seq(Pids)
    PROVE  s \o t \in Seq(Pids) /\ Of(s \o t) = Of(s) \cup Of(t)
<1>1. /\ s \o t \in Seq(Pids)
      /\ Len(s \o t) = Len(s) + Len(t)
      /\ \A i \in 1 .. Len(s) + Len(t) :
             (s \o t)[i] = IF i <= Len(s) THEN s[i] ELSE t[i - Len(s)]
  BY ConcatProperties
<1>2. /\ Len(s) \in Nat /\ Len(t) \in Nat
      /\ DOMAIN s = 1 .. Len(s) /\ DOMAIN t = 1 .. Len(t)
      /\ DOMAIN (s \o t) = 1 .. Len(s) + Len(t)
  BY <1>1, LenProperties
<1>3. ASSUME NEW x \in Of(s \o t) PROVE x \in Of(s) \cup Of(t)
  <2>1. PICK i \in 1 .. Len(s) + Len(t) : x = (s \o t)[i]
    BY <1>2, <1>3 DEF Of
  <2>2. CASE i <= Len(s)
    <3>1. i \in 1 .. Len(s) /\ x = s[i]
      BY <1>1, <1>2, <2>1, <2>2
    <3> QED BY <1>2, <3>1 DEF Of
  <2>3. CASE ~(i <= Len(s))
    <3>1. i - Len(s) \in 1 .. Len(t)
      BY <1>2, <2>1, <2>3
    <3>2. x = t[i - Len(s)]
      BY <1>1, <2>1, <2>3
    <3> QED BY <1>2, <3>1, <3>2 DEF Of
  <2> QED BY <2>2, <2>3
<1>4. ASSUME NEW x \in Of(s) PROVE x \in Of(s \o t)
  <2>1. PICK i \in 1 .. Len(s) : x = s[i]
    BY <1>2, <1>4 DEF Of
  <2>2. i \in 1 .. Len(s) + Len(t) /\ i <= Len(s)
    BY <1>2, <2>1
  <2>3. (s \o t)[i] = x
    BY <1>1, <2>1, <2>2
  <2> QED BY <1>2, <2>2, <2>3 DEF Of
<1>5. ASSUME NEW x \in Of(t) PROVE x \in Of(s \o t)
  <2>1. PICK i \in 1 .. Len(t) : x = t[i]
    BY <1>2, <1>5 DEF Of
  <2>2. /\ i + Len(s) \in 1 .. Len(s) + Len(t) /\ ~(i + Len(s) <= Len(s))
        /\ (i + Len(s)) - Len(s) = i
    BY <1>2, <2>1
  <2>3. (s \o t)[i + Len(s)] = x
    BY <1>1, <2>1, <2>2
  <2> QED BY <1>2, <2>2, <2>3 DEF Of
<1> QED BY <1>1, <1>3, <1>4, <1>5

LEMMA Enqueued ==
    ASSUME queues \in [Levels -> Seq(Pids)], NEW p \in Pids, NEW q \in Levels
    PROVE  /\ Enqueue(p, q) \in [Levels -> Seq(Pids)]
           /\ QueuedIn(Enqueue(p, q)) = QueuedIn(queues) \cup {p}
<1>1. Append(queues[q], p) \in Seq(Pids) /\ Of(Append(queues[q], p)) = Of(queues[q]) \cup {p}
  BY OfAppend
<1>2. Enqueue(p, q) \in [Levels -> Seq(Pids)]
  BY <1>1 DEF Enqueue
<1>3. \A k \in Levels : Enqueue(p, q)[k] = IF k = q THEN Append(queues[q], p) ELSE queues[k]
  BY DEF Enqueue
<1>4. \A k \in Levels : Of(Enqueue(p, q)[k]) = IF k = q THEN Of(queues[q]) \cup {p}
                                                        ELSE Of(queues[k])
  BY <1>1, <1>3
<1> QED BY <1>2, <1>4 DEF QueuedIn

\* schedule() either finds every queue empty and changes nothing, or makes one entry
\* the running task.
LEMMA Dispatched ==
    ASSUME NEW st, NEW qs, NEW cur, Typed(st, qs, cur), Dispatch(qs, st, cur)
    PROVE  \/ queues' = qs /\ state' = st /\ current_pid' = cur
           \/ \E p \in Pids :
              /\ queues' \in [Levels -> Seq(Pids)]
              /\ QueuedIn(qs) = QueuedIn(queues') \cup {p}
              /\ state' = [st EXCEPT ![p] = RUNNING]
              /\ current_pid' = p
<1>1. CASE \E q \in Levels :
              /\ Selects(qs, q)
              /\ queues' = HeadRemoved(qs, q)
              /\ state' = [st EXCEPT ![Head(qs[q])] = RUNNING]
              /\ current_pid' = Head(qs[q])
  <2>1. PICK q \in Levels :
              /\ qs[q] # << >>
              /\ queues' = [qs EXCEPT ![q] = Tail(@)]
              /\ state' = [st EXCEPT ![Head(qs[q])] = RUNNING]
              /\ current_pid' = Head(qs[q])
    BY <1>1 DEF Selects, HeadRemoved
  <2>2. qs \in [Levels -> Seq(Pids)]
    BY DEF Typed
  <2>3. /\ Head(qs[q]) \in Pids /\ Tail(qs[q]) \in Seq(Pids)
        /\ Of(qs[q]) = Of(Tail(qs[q])) \cup {Head(qs[q])}
    BY <2>1, <2>2, OfTail
  <2>4. \A k \in Levels : queues'[k] = IF k = q THEN Tail(qs[q]) ELSE qs[k]
    BY <2>1, <2>2
  <2>5. QueuedIn(qs) = QueuedIn(queues') \cup {Head(qs[q])}
    <3>1. \A k \in Levels : Of(qs[k]) = IF k = q THEN Of(queues'[k]) \cup {Head(qs[q])}
                                                 ELSE Of(queues'[k])
      BY <2>3, <2>4
    <3> QED BY <3>1 DEF QueuedIn
  <2>6. queues' \in [Levels -> Seq(Pids)]
    BY <2>1, <2>2, <2>3
  <2> QED BY <2>1, <2>3, <2>5, <2>6
<1> QED BY <1>1 DEF Dispatch

-----------------------------------------------------------------------------
(* Counting the live tasks. *)

LEMMA CoveredByMore ==
    ASSUME NEW st, NEW st2, NEW n \in Int, LiveIn(st) \subseteq LiveIn(st2), Covered(n, st)
    PROVE  Covered(n, st2)
<1> USE SchedulerAssumption
<1>1. IsFiniteSet(Pids)
  BY FS_Interval DEF Pids
<1>2. LiveIn(st2) \subseteq Pids /\ LiveIn(st) \subseteq Pids
  BY DEF LiveIn
<1>3. IsFiniteSet(LiveIn(st2)) /\ IsFiniteSet(LiveIn(st))
  BY <1>1, <1>2, FS_Subset
<1>4. Cardinality(LiveIn(st)) <= Cardinality(LiveIn(st2))
  BY <1>3, FS_Subset
<1>5. Cardinality(LiveIn(st)) \in Nat /\ Cardinality(LiveIn(st2)) \in Nat
  BY <1>3, FS_CardinalityType
<1> QED BY <1>4, <1>5 DEF Covered

LEMMA CoveredByOneMore ==
    ASSUME NEW st, NEW p \in Pids \ LiveIn(st), NEW n \in Int
    PROVE  /\ Covered(n, st) => n + 1 <= Cardinality(LiveIn(st) \cup {p})
           /\ n + 1 <= Cardinality(LiveIn(st) \cup {p}) => Covered(n, st)
<1> USE SchedulerAssumption
<1>1. IsFiniteSet(Pids) /\ LiveIn(st) \subseteq Pids
  BY FS_Interval DEF Pids, LiveIn
<1>2. IsFiniteSet(LiveIn(st))
  BY <1>1, FS_Subset
<1>3. Cardinality(LiveIn(st)) \in Nat
  BY <1>2, FS_CardinalityType
<1>4. Cardinality(LiveIn(st) \cup {p}) = Cardinality(LiveIn(st)) + 1
  BY <1>2, FS_AddElement
<1> QED BY <1>3, <1>4 DEF Covered

\* A task ends: the count follows, unless the task had ended before.
LEMMA CoveredAfterEnd ==
    ASSUME TypeOK, Covered(task_count, state), NEW p \in Pids, EndTask(p)
    PROVE  task_count' \in Int /\ Covered(task_count', state')
<1>1. /\ state \in [Pids -> TaskStates] /\ task_count \in Int
      /\ state' = [state EXCEPT ![p] = TERMINATED]
      /\ task_count' = IF state[p] = TERMINATED THEN task_count ELSE task_count - 1
  BY DEF TypeOK, EndTask
<1>2. LiveIn(state') = LiveIn(state) \ {p}
  BY <1>1 DEF LiveIn
<1>3. CASE state[p] = TERMINATED
  <2>1. LiveIn(state') = LiveIn(state)
    BY <1>2, <1>3 DEF LiveIn
  <2> QED BY <1>1, <1>3, <2>1 DEF Covered
<1>4. CASE state[p] # TERMINATED
  <2>1. p \in Pids \ LiveIn(state') /\ LiveIn(state') \cup {p} = LiveIn(state)
    BY <1>2, <1>4 DEF LiveIn
  <2>2. task_count' \in Int /\ task_count' + 1 = task_count
    BY <1>1, <1>4
  <2>3. task_count' + 1 <= Cardinality(LiveIn(state') \cup {p})
    BY <2>1, <2>2 DEF Covered
  <2> QED BY <2>1, <2>2, <2>3, CoveredByOneMore
<1> QED BY <1>3, <1>4

-----------------------------------------------------------------------------
(* The calls, one by one. *)

LEMMA DispatchKeeps ==
    ASSUME NEW st, NEW qs, NEW cur, NEW lv, NEW rq, NEW n \in Int,
           Typed(st, qs, cur), ReadyFound(st, qs),
           KnownInLevel(st, qs, cur, lv, rq), Covered(n, st),
           Dispatch(qs, st, cur)
    PROVE  /\ Typed(state', queues', current_pid')
           /\ ReadyFound(state', queues')
           /\ KnownInLevel(state', queues', current_pid', lv, rq)
           /\ Covered(n, state')
<1>1. CASE queues' = qs /\ state' = st /\ current_pid' = cur
  BY <1>1
<1>2. ASSUME NEW p \in Pids,
             queues' \in [Levels -> Seq(Pids)],
             QueuedIn(qs) = QueuedIn(queues') \cup {p},
             state' = [st EXCEPT ![p] = RUNNING],
             current_pid' = p
      PROVE  /\ Typed(state', queues', current_pid')
             /\ ReadyFound(state', queues')
             /\ KnownInLevel(state', queues', current_pid', lv, rq)
             /\ Covered(n, state')
  <2>1. st \in [Pids -> TaskStates] /\ RUNNING \in TaskStates
    BY DEF Typed, TaskStates
  <2>2. Typed(state', queues', current_pid')
    BY <1>2, <2>1 DEF Typed
  <2>3. \A k \in Pids : state'[k] = IF k = p THEN RUNNING ELSE st[k]
    BY <1>2, <2>1
  <2>4. ReadyFound(state', queues')
    BY <1>2, <2>3 DEF ReadyFound, READY, RUNNING
  <2>5. LiveIn(state') = LiveIn(st) \cup {p}
    BY <2>3 DEF LiveIn, RUNNING, TERMINATED
  <2>6. KnownInLevel(state', queues', current_pid', lv, rq)
    BY <1>2, <2>5 DEF KnownInLevel
  <2>7. Covered(n, state')
    BY <2>5, CoveredByMore
  <2> QED BY <2>2, <2>4, <2>6, <2>7
<1> QED BY <1>1, <1>2, Dispatched

LEMMA ScheduleKeepsIInv == ASSUME IInv, Schedule PROVE IInv'
<1>1. /\ Typed(state, queues, current_pid) /\ task_count \in Int
      /\ Dispatch(queues, state, current_pid)
      /\ UNCHANGED <<priority_level, remaining_quantum, remaining_work, task_count>>
  BY DEF IInv, TypeOK, Typed, Schedule, tcbs
<1>2. /\ Typed(state', queues', current_pid')
      /\ ReadyFound(state', queues')
      /\ KnownInLevel(state', queues', current_pid', priority_level, remaining_quantum)
      /\ Covered(task_count, state')
  BY <1>1, DispatchKeeps DEF IInv
<1>3. TypeOK'
  BY <1>1, <1>2 DEF IInv, TypeOK, Typed
<1> QED BY <1>1, <1>2, <1>3 DEF IInv

\* task_yield(), from the quanta a tick may have charged before it: only a tick that
\* uses up the quantum leaves none, and then the level or the refill makes it good.
LEMMA YieldKeepsIInv ==
    ASSUME IInv, NEW full \in BOOLEAN, NEW rq \in [Pids -> Nat], current_pid # NoTask,
           \A p \in Pids : rq[p] = remaining_quantum[p] \/ (full /\ p = current_pid),
           Yield(full, rq), remaining_work' \in [Pids -> Nat \cup {Infinite}],
           UNCHANGED task_count
    PROVE  IInv'
<1> USE SchedulerAssumption
<1> DEFINE p == current_pid
           q == LevelAfterYield(p, full)
           st == [state EXCEPT ![p] = READY]
           qs == Enqueue(p, q)
<1>1. /\ p \in Pids /\ priority_level \in [Pids -> Levels] /\ task_count \in Int
      /\ state \in [Pids -> TaskStates] /\ queues \in [Levels -> Seq(Pids)]
  BY DEF IInv, TypeOK
<1>2. /\ priority_level' = [priority_level EXCEPT ![p] = q]
      /\ remaining_quantum' = QuantumAfterYield(p, q, rq)
      /\ Dispatch(qs, st, NoTask)
  BY DEF Yield
<1>3. /\ q \in Levels /\ Quantums[q] \in Nat \ {0}
      /\ \/ full /\ priority_level[p] < Lowest /\ q # priority_level[p]
         \/ ~full /\ q = priority_level[p]
         \/ priority_level[p] = Lowest /\ q = Lowest
  <2>1. priority_level[p] \in Levels
    BY <1>1
  <2>2. q = IF full /\ priority_level[p] < Lowest THEN priority_level[p] + 1
                                                  ELSE priority_level[p]
    BY DEF LevelAfterYield
  <2>3. q \in Levels
    BY <2>1, <2>2 DEF Levels, Lowest, NUM_QUEUES
  <2>4. Quantums[q] \in Nat \ {0}
    BY <2>3
  <2>5. priority_level[p] < Lowest \/ priority_level[p] = Lowest
    BY <2>1 DEF Levels, Lowest, NUM_QUEUES
  <2>6. priority_level[p] + 1 # priority_level[p]
    BY <2>1 DEF Levels
  <2> HIDE DEF q
  <2> QED BY <2>2, <2>3, <2>4, <2>5, <2>6 DEF Lowest
<1>4. /\ qs \in [Levels -> Seq(Pids)] /\ QueuedIn(qs) = QueuedIn(queues) \cup {p}
  BY <1>1, <1>3, Enqueued
<1> HIDE DEF q, qs, p
<1>5. remaining_quantum' \in [Pids -> Nat] /\ priority_level' \in [Pids -> Levels]
  BY <1>1, <1>2, <1>3 DEF QuantumAfterYield
<1>6. \A k \in Pids : st[k] = IF k = p THEN READY ELSE state[k]
  BY <1>1
<1>7. LiveIn(st) = LiveIn(state) \cup {p}
  BY <1>1, <1>6 DEF LiveIn, READY, TERMINATED
<1>8. Typed(st, qs, NoTask)
  BY <1>1, <1>4 DEF Typed, TaskStates
<1>9. ReadyFound(st, qs)
  BY <1>4, <1>6 DEF IInv, ReadyFound
<1>10. Covered(task_count, st)
  BY <1>1, <1>7, CoveredByMore DEF IInv
<1>11. KnownInLevel(st, qs, NoTask, priority_level', remaining_quantum')
  <2> SUFFICES ASSUME NEW k \in Pids, k \in LiveIn(st) \/ k \in QueuedIn(qs) \/ k = NoTask
               PROVE  InLevel(k, priority_level', remaining_quantum')
    BY DEF KnownInLevel
  <2>1. NoTask \notin Pids
    BY DEF NoTask, Pids
  <2>2. InLevel(k, priority_level, remaining_quantum)
    BY <1>4, <1>7, <2>1 DEF IInv, KnownInLevel, p
  <2>3. CASE k # p
    <3>1. priority_level'[k] = priority_level[k] /\ remaining_quantum'[k] = remaining_quantum[k]
      BY <1>1, <1>2, <2>3 DEF QuantumAfterYield, p
    <3> QED BY <2>2, <3>1 DEF InLevel
  <2>4. CASE k = p /\ q # priority_level[p]
    <3>1. priority_level'[k] = q /\ remaining_quantum'[k] = Quantums[q]
      BY <1>1, <1>2, <2>4 DEF QuantumAfterYield
    <3>2. Quantums[q] \in 1 .. Quantums[q]
      BY <1>3
    <3> QED BY <3>1, <3>2 DEF InLevel
  <2>5. CASE k = p /\ q = priority_level[p]
    <3>1. priority_level'[k] = priority_level[k] /\ remaining_quantum'[k] = rq[k]
      BY <1>1, <1>2, <2>5 DEF QuantumAfterYield
    <3>2. CASE priority_level[p] = Lowest
      BY <2>5, <3>1, <3>2 DEF InLevel, Lowest, NUM_QUEUES
    <3>3. CASE ~full
      BY <2>2, <3>1, <3>3 DEF InLevel
    <3> QED BY <1>3, <2>5, <3>2, <3>3
  <2> QED BY <2>3, <2>4, <2>5
<1>12. /\ Typed(state', queues', current_pid')
       /\ ReadyFound(state', queues')
       /\ KnownInLevel(state', queues', current_pid', priority_level', remaining_quantum')
       /\ Covered(task_count, state')
  <2> HIDE DEF st
  <2> QED BY <1>1, <1>2, <1>8, <1>9, <1>10, <1>11, DispatchKeeps
<1>13. TypeOK'
  BY <1>1, <1>5, <1>12 DEF TypeOK, Typed
<1> QED BY <1>12, <1>13 DEF IInv

LEMMA NewTaskKeepsIInv ==
    ASSUME IInv, NEW w \in Nat \cup {Infinite}, NewTask(w) PROVE IInv'
<1> USE SchedulerAssumption
<1>1. PICK p \in Pids \ Live :
          /\ state' = [state EXCEPT ![p] = READY]
          /\ priority_level' = [priority_level EXCEPT ![p] = 0]
          /\ remaining_quantum' = [remaining_quantum EXCEPT ![p] = Quantums[0]]
          /\ remaining_work' = [remaining_work EXCEPT ![p] = w]
          /\ queues' = Enqueue(p, 0)
  BY DEF NewTask
<1>2. TypeOK /\ task_count' = task_count + 1 /\ current_pid' = current_pid
  BY DEF IInv, NewTask
<1>3. 0 \in Levels /\ Quantums[0] \in Nat \ {0}
  <2>1. 0 \in Levels
    BY DEF Levels, NUM_QUEUES
  <2> QED BY <2>1
<1>4. /\ queues' \in [Levels -> Seq(Pids)] /\ QueuedIn(queues') = QueuedIn(queues) \cup {p}
  BY <1>1, <1>2, <1>3, Enqueued DEF TypeOK
<1>5. TypeOK'
  BY <1>1, <1>2, <1>3, <1>4 DEF TypeOK, TaskStates
<1>6. LiveIn(state') = LiveIn(state) \cup {p} /\ p \notin LiveIn(state)
  BY <1>1, <1>2 DEF TypeOK, LiveIn, Live, READY, TERMINATED
<1>7. Covered(task_count', state')
  <2>1. task_count \in Int /\ Covered(task_count, state)
    BY <1>2 DEF IInv, TypeOK
  <2>2. task_count + 1 <= Cardinality(LiveIn(state) \cup {p})
    BY <1>6, <2>1, CoveredByOneMore
  <2> QED BY <1>2, <1>6, <2>2 DEF Covered
<1>8. ReadyFound(state', queues')
  BY <1>1, <1>2, <1>4 DEF IInv, TypeOK, ReadyFound
<1>9. KnownInLevel(state', queues', current_pid', priority_level', remaining_quantum')
  <2> SUFFICES ASSUME NEW k \in Pids,
                      k \in LiveIn(state') \/ k \in QueuedIn(queues') \/ k = current_pid
               PROVE  InLevel(k, priority_level', remaining_quantum')
    BY <1>2 DEF KnownInLevel
  <2>1. CASE k = p
    <3>1. priority_level'[k] = 0 /\ remaining_quantum'[k] = Quantums[0]
      BY <1>1, <1>2, <2>1 DEF TypeOK
    <3>2. Quantums[0] \in 1 .. Quantums[0]
      BY <1>3
    <3> QED BY <3>1, <3>2 DEF InLevel
  <2>2. CASE k # p
    <3>1. priority_level'[k] = priority_level[k] /\ remaining_quantum'[k] = remaining_quantum[k]
      BY <1>1, <1>2, <2>2 DEF TypeOK
    <3>2. InLevel(k, priority_level, remaining_quantum)
      BY <1>4, <1>6, <2>2 DEF IInv, KnownInLevel
    <3> QED BY <3>1, <3>2 DEF InLevel
  <2> QED BY <2>1, <2>2
<1> QED BY <1>5, <1>7, <1>8, <1>9 DEF IInv

LEMMA TaskTerminateKeepsIInv == ASSUME IInv, NEW p \in Pids, TaskTerminate(p) PROVE IInv'
<1>1. /\ TypeOK /\ EndTask(p) /\ state' = [state EXCEPT ![p] = TERMINATED]
      /\ UNCHANGED <<priority_level, remaining_quantum, remaining_work, queues, current_pid>>
  BY DEF IInv, TaskTerminate, EndTask, tcbs
<1>2. task_count' \in Int /\ Covered(task_count', state')
  BY <1>1, CoveredAfterEnd DEF IInv
<1>3. TypeOK'
  BY <1>1, <1>2 DEF TypeOK, TaskStates
<1>4. ReadyFound(state', queues')
  BY <1>1 DEF IInv, TypeOK, ReadyFound, READY, TERMINATED
<1>5. LiveIn(state') \subseteq LiveIn(state)
  BY <1>1 DEF TypeOK, LiveIn
<1>6. KnownInLevel(state', queues', current_pid', priority_level', remaining_quantum')
  BY <1>1, <1>5 DEF IInv, KnownInLevel
<1> QED BY <1>2, <1>3, <1>4, <1>6 DEF IInv

LEMMA PriorityBoostKeepsIInv == ASSUME IInv, PriorityBoost PROVE IInv'
<1> USE SchedulerAssumption
<1>1. /\ TypeOK /\ queues \in [Levels -> Seq(Pids)] /\ queues' = BoostedQueues
      /\ UNCHANGED <<state, remaining_work, current_pid, task_count>>
  BY DEF IInv, TypeOK, PriorityBoost
<1>2. 0 \in Levels /\ 1 \in Levels /\ 2 \in Levels /\ Levels = {0, 1, 2}
  BY DEF Levels, NUM_QUEUES
<1>3. /\ queues[0] \o queues[1] \o queues[2] \in Seq(Pids)
      /\ Of(queues[0] \o queues[1] \o queues[2])
             = Of(queues[0]) \cup Of(queues[1]) \cup Of(queues[2])
  <2>1. queues[0] \in Seq(Pids) /\ queues[1] \in Seq(Pids) /\ queues[2] \in Seq(Pids)
    BY <1>1, <1>2
  <2>2. /\ queues[0] \o queues[1] \in Seq(Pids)
        /\ Of(queues[0] \o queues[1]) = Of(queues[0]) \cup Of(queues[1])
    BY <2>1, OfConcat
  <2>3. /\ (queues[0] \o queues[1]) \o queues[2] \in Seq(Pids)
        /\ Of((queues[0] \o queues[1]) \o queues[2])
               = Of(queues[0] \o queues[1]) \cup Of(queues[2])
    BY <2>1, <2>2, OfConcat
  <2> QED BY <2>2, <2>3
<1>4. /\ queues' \in [Levels -> Seq(Pids)]
      /\ queues'[0] = queues[0] \o queues[1] \o queues[2]
      /\ queues'[1] = << >> /\ queues'[2] = << >>
  <2>1. << >> \in Seq(Pids)
    BY EmptySeq
  <2> QED BY <1>1, <1>2, <1>3, <2>1 DEF BoostedQueues
<1>5. QueuedIn(queues') = QueuedIn(queues)
  <2>1. Of(queues'[0]) = Of(queues[0]) \cup Of(queues[1]) \cup Of(queues[2])
    BY <1>3, <1>4
  <2>2. Of(queues'[1]) = {} /\ Of(queues'[2]) = {}
    BY <1>4 DEF Of
  <2>3. \A qs : QueuedIn(qs) = Of(qs[0]) \cup Of(qs[1]) \cup Of(qs[2])
    BY <1>2 DEF QueuedIn
  <2> HIDE DEF SchedulerAssumption
  <2> QED BY <2>1, <2>2, <2>3
<1>6. Quantums[0] \in Nat \ {0} /\ Quantums[0] \in 1 .. Quantums[0]
  BY <1>2
<1>7. /\ priority_level' \in [Pids -> Levels] /\ remaining_quantum' \in [Pids -> Nat]
      /\ \A k \in Pids :
            \/ priority_level'[k] = 0 /\ remaining_quantum'[k] = Quantums[0]
            \/ /\ priority_level'[k] = priority_level[k]
               /\ remaining_quantum'[k] = remaining_quantum[k]
  BY <1>1, <1>2, <1>6 DEF TypeOK, PriorityBoost
<1>8. TypeOK'
  BY <1>1, <1>4, <1>7 DEF TypeOK
<1>9. ReadyFound(state', queues') /\ Covered(task_count', state')
  BY <1>1, <1>5 DEF IInv, ReadyFound
<1>10. KnownInLevel(state', queues', current_pid', priority_level', remaining_quantum')
  BY <1>1, <1>5, <1>6, <1>7 DEF IInv, KnownInLevel, InLevel
<1> QED BY <1>8, <1>9, <1>10 DEF IInv

LEMMA TaskSetWorkKeepsIInv ==
    ASSUME IInv, NEW p \in Pids, NEW w \in WorkUnits \cup {Infinite}, TaskSetWork(p, w)
    PROVE  IInv'
<1>1. w \in Nat \cup {Infinite}
  BY SchedulerAssumption
<1>2. TypeOK'
  BY <1>1 DEF IInv, TypeOK, TaskSetWork
<1> QED BY <1>2 DEF IInv, TaskSetWork

LEMMA TaskBlockKeepsIInv == ASSUME IInv, NEW p \in Pids, TaskBlock(p) PROVE IInv'
<1>1. /\ TypeOK /\ p \in Live /\ state' = [state EXCEPT ![p] = BLOCKED]
      /\ UNCHANGED <<priority_level, remaining_quantum, remaining_work,
                     queues, current_pid, task_count>>
  BY DEF IInv, TaskBlock, tcbs
<1>2. TypeOK'
  BY <1>1 DEF TypeOK, TaskStates
<1>3. LiveIn(state') = LiveIn(state)
  BY <1>1 DEF TypeOK, Live, LiveIn, BLOCKED, TERMINATED
<1>4. ReadyFound(state', queues')
  BY <1>1 DEF IInv, TypeOK, ReadyFound, READY, BLOCKED
<1>5. /\ KnownInLevel(state', queues', current_pid', priority_level', remaining_quantum')
      /\ Covered(task_count', state')
  BY <1>1, <1>3 DEF IInv, KnownInLevel, Covered
<1> QED BY <1>2, <1>4, <1>5 DEF IInv

LEMMA TaskUnblockKeepsIInv == ASSUME IInv, NEW p \in Pids, TaskUnblock(p) PROVE IInv'
<1>1. /\ TypeOK /\ state[p] = BLOCKED /\ state' = [state EXCEPT ![p] = READY]
      /\ queues' = Enqueue(p, priority_level[p]) /\ priority_level[p] \in Levels
      /\ UNCHANGED <<priority_level, remaining_quantum, remaining_work, current_pid, task_count>>
  BY DEF IInv, TypeOK, TaskUnblock, tcbs
<1>2. queues' \in [Levels -> Seq(Pids)] /\ QueuedIn(queues') = QueuedIn(queues) \cup {p}
  BY <1>1, Enqueued DEF TypeOK
<1>3. TypeOK'
  BY <1>1, <1>2 DEF TypeOK, TaskStates
<1>4. LiveIn(state') = LiveIn(state) /\ p \in LiveIn(state)
  BY <1>1 DEF TypeOK, LiveIn, READY, BLOCKED, TERMINATED
<1>5. ReadyFound(state', queues')
  BY <1>1, <1>2 DEF IInv, TypeOK, ReadyFound
<1>6. /\ KnownInLevel(state', queues', current_pid', priority_level', remaining_quantum')
      /\ Covered(task_count', state')
  BY <1>1, <1>2, <1>4 DEF IInv, KnownInLevel, Covered
<1> QED BY <1>3, <1>5, <1>6 DEF IInv

LEMMA TickCompletesKeepsIInv == ASSUME IInv, TickCompletes PROVE IInv'
<1> DEFINE p == current_pid
<1>1. /\ TypeOK /\ p \in Pids /\ EndTask(p) /\ state' = [state EXCEPT ![p] = TERMINATED]
      /\ remaining_work' = [remaining_work EXCEPT ![p] = 0] /\ current_pid' = NoTask
      /\ UNCHANGED <<priority_level, remaining_quantum, queues>>
  BY DEF IInv, TypeOK, TickCompletes, EndTask
<1> HIDE DEF p
<1>2. task_count' \in Int /\ Covered(task_count', state')
  BY <1>1, CoveredAfterEnd DEF IInv
<1>3. TypeOK'
  BY <1>1, <1>2 DEF TypeOK, TaskStates
<1>4. ReadyFound(state', queues')
  BY <1>1 DEF IInv, TypeOK, ReadyFound, READY, TERMINATED
<1>5. LiveIn(state') \subseteq LiveIn(state) /\ NoTask \notin Pids
  BY <1>1 DEF TypeOK, LiveIn, NoTask, Pids
<1>6. KnownInLevel(state', queues', current_pid', priority_level', remaining_quantum')
  BY <1>1, <1>5 DEF IInv, KnownInLevel
<1> QED BY <1>2, <1>3, <1>4, <1>6 DEF IInv

\* The work of a task after a tick that does not complete it.
LEMMA ChargedWork ==
    ASSUME TypeOK, current_pid # NoTask, remaining_work[current_pid] # 1
    PROVE  WorkCharged(current_pid) \in Nat \cup {Infinite}
<1>1. remaining_work[current_pid] \in Nat \cup {Infinite}
  BY DEF TypeOK
<1> QED BY <1>1 DEF WorkCharged, Infinite

LEMMA TickChargesKeepsIInv == ASSUME IInv, TickCharges PROVE IInv'
<1> DEFINE p == current_pid
<1>1. /\ TypeOK /\ p \in Pids /\ p # NoTask
      /\ remaining_work' = [remaining_work EXCEPT ![p] = WorkCharged(p)]
      /\ WorkCharged(p) \in Nat \cup {Infinite}
      /\ remaining_quantum \in [Pids -> Nat]
  BY ChargedWork DEF IInv, TypeOK, TickCharges
<1>2. remaining_work' \in [Pids -> Nat \cup {Infinite}]
  BY <1>1 DEF TypeOK
<1>3. CASE /\ remaining_quantum[p] > 1
           /\ remaining_quantum' = [remaining_quantum EXCEPT ![p] = @ - 1]
           /\ UNCHANGED <<state, priority_level, queues, current_pid, task_count>>
  <2>1. remaining_quantum'[p] = remaining_quantum[p] - 1 /\ remaining_quantum[p] \in Nat
    BY <1>1, <1>3
  <2>2. remaining_quantum' \in [Pids -> Nat]
    BY <1>1, <1>3
  <2>3. TypeOK'
    BY <1>1, <1>2, <1>3, <2>2 DEF TypeOK
  <2>4. ASSUME NEW k \in Pids, InLevel(k, priority_level, remaining_quantum)
        PROVE  InLevel(k, priority_level', remaining_quantum')
    <3>1. CASE k = p
      <4>1. ASSUME priority_level[p] < Lowest PROVE Quantums[priority_level[p]] \in Nat
        BY <1>1, SchedulerAssumption DEF TypeOK
      <4>2. priority_level' = priority_level /\ remaining_quantum[p] > 1
        BY <1>3
      <4>3. remaining_quantum'[k] = remaining_quantum[p] - 1 /\ remaining_quantum[p] \in Nat
        BY <2>1, <3>1
      <4> HIDE DEF p
      <4> QED BY <2>4, <3>1, <4>1, <4>2, <4>3 DEF InLevel
    <3>2. CASE k # p
      <4>1. priority_level' = priority_level /\ remaining_quantum'[k] = remaining_quantum[k]
        BY <1>1, <1>3, <3>2
      <4> QED BY <2>4, <4>1 DEF InLevel
    <3> QED BY <3>1, <3>2
  <2>5. KnownInLevel(state', queues', current_pid', priority_level', remaining_quantum')
    BY <1>3, <2>4 DEF IInv, KnownInLevel
  <2> QED BY <1>3, <2>3, <2>5 DEF IInv, ReadyFound, Covered
<1>4. CASE /\ Yield(TRUE, [remaining_quantum EXCEPT ![p] = 0])
           /\ UNCHANGED task_count
  <2> DEFINE rq == [remaining_quantum EXCEPT ![p] = 0]
  <2>1. rq \in [Pids -> Nat] /\ \A k \in Pids : rq[k] = remaining_quantum[k] \/ k = p
    BY <1>1
  <2>2. Yield(TRUE, rq) /\ UNCHANGED task_count
    BY <1>4
  <2> HIDE DEF rq
  <2> QED BY <1>1, <1>2, <2>1, <2>2, YieldKeepsIInv
<1> QED BY <1>3, <1>4 DEF TickCharges

LEMMA TaskYieldKeepsIInv ==
    ASSUME IInv, NEW full \in BOOLEAN, TaskYield(full) PROVE IInv'
<1>1. /\ remaining_quantum \in [Pids -> Nat] /\ current_pid # NoTask
      /\ Yield(full, remaining_quantum) /\ UNCHANGED task_count
  BY DEF IInv, TypeOK, TaskYield
<1>2. remaining_work' \in [Pids -> Nat \cup {Infinite}]
  BY DEF IInv, TypeOK, TaskYield
<1> QED BY <1>1, <1>2, YieldKeepsIInv

-----------------------------------------------------------------------------

LEMMA InitIInv == Init => IInv
<1> SUFFICES ASSUME Init PROVE IInv
  OBVIOUS
<1>1. 0 \in Levels /\ << >> \in Seq(Pids) /\ Infinite \notin Nat
  BY EmptySeq DEF Levels, NUM_QUEUES, Infinite
<1>2. TypeOK
  BY <1>1 DEF Init, TypeOK, TaskStates
<1>3. LiveIn(state) = {} /\ NoTask \notin Pids
  BY DEF Init, LiveIn, NoTask, Pids
<1>4. QueuedIn(queues) = {}
  <2>1. \A q \in Levels : queues[q] = << >>
    BY DEF Init
  <2>2. Of(<< >>) = {}
    BY DEF Of
  <2> QED BY <2>1, <2>2 DEF QueuedIn
<1>5. ReadyFound(state, queues)
  BY DEF Init, ReadyFound, READY, TERMINATED
<1>6. KnownInLevel(state, queues, current_pid, priority_level, remaining_quantum)
  BY <1>3, <1>4 DEF Init, KnownInLevel
<1>7. Covered(task_count, state)
  <2>1. Cardinality(LiveIn(state)) = 0
    BY <1>3, FS_EmptySet
  <2>2. task_count = 0
    BY DEF Init
  <2> QED BY <2>1, <2>2 DEF Covered
<1> QED BY <1>2, <1>5, <1>6, <1>7 DEF IInv

LEMMA NextIInv == IInv /\ [Next]_vars => IInv'
<1> SUFFICES ASSUME IInv, [Next]_vars PROVE IInv'
  OBVIOUS
<1>1. CASE UNCHANGED vars
  BY <1>1 DEF vars, tcbs, IInv, TypeOK, ReadyFound, KnownInLevel, Covered
<1>2. CASE AfterOverrun
  BY <1>2, <1>1 DEF AfterOverrun
<1>3. CASE TaskCreate
  BY <1>3, NewTaskKeepsIInv DEF TaskCreate
<1>4. CASE Schedule
  BY <1>4, ScheduleKeepsIInv
<1>5. CASE PriorityBoost
  BY <1>5, PriorityBoostKeepsIInv
<1>6. CASE SystemTick
  <2>1. CASE TickIdle
    BY <2>1, ScheduleKeepsIInv DEF TickIdle
  <2>2. CASE TickCompletes
    BY <2>2, TickCompletesKeepsIInv
  <2>3. CASE TickCharges
    BY <2>3, TickChargesKeepsIInv
  <2> QED BY <1>6, <2>1, <2>2, <2>3 DEF SystemTick
<1>7. ASSUME NEW full \in BOOLEAN, TaskYield(full) PROVE IInv'
  BY <1>7, TaskYieldKeepsIInv
<1>8. ASSUME NEW p \in Pids, TaskTerminate(p) \/ TaskBlock(p) \/ TaskUnblock(p) PROVE IInv'
  BY <1>8, TaskTerminateKeepsIInv, TaskBlockKeepsIInv, TaskUnblockKeepsIInv
<1>9. ASSUME NEW p \in Pids, NEW w \in WorkUnits \cup {Infinite}, TaskSetWork(p, w)
      PROVE  IInv'
  BY <1>9, TaskSetWorkKeepsIInv
<1> QED BY <1>1, <1>2, <1>3, <1>4, <1>5, <1>6, <1>7, <1>8, <1>9 DEF Next

LEMMA SpecIInv == Spec => []IInv
BY InitIInv, NextIInv, PTL DEF Spec

\* Every call keeps the state in range: levels within the three queues, no negative
\* quantum, no work below -1, no pid outside the table in a queue or running.
THEOREM TypesKept == Spec => []TypeOK
<1>1. IInv => TypeOK
  BY DEF IInv
<1> QED BY SpecIInv, <1>1, PTL

\* A READY task has a queue entry, whatever calls were made in whatever order:
\* whoever makes a task READY appends it, and schedule() removes only what it runs.
THEOREM ReadyTasksFound == Spec => []ReadyIsQueued
<1>1. IInv => ReadyIsQueued
  BY DEF IInv, ReadyFound, ReadyIsQueued, QueuedIn, Queued, Of, Entries
<1> QED BY SpecIInv, <1>1, PTL

\* The test "task_count >= MAX_TASKS" never turns a task away while a slot is free,
\* although kills of tasks that run again make the counter too small.
THEOREM FullOnlyWhenFull == Spec => []FullMeansNoFreeSlot
<1> USE SchedulerAssumption
<1>1. IInv => FullMeansNoFreeSlot
  <2> SUFFICES ASSUME IInv, task_count >= MAX_TASKS PROVE Live = Pids
    BY DEF FullMeansNoFreeSlot
  <2>1. task_count <= Cardinality(Live) /\ task_count \in Int
    BY DEF IInv, TypeOK, Covered, LiveIn, Live
  <2>2. IsFiniteSet(Pids) /\ Cardinality(Pids) = MAX_TASKS /\ Live \subseteq Pids
    BY FS_Interval DEF Pids, Live
  <2>3. /\ IsFiniteSet(Live) /\ Cardinality(Live) <= Cardinality(Pids)
        /\ Cardinality(Pids) = Cardinality(Live) => Pids = Live
    BY <2>2, FS_Subset
  <2>4. Cardinality(Live) \in Nat
    BY <2>3, FS_CardinalityType
  <2> QED BY <2>1, <2>2, <2>3, <2>4
<1> QED BY SpecIInv, <1>1, PTL

\* A live task above the lowest level has between one tick and its level's quantum
\* left: no order of ticks, yields, boosts, kills and revivals leaves it with none.
THEOREM UpperQuantumKept == Spec => []UpperLevelsHaveQuantum
<1>1. IInv => UpperLevelsHaveQuantum
  BY DEF IInv, KnownInLevel, InLevel, LiveIn, Live, UpperLevelsHaveQuantum
<1> QED BY SpecIInv, <1>1, PTL

-----------------------------------------------------------------------------
(* A task sinks only by task_yield(). *)

Sinks(p) == priority_level'[p] > priority_level[p]
Demoted(p) ==
    /\ current_pid = p
    /\ priority_level'[p] = priority_level[p] + 1
    /\ remaining_quantum'[p] = Quantums[priority_level'[p]]

LEMMA YieldDemotes ==
    ASSUME TypeOK, NEW full \in BOOLEAN, NEW rq \in [Pids -> Nat], Yield(full, rq),
           current_pid # NoTask, NEW p \in Pids, Sinks(p)
    PROVE  Demoted(p)
<1> DEFINE c == current_pid
           q == LevelAfterYield(c, full)
<1>1. /\ c \in Pids /\ priority_level \in [Pids -> Levels]
      /\ priority_level' = [priority_level EXCEPT ![c] = q]
      /\ remaining_quantum' = QuantumAfterYield(c, q, rq)
  BY DEF TypeOK, Yield
<1>2. priority_level[p] \in Nat
  BY <1>1 DEF Levels
<1>3. q = priority_level[c] + 1 \/ q = priority_level[c]
  BY DEF LevelAfterYield
<1> HIDE DEF q
<1>4. p = c
  BY <1>1, <1>2 DEF Sinks
<1>5. priority_level'[p] = q
  BY <1>1, <1>4
<1>6. q = priority_level[p] + 1 /\ q # priority_level[p]
  BY <1>2, <1>3, <1>4, <1>5 DEF Sinks
<1>7. remaining_quantum'[p] = Quantums[q]
  BY <1>1, <1>4, <1>6 DEF QuantumAfterYield
<1> QED BY <1>4, <1>5, <1>6, <1>7 DEF Demoted

LEMMA LevelKeptSinksNot ==
    ASSUME TypeOK, NEW p \in Pids,
           priority_level' = priority_level \/ priority_level'[p] \in {0, priority_level[p]}
    PROVE  ~Sinks(p)
<1>1. priority_level[p] \in Nat
  BY DEF TypeOK, Levels
<1> QED BY <1>1 DEF Sinks

LEMMA StepDemotes ==
    ASSUME TypeOK, [Next]_vars, NEW p \in Pids, Sinks(p)
    PROVE  Demoted(p)
<1> USE LevelKeptSinksNot
<1>1. CASE UNCHANGED vars \/ AfterOverrun
  BY <1>1 DEF AfterOverrun, vars, tcbs
<1>2. CASE TaskCreate
  <2>1. priority_level'[p] \in {0, priority_level[p]}
    BY <1>2 DEF TypeOK, TaskCreate, NewTask
  <2> QED BY <2>1
<1>3. CASE Schedule
  BY <1>3 DEF Schedule, tcbs
<1>4. CASE PriorityBoost
  <2>1. priority_level'[p] \in {0, priority_level[p]}
    BY <1>4 DEF PriorityBoost
  <2> QED BY <2>1
<1>5. CASE SystemTick
  <2>1. CASE TickIdle
    BY <2>1 DEF TickIdle, Schedule, tcbs
  <2>2. CASE TickCompletes
    BY <2>2 DEF TickCompletes
  <2>3. CASE TickCharges
    <3>1. CASE UNCHANGED priority_level
      BY <3>1
    <3>2. CASE Yield(TRUE, [remaining_quantum EXCEPT ![current_pid] = 0])
      <4>1. [remaining_quantum EXCEPT ![current_pid] = 0] \in [Pids -> Nat]
        BY DEF TypeOK
      <4>2. current_pid # NoTask
        BY <2>3 DEF TickCharges
      <4> QED BY <3>2, <4>1, <4>2, YieldDemotes
    <3> QED BY <2>3, <3>1, <3>2 DEF TickCharges
  <2> QED BY <1>5, <2>1, <2>2, <2>3 DEF SystemTick
<1>6. ASSUME NEW full \in BOOLEAN, TaskYield(full) PROVE Demoted(p)
  BY <1>6, YieldDemotes DEF TypeOK, TaskYield
<1>7. ASSUME NEW k \in Pids, TaskTerminate(k) \/ TaskBlock(k) \/ TaskUnblock(k)
      PROVE  Demoted(p)
  BY <1>7 DEF TaskTerminate, TaskBlock, TaskUnblock, tcbs
<1>8. ASSUME NEW k \in Pids, NEW w \in WorkUnits \cup {Infinite}, TaskSetWork(k, w)
      PROVE  Demoted(p)
  BY <1>8 DEF TaskSetWork
<1> QED BY <1>1, <1>2, <1>3, <1>4, <1>5, <1>6, <1>7, <1>8 DEF Next

\* Whatever calls are made, a task's level rises only by one, only while it is the
\* running task, and with the full quantum of its new level.
THEOREM SinksByExpiry == Spec => DemotionByExpiry
<1>1. TypeOK /\ [Next]_vars =>
          [\A p \in Pids : priority_level'[p] > priority_level[p] =>
              /\ current_pid = p
              /\ priority_level'[p] = priority_level[p] + 1
              /\ remaining_quantum'[p] = Quantums[priority_level'[p]]]_vars
  BY StepDemotes DEF Sinks, Demoted
<1> QED BY TypesKept, <1>1, PTL DEF Spec, DemotionByExpiry

-----------------------------------------------------------------------------
(* Calls made in turn: no kill, no task_block(), and schedule() only when nothing  *)
(* runs.  A task then has one place.  What makes that inductive: the task of an    *)
(* entry is READY and on the level of its queue, no queue holds a task twice, a    *)
(* live task that is not the running one has an entry, and the running task, which *)
(* has none, is RUNNING.                                                           *)

Distinct(s) == \A i, j \in DOMAIN s : s[i] = s[j] => i = j
EntriesReady(qs, st, lv) == \A q \in Levels : \A p \in Of(qs[q]) : st[p] = READY /\ lv[p] = q

Settled(qs, st, cur, lv) ==
    /\ \A q \in Levels : Distinct(qs[q])
    /\ EntriesReady(qs, st, lv)
    /\ \A p \in LiveIn(st) : p = cur \/ p \in QueuedIn(qs)
    /\ cur # NoTask => st[cur] = RUNNING

SInv == IInv /\ Settled(queues, state, current_pid, priority_level)

LEMMA DistinctAppend ==
    ASSUME NEW s \in Seq(Pids), NEW p \in Pids, Distinct(s), p \notin Of(s)
    PROVE  Distinct(Append(s, p))
<1>1. /\ DOMAIN Append(s, p) = 1 .. Len(s) + 1 /\ DOMAIN s = 1 .. Len(s) /\ Len(s) \in Nat
      /\ Append(s, p)[Len(s) + 1] = p
      /\ \A i \in 1 .. Len(s) : Append(s, p)[i] = s[i]
  OBVIOUS
<1>2. \A i \in 1 .. Len(s) : Append(s, p)[i] # p
  BY <1>1 DEF Of
<1> SUFFICES ASSUME NEW i \in 1 .. Len(s) + 1, NEW j \in 1 .. Len(s) + 1,
                    Append(s, p)[i] = Append(s, p)[j]
             PROVE  i = j
  BY <1>1 DEF Distinct
<1>3. /\ i \in 1 .. Len(s) \/ i = Len(s) + 1
      /\ j \in 1 .. Len(s) \/ j = Len(s) + 1
  BY <1>1
<1>4. CASE i \in 1 .. Len(s) /\ j \in 1 .. Len(s)
  BY <1>1, <1>4 DEF Distinct
<1> QED BY <1>1, <1>2, <1>3, <1>4

LEMMA DistinctTail ==
    ASSUME NEW s \in Seq(Pids), s # << >>, Distinct(s)
    PROVE  Distinct(Tail(s)) /\ Head(s) \notin Of(Tail(s))
<1>1. /\ Head(s) \in Pids /\ Tail(s) \in Seq(Pids)
      /\ Len(Tail(s)) = Len(s) - 1
      /\ \A i \in 1 .. Len(Tail(s)) : Tail(s)[i] = s[i + 1]
  BY HeadTailProperties
<1>2. /\ Len(s) \in Nat \ {0} /\ DOMAIN s = 1 .. Len(s)
      /\ DOMAIN Tail(s) = 1 .. Len(s) - 1 /\ Head(s) = s[1]
  BY <1>1, EmptySeq, LenProperties
<1>3. \A i \in 1 .. Len(s) - 1 : i + 1 \in 1 .. Len(s) /\ i + 1 # 1 /\ Tail(s)[i] = s[i + 1]
  BY <1>1, <1>2
<1>4. Distinct(Tail(s))
  <2> SUFFICES ASSUME NEW i \in 1 .. Len(s) - 1, NEW j \in 1 .. Len(s) - 1,
                      Tail(s)[i] = Tail(s)[j]
               PROVE  i = j
    BY <1>2 DEF Distinct
  <2>1. i + 1 = j + 1
    BY <1>2, <1>3 DEF Distinct
  <2> QED BY <1>2, <2>1
<1>5. Head(s) \notin Of(Tail(s))
  <2> SUFFICES ASSUME NEW i \in 1 .. Len(s) - 1, Tail(s)[i] = s[1] PROVE FALSE
    BY <1>2 DEF Of
  <2>1. 1 \in 1 .. Len(s)
    BY <1>2
  <2> QED BY <1>2, <1>3, <2>1 DEF Distinct
<1> QED BY <1>4, <1>5

\* Appending a task that was terminated or running and is now READY, on the level its
\* table entry now names.
LEMMA EnqueueSettles ==
    ASSUME NEW st0, NEW cur0, NEW lv0, NEW st, NEW cur, NEW lv,
           Typed(st0, queues, cur0), lv0 \in [Pids -> Levels],
           Settled(queues, st0, cur0, lv0),
           NEW p \in Pids, NEW q \in Levels, st0[p] # READY,
           st = [st0 EXCEPT ![p] = READY], lv = [lv0 EXCEPT ![p] = q],
           \/ cur = cur0 /\ p # cur0
           \/ cur = NoTask /\ p = cur0
    PROVE  Settled(Enqueue(p, q), st, cur, lv)
<1> DEFINE qs == Enqueue(p, q)
<1>1. /\ queues \in [Levels -> Seq(Pids)] /\ st0 \in [Pids -> TaskStates]
      /\ \A k \in Pids : st[k] = IF k = p THEN READY ELSE st0[k]
      /\ \A k \in Pids : lv[k] = IF k = p THEN q ELSE lv0[k]
  BY DEF Typed
<1>2. \A k \in Levels : Enqueue(p, q)[k] = IF k = q THEN Append(queues[q], p) ELSE queues[k]
  BY <1>1 DEF Enqueue
<1>3. \A k \in Levels : p \notin Of(queues[k])
  BY DEF Settled, EntriesReady
<1>4. \A k \in Levels : Of(queues[k]) \subseteq Pids
  BY <1>1 DEF Of
<1>5. Of(Append(queues[q], p)) = Of(queues[q]) \cup {p} /\ Distinct(Append(queues[q], p))
  BY <1>1, <1>3, OfAppend, DistinctAppend DEF Settled
<1>6. QueuedIn(qs) = QueuedIn(queues) \cup {p}
  BY <1>1, Enqueued
<1>7. \A k \in Levels : Distinct(qs[k])
  BY <1>2, <1>5 DEF Settled
<1>8. EntriesReady(qs, st, lv)
  <2> SUFFICES ASSUME NEW k \in Levels, NEW t \in Of(qs[k]) PROVE st[t] = READY /\ lv[t] = k
    BY DEF EntriesReady
  <2>1. CASE t = p
    <3>1. k = q
      BY <1>2, <1>3, <2>1
    <3> QED BY <1>1, <2>1, <3>1
  <2>2. CASE t # p
    <3>1. t \in Of(queues[k])
      BY <1>2, <1>5, <2>2
    <3> QED BY <1>1, <1>4, <2>2, <3>1 DEF Settled, EntriesReady
  <2> QED BY <2>1, <2>2
<1>9. \A k \in LiveIn(st) : k = cur \/ k \in QueuedIn(qs)
  BY <1>1, <1>6 DEF LiveIn, Settled
<1>10. cur # NoTask => st[cur] = RUNNING
  BY <1>1 DEF Settled, Typed
<1> QED BY <1>7, <1>8, <1>9, <1>10 DEF Settled

ReadyIn(st) == {k \in Pids : st[k] = READY}
Best(p, st, lv) == \A k \in ReadyIn(st) : lv[p] <= lv[k]

\* schedule() when nothing runs: a READY task of the best level becomes the running
\* one and leaves its queue.
LEMMA DispatchSettles ==
    ASSUME NEW st, NEW qs, NEW lv, Typed(st, qs, NoTask), lv \in [Pids -> Levels],
           Settled(qs, st, NoTask, lv), Dispatch(qs, st, NoTask)
    PROVE  /\ Settled(queues', state', current_pid', lv)
           /\ \/ QueuedIn(qs) = {} /\ state' = st /\ current_pid' = NoTask
              \/ \E p \in ReadyIn(st) :
                    /\ state' = [st EXCEPT ![p] = RUNNING]
                    /\ current_pid' = p
                    /\ Best(p, state', lv)
<1>1. CASE /\ \A q \in Levels : qs[q] = << >>
           /\ queues' = qs /\ state' = st /\ current_pid' = NoTask
  <2>1. QueuedIn(qs) = {}
    BY <1>1 DEF QueuedIn, Of
  <2> QED BY <1>1, <2>1
<1>2. ASSUME NEW q \in Levels,
             Selects(qs, q),
             queues' = HeadRemoved(qs, q),
             state' = [st EXCEPT ![Head(qs[q])] = RUNNING],
             current_pid' = Head(qs[q])
      PROVE  /\ Settled(queues', state', current_pid', lv)
             /\ \E p \in ReadyIn(st) :
                    /\ state' = [st EXCEPT ![p] = RUNNING]
                    /\ current_pid' = p
                    /\ Best(p, state', lv)
  <2>1. PICK p : p = Head(qs[q])
    OBVIOUS
  <2>2. qs \in [Levels -> Seq(Pids)] /\ st \in [Pids -> TaskStates] /\ qs[q] # << >>
    BY <1>2 DEF Typed, Selects
  <2>3. /\ p \in Pids /\ Of(qs[q]) = Of(Tail(qs[q])) \cup {p}
        /\ Distinct(Tail(qs[q])) /\ p \notin Of(Tail(qs[q]))
    BY <2>1, <2>2, OfTail, DistinctTail DEF Settled
  <2>4. \A k \in Levels : queues'[k] = IF k = q THEN Tail(qs[q]) ELSE qs[k]
    BY <1>2, <2>2 DEF HeadRemoved
  <2>5. \A k \in Pids : state'[k] = IF k = p THEN RUNNING ELSE st[k]
    BY <1>2, <2>1, <2>2
  <2>6. st[p] = READY /\ lv[p] = q /\ \A k \in Levels : p \in Of(qs[k]) => k = q
    BY <2>3 DEF Settled, EntriesReady
  <2>7. /\ \A k \in Levels : Of(queues'[k]) = Of(qs[k]) \ {p}
        /\ \A k \in Levels : Of(qs[k]) \subseteq Pids
    <3>1. \A k \in Levels : Of(qs[k]) \subseteq Pids
      BY <2>2 DEF Of
    <3>2. \A k \in Levels : Of(queues'[k]) = IF k = q THEN Of(Tail(qs[q])) ELSE Of(qs[k])
      BY <2>4
    <3> QED BY <2>3, <2>6, <3>1, <3>2
  <2>8. \A k \in Levels : Distinct(queues'[k])
    BY <2>3, <2>4 DEF Settled
  <2>9. EntriesReady(queues', state', lv)
    BY <2>5, <2>7 DEF Settled, EntriesReady
  <2>10. p # NoTask
    BY <2>3 DEF NoTask, Pids
  <2>11. \A k \in LiveIn(state') : k = p \/ k \in QueuedIn(queues')
    <3> SUFFICES ASSUME NEW k \in Pids, st[k] # TERMINATED, k # p PROVE k \in QueuedIn(queues')
      BY <2>5 DEF LiveIn
    <3>1. k # NoTask
      BY DEF NoTask, Pids
    <3>2. PICK r \in Levels : k \in Of(qs[r])
      BY <3>1 DEF Settled, LiveIn, QueuedIn
    <3> QED BY <2>7, <3>2 DEF QueuedIn
  <2>12. Settled(queues', state', current_pid', lv)
    BY <1>2, <2>1, <2>3, <2>5, <2>8, <2>9, <2>11 DEF Settled
  <2>13. Best(p, state', lv)
    <3> SUFFICES ASSUME NEW k \in Pids, state'[k] = READY PROVE lv[p] <= lv[k]
      BY DEF Best, ReadyIn
    <3>1. st[k] = READY /\ k # NoTask
      BY <2>5 DEF READY, RUNNING, NoTask, Pids
    <3>2. PICK r \in Levels : k \in Of(qs[r])
      BY <3>1 DEF Settled, LiveIn, QueuedIn, READY, TERMINATED
    <3>3. lv[k] = r /\ qs[r] # << >>
      BY <3>2 DEF Settled, EntriesReady, Of
    <3>4. r \notin 0 .. q - 1
      BY <1>2, <3>3 DEF Selects
    <3> QED BY <2>6, <3>3, <3>4 DEF Levels
  <2> QED BY <1>2, <2>1, <2>3, <2>6, <2>12, <2>13 DEF ReadyIn
<1> QED BY <1>1, <1>2 DEF Dispatch

LEMMA NewTaskKeepsSInv ==
    ASSUME SInv, NEW w \in Nat \cup {Infinite}, NewTask(w)
    PROVE  /\ SInv' /\ current_pid' = current_pid
           /\ \E p \in Pids \ LiveIn(state) : state' = [state EXCEPT ![p] = READY]
<1>1. PICK p \in Pids \ Live :
          /\ state' = [state EXCEPT ![p] = READY]
          /\ priority_level' = [priority_level EXCEPT ![p] = 0]
          /\ queues' = Enqueue(p, 0)
  BY DEF NewTask
<1>2. /\ Typed(state, queues, current_pid) /\ priority_level \in [Pids -> Levels]
      /\ Settled(queues, state, current_pid, priority_level)
      /\ current_pid' = current_pid /\ state[p] = TERMINATED
  BY <1>1 DEF SInv, IInv, TypeOK, Typed, NewTask, Live
<1>3. p # current_pid
  BY <1>2 DEF Settled, NoTask, Pids, RUNNING, TERMINATED
<1>4. 0 \in Levels /\ state[p] # READY
  BY <1>2 DEF Levels, NUM_QUEUES, READY, TERMINATED
<1>5. Settled(queues', state', current_pid', priority_level')
  <2>1. Settled(Enqueue(p, 0), state', current_pid', priority_level')
    BY <1>1, <1>2, <1>3, <1>4, EnqueueSettles
  <2> QED BY <1>1, <2>1
<1>6. IInv'
  BY NewTaskKeepsIInv DEF SInv
<1> QED BY <1>1, <1>2, <1>5, <1>6 DEF SInv, Live, LiveIn

\* task_yield() of the running task: it waits again, and a task of the best level
\* runs, perhaps the same one.
LEMMA YieldSettles ==
    ASSUME SInv, current_pid # NoTask, NEW full \in BOOLEAN, NEW rq, Yield(full, rq)
    PROVE  /\ Settled(queues', state', current_pid', priority_level')
           /\ \E p \in Pids :
                 /\ p = current_pid \/ p \in ReadyIn(state)
                 /\ state' = [[state EXCEPT ![current_pid] = READY] EXCEPT ![p] = RUNNING]
                 /\ current_pid' = p
                 /\ Best(p, state', priority_level')
<1> DEFINE q == LevelAfterYield(current_pid, full)
<1>1. PICK c, st, qs, lv :
          /\ c = current_pid
          /\ st = [state EXCEPT ![c] = READY]
          /\ qs = Enqueue(c, q)
          /\ lv = [priority_level EXCEPT ![c] = q]
  OBVIOUS
<1>2. /\ c \in Pids /\ Typed(state, queues, c) /\ priority_level \in [Pids -> Levels]
      /\ Settled(queues, state, c, priority_level)
      /\ state \in [Pids -> TaskStates] /\ queues \in [Levels -> Seq(Pids)]
  BY <1>1 DEF SInv, IInv, TypeOK, Typed
<1>3. q \in Levels
  BY <1>1, <1>2 DEF LevelAfterYield, Levels, Lowest, NUM_QUEUES
<1>4. state[c] # READY
  BY <1>1, <1>2 DEF Settled, READY, RUNNING
<1> HIDE DEF q
<1>5. Settled(qs, st, NoTask, lv)
  BY <1>1, <1>2, <1>3, <1>4, EnqueueSettles
<1>6. qs \in [Levels -> Seq(Pids)] /\ QueuedIn(qs) = QueuedIn(queues) \cup {c}
  BY <1>1, <1>2, <1>3, Enqueued
<1>7. Typed(st, qs, NoTask) /\ lv \in [Pids -> Levels]
  BY <1>1, <1>2, <1>3, <1>6 DEF Typed, TaskStates
<1>8. Dispatch(qs, st, NoTask) /\ priority_level' = lv
  BY <1>1 DEF Yield, q
<1>9. \A k \in Pids : st[k] = IF k = c THEN READY ELSE state[k]
  BY <1>1, <1>2
<1>10. PICK p \in ReadyIn(st) :
          /\ state' = [st EXCEPT ![p] = RUNNING]
          /\ current_pid' = p
          /\ Best(p, state', lv)
  BY <1>5, <1>6, <1>7, <1>8, DispatchSettles
<1>11. Settled(queues', state', current_pid', lv)
  BY <1>5, <1>7, <1>8, DispatchSettles
<1> QED BY <1>1, <1>8, <1>9, <1>10, <1>11 DEF ReadyIn

LEMMA TickIdleKeepsSInv ==
    ASSUME SInv, TickIdle
    PROVE  /\ SInv' /\ priority_level' = priority_level
           /\ \/ state' = state /\ current_pid' = NoTask
              \/ \E p \in ReadyIn(state) :
                    /\ state' = [state EXCEPT ![p] = RUNNING]
                    /\ current_pid' = p
                    /\ Best(p, state', priority_level')
<1>1. /\ current_pid = NoTask /\ Dispatch(queues, state, NoTask)
      /\ Typed(state, queues, NoTask) /\ priority_level \in [Pids -> Levels]
      /\ Schedule /\ priority_level' = priority_level
  BY DEF SInv, IInv, TypeOK, Typed, TickIdle, Schedule, tcbs
<1>2. Settled(queues, state, NoTask, priority_level)
  BY <1>1 DEF SInv
<1>3. IInv'
  BY <1>1, ScheduleKeepsIInv DEF SInv
<1> QED BY <1>1, <1>2, <1>3, DispatchSettles DEF SInv

LEMMA TickCompletesKeepsSInv ==
    ASSUME SInv, TickCompletes
    PROVE  /\ SInv' /\ current_pid' = NoTask
           /\ state' = [state EXCEPT ![current_pid] = TERMINATED]
<1>1. /\ state' = [state EXCEPT ![current_pid] = TERMINATED]
      /\ current_pid # NoTask /\ current_pid \in Pids /\ current_pid' = NoTask
      /\ queues' = queues /\ priority_level' = priority_level
      /\ state \in [Pids -> TaskStates] /\ queues \in [Levels -> Seq(Pids)]
  BY DEF SInv, IInv, TypeOK, TickCompletes, EndTask
<1>2. \A k \in Pids : state'[k] = IF k = current_pid THEN TERMINATED ELSE state[k]
  BY <1>1
<1>3. \A q \in Levels : Of(queues[q]) \subseteq Pids /\ current_pid \notin Of(queues[q])
  BY <1>1 DEF SInv, Settled, EntriesReady, Of, READY, RUNNING
<1>4. Settled(queues', state', current_pid', priority_level')
  <2>1. EntriesReady(queues', state', priority_level')
    BY <1>1, <1>2, <1>3 DEF SInv, Settled, EntriesReady
  <2>2. \A k \in LiveIn(state') : k \in QueuedIn(queues')
    BY <1>1, <1>2 DEF SInv, Settled, LiveIn
  <2> QED BY <1>1, <2>1, <2>2 DEF SInv, Settled
<1>5. IInv'
  BY TickCompletesKeepsIInv DEF SInv
<1> QED BY <1>1, <1>4, <1>5 DEF SInv

LEMMA TickChargesKeepsSInv ==
    ASSUME SInv, TickCharges
    PROVE  /\ SInv'
           /\ \/ state' = state /\ current_pid' = current_pid
              \/ \E p \in Pids :
                    /\ p = current_pid \/ p \in ReadyIn(state)
                    /\ state' = [[state EXCEPT ![current_pid] = READY] EXCEPT ![p] = RUNNING]
                    /\ current_pid' = p
                    /\ Best(p, state', priority_level')
<1>1. IInv' /\ current_pid # NoTask
  BY TickChargesKeepsIInv DEF SInv, TickCharges
<1>2. CASE UNCHANGED <<state, priority_level, queues, current_pid>>
  BY <1>1, <1>2 DEF SInv
<1>3. CASE Yield(TRUE, [remaining_quantum EXCEPT ![current_pid] = 0])
  <2>1. PICK rq : rq = [remaining_quantum EXCEPT ![current_pid] = 0]
    OBVIOUS
  <2>2. Yield(TRUE, rq)
    BY <1>3, <2>1
  <2> QED BY <1>1, <2>2, YieldSettles DEF SInv
<1> QED BY <1>2, <1>3 DEF TickCharges

LEMMA InitSInv == Init => SInv
<1> SUFFICES ASSUME Init PROVE SInv
  OBVIOUS
<1>1. \A q \in Levels : queues[q] = << >> /\ Of(queues[q]) = {}
  BY DEF Init, Of
<1>2. LiveIn(state) = {} /\ current_pid = NoTask
  BY DEF Init, LiveIn
<1>3. \A q \in Levels : Distinct(queues[q])
  BY <1>1 DEF Distinct
<1>4. EntriesReady(queues, state, priority_level)
  BY <1>1 DEF EntriesReady
<1> QED BY <1>2, <1>3, <1>4, InitIInv DEF SInv, Settled

\* A queue without repetitions fits its array.
LEMMA DistinctFits ==
    ASSUME NEW s \in Seq(Pids), Distinct(s)
    PROVE  Len(s) <= MAX_TASKS
<1> USE SchedulerAssumption
<1>1. s \in [1 .. Len(s) -> Pids] /\ Len(s) \in Nat /\ DOMAIN s = 1 .. Len(s)
  OBVIOUS
<1>2. s \in Injection(1 .. Len(s), Pids)
  BY <1>1 DEF Injection, IsInjective, Distinct
<1>3. IsFiniteSet(Pids) /\ Cardinality(Pids) = MAX_TASKS
  BY FS_Interval DEF Pids
<1>4. Cardinality(1 .. Len(s)) <= MAX_TASKS
  BY <1>2, <1>3, FS_Injection
<1>5. \A n \in Nat : Cardinality(1 .. n) = n
  <2> SUFFICES ASSUME NEW n \in Nat PROVE Cardinality(1 .. n) = n
    OBVIOUS
  <2>1. Cardinality(1 .. n) = IF 1 > n THEN 0 ELSE n - 1 + 1
    BY FS_Interval
  <2> QED BY <2>1
<1> QED BY <1>1, <1>4, <1>5

LEMMA SettledInOnePlace == ASSUME SInv, NEW p \in Pids PROVE InOnePlace(p)
<1>1. /\ queues \in [Levels -> Seq(Pids)] /\ state \in [Pids -> TaskStates]
      /\ Settled(queues, state, current_pid, priority_level)
  BY DEF SInv, IInv, TypeOK
<1>2. \A q \in Levels : Len(queues[q]) <= MAX_TASKS
  BY <1>1, DistinctFits DEF Settled
<1>3. ASSUME NEW e \in Places(p) PROVE e[1] \in Levels /\ p \in Of(queues[e[1]]) /\ state[p] = READY
  BY <1>1, <1>3 DEF Places, Of, Settled, EntriesReady
<1>4. CASE state[p] # READY
  <2>1. Cardinality(Places(p)) = 0
    BY <1>3, <1>4, FS_EmptySet
  <2>2. current_pid = p <=> p \in Live
    <3>1. p \notin QueuedIn(queues)
      BY <1>1, <1>4 DEF QueuedIn, Settled, EntriesReady
    <3>2. p # NoTask
      BY DEF NoTask, Pids
    <3> QED BY <1>1, <3>1, <3>2 DEF Settled, LiveIn, Live, RUNNING, TERMINATED
  <2> QED BY <2>1, <2>2 DEF InOnePlace
<1>5. CASE state[p] = READY
  <2>1. p \in Live /\ p # current_pid
    BY <1>1, <1>5 DEF Settled, Live, READY, RUNNING, TERMINATED, NoTask, Pids
  <2>2. PICK q \in Levels : p \in Of(queues[q])
    BY <1>1, <2>1 DEF Settled, LiveIn, Live, QueuedIn
  <2>3. PICK i \in DOMAIN queues[q] : queues[q][i] = p
    BY <2>2 DEF Of
  <2>4. <<q, i>> \in Places(p)
    BY <1>1, <1>2, <2>3, SchedulerAssumption DEF Places
  <2>5. ASSUME NEW e \in Places(p) PROVE e = <<q, i>>
    <3>1. e = <<e[1], e[2]>> /\ e[1] \in Levels
      BY DEF Places
    <3>2. e[1] = q
      BY <1>1, <1>3, <2>2 DEF Settled, EntriesReady
    <3>3. e[2] \in DOMAIN queues[q] /\ queues[q][e[2]] = p
      BY <1>1, <3>2 DEF Places
    <3> QED BY <1>1, <2>3, <3>1, <3>2, <3>3 DEF Settled, Distinct
  <2>6. Places(p) = {<<q, i>>}
    BY <2>4, <2>5
  <2>7. Cardinality(Places(p)) = 1
    BY <2>6, FS_Singleton
  <2> QED BY <2>1, <2>7 DEF InOnePlace
<1> QED BY <1>4, <1>5

-----------------------------------------------------------------------------
(* The kernel's calls. *)

PlacedIn(st, qs, cur) == \A p \in LiveIn(st) : p = cur \/ p \in QueuedIn(qs)
RunsOnly(st, cur) == \A p \in Pids : st[p] = RUNNING => p = cur

KInv ==
    /\ IInv
    /\ PlacedIn(state, queues, current_pid)
    /\ RunsOnly(state, current_pid)

\* schedule() keeps both when nothing runs: an idle tick, or a yield that has put
\* the running task back.
LEMMA IdleDispatchKeeps ==
    ASSUME NEW st, NEW qs, Typed(st, qs, NoTask), PlacedIn(st, qs, NoTask),
           RunsOnly(st, NoTask), Dispatch(qs, st, NoTask)
    PROVE  PlacedIn(state', queues', current_pid') /\ RunsOnly(state', current_pid')
<1>1. CASE queues' = qs /\ state' = st /\ current_pid' = NoTask
  BY <1>1
<1>2. ASSUME NEW p \in Pids,
             queues' \in [Levels -> Seq(Pids)],
             QueuedIn(qs) = QueuedIn(queues') \cup {p},
             state' = [st EXCEPT ![p] = RUNNING],
             current_pid' = p
      PROVE  PlacedIn(state', queues', current_pid') /\ RunsOnly(state', current_pid')
  <2>1. \A k \in Pids : state'[k] = IF k = p THEN RUNNING ELSE st[k]
    BY <1>2 DEF Typed
  <2>2. NoTask \notin Pids
    BY DEF NoTask, Pids
  <2>3. PlacedIn(state', queues', current_pid')
    BY <1>2, <2>1, <2>2 DEF PlacedIn, LiveIn
  <2>4. RunsOnly(state', current_pid')
    BY <1>2, <2>1, <2>2 DEF RunsOnly
  <2> QED BY <2>3, <2>4
<1>3. NoTask \in Pids \cup {NoTask}
  OBVIOUS
<1> QED BY <1>1, <1>2, Dispatched

LEMMA NewTaskKeepsKInv ==
    ASSUME KInv, NEW w \in Nat \ {0}, NewTask(w) PROVE KInv'
<1> USE SchedulerAssumption
<1>1. PICK p \in Pids : state' = [state EXCEPT ![p] = READY] /\ queues' = Enqueue(p, 0)
  BY DEF NewTask
<1>2. /\ current_pid' = current_pid /\ state \in [Pids -> TaskStates]
      /\ queues \in [Levels -> Seq(Pids)] /\ 0 \in Levels
  BY DEF KInv, IInv, TypeOK, NewTask, Levels, NUM_QUEUES
<1>3. QueuedIn(queues') = QueuedIn(queues) \cup {p}
  BY <1>1, <1>2, Enqueued
<1>4. IInv'
  BY NewTaskKeepsIInv DEF KInv
<1>5. PlacedIn(state', queues', current_pid')
  BY <1>1, <1>2, <1>3 DEF KInv, PlacedIn, LiveIn
<1>6. RunsOnly(state', current_pid')
  BY <1>1, <1>2 DEF KInv, RunsOnly, READY, RUNNING
<1> QED BY <1>4, <1>5, <1>6 DEF KInv

LEMMA KillKeepsKInv == ASSUME KInv, NEW p \in Pids, Kill(p) PROVE KInv'
<1>1. /\ state' = [state EXCEPT ![p] = TERMINATED] /\ queues' = queues
      /\ current_pid' = current_pid /\ state \in [Pids -> TaskStates]
  BY DEF KInv, IInv, TypeOK, Kill, TaskTerminate, EndTask
<1>2. IInv'
  BY TaskTerminateKeepsIInv DEF KInv, Kill
<1>3. PlacedIn(state', queues', current_pid')
  BY <1>1 DEF KInv, PlacedIn, LiveIn
<1>4. RunsOnly(state', current_pid')
  BY <1>1 DEF KInv, RunsOnly, TERMINATED, RUNNING
<1> QED BY <1>2, <1>3, <1>4 DEF KInv

LEMMA TickIdleKeepsKInv == ASSUME KInv, TickIdle PROVE KInv'
<1>1. /\ current_pid = NoTask /\ Dispatch(queues, state, NoTask)
      /\ Typed(state, queues, NoTask) /\ Schedule
  BY DEF KInv, IInv, TypeOK, Typed, TickIdle, Schedule
<1>2. IInv'
  BY <1>1, ScheduleKeepsIInv DEF KInv
<1>3. PlacedIn(state, queues, NoTask) /\ RunsOnly(state, NoTask)
  BY <1>1 DEF KInv
<1>4. PlacedIn(state', queues', current_pid') /\ RunsOnly(state', current_pid')
  BY <1>1, <1>3, IdleDispatchKeeps
<1> QED BY <1>2, <1>4 DEF KInv

LEMMA TickCompletesKeepsKInv == ASSUME KInv, TickCompletes PROVE KInv'
<1>1. /\ state' = [state EXCEPT ![current_pid] = TERMINATED] /\ queues' = queues
      /\ current_pid' = NoTask /\ current_pid \in Pids /\ state \in [Pids -> TaskStates]
  BY DEF KInv, IInv, TypeOK, TickCompletes, EndTask
<1>2. \A k \in Pids : state'[k] = IF k = current_pid THEN TERMINATED ELSE state[k]
  BY <1>1
<1>3. IInv'
  BY TickCompletesKeepsIInv DEF KInv
<1>4. PlacedIn(state', queues', current_pid')
  BY <1>1, <1>2 DEF KInv, PlacedIn, LiveIn
<1>5. RunsOnly(state', current_pid')
  BY <1>2 DEF KInv, RunsOnly, TERMINATED, RUNNING
<1> QED BY <1>3, <1>4, <1>5 DEF KInv

LEMMA TickChargesKeepsKInv == ASSUME KInv, TickCharges PROVE KInv'
<1> USE SchedulerAssumption
<1>1. IInv'
  BY TickChargesKeepsIInv DEF KInv
<1>2. CASE UNCHANGED <<state, priority_level, queues, current_pid>>
  BY <1>1, <1>2 DEF KInv
<1>3. CASE Yield(TRUE, [remaining_quantum EXCEPT ![current_pid] = 0])
  <2> DEFINE p == current_pid
             q == LevelAfterYield(p, TRUE)
             st == [state EXCEPT ![p] = READY]
             qs == Enqueue(p, q)
  <2>1. /\ p \in Pids /\ Dispatch(qs, st, NoTask)
        /\ priority_level \in [Pids -> Levels]
        /\ state \in [Pids -> TaskStates] /\ queues \in [Levels -> Seq(Pids)]
    BY <1>3 DEF KInv, IInv, TypeOK, TickCharges, Yield
  <2>2. q \in Levels
    BY <2>1 DEF LevelAfterYield, Levels, Lowest, NUM_QUEUES
  <2>3. qs \in [Levels -> Seq(Pids)] /\ QueuedIn(qs) = QueuedIn(queues) \cup {p}
    BY <2>1, <2>2, Enqueued
  <2>4. \A k \in Pids : st[k] = IF k = p THEN READY ELSE state[k]
    BY <2>1
  <2>5. Typed(st, qs, NoTask)
    BY <2>1, <2>3 DEF Typed, TaskStates
  <2>6. PlacedIn(st, qs, NoTask)
    BY <2>3, <2>4 DEF KInv, PlacedIn, LiveIn
  <2>7. RunsOnly(st, NoTask)
    BY <2>4 DEF KInv, RunsOnly, READY, RUNNING
  <2> HIDE DEF st, qs
  <2>8. PlacedIn(state', queues', current_pid') /\ RunsOnly(state', current_pid')
    BY <2>1, <2>5, <2>6, <2>7, IdleDispatchKeeps
  <2> QED BY <1>1, <2>8 DEF KInv
<1> QED BY <1>2, <1>3 DEF TickCharges

LEMMA InitKInv == Init => KInv
<1> SUFFICES ASSUME Init PROVE KInv
  OBVIOUS
<1>1. LiveIn(state) = {}
  BY DEF Init, LiveIn
<1>2. RunsOnly(state, current_pid)
  BY DEF Init, RunsOnly, TERMINATED, RUNNING
<1> QED BY <1>1, <1>2, InitIInv DEF KInv, PlacedIn

LEMMA NextKInv == KInv /\ [KernelNext]_vars => KInv'
<1> SUFFICES ASSUME KInv, [KernelNext]_vars PROVE KInv'
  OBVIOUS
<1>1. CASE UNCHANGED vars
  <2>1. IInv'
    BY <1>1, NextIInv DEF KInv
  <2> QED BY <1>1, <2>1 DEF vars, KInv
<1>2. CASE AfterOverrun
  BY <1>1, <1>2 DEF AfterOverrun
<1>3. CASE SimLoad
  BY <1>3, KernelAssumption, NewTaskKeepsKInv DEF SimLoad
<1>4. CASE SystemTick
  BY <1>4, TickIdleKeepsKInv, TickCompletesKeepsKInv, TickChargesKeepsKInv DEF SystemTick
<1>5. ASSUME NEW p \in Pids, Kill(p) PROVE KInv'
  BY <1>5, KillKeepsKInv
<1> QED BY <1>1, <1>2, <1>3, <1>4, <1>5 DEF KernelNext, UnkilledNext

\* A task the user started is, until it ends, the running one or in a queue, through
\* any sequence of starts, ticks and kills and the reuse of killed slots.
THEOREM NoTaskLost == KernelSpec => []LiveIsPlaced
<1>1. KInv => LiveIsPlaced
  BY DEF KInv, PlacedIn, LiveIsPlaced, LiveIn, Live, QueuedIn, Queued, Of, Entries
<1> QED BY InitKInv, NextKInv, <1>1, PTL DEF KernelSpec

\* At most one task is RUNNING and it is current_pid, although a kill leaves
\* current_pid on a terminated task and a new task may take its slot.
THEOREM OneTaskRuns == KernelSpec => []RunningIsCurrent
<1>1. KInv => RunningIsCurrent
  BY DEF KInv, RunsOnly, RunningIsCurrent
<1> QED BY InitKInv, NextKInv, <1>1, PTL DEF KernelSpec

\* The same of MCScheduler, where the calls are anyone's or the kernel's: what holds of
\* the kernel's behaviours is kept however long they are and at every bound.
LEMMA KernelCallerKeepsKInv ==
    MCSpec => [](caller = "kernel" => KInv)
<1>1. MCInit => (caller = "kernel" => KInv)
  BY InitKInv DEF MCInit
<1>2. (caller = "kernel" => KInv) /\ [MCNext]_mcVars => (caller = "kernel" => KInv)'
  <2> SUFFICES ASSUME caller = "kernel" => KInv, [MCNext]_mcVars, caller' = "kernel"
               PROVE  KInv'
    OBVIOUS
  <2>1. caller = "kernel" /\ [KernelNext]_vars
    BY DEF MCNext, AtBound, mcVars
  <2> QED BY <2>1, NextKInv
<1> QED BY <1>1, <1>2, PTL DEF MCSpec

\* Whoever calls, the kernel's own calls lose no live task.
THEOREM KernelCallerLosesNone == MCSpec => []KernelLosesNoTask
<1>1. (caller = "kernel" => KInv) => KernelLosesNoTask
  BY DEF KernelLosesNoTask, KInv, PlacedIn, LiveIsPlaced, LiveIn, Live,
         QueuedIn, Queued, Of, Entries
<1> QED BY KernelCallerKeepsKInv, <1>1, PTL

\* Under the kernel's own calls one task runs at most, and it is current_pid.
THEOREM KernelCallerRunsOne == MCSpec => []KernelRunsOne
<1>1. (caller = "kernel" => KInv) => KernelRunsOne
  BY DEF KernelRunsOne, KInv, RunsOnly, RunningIsCurrent
<1> QED BY KernelCallerKeepsKInv, <1>1, PTL

-----------------------------------------------------------------------------
(* Before the first kill. *)

\* What a step does to the states of the tasks and to current_pid.
Starts(p) == state[p] = TERMINATED /\ state' = [state EXCEPT ![p] = READY]
                /\ current_pid' = current_pid
Dispatches(p) ==
    /\ current_pid = NoTask /\ current_pid' = p
    /\ state[p] = READY /\ state' = [state EXCEPT ![p] = RUNNING]
    /\ Best(p, state', priority_level')
Switches(p) ==
    /\ current_pid \in Pids /\ current_pid' = p
    /\ p = current_pid \/ state[p] = READY
    /\ state' = [[state EXCEPT ![current_pid] = READY] EXCEPT ![p] = RUNNING]
    /\ Best(p, state', priority_level')
Completes ==
    /\ current_pid \in Pids /\ current_pid' = NoTask
    /\ state' = [state EXCEPT ![current_pid] = TERMINATED]
Rests == state' = state /\ current_pid' = current_pid

LEMMA UnkilledStep ==
    ASSUME SInv, [UnkilledNext]_vars
    PROVE  /\ SInv'
           /\ \/ Rests \/ Completes
              \/ \E p \in Pids : Starts(p) \/ Dispatches(p) \/ Switches(p)
<1>1. CASE UNCHANGED vars
  <2>1. IInv'
    BY <1>1, NextIInv DEF SInv
  <2> QED BY <1>1, <2>1 DEF vars, tcbs, SInv, Rests
<1>2. ASSUME NEW w \in Loads, NewTask(w)
      PROVE  SInv' /\ \E p \in Pids : Starts(p)
  <2>1. w \in Nat \cup {Infinite}
    BY <1>2, KernelAssumption
  <2> QED BY <1>2, <2>1, NewTaskKeepsSInv DEF Starts, LiveIn
<1>3. CASE TickIdle
  <2>1. current_pid = NoTask
    BY <1>3 DEF TickIdle
  <2> QED BY <1>3, <2>1, TickIdleKeepsSInv DEF Rests, Dispatches, ReadyIn
<1>4. current_pid # NoTask => current_pid \in Pids
  BY DEF SInv, IInv, TypeOK
<1>5. CASE TickCompletes
  BY <1>4, <1>5, TickCompletesKeepsSInv DEF Completes, TickCompletes
<1>6. CASE TickCharges
  <2>1. current_pid \in Pids
    BY <1>4, <1>6 DEF TickCharges
  <2> QED BY <1>6, <2>1, TickChargesKeepsSInv DEF Rests, Switches, ReadyIn
<1> QED BY <1>1, <1>2, <1>3, <1>5, <1>6 DEF UnkilledNext, SimLoad, SystemTick

\* Until the first kill every live task is in exactly one place, the CPU or one queue
\* entry, and a completed one in none; so no queue is ever longer than its array.
THEOREM EachTaskOnce == UnkilledSpec => []PlacedOnce
<1>1. SInv => PlacedOnce
  BY SettledInOnePlace DEF PlacedOnce
<1>2. SInv /\ [UnkilledNext]_vars => SInv'
  BY UnkilledStep
<1> QED BY InitSInv, <1>1, <1>2, PTL DEF UnkilledSpec

\* The queue a task waits in is the one its table entry names, so serving the first
\* queue that is not empty gives the CPU to a task of the best level.
THEOREM BestLevelIsServed == UnkilledSpec => BestLevelRuns
<1>1. SInv /\ [UnkilledNext]_vars =>
          [current_pid' \notin {NoTask, current_pid} =>
              \A p \in Pids : state'[p] = READY =>
                  priority_level'[current_pid'] <= priority_level'[p]]_vars
  <2> SUFFICES ASSUME SInv, [UnkilledNext]_vars, current_pid' \notin {NoTask, current_pid},
                      NEW k \in Pids, state'[k] = READY
               PROVE  priority_level'[current_pid'] <= priority_level'[k]
    OBVIOUS
  <2>1. PICK p \in Pids : Starts(p) \/ Dispatches(p) \/ Switches(p)
    BY UnkilledStep DEF Rests, Completes
  <2> QED BY <2>1 DEF Starts, Dispatches, Switches, Best, ReadyIn
<1>2. SInv /\ [UnkilledNext]_vars => SInv'
  BY UnkilledStep
<1> QED BY InitSInv, <1>1, <1>2, PTL DEF UnkilledSpec, BestLevelRuns

\* The states of the tasks follow the life cycle: a started task waits, one task runs
\* at a time, it is exchanged only for a waiting one, and only it completes.
THEOREM LifecycleKept == UnkilledSpec => LifecycleSpec
<1> DEFINE waiting == {p \in Pids : state[p] = READY}
           running == {p \in Pids : state[p] = RUNNING}
<1>1. Init => Lifecycle!Init
  BY DEF Init, Lifecycle!Init, READY, RUNNING, TERMINATED
<1>2. SInv /\ [UnkilledNext]_vars => [Lifecycle!Next]_<<waiting, running>>
  <2> SUFFICES ASSUME SInv, [UnkilledNext]_vars
               PROVE  Lifecycle!Next \/ UNCHANGED <<waiting, running>>
    OBVIOUS
  <2>1. /\ state \in [Pids -> TaskStates]
        /\ \A p \in Pids : state[p] = RUNNING <=> p = current_pid
    BY DEF SInv, IInv, TypeOK, Settled, EntriesReady, LiveIn, QueuedIn,
           READY, RUNNING, TERMINATED, NoTask, Pids
  <2>2. CASE Rests
    BY <2>2 DEF Rests
  <2>3. CASE Completes
    <3>1. \A k \in Pids : state'[k] = IF k = current_pid THEN TERMINATED ELSE state[k]
      BY <2>1, <2>3 DEF Completes
    <3>2. PICK c \in Pids : c = current_pid
      BY <2>3 DEF Completes
    <3>3. Lifecycle!Finish(c)
      BY <2>1, <2>3, <3>1, <3>2 DEF Completes, Lifecycle!Finish, READY, RUNNING, TERMINATED
    <3> QED BY <3>3 DEF Lifecycle!Next
  <2>4. ASSUME NEW p \in Pids, Starts(p) PROVE Lifecycle!Next
    <3>1. \A k \in Pids : state'[k] = IF k = p THEN READY ELSE state[k]
      BY <2>1, <2>4 DEF Starts
    <3>2. Lifecycle!Start(p)
      BY <2>4, <3>1 DEF Starts, Lifecycle!Start, READY, RUNNING, TERMINATED
    <3> QED BY <3>2 DEF Lifecycle!Next
  <2>5. ASSUME NEW p \in Pids, Dispatches(p) PROVE Lifecycle!Next
    <3>1. \A k \in Pids : state'[k] = IF k = p THEN RUNNING ELSE state[k]
      BY <2>1, <2>5 DEF Dispatches
    <3>2. NoTask \notin Pids
      BY DEF NoTask, Pids
    <3>3. Lifecycle!Dispatch(p)
      BY <2>1, <2>5, <3>1, <3>2 DEF Dispatches, Lifecycle!Dispatch, READY, RUNNING
    <3> QED BY <3>3 DEF Lifecycle!Next
  <2>6. ASSUME NEW p \in Pids, Switches(p)
        PROVE  Lifecycle!Next \/ UNCHANGED <<waiting, running>>
    <3>1. \A k \in Pids : state'[k] = IF k = p THEN RUNNING
                                       ELSE IF k = current_pid THEN READY ELSE state[k]
      BY <2>1, <2>6 DEF Switches
    <3>2. CASE p = current_pid
      BY <2>1, <2>6, <3>1, <3>2 DEF Switches
    <3>3. CASE p # current_pid
      <4>1. Lifecycle!Exchange(current_pid, p)
        BY <2>1, <2>6, <3>1, <3>3 DEF Switches, Lifecycle!Exchange, READY, RUNNING
      <4> QED BY <2>6, <4>1 DEF Switches, Lifecycle!Next
    <3> QED BY <3>2, <3>3
  <2> QED BY <2>2, <2>3, <2>4, <2>5, <2>6, UnkilledStep
<1>3. SInv /\ [UnkilledNext]_vars => SInv'
  BY UnkilledStep
<1> QED BY InitSInv, <1>1, <1>2, <1>3, PTL DEF UnkilledSpec, LifecycleSpec, Lifecycle!Spec

-----------------------------------------------------------------------------
(* The mutex. *)

Size == MAX_BLOCKED_QUEUE
Occupants == Pids \cup {NoTask}

LEMMA RingIndex ==
    ASSUME NEW n \in Nat \ {0}
    PROVE  /\ \A x \in 0 .. n - 1 : x % n = x
           /\ \A x \in n .. 2 * n - 1 : x % n = x - n
           /\ \A x \in 1 - n .. -1 : x % n = x + n
OBVIOUS

\* The number of waiters between a head and a tail, and the k-th place of the ring.
Between(h, t) == (t - h) % MAX_BLOCKED_QUEUE
PlaceOf(h, k) == (h + k - 1) % MAX_BLOCKED_QUEUE
WaitingIn(bq, h, t) == [k \in 1 .. Between(h, t) |-> bq[PlaceOf(h, k)]]

Put(bq, t, p) == [bq EXCEPT ![t] = p]

LEMMA RingPlaces ==
    ASSUME NEW h \in Ring, NEW t \in Ring
    PROVE  /\ Size \in Nat \ {0}
           /\ After(t) = IF t = Size - 1 THEN 0 ELSE t + 1
           /\ Between(h, t) = IF t >= h THEN t - h ELSE t - h + Size
           /\ \A k \in 1 .. Size : PlaceOf(h, k) = IF h + k - 1 < Size THEN h + k - 1
                                                                     ELSE h + k - 1 - Size
<1> USE MutexAssumption
<1>1. PICK n \in Nat \ {0} : n = Size
  BY DEF Size
<1>2. /\ \A x \in 0 .. n - 1 : x % n = x
      /\ \A x \in n .. 2 * n - 1 : x % n = x - n
      /\ \A x \in 1 - n .. -1 : x % n = x + n
  BY RingIndex
<1>3. h \in 0 .. n - 1 /\ t \in 0 .. n - 1
  BY <1>1 DEF Ring, Size
<1>4. After(t) = IF t = n - 1 THEN 0 ELSE t + 1
  <2>1. After(t) = (t + 1) % n
    BY <1>1 DEF After, Size
  <2>2. CASE t = n - 1
    <3>1. t + 1 \in n .. 2 * n - 1
      BY <1>3, <2>2
    <3> QED BY <1>2, <1>3, <2>1, <2>2, <3>1
  <2>3. CASE t # n - 1
    <3>1. t + 1 \in 0 .. n - 1
      BY <1>3, <2>3
    <3> QED BY <1>2, <2>1, <2>3, <3>1
  <2> QED BY <2>2, <2>3
<1>5. Between(h, t) = IF t >= h THEN t - h ELSE t - h + n
  <2>1. Between(h, t) = (t - h) % n
    BY <1>1 DEF Between, Size
  <2>2. CASE t >= h
    <3>1. t - h \in 0 .. n - 1
      BY <1>3, <2>2
    <3> QED BY <1>2, <2>1, <2>2, <3>1
  <2>3. CASE ~(t >= h)
    <3>1. t - h \in 1 - n .. -1
      BY <1>3, <2>3
    <3> QED BY <1>2, <2>1, <2>3, <3>1
  <2> QED BY <2>2, <2>3
<1>6. ASSUME NEW k \in 1 .. n
      PROVE  PlaceOf(h, k) = IF h + k - 1 < n THEN h + k - 1 ELSE h + k - 1 - n
  <2>1. PICK x \in 0 .. 2 * n - 1 : x = h + k - 1
    BY <1>3
  <2>2. PlaceOf(h, k) = x % n
    BY <1>1, <2>1 DEF PlaceOf, Size
  <2>3. x \in 0 .. n - 1 \/ x \in n .. 2 * n - 1
    BY <2>1
  <2>4. CASE x \in 0 .. n - 1
    BY <1>2, <2>1, <2>2, <2>4
  <2>5. CASE x \in n .. 2 * n - 1
    <3>1. x % n = x - n
      BY <1>2, <2>5
    <3>2. ~(x < n) /\ x - n = h + k - 1 - n /\ x = h + k - 1
      BY <1>3, <2>1, <2>5
    <3> QED BY <2>2, <3>1, <3>2
  <2> QED BY <2>3, <2>4, <2>5
<1> QED BY <1>1, <1>4, <1>5, <1>6

LEMMA WaitingIsSeq ==
    ASSUME NEW bq \in [Ring -> Occupants], NEW h \in Ring, NEW t \in Ring
    PROVE  /\ WaitingIn(bq, h, t) \in Seq(Occupants)
           /\ Len(WaitingIn(bq, h, t)) = Between(h, t)
           /\ DOMAIN WaitingIn(bq, h, t) = 1 .. Between(h, t)
           /\ Between(h, t) \in 0 .. Size - 1
           /\ \A k \in 1 .. Between(h, t) : PlaceOf(h, k) \in Ring
<1>1. Size \in Nat \ {0} /\ h \in 0 .. Size - 1 /\ t \in 0 .. Size - 1
  BY RingPlaces DEF Ring, Size
<1>2. Between(h, t) \in 0 .. Size - 1
  BY <1>1, RingPlaces
<1>3. \A k \in 1 .. Between(h, t) : PlaceOf(h, k) \in Ring
  <2>1. ASSUME NEW k \in 1 .. Between(h, t) PROVE PlaceOf(h, k) \in 0 .. Size - 1
    <3>1. k \in 1 .. Size
      BY <1>1, <1>2
    <3> QED BY <1>1, <3>1, RingPlaces
  <2> QED BY <2>1 DEF Ring, Size
<1>4. PICK n \in Nat : n = Between(h, t)
  BY <1>2
<1>5. [k \in 1 .. n |-> bq[PlaceOf(h, k)]] \in Seq(Occupants)
  <2>1. [k \in 1 .. n |-> bq[PlaceOf(h, k)]] \in [1 .. n -> Occupants]
    BY <1>3, <1>4
  <2> QED BY <2>1
<1> QED BY <1>2, <1>3, <1>4, <1>5 DEF WaitingIn

\* mutex_lock(): the caller goes behind the waiters.
LEMMA Pushed ==
    ASSUME NEW bq \in [Ring -> Occupants], NEW h \in Ring, NEW t \in Ring, NEW p \in Occupants,
           After(t) # h, NEW to, to = Put(bq, t, p)
    PROVE  /\ After(t) \in Ring
           /\ to \in [Ring -> Occupants]
           /\ WaitingIn(to, h, After(t)) = Append(WaitingIn(bq, h, t), p)
<1> DEFINE n == Between(h, t)
<1>1. Size \in Nat \ {0} /\ h \in 0 .. Size - 1 /\ t \in 0 .. Size - 1
  BY RingPlaces DEF Ring, Size
<1>2. After(t) \in Ring
  <2>1. After(t) \in 0 .. Size - 1
    BY <1>1, RingPlaces
  <2> QED BY <2>1 DEF Ring, Size
<1>3. to \in [Ring -> Occupants]
  BY DEF Put
<1>4. n \in 0 .. Size - 1 /\ Between(h, After(t)) = n + 1 /\ n + 1 \in 1 .. Size
  BY <1>1, <1>2, RingPlaces
<1>5. PlaceOf(h, n + 1) = t
  BY <1>1, <1>4, RingPlaces
<1>6. \A k \in 1 .. n : PlaceOf(h, k) # t /\ PlaceOf(h, k) \in Ring
  <2>1. \A k \in 1 .. n : k \in 1 .. Size
    BY <1>1, <1>4
  <2>2. \A k \in 1 .. n : PlaceOf(h, k) # t
    BY <1>1, <1>4, <2>1, RingPlaces
  <2> QED BY <2>2, WaitingIsSeq
<1> DEFINE s == WaitingIn(bq, h, t)
           u == WaitingIn(to, h, After(t))
<1>7. s \in Seq(Occupants) /\ Len(s) = n /\ u \in Seq(Occupants) /\ Len(u) = n + 1
  <2>1. s \in Seq(Occupants) /\ Len(s) = n
    BY WaitingIsSeq
  <2>2. PICK i \in Ring : i = After(t)
    BY <1>2
  <2>3. WaitingIn(to, h, i) \in Seq(Occupants) /\ Len(WaitingIn(to, h, i)) = Between(h, i)
    BY <1>3, WaitingIsSeq
  <2> QED BY <1>4, <2>1, <2>2, <2>3
<1>8. \A k \in 1 .. n : u[k] = s[k]
  BY <1>4, <1>6 DEF WaitingIn, Put
<1>9. u[n + 1] = p
  BY <1>4, <1>5 DEF WaitingIn, Put
<1> HIDE DEF s, u, n
<1>10. u = Append(s, p)
  <2>1. /\ Append(s, p) \in Seq(Occupants) /\ Len(Append(s, p)) = n + 1
        /\ \A k \in 1 .. n : Append(s, p)[k] = s[k]
        /\ Append(s, p)[n + 1] = p
    BY <1>7, AppendProperties
  <2>2. \A k \in 1 .. Len(u) : u[k] = Append(s, p)[k]
    BY <1>4, <1>7, <1>8, <1>9, <2>1
  <2> QED BY <1>7, <2>1, <2>2, SeqEqual
<1> QED BY <1>2, <1>3, <1>10 DEF s, u

\* mutex_unlock(): the first of the waiters leaves.
LEMMA Popped ==
    ASSUME NEW bq \in [Ring -> Occupants], NEW h \in Ring, NEW t \in Ring, h # t
    PROVE  /\ After(h) \in Ring
           /\ WaitingIn(bq, h, t) # << >>
           /\ bq[h] = Head(WaitingIn(bq, h, t))
           /\ WaitingIn(bq, After(h), t) = Tail(WaitingIn(bq, h, t))
<1> DEFINE n == Between(h, t)
           s == WaitingIn(bq, h, t)
           u == WaitingIn(bq, After(h), t)
<1>1. Size \in Nat \ {0} /\ h \in 0 .. Size - 1 /\ t \in 0 .. Size - 1
  BY RingPlaces DEF Ring, Size
<1>2. After(h) \in 0 .. Size - 1 /\ After(h) \in Ring
  <2>1. After(h) \in 0 .. Size - 1
    BY <1>1, RingPlaces
  <2> QED BY <2>1 DEF Ring, Size
<1>3. n \in 1 .. Size - 1
  BY <1>1, RingPlaces
<1>4. Between(After(h), t) = n - 1
  <2>1. After(h) = IF h = Size - 1 THEN 0 ELSE h + 1
    BY RingPlaces
  <2>2. Between(After(h), t) = IF t >= After(h) THEN t - After(h) ELSE t - After(h) + Size
    BY <1>2, RingPlaces
  <2>3. n = IF t >= h THEN t - h ELSE t - h + Size
    BY RingPlaces
  <2> QED BY <1>1, <2>1, <2>2, <2>3
<1>5. PlaceOf(h, 1) = h
  <2>1. 1 \in 1 .. Size
    BY <1>1
  <2> QED BY <1>1, <2>1, RingPlaces
<1>6. \A k \in 1 .. n - 1 : PlaceOf(After(h), k) = PlaceOf(h, k + 1)
  <2> SUFFICES ASSUME NEW k \in 1 .. n - 1 PROVE PlaceOf(After(h), k) = PlaceOf(h, k + 1)
    OBVIOUS
  <2>1. k \in 1 .. Size /\ k + 1 \in 1 .. Size
    BY <1>1, <1>3
  <2>2. PlaceOf(After(h), k) = IF After(h) + k - 1 < Size THEN After(h) + k - 1
                                                           ELSE After(h) + k - 1 - Size
    BY <1>2, <2>1, RingPlaces
  <2>3. PlaceOf(h, k + 1) = IF h + k < Size THEN h + k ELSE h + k - Size
    BY <1>1, <2>1, RingPlaces
  <2>4. After(h) = IF h = Size - 1 THEN 0 ELSE h + 1
    BY RingPlaces
  <2> QED BY <1>1, <1>3, <2>2, <2>3, <2>4
<1>7. s \in Seq(Occupants) /\ Len(s) = n /\ u \in Seq(Occupants) /\ Len(u) = n - 1
  <2>1. s \in Seq(Occupants) /\ Len(s) = n
    BY WaitingIsSeq
  <2>2. PICK i \in Ring : i = After(h)
    BY <1>2
  <2>3. WaitingIn(bq, i, t) \in Seq(Occupants) /\ Len(WaitingIn(bq, i, t)) = Between(i, t)
    BY WaitingIsSeq
  <2> QED BY <1>4, <2>1, <2>2, <2>3
<1>8. s[1] = bq[h]
  BY <1>3, <1>5 DEF WaitingIn
<1>9. \A k \in 1 .. n - 1 : u[k] = s[k + 1]
  BY <1>3, <1>4, <1>6 DEF WaitingIn
<1> HIDE DEF s, u, n
<1>10. s # << >> /\ Head(s) = bq[h]
  BY <1>3, <1>7, <1>8
<1>11. u = Tail(s)
  <2>1. Tail(s) \in Seq(Occupants) /\ Len(Tail(s)) = n - 1 /\ \A k \in 1 .. n - 1 : Tail(s)[k] = s[k + 1]
    BY <1>3, <1>7, <1>10, HeadTailProperties
  <2> QED BY <1>7, <1>9, <2>1, SeqEqual
<1> QED BY <1>2, <1>10, <1>11 DEF s, u

LEMMA NoneWaits ==
    ASSUME NEW bq, NEW h \in Ring
    PROVE  WaitingIn(bq, h, h) = << >>
<1>1. Between(h, h) = 0
  BY RingPlaces DEF Ring
<1> QED BY <1>1 DEF WaitingIn

-----------------------------------------------------------------------------
(* The invariant: the tasks are settled; the waiters are different tasks, none of  *)
(* them the owner, and nobody waits for a mutex that is free.                      *)

RingOK ==
    /\ owner_pid \in Occupants
    /\ blocked_queue \in [Ring -> Occupants]
    /\ queue_head \in Ring
    /\ queue_tail \in Ring

Apart(waiting, owner) ==
    /\ Of(waiting) \subseteq Pids
    /\ Distinct(waiting)
    /\ owner \notin Of(waiting)
    /\ owner = NoTask => waiting = << >>

MInv == SInv /\ RingOK /\ Apart(Waiting, owner_pid)

LEMMA WaitingIsOfRing == Waiting = WaitingIn(blocked_queue, queue_head, queue_tail)
BY DEF Waiting, WaitingIn, Between, PlaceOf

\* What a step does to the owner and the waiters.
RingRests == Waiting' = Waiting /\ owner_pid' = owner_pid /\ dropped' = dropped
Acquires(p) == owner_pid = NoTask /\ owner_pid' = p /\ Waiting' = Waiting /\ dropped' = dropped
Joins(p) ==
    /\ owner_pid # NoTask /\ owner_pid' = owner_pid
    /\ p \notin Of(Waiting) \cup {owner_pid}
    /\ Waiting' = Append(Waiting, p)
    /\ dropped' = dropped
IsDropped(p) ==
    /\ RingFull
    /\ owner_pid # NoTask /\ owner_pid' = owner_pid
    /\ p \notin Of(Waiting) \cup {owner_pid}
    /\ Waiting' = Waiting
HandsOver ==
    /\ owner_pid # NoTask
    /\ Waiting # << >> /\ owner_pid' = Head(Waiting) /\ Waiting' = Tail(Waiting)
    /\ dropped' = dropped
Releases ==
    /\ owner_pid # NoTask /\ owner_pid' = NoTask
    /\ Waiting = << >> /\ Waiting' = Waiting /\ dropped' = dropped

LEMMA WaitingPrimed ==
    ASSUME UNCHANGED ring
    PROVE  Waiting' = Waiting
BY DEF ring, Waiting

LEMMA RestKeepsSInv == ASSUME SInv, UNCHANGED vars PROVE SInv'
<1>1. IInv'
  BY NextIInv DEF SInv
<1> QED BY <1>1 DEF vars, tcbs, SInv

LEMMA AskForStep ==
    ASSUME MInv, AskFor
    PROVE  SInv' /\ RingOK' /\ \E p \in Pids : Acquires(p) \/ Joins(p) \/ IsDropped(p)
<1>1. PICK p : p = current_pid
  OBVIOUS
<1>2. p \in Pids /\ p \notin Of(Waiting) \cup {owner_pid} /\ RingOK /\ SInv
  BY <1>1 DEF MInv, SInv, IInv, TypeOK, AskFor, LockFree, LockOwned, Waiters, Of
<1>3. CASE LockFree
  <2>1. SInv'
    BY <1>2, <1>3, RestKeepsSInv DEF LockFree
  <2>2. Acquires(p)
    BY <1>1, <1>3, WaitingPrimed DEF LockFree, Acquires
  <2>3. RingOK'
    BY <1>1, <1>2, <1>3 DEF LockFree, RingOK, Occupants, ring
  <2> QED BY <1>2, <2>1, <2>2, <2>3
<1>4. CASE LockOwned
  <2>1. SInv'
    <3>1. TaskYield(FALSE) /\ Yield(FALSE, remaining_quantum) /\ current_pid # NoTask
      BY <1>4 DEF LockOwned, TaskYield
    <3>2. IInv'
      BY <1>2, <3>1, TaskYieldKeepsIInv DEF SInv
    <3>3. PICK rq : rq = remaining_quantum
      OBVIOUS
    <3>4. Yield(FALSE, rq)
      BY <3>1, <3>3
    <3> QED BY <1>2, <3>1, <3>2, <3>4, YieldSettles DEF SInv
  <2>2. owner_pid # NoTask /\ owner_pid' = owner_pid /\ queue_head' = queue_head
    BY <1>4 DEF LockOwned
  <2>3. CASE RingFull /\ dropped' = dropped \cup {current_pid} /\ UNCHANGED <<blocked_queue, queue_tail>>
    <3>1. IsDropped(p)
      BY <1>2, <2>2, <2>3, WaitingPrimed DEF IsDropped, ring
    <3>2. RingOK'
      BY <1>2, <2>2, <2>3 DEF RingOK
    <3> QED BY <1>2, <2>1, <3>1, <3>2
  <2>4. CASE /\ ~RingFull
             /\ blocked_queue' = [blocked_queue EXCEPT ![queue_tail] = current_pid]
             /\ queue_tail' = After(queue_tail)
             /\ UNCHANGED dropped
    <3>1. PICK bq, h, t : bq = blocked_queue /\ h = queue_head /\ t = queue_tail
      OBVIOUS
    <3>2. bq \in [Ring -> Occupants] /\ h \in Ring /\ t \in Ring /\ After(t) # h /\ p \in Occupants
      BY <1>2, <2>4, <3>1 DEF RingOK, RingFull, Occupants
    <3> PICK to : to = Put(bq, t, p)
      OBVIOUS
    <3>3. /\ After(t) \in Ring /\ to \in [Ring -> Occupants]
          /\ WaitingIn(to, h, After(t)) = Append(WaitingIn(bq, h, t), p)
      BY <3>2, Pushed
    <3>4. blocked_queue' = to /\ queue_head' = h /\ queue_tail' = After(t)
      BY <1>1, <2>2, <2>4, <3>1 DEF Put
    <3>5. Waiting' = WaitingIn(blocked_queue', queue_head', queue_tail')
      BY DEF Waiting, WaitingIn, Between, PlaceOf
    <3>6. Waiting = WaitingIn(bq, h, t)
      BY <3>1, WaitingIsOfRing
    <3>7. Waiting' = Append(Waiting, p)
      BY <3>3, <3>4, <3>5, <3>6
    <3>8. Joins(p)
      BY <1>2, <2>2, <2>4, <3>7 DEF Joins
    <3>9. RingOK'
      BY <1>2, <2>2, <3>2, <3>3, <3>4 DEF RingOK
    <3> QED BY <1>2, <2>1, <3>8, <3>9
  <2> QED BY <1>4, <2>3, <2>4 DEF LockOwned
<1> QED BY <1>3, <1>4 DEF AskFor

\* No settled task is BLOCKED, so the hand-over never calls task_unblock() in vain.
LEMMA NobodyBlocked == ASSUME SInv, NEW p \in Pids PROVE state[p] # BLOCKED
<1>1. Settled(queues, state, current_pid, priority_level)
  BY DEF SInv
<1>2. CASE state[p] = TERMINATED
  BY <1>2 DEF BLOCKED, TERMINATED
<1>3. CASE p = current_pid
  BY <1>1, <1>3 DEF Settled, RUNNING, BLOCKED, NoTask, Pids
<1>4. CASE p \in QueuedIn(queues)
  BY <1>1, <1>4 DEF Settled, EntriesReady, QueuedIn, READY, BLOCKED
<1> QED BY <1>1, <1>2, <1>3, <1>4 DEF Settled, LiveIn

LEMMA GiveUpStep ==
    ASSUME MInv, GiveUp
    PROVE  SInv' /\ RingOK' /\ (HandsOver \/ Releases)
<1>1. PICK bq, h, t : bq = blocked_queue /\ h = queue_head /\ t = queue_tail
  OBVIOUS
<1>2. /\ bq \in [Ring -> Occupants] /\ h \in Ring /\ t \in Ring /\ owner_pid # NoTask
      /\ RingOK /\ SInv /\ Apart(Waiting, owner_pid)
  BY <1>1 DEF MInv, RingOK, GiveUp
<1>3. Waiting = WaitingIn(bq, h, t)
  BY <1>1, WaitingIsOfRing
<1>4. CASE UnlockToWaiter
  <2>1. /\ h # t /\ owner_pid' = bq[h] /\ queue_head' = After(h)
        /\ UNCHANGED <<blocked_queue, queue_tail, dropped>>
    BY <1>1, <1>4 DEF UnlockToWaiter
  <2>2. /\ After(h) \in Ring /\ WaitingIn(bq, h, t) # << >>
        /\ bq[h] = Head(WaitingIn(bq, h, t))
        /\ WaitingIn(bq, After(h), t) = Tail(WaitingIn(bq, h, t))
    BY <1>2, <2>1, Popped
  <2>3. Waiting' = WaitingIn(blocked_queue', queue_head', queue_tail')
    BY DEF Waiting, WaitingIn, Between, PlaceOf
  <2>4. HandsOver
    BY <1>1, <1>2, <1>3, <2>1, <2>2, <2>3 DEF HandsOver
  <2>5. bq[h] \in Pids
    <3>1. PICK w \in Seq(Occupants) : w = Waiting
      BY <1>2, <1>3, WaitingIsSeq
    <3>2. w # << >> /\ Of(w) \subseteq Pids /\ bq[h] = Head(w)
      BY <1>2, <1>3, <2>2, <3>1 DEF Apart
    <3>3. 1 \in DOMAIN w /\ Head(w) = w[1]
      BY <3>1, <3>2
    <3> QED BY <3>2, <3>3 DEF Of
  <2>6. UNCHANGED vars
    <3>1. state[bq[h]] # BLOCKED
      BY <1>2, <2>5, NobodyBlocked
    <3> QED BY <1>1, <1>4, <3>1 DEF UnlockToWaiter
  <2>7. SInv'
    BY <1>2, <2>6, RestKeepsSInv
  <2>8. RingOK'
    BY <1>1, <1>2, <2>1, <2>2, <2>5 DEF RingOK, Occupants
  <2> QED BY <2>4, <2>7, <2>8
<1>5. CASE UnlockToNobody
  <2>1. h = t /\ owner_pid' = NoTask /\ UNCHANGED <<vars, ring, dropped>>
    BY <1>1, <1>5 DEF UnlockToNobody
  <2>2. Waiting = << >>
    BY <1>2, <1>3, <2>1, NoneWaits
  <2>3. Releases
    BY <1>2, <2>1, <2>2, WaitingPrimed DEF Releases
  <2>4. SInv'
    BY <1>2, <2>1, RestKeepsSInv
  <2>5. RingOK'
    BY <1>2, <2>1 DEF RingOK, Occupants, ring
  <2> QED BY <2>3, <2>4, <2>5
<1> QED BY <1>4, <1>5 DEF GiveUp

LEMMA MutexStep ==
    ASSUME MInv, [MutexNext]_mvars
    PROVE  /\ SInv' /\ RingOK'
           /\ \/ RingRests \/ HandsOver \/ Releases
              \/ \E p \in Pids : Acquires(p) \/ Joins(p) \/ IsDropped(p)
<1>1. SInv /\ RingOK
  BY DEF MInv
<1>2. ASSUME UNCHANGED <<owner_pid, ring, dropped>>
      PROVE  RingRests /\ RingOK'
  BY <1>1, <1>2, WaitingPrimed DEF RingRests, RingOK, ring
<1>3. CASE UNCHANGED mvars
  <2>1. UNCHANGED vars /\ UNCHANGED <<owner_pid, ring, dropped>>
    BY <1>3 DEF mvars
  <2> QED BY <1>1, <1>2, <2>1, RestKeepsSInv
<1>4. CASE (TaskCreate \/ SystemTick) /\ UNCHANGED <<owner_pid, ring, dropped>>
  <2>1. ASSUME TaskCreate PROVE SInv'
    <3>1. Infinite \in Nat \cup {Infinite} /\ NewTask(Infinite)
      BY <2>1 DEF TaskCreate
    <3> QED BY <1>1, <3>1, NewTaskKeepsSInv
  <2>2. ASSUME SystemTick PROVE SInv'
    BY <1>1, <2>2, TickIdleKeepsSInv, TickCompletesKeepsSInv, TickChargesKeepsSInv DEF SystemTick
  <2> QED BY <1>2, <1>4, <2>1, <2>2
<1>5. CASE AskFor
  BY <1>5, AskForStep
<1>6. CASE GiveUp
  BY <1>6, GiveUpStep
<1> QED BY <1>3, <1>4, <1>5, <1>6 DEF MutexNext

LEMMA ApartKept == ASSUME MInv, [MutexNext]_mvars PROVE Apart(Waiting, owner_pid)'
<1>1. Apart(Waiting, owner_pid) /\ owner_pid \in Occupants
  BY DEF MInv, RingOK
<1>2. PICK w \in Seq(Pids) : w = Waiting
  <2>1. Waiting \in Seq(Occupants)
    BY WaitingIsSeq, WaitingIsOfRing DEF MInv, RingOK
  <2>2. \A i \in 1 .. Len(Waiting) : Waiting[i] \in Pids
    BY <1>1, <2>1 DEF Apart, Of
  <2> QED BY <2>1, <2>2
<1>3. Of(w) \subseteq Pids /\ Distinct(w) /\ owner_pid \notin Of(w)
  BY <1>1, <1>2 DEF Apart
<1>4. Of(<< >>) = {} /\ Distinct(<< >>)
  BY DEF Of, Distinct
<1>5. \A p \in Pids : p # NoTask
  BY DEF NoTask, Pids
<1>6. SUFFICES Apart(Waiting', owner_pid')
  BY DEF Apart, Of, Distinct
<1>7. CASE RingRests
  BY <1>1, <1>7 DEF RingRests
<1>8. CASE HandsOver
  <2>1. w # << >> /\ owner_pid' = Head(w) /\ Waiting' = Tail(w)
    BY <1>2, <1>8 DEF HandsOver
  <2>2. Distinct(Tail(w)) /\ Head(w) \notin Of(Tail(w))
    BY <1>3, <2>1, DistinctTail
  <2>3. Of(w) = Of(Tail(w)) \cup {Head(w)}
    BY <2>1, OfTail
  <2> QED BY <1>3, <1>5, <2>1, <2>2, <2>3 DEF Apart
<1>9. CASE Releases
  BY <1>4, <1>9 DEF Releases, Apart
<1>10. ASSUME NEW p \in Pids, Acquires(p) PROVE Apart(Waiting', owner_pid')
  BY <1>1, <1>4, <1>5, <1>10 DEF Acquires, Apart
<1>11. ASSUME NEW p \in Pids, Joins(p) PROVE Apart(Waiting', owner_pid')
  <2>1. /\ Waiting' = Append(w, p) /\ owner_pid' = owner_pid /\ p # owner_pid
        /\ owner_pid # NoTask /\ p \notin Of(w)
    BY <1>2, <1>11 DEF Joins
  <2>2. Of(Append(w, p)) = Of(w) \cup {p} /\ Distinct(Append(w, p))
    BY <1>3, <2>1, OfAppend, DistinctAppend
  <2> QED BY <1>3, <2>1, <2>2 DEF Apart
<1>12. ASSUME NEW p \in Pids, IsDropped(p) PROVE Apart(Waiting', owner_pid')
  BY <1>1, <1>12 DEF IsDropped
<1> QED BY <1>7, <1>8, <1>9, <1>10, <1>11, <1>12, MutexStep

LEMMA InitMInv == MutexInit => MInv /\ Waiting = << >>
<1> SUFFICES ASSUME MutexInit PROVE MInv /\ Waiting = << >>
  OBVIOUS
<1>1. RingOK
  <2>1. 0 \in Ring
    BY MutexAssumption DEF Ring
  <2> QED BY <2>1 DEF MutexInit, RingOK, Occupants
<1>2. Waiting = << >>
  BY <1>1, NoneWaits, WaitingIsOfRing DEF MutexInit, RingOK
<1>3. Apart(<< >>, owner_pid)
  BY DEF Apart, Of, Distinct
<1> QED BY <1>1, <1>2, <1>3, InitSInv DEF MutexInit, MInv

LEMMA NextMInv == MInv /\ [MutexNext]_mvars => MInv'
BY MutexStep, ApartKept DEF MInv

LEMMA MutexMInv == MutexSpec => []MInv
BY InitMInv, NextMInv, PTL DEF MutexSpec

\* However the tasks lock and unlock, each live one is on the CPU or in exactly one
\* queue entry: the BLOCKED state mutex_lock() gives its caller is gone before
\* task_yield() has returned.
THEOREM LockingLosesNoTask == MutexSpec => []OnePlace
<1>1. MInv => OnePlace
  BY SettledInOnePlace DEF MInv, OnePlace
<1> QED BY <1>1, MutexMInv, PTL

-----------------------------------------------------------------------------
(* The ring is large enough: MAX_TASKS <= MAX_BLOCKED_QUEUE, as in the code, where  *)
(* both are 16.  The waiters of a full ring, the owner and the caller would be      *)
(* MAX_BLOCKED_QUEUE + 1 different tasks.                                           *)

LEMMA FullRing ==
    ASSUME RingOK, RingFull
    PROVE  Len(Waiting) = Size - 1
<1>1. PICK h, t : h = queue_head /\ t = queue_tail
  OBVIOUS
<1>2. /\ h \in Ring /\ t \in Ring /\ After(t) = h
      /\ h \in 0 .. Size - 1 /\ t \in 0 .. Size - 1
  BY <1>1 DEF RingOK, RingFull, Ring, Size
<1>3. Between(h, t) = Size - 1
  BY <1>2, RingPlaces
<1> QED BY <1>1, <1>2, <1>3, WaitingIsSeq, WaitingIsOfRing DEF RingOK

LEMMA NoneDropped ==
    ASSUME MInv, MAX_TASKS <= MAX_BLOCKED_QUEUE, NEW p \in Pids, IsDropped(p)
    PROVE  FALSE
<1> USE SchedulerAssumption, MutexAssumption
<1>1. PICK w \in Seq(Pids) : w = Waiting
  <2>1. Waiting \in Seq(Occupants)
    BY WaitingIsSeq, WaitingIsOfRing DEF MInv, RingOK
  <2>2. \A i \in 1 .. Len(Waiting) : Waiting[i] \in Pids
    BY <2>1 DEF MInv, Apart, Of
  <2> QED BY <2>1, <2>2
<1>2. PICK o : o = owner_pid
  OBVIOUS
<1>3. /\ Distinct(w) /\ Len(w) = MAX_BLOCKED_QUEUE - 1
      /\ o \in Pids /\ o \notin Of(w) /\ p \notin Of(w) /\ p # o
  BY <1>1, <1>2, FullRing DEF MInv, RingOK, Apart, IsDropped, Occupants, Size
<1> DEFINE v == Append(w, o)
<1>4. v \in Seq(Pids) /\ Len(v) = MAX_BLOCKED_QUEUE /\ Distinct(v) /\ Of(v) = Of(w) \cup {o}
  BY <1>3, DistinctAppend, OfAppend
<1> HIDE DEF v
<1> DEFINE u == Append(v, p)
<1>5. u \in Seq(Pids) /\ Len(u) = MAX_BLOCKED_QUEUE + 1 /\ Distinct(u)
  BY <1>3, <1>4, DistinctAppend
<1> HIDE DEF u
<1>6. Len(u) <= MAX_TASKS
  BY <1>5, DistinctFits
<1> QED BY <1>5, <1>6

\* No task that asks for the mutex finds the ring full and is sent back to its queue
\* without a place in it.
THEOREM RingHoldsEveryWaiter ==
    ASSUME MAX_TASKS <= MAX_BLOCKED_QUEUE
    PROVE  MutexSpec => []NoWaiterDropped
<1>1. MutexInit => NoWaiterDropped
  BY DEF MutexInit, NoWaiterDropped
<1>2. MInv /\ NoWaiterDropped /\ [MutexNext]_mvars => NoWaiterDropped'
  BY MutexStep, NoneDropped DEF NoWaiterDropped, RingRests, HandsOver, Releases, Acquires, Joins
<1> QED BY <1>1, <1>2, MutexMInv, PTL DEF MutexSpec

-----------------------------------------------------------------------------

\* A mutex has one owner at a time, and the tasks that wait become owner in the order
\* in which they asked; a task dropped at a full ring changes neither.
THEOREM MutexIsFifo == MutexSpec => FifoSpec
<1>1. MutexInit => Fifo!Init
  BY InitMInv DEF MutexInit, Fifo!Init
<1>2. MInv /\ [MutexNext]_mvars => [Fifo!Next]_<<owner_pid, Waiting>>
  <2> SUFFICES ASSUME MInv, [MutexNext]_mvars
               PROVE  Fifo!Next \/ UNCHANGED <<owner_pid, Waiting>>
    OBVIOUS
  <2>1. CASE RingRests
    BY <2>1 DEF RingRests
  <2>2. CASE HandsOver
    BY <2>2 DEF HandsOver, Fifo!Next, Fifo!HandOver
  <2>3. CASE Releases
    BY <2>3 DEF Releases, Fifo!Next, Fifo!Release
  <2>4. ASSUME NEW p \in Pids, Acquires(p) PROVE Fifo!Next
    BY <2>4 DEF Acquires, Fifo!Next, Fifo!Acquire
  <2>5. ASSUME NEW p \in Pids, Joins(p) PROVE Fifo!Next
    BY <2>5 DEF Joins, Fifo!Next, Fifo!Wait
  <2>6. ASSUME NEW p \in Pids, IsDropped(p) PROVE UNCHANGED <<owner_pid, Waiting>>
    BY <2>6 DEF IsDropped
  <2> QED BY <2>1, <2>2, <2>3, <2>4, <2>5, <2>6, MutexStep
<1> QED BY <1>1, <1>2, MutexMInv, PTL DEF MutexSpec, FifoSpec, Fifo!Spec
=============================================================================

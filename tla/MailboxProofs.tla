---------------------------- MODULE MailboxProofs ----------------------------
(***************************************************************************)
(* Mailboxes of any size, texts of any kind, any number of tasks under the *)
(* calls of the kernel, kills and what comes back after them included: the *)
(* count agrees with the slots, and the mailbox is a bounded bag.  The     *)
(* history of arrivals plays no part.                                      *)
(*                                                                         *)
(* A bag counts the slots a text is in, so both results come down to what  *)
(* one slot does to such a count (OneMore, OneLess).                       *)
(***************************************************************************)
EXTENDS Mailbox, SchedulerProofs, WellFoundedInduction

Boxes == [Slots -> Stored \cup {Invalid}]

MbTyped ==
    /\ mailbox \in [Pids -> Boxes]
    /\ msg_count \in [Pids -> Nat]
    /\ thread_count \in [Pids -> Nat]

\* The slots of a box that hold a text.
Holding(box, text) == {i \in Slots : box[i] = text}

\* The messages of a box, the copies of a text told apart by a number.
Numbered(box) == UNION {{text} \X (1 .. Cardinality(Holding(box, text))) : text \in Stored}

Filled(box) == {i \in Slots : box[i] # Invalid}

\* How many messages a bag has is how many slots are filled.
Agree(box) == IsFiniteSet(Numbered(box)) /\ Cardinality(Numbered(box)) = Cardinality(Filled(box))

BoxInv == MbTyped /\ CountIsValidSlots /\ \A p \in Pids : Agree(mailbox[p])

\* The tasks the scheduler can make live, and those task_create() made.
Named(st, qs, cur) == LiveIn(st) \cup QueuedIn(qs) \cup ({cur} \cap Pids)
Created == {p \in Pids : thread_count[p] > 0}

MailInv == KInv /\ BoxInv /\ Named(state, queues, current_pid) \subseteq Created

-----------------------------------------------------------------------------

LEMMA SlotsFinite ==
    ASSUME MailboxAssumption
    PROVE  \A S \in SUBSET Slots : IsFiniteSet(S) /\ Cardinality(S) \in Nat
<1>1. 0 \in Int /\ MAX_IPC_MESSAGES - 1 \in Int
  BY DEF MailboxAssumption
<1>2. IsFiniteSet(Slots)
  BY <1>1, FS_Interval DEF Slots
<1> QED BY <1>2, FS_Subset, FS_CardinalityType

Less == {p \in Nat \X Nat : p[1] < p[2]}

LEMMA LeastNumber ==
    ASSUME NEW T, T \subseteq Nat, T # {}
    PROVE  \E x \in T : \A y \in T : x <= y
<1>1. IsWellFoundedOn(Less, Nat)
  <2>1. OpToRel(<, Nat) = Less
    BY DEF OpToRel, Less
  <2> QED BY <2>1, NatLessThanWellFounded
<1>2. PICK x \in T : \A y \in T : ~(<<y, x>> \in Less)
  BY <1>1, WFMin
<1>3. \A y \in T : <<y, x>> \in Nat \X Nat /\ x \in Nat /\ y \in Nat
  OBVIOUS
<1>4. \A y \in T : ~(y < x)
  BY <1>2, <1>3 DEF Less
<1> QED BY <1>3, <1>4

\* A set of slots that is not empty has a first one.
LEMMA FirstExists ==
    ASSUME NEW S \in SUBSET Slots, S # {}
    PROVE  \E i \in S : IsFirst(i, S)
<1>1. S \subseteq Nat
  BY DEF Slots
<1>2. PICK i \in S : \A j \in S : i <= j
  BY <1>1, LeastNumber
<1> QED BY <1>2 DEF IsFirst

-----------------------------------------------------------------------------
(* One slot of a box is filled. *)

LEMMA FillFilled ==
    ASSUME MailboxAssumption, NEW box \in Boxes, NEW i \in Slots, NEW t \in Stored, box[i] = Invalid
    PROVE  LET new == [box EXCEPT ![i] = t]
           IN  /\ new \in Boxes
               /\ Cardinality(Filled(new)) = Cardinality(Filled(box)) + 1
               /\ \A u \in Stored : Cardinality(Holding(new, u)) =
                      IF u = t THEN Cardinality(Holding(box, u)) + 1 ELSE Cardinality(Holding(box, u))
<1>1. PICK new : new = [box EXCEPT ![i] = t]
  OBVIOUS
<1>2. /\ new \in Boxes
      /\ new[i] = t
      /\ \A j \in Slots : j # i => new[j] = box[j]
  BY <1>1 DEF Boxes
<1>3. t # Invalid
  BY DEF MailboxAssumption
<1>4. Filled(new) = Filled(box) \cup {i} /\ i \notin Filled(box)
  BY <1>2, <1>3 DEF Filled
<1>5. IsFiniteSet(Filled(box)) /\ \A u : IsFiniteSet(Holding(box, u))
  <2>1. Filled(box) \in SUBSET Slots /\ \A u : Holding(box, u) \in SUBSET Slots
    BY DEF Filled, Holding
  <2> QED BY <2>1, SlotsFinite
<1>6. Cardinality(Filled(new)) = Cardinality(Filled(box)) + 1
  BY <1>4, <1>5, FS_AddElement
<1>7. ASSUME NEW u \in Stored
      PROVE  Cardinality(Holding(new, u)) =
                 IF u = t THEN Cardinality(Holding(box, u)) + 1 ELSE Cardinality(Holding(box, u))
  <2>1. CASE u = t
    <3>1. Holding(new, u) = Holding(box, u) \cup {i} /\ i \notin Holding(box, u)
      BY <1>2, <1>3, <2>1 DEF Holding
    <3> QED BY <3>1, <1>5, <2>1, FS_AddElement
  <2>2. CASE u # t
    <3>1. u # Invalid
      BY DEF MailboxAssumption
    <3>2. Holding(new, u) = Holding(box, u)
      BY <1>2, <2>2, <3>1 DEF Holding
    <3> QED BY <3>2, <2>2
  <2> QED BY <2>1, <2>2
<1> QED BY <1>1, <1>2, <1>6, <1>7

\* Emptying a slot undoes filling it.
LEMMA EmptyFilled ==
    ASSUME MailboxAssumption, NEW box \in Boxes, NEW i \in Slots, box[i] # Invalid
    PROVE  LET new == [box EXCEPT ![i] = Invalid]
           IN  /\ new \in Boxes
               /\ Cardinality(Filled(box)) = Cardinality(Filled(new)) + 1
               /\ \A u \in Stored : Cardinality(Holding(box, u)) =
                      IF u = box[i] THEN Cardinality(Holding(new, u)) + 1 ELSE Cardinality(Holding(new, u))
<1>1. PICK new : new = [box EXCEPT ![i] = Invalid]
  OBVIOUS
<1>2. new \in Boxes /\ new[i] = Invalid /\ box[i] \in Stored
  BY <1>1 DEF Boxes
<1>3. box = [new EXCEPT ![i] = box[i]]
  BY <1>1 DEF Boxes
<1>4. PICK t \in Stored : t = box[i]
  BY <1>2
<1>5. /\ Cardinality(Filled([new EXCEPT ![i] = t])) = Cardinality(Filled(new)) + 1
      /\ \A u \in Stored : Cardinality(Holding([new EXCEPT ![i] = t], u)) =
             IF u = t THEN Cardinality(Holding(new, u)) + 1 ELSE Cardinality(Holding(new, u))
  BY <1>2, FillFilled
<1> QED BY <1>1, <1>2, <1>3, <1>4, <1>5

\* A bag in which one text is counted once more has one message more.
LEMMA OneMoreNumbered ==
    ASSUME MailboxAssumption, NEW old \in Boxes, NEW new \in Boxes, NEW t \in Stored,
           \A u \in Stored : Cardinality(Holding(new, u)) =
               IF u = t THEN Cardinality(Holding(old, u)) + 1 ELSE Cardinality(Holding(old, u))
    PROVE  LET last == <<t, Cardinality(Holding(new, t))>>
           IN  Numbered(new) = Numbered(old) \cup {last} /\ last \notin Numbered(old)
<1>1. PICK n \in Nat : n = Cardinality(Holding(old, t))
  <2>1. Holding(old, t) \in SUBSET Slots
    BY DEF Holding
  <2> QED BY <2>1, SlotsFinite
<1>2. Cardinality(Holding(new, t)) = n + 1
  BY <1>1
<1>3. ASSUME NEW x
      PROVE  x \in Numbered(new) <=> x \in Numbered(old) \cup {<<t, n + 1>>}
  <2>1. x \in Numbered(new) <=> \E u \in Stored : x \in {u} \X (1 .. Cardinality(Holding(new, u)))
    BY DEF Numbered
  <2>2. x \in Numbered(old) <=> \E u \in Stored : x \in {u} \X (1 .. Cardinality(Holding(old, u)))
    BY DEF Numbered
  <2>3. x \in {t} \X (1 .. n + 1) <=> x \in {t} \X (1 .. n) \/ x = <<t, n + 1>>
    <3>1. 1 .. n + 1 = (1 .. n) \cup {n + 1}
      OBVIOUS
    <3> QED BY <3>1
  <2> QED BY <1>1, <1>2, <2>1, <2>2, <2>3
<1>4. <<t, n + 1>> \notin Numbered(old)
  <2>1. SUFFICES ASSUME <<t, n + 1>> \in Numbered(old) PROVE FALSE
    OBVIOUS
  <2>2. PICK u \in Stored : <<t, n + 1>> \in {u} \X (1 .. Cardinality(Holding(old, u)))
    BY <2>1 DEF Numbered
  <2>3. u = t /\ n + 1 \in 1 .. n
    BY <1>1, <2>2
  <2> QED BY <2>3
<1>5. Numbered(new) = Numbered(old) \cup {<<t, n + 1>>}
  BY <1>3
<1> QED BY <1>2, <1>4, <1>5

-----------------------------------------------------------------------------
(* What the calls do to one box: it is emptied, gets a text, or loses one. *)

EmptyBox == [i \in Slots |-> Invalid]

LEMMA EmptyAgrees ==
    ASSUME MailboxAssumption
    PROVE  /\ EmptyBox \in Boxes /\ Agree(EmptyBox)
           /\ Cardinality(Filled(EmptyBox)) = 0
           /\ \A u \in Stored : Cardinality(Holding(EmptyBox, u)) = 0
<1>1. EmptyBox \in Boxes /\ Filled(EmptyBox) = {}
  BY DEF EmptyBox, Boxes, Filled
<1>2. ASSUME NEW u \in Stored PROVE Holding(EmptyBox, u) = {}
  <2>1. u # Invalid
    BY DEF MailboxAssumption
  <2> QED BY <2>1 DEF EmptyBox, Holding
<1>3. Cardinality({}) = 0 /\ IsFiniteSet({})
  BY FS_EmptySet
<1>4. ASSUME NEW u \in Stored PROVE {u} \X (1 .. Cardinality(Holding(EmptyBox, u))) = {}
  <2>1. Cardinality(Holding(EmptyBox, u)) = 0
    BY <1>2, <1>3
  <2> QED BY <2>1
<1>5. Numbered(EmptyBox) = {}
  BY <1>4 DEF Numbered
<1> QED BY <1>1, <1>2, <1>3, <1>5 DEF Agree

OneMore(old, new, t) ==
    /\ Cardinality(Filled(new)) = Cardinality(Filled(old)) + 1
    /\ \A u \in Stored : Cardinality(Holding(new, u)) =
           IF u = t THEN Cardinality(Holding(old, u)) + 1 ELSE Cardinality(Holding(old, u))

LEMMA OneMoreAgrees ==
    ASSUME MailboxAssumption, NEW old \in Boxes, NEW new \in Boxes, NEW t \in Stored, OneMore(old, new, t)
    PROVE  Agree(old) <=> Agree(new)
<1>1. PICK last : last = <<t, Cardinality(Holding(new, t))>>
  OBVIOUS
<1>2. Numbered(new) = Numbered(old) \cup {last} /\ last \notin Numbered(old)
  BY <1>1, OneMoreNumbered DEF OneMore
<1>3. Cardinality(Filled(old)) \in Nat /\ Cardinality(Filled(new)) = Cardinality(Filled(old)) + 1
  <2>1. Filled(old) \in SUBSET Slots
    BY DEF Filled
  <2> QED BY <2>1, SlotsFinite DEF OneMore
<1>4. ASSUME Agree(old) PROVE Agree(new)
  <2>1. /\ IsFiniteSet(Numbered(new))
        /\ Cardinality(Numbered(new)) = Cardinality(Numbered(old)) + 1
    BY <1>2, <1>4, FS_AddElement DEF Agree
  <2> QED BY <1>3, <1>4, <2>1 DEF Agree
<1>5. ASSUME Agree(new) PROVE Agree(old)
  <2>1. IsFiniteSet(Numbered(old))
    BY <1>2, <1>5, FS_Subset DEF Agree
  <2>2. /\ Cardinality(Numbered(new)) = Cardinality(Numbered(old)) + 1
        /\ Cardinality(Numbered(old)) \in Nat
    BY <1>2, <2>1, FS_AddElement, FS_CardinalityType
  <2> QED BY <1>3, <1>5, <2>1, <2>2 DEF Agree
<1> QED BY <1>4, <1>5

\* The one box a call changes, and its count.
LEMMA BoxKept ==
    ASSUME MailboxAssumption, BoxInv, NEW p \in Pids, NEW new \in Boxes,
           mailbox' = [mailbox EXCEPT ![p] = new],
           msg_count' = [msg_count EXCEPT ![p] = Cardinality(Filled(new))],
           thread_count' \in [Pids -> Nat], Agree(new)
    PROVE  BoxInv'
<1>1. mailbox'[p] = new /\ \A q \in Pids : q # p => mailbox'[q] = mailbox[q]
  BY DEF BoxInv, MbTyped
<1>2. msg_count'[p] = Cardinality(Filled(new)) /\ \A q \in Pids : q # p => msg_count'[q] = msg_count[q]
  BY DEF BoxInv, MbTyped
<1>3. Cardinality(Filled(new)) \in Nat
  <2>1. Filled(new) \in SUBSET Slots
    BY DEF Filled
  <2> QED BY <2>1, SlotsFinite
<1>4. MbTyped'
  BY <1>3 DEF BoxInv, MbTyped
<1>5. ASSUME NEW q \in Pids PROVE msg_count'[q] = Cardinality(Valid(q)')
  <2>1. Valid(q) = Filled(mailbox[q]) /\ Valid(q)' = Filled(mailbox'[q])
    BY DEF Valid, Filled
  <2>2. msg_count[q] = Cardinality(Filled(mailbox[q]))
    BY <2>1 DEF BoxInv, CountIsValidSlots
  <2> QED BY <1>1, <1>2, <2>1, <2>2
<1>6. ASSUME NEW q \in Pids PROVE Agree(mailbox'[q])
  BY <1>1 DEF BoxInv
<1> QED BY <1>4, <1>5, <1>6 DEF BoxInv, CountIsValidSlots

LEMMA SentTo ==
    ASSUME MailboxAssumption, BoxInv, NEW p \in Pids, NEW t \in Texts, IpcSend(p, t)
    PROVE  /\ BoxInv'
           /\ Cut[t] \in Stored /\ mailbox'[p] \in Boxes
           /\ mailbox' = [mailbox EXCEPT ![p] = mailbox'[p]]
           /\ OneMore(mailbox[p], mailbox'[p], Cut[t])
<1>1. PICK i \in Slots : mailbox[p][i] = Invalid /\ mailbox' = [mailbox EXCEPT ![p][i] = Cut[t]]
  BY DEF IpcSend, SendSlot, IsFirst, Valid
<1>2. PICK u \in Stored : u = Cut[t]
  BY DEF Stored
<1>3. PICK box \in Boxes : box = mailbox[p]
  BY DEF BoxInv, MbTyped
<1>4. PICK new : new = [box EXCEPT ![i] = u]
  OBVIOUS
<1>5. mailbox' = [mailbox EXCEPT ![p] = new] /\ mailbox'[p] = new
  BY <1>1, <1>2, <1>3, <1>4 DEF BoxInv, MbTyped
<1>6. new \in Boxes /\ OneMore(box, new, u)
  BY <1>1, <1>3, <1>4, FillFilled DEF OneMore
<1>7. Agree(new)
  BY <1>3, <1>6, OneMoreAgrees DEF BoxInv
<1>8. msg_count[p] = Cardinality(Filled(box)) /\ Cardinality(Filled(new)) = msg_count[p] + 1
  <2>1. Valid(p) = Filled(box)
    BY <1>3 DEF Valid, Filled
  <2>2. msg_count[p] = Cardinality(Filled(box))
    BY <2>1 DEF BoxInv, CountIsValidSlots
  <2> QED BY <1>6, <2>2 DEF OneMore
<1>9. /\ msg_count' = [msg_count EXCEPT ![p] = Cardinality(Filled(new))]
      /\ thread_count' \in [Pids -> Nat]
  BY <1>8 DEF IpcSend, BoxInv, MbTyped
<1>10. BoxInv'
  BY <1>5, <1>6, <1>7, <1>9, BoxKept
<1> QED BY <1>2, <1>3, <1>5, <1>6, <1>10

LEMMA ReceivedBy ==
    ASSUME MailboxAssumption, BoxInv, NEW p \in Pids, IpcReceive(p)
    PROVE  /\ BoxInv'
           /\ mailbox'[p] \in Boxes
           /\ mailbox' = [mailbox EXCEPT ![p] = mailbox'[p]]
           /\ \E u \in Stored : OneMore(mailbox'[p], mailbox[p], u)
<1>1. PICK i \in Slots : mailbox[p][i] # Invalid /\ mailbox' = [mailbox EXCEPT ![p][i] = Invalid]
  BY DEF IpcReceive, Take, IsFirst, Valid
<1>2. PICK box \in Boxes : box = mailbox[p]
  BY DEF BoxInv, MbTyped
<1>3. PICK u \in Stored : u = box[i]
  BY <1>1, <1>2 DEF Boxes
<1>4. PICK new : new = [box EXCEPT ![i] = Invalid]
  OBVIOUS
<1>5. mailbox' = [mailbox EXCEPT ![p] = new] /\ mailbox'[p] = new
  BY <1>1, <1>2, <1>4 DEF BoxInv, MbTyped
<1>6. new \in Boxes /\ OneMore(new, box, u)
  BY <1>1, <1>2, <1>3, <1>4, EmptyFilled DEF OneMore
<1>7. Agree(new)
  BY <1>2, <1>6, OneMoreAgrees DEF BoxInv
<1>8. msg_count[p] = Cardinality(Filled(new)) + 1 /\ Cardinality(Filled(new)) \in Nat
  <2>1. Valid(p) = Filled(box)
    BY <1>2 DEF Valid, Filled
  <2>2. msg_count[p] = Cardinality(Filled(box))
    BY <2>1 DEF BoxInv, CountIsValidSlots
  <2>3. Filled(new) \in SUBSET Slots
    BY DEF Filled
  <2>4. Cardinality(Filled(new)) \in Nat
    BY <2>3, SlotsFinite
  <2> QED BY <1>6, <2>2, <2>4 DEF OneMore
<1>9. /\ msg_count' = [msg_count EXCEPT ![p] = msg_count[p] - 1]
      /\ thread_count' \in [Pids -> Nat]
  BY DEF IpcReceive, BoxInv, MbTyped
<1>10. msg_count[p] - 1 = Cardinality(Filled(new))
  BY <1>8
<1>11. BoxInv'
  BY <1>5, <1>6, <1>7, <1>9, <1>10, BoxKept
<1> QED BY <1>2, <1>5, <1>6, <1>11

LEMMA InitBoxInv == ASSUME MailboxAssumption PROVE MailInit => BoxInv
<1> SUFFICES ASSUME MailInit PROVE BoxInv
  OBVIOUS
<1>1. \A p \in Pids : mailbox[p] = EmptyBox /\ msg_count[p] = 0
  BY DEF MailInit, EmptyBox
<1>2. MbTyped
  BY <1>1, EmptyAgrees DEF MailInit, MbTyped, EmptyBox
<1>3. ASSUME NEW p \in Pids PROVE msg_count[p] = Cardinality(Valid(p)) /\ Agree(mailbox[p])
  <2>1. Valid(p) = Filled(EmptyBox)
    BY <1>1 DEF Valid, Filled
  <2> QED BY <1>1, <2>1, EmptyAgrees
<1> QED BY <1>2, <1>3 DEF BoxInv, CountIsValidSlots

LEMMA ResetKeepsBoxInv ==
    ASSUME MailboxAssumption, BoxInv, NEW p \in Pids, Reset(p)
    PROVE  BoxInv' /\ mailbox' = [mailbox EXCEPT ![p] = EmptyBox]
<1>1. /\ mailbox' = [mailbox EXCEPT ![p] = EmptyBox]
      /\ msg_count' = [msg_count EXCEPT ![p] = 0]
      /\ thread_count' = [thread_count EXCEPT ![p] = 1]
  BY DEF Reset, EmptyBox
<1>2. thread_count' \in [Pids -> Nat]
  BY <1>1 DEF BoxInv, MbTyped
<1>3. msg_count' = [msg_count EXCEPT ![p] = Cardinality(Filled(EmptyBox))]
  BY <1>1, EmptyAgrees
<1> QED BY <1>1, <1>2, <1>3, EmptyAgrees, BoxKept

LEMMA ThreadKeepsBoxInv ==
    ASSUME BoxInv, NEW p \in Pids, ThreadCreate(p)
    PROVE  BoxInv'
<1>1. MbTyped'
  BY DEF ThreadCreate, BoxInv, MbTyped
<1> QED BY <1>1 DEF ThreadCreate, BoxInv, CountIsValidSlots, Valid

LEMMA RestKeepsBoxInv == ASSUME BoxInv, UNCHANGED blocks PROVE BoxInv'
BY DEF blocks, BoxInv, MbTyped, CountIsValidSlots, Valid

-----------------------------------------------------------------------------
(* What the scheduler can make live: only what is live, queued or current.  *)

Names == Named(state, queues, current_pid)

LEMMA NoTaskUnnamed == NoTask \notin Pids
BY DEF NoTask, Pids

LEMMA DispatchNames ==
    ASSUME NEW st, NEW qs, NEW cur, Typed(st, qs, cur), Dispatch(qs, st, cur)
    PROVE  Names' \subseteq Named(st, qs, cur) /\ LiveIn(st) \subseteq LiveIn(state')
<1>1. CASE queues' = qs /\ state' = st /\ current_pid' = cur
  BY <1>1 DEF Names
<1>2. ASSUME NEW p \in Pids, QueuedIn(qs) = QueuedIn(queues') \cup {p},
             state' = [st EXCEPT ![p] = RUNNING], current_pid' = p
      PROVE  Names' \subseteq Named(st, qs, cur) /\ LiveIn(st) \subseteq LiveIn(state')
  <2>1. \A k \in Pids : state'[k] = IF k = p THEN RUNNING ELSE st[k]
    BY <1>2 DEF Typed
  <2>2. LiveIn(state') = LiveIn(st) \cup {p}
    BY <2>1 DEF LiveIn, RUNNING, TERMINATED
  <2> QED BY <1>2, <2>2 DEF Names, Named
<1> QED BY <1>1, <1>2, Dispatched

\* task_yield() makes the running task live, which a kill may have ended.
LEMMA YieldNames ==
    ASSUME TypeOK, current_pid # NoTask, NEW rq, Yield(TRUE, rq)
    PROVE  Names' \subseteq Names /\ LiveIn(state) \subseteq LiveIn(state')
<1> DEFINE p == current_pid
           q == LevelAfterYield(p, TRUE)
           st == [state EXCEPT ![p] = READY]
           qs == Enqueue(p, q)
<1>1. /\ p \in Pids /\ Dispatch(qs, st, NoTask)
      /\ priority_level \in [Pids -> Levels]
      /\ state \in [Pids -> TaskStates] /\ queues \in [Levels -> Seq(Pids)]
  BY DEF TypeOK, Yield
<1>2. q \in Levels
  BY <1>1 DEF LevelAfterYield, Levels, Lowest, NUM_QUEUES
<1>3. qs \in [Levels -> Seq(Pids)] /\ QueuedIn(qs) = QueuedIn(queues) \cup {p}
  BY <1>1, <1>2, Enqueued
<1>4. \A k \in Pids : st[k] = IF k = p THEN READY ELSE state[k]
  BY <1>1
<1>5. LiveIn(st) = LiveIn(state) \cup {p}
  BY <1>1, <1>4 DEF LiveIn, READY, TERMINATED
<1>6. Typed(st, qs, NoTask)
  BY <1>1, <1>3 DEF Typed, TaskStates
<1> HIDE DEF st, qs
<1>7. Named(st, qs, NoTask) \subseteq Names
  BY <1>1, <1>3, <1>5, NoTaskUnnamed DEF Named, Names
<1> QED BY <1>1, <1>5, <1>6, <1>7, DispatchNames

LEMMA OtherNames ==
    ASSUME TypeOK, SystemTick \/ \E p \in Pids : Kill(p)
    PROVE  /\ Names' \subseteq Names
           /\ \/ LiveIn(state) \subseteq LiveIn(state')
              \/ \E p \in LiveIn(state) : LiveIn(state') = LiveIn(state) \ {p}
<1>1. CASE TickIdle
  <2>1. Typed(state, queues, current_pid) /\ Dispatch(queues, state, current_pid)
    BY <1>1 DEF TickIdle, Schedule, TypeOK, Typed
  <2> QED BY <2>1, DispatchNames DEF Names
<1>2. ASSUME NEW p \in Pids, state' = [state EXCEPT ![p] = TERMINATED],
             queues' = queues, current_pid' \in {current_pid, NoTask}
      PROVE  /\ Names' \subseteq Names
             /\ \/ LiveIn(state) \subseteq LiveIn(state')
                \/ \E k \in LiveIn(state) : LiveIn(state') = LiveIn(state) \ {k}
  <2>1. \A k \in Pids : state'[k] = IF k = p THEN TERMINATED ELSE state[k]
    BY <1>2 DEF TypeOK
  <2>2. LiveIn(state') = LiveIn(state) \ {p}
    BY <2>1 DEF LiveIn
  <2>3. Names' \subseteq Names
    <3>1. QueuedIn(queues') = QueuedIn(queues) /\ {current_pid'} \cap Pids \subseteq {current_pid} \cap Pids
      BY <1>2, NoTaskUnnamed
    <3> QED BY <2>2, <3>1 DEF Names, Named
  <2>4. CASE p \in LiveIn(state)
    BY <2>2, <2>3, <2>4
  <2>5. CASE p \notin LiveIn(state)
    BY <2>2, <2>3, <2>5
  <2> QED BY <2>4, <2>5
<1>3. CASE TickCompletes
  <2>1. current_pid \in Pids
    BY <1>3 DEF TickCompletes, TypeOK
  <2> QED BY <1>2, <1>3, <2>1 DEF TickCompletes, EndTask
<1>4. CASE TickCharges
  <2>1. CASE UNCHANGED <<state, priority_level, queues, current_pid>>
    BY <2>1 DEF Names
  <2>2. CASE Yield(TRUE, [remaining_quantum EXCEPT ![current_pid] = 0])
    BY <1>4, <2>2, YieldNames DEF TickCharges
  <2> QED BY <1>4, <2>1, <2>2 DEF TickCharges
<1>5. ASSUME NEW p \in Pids, Kill(p)
      PROVE  /\ Names' \subseteq Names
             /\ \/ LiveIn(state) \subseteq LiveIn(state')
                \/ \E k \in LiveIn(state) : LiveIn(state') = LiveIn(state) \ {k}
  BY <1>2, <1>5 DEF Kill, TaskTerminate, EndTask
<1> QED BY <1>1, <1>3, <1>4, <1>5 DEF SystemTick

LEMMA StartNames ==
    ASSUME TypeOK, SimLoad
    PROVE  \E p \in Pids \ Live :
              Live' = Live \cup {p} /\ Live' \ Live = {p} /\ Names' \subseteq Names \cup {p}
<1>1. PICK p \in Pids \ Live : /\ state' = [state EXCEPT ![p] = READY]
                               /\ queues' = Enqueue(p, 0) /\ current_pid' = current_pid
  BY DEF SimLoad, NewTask
<1>2. /\ state \in [Pids -> TaskStates] /\ queues \in [Levels -> Seq(Pids)] /\ 0 \in Levels
  BY DEF TypeOK, Levels, NUM_QUEUES
<1>3. QueuedIn(queues') = QueuedIn(queues) \cup {p}
  BY <1>1, <1>2, Enqueued
<1>4. \A k \in Pids : state'[k] = IF k = p THEN READY ELSE state[k]
  BY <1>1, <1>2
<1>5. LiveIn(state') = LiveIn(state) \cup {p}
  BY <1>4 DEF LiveIn, READY, TERMINATED
<1>6. Live = LiveIn(state) /\ Live' = LiveIn(state')
  BY DEF Live, LiveIn
<1>7. Names' = Names \cup {p}
  BY <1>1, <1>3, <1>5 DEF Names, Named
<1>8. Live' = Live \cup {p} /\ Live' \ Live = {p}
  BY <1>1, <1>5, <1>6
<1> QED BY <1>7, <1>8

-----------------------------------------------------------------------------
(* The invariant holds. *)

\* What a call does to the mail and threads: it resets one task's, changes one task's,
\* or leaves all as they are.
MailStep ==
    \/ StartTask
    \/ OtherCall
    \/ \E p \in Pids : ThreadCreate(p) \/ IpcReceive(p)
    \/ \E p \in Pids, text \in Texts : IpcSend(p, text)
    \/ UNCHANGED mailVars

LEMMA KernelSteps == ASSUME [MailNext]_mailVars PROVE MailStep /\ [KernelNext]_vars
<1>1. CASE StartTask \/ OtherCall
  BY <1>1 DEF MailStep, MailNext, mailVars, vars, StartTask, OtherCall, KernelNext, UnkilledNext
<1>2. CASE \/ \E p \in Pids : ThreadCreate(p) \/ IpcReceive(p)
           \/ \E p \in Pids, text \in Texts : IpcSend(p, text)
  BY <1>2 DEF MailStep, ThreadCreate, IpcReceive, IpcSend
<1>3. CASE UNCHANGED mailVars
  BY <1>3 DEF MailStep, mailVars
<1> QED BY <1>1, <1>2, <1>3 DEF MailNext

\* Mail and threads are started with the task, and stay with it.
LEMMA NextCreated ==
    ASSUME MailboxAssumption, MailInv, MailStep
    PROVE  BoxInv' /\ Names' \subseteq Created'
<1>1. TypeOK /\ BoxInv /\ Names \subseteq Created
  BY DEF MailInv, KInv, IInv, Names
<1>2. ASSUME UNCHANGED vars PROVE Names' = Names
  BY <1>2 DEF vars, Names
<1>3. CASE StartTask
  <2>1. PICK p \in Pids : Live' \ Live = {p} /\ Names' \subseteq Names \cup {p}
    BY <1>1, <1>3, StartNames DEF StartTask
  <2>2. Reset(p)
    BY <1>3, <2>1 DEF StartTask
  <2>3. Created' = Created \cup {p}
    BY <1>1, <2>2 DEF Reset, Created, BoxInv, MbTyped
  <2> QED BY <1>1, <2>1, <2>2, <2>3, ResetKeepsBoxInv
<1>4. CASE OtherCall
  <2>1. Names' \subseteq Names /\ Created' = Created
    BY <1>1, <1>4, OtherNames DEF OtherCall, blocks, Created
  <2> QED BY <1>1, <1>4, <2>1, RestKeepsBoxInv DEF OtherCall
<1>5. ASSUME NEW p \in Pids, ThreadCreate(p) PROVE BoxInv' /\ Names' \subseteq Created'
  <2>1. UNCHANGED vars /\ thread_count' = [thread_count EXCEPT ![p] = @ + 1]
    BY <1>5 DEF ThreadCreate
  <2>2. Created \subseteq Created'
    BY <1>1, <2>1 DEF Created, BoxInv, MbTyped
  <2> QED BY <1>1, <1>2, <1>5, <2>1, <2>2, ThreadKeepsBoxInv
<1>6. ASSUME UNCHANGED <<vars, thread_count>> PROVE Names' \subseteq Created'
  BY <1>1, <1>2, <1>6 DEF Created
<1>7. ASSUME NEW p \in Pids, IpcReceive(p) PROVE BoxInv' /\ Names' \subseteq Created'
  BY <1>1, <1>6, <1>7, ReceivedBy DEF IpcReceive
<1>8. ASSUME NEW p \in Pids, NEW t \in Texts, IpcSend(p, t) PROVE BoxInv' /\ Names' \subseteq Created'
  BY <1>1, <1>6, <1>8, SentTo DEF IpcSend
<1>9. CASE UNCHANGED mailVars
  BY <1>1, <1>6, <1>9, RestKeepsBoxInv DEF mailVars, blocks
<1> QED BY <1>3, <1>4, <1>5, <1>7, <1>8, <1>9 DEF MailStep

LEMMA InvHolds == ASSUME MailboxAssumption PROVE MailSpec => []MailInv
<1>1. MailInit => MailInv
  <2> SUFFICES ASSUME MailInit PROVE MailInv
    OBVIOUS
  <2>1. KInv /\ BoxInv
    BY InitKInv, InitBoxInv DEF MailInit
  <2>2. LiveIn(state) = {} /\ QueuedIn(queues) = {} /\ current_pid \notin Pids
    BY DEF MailInit, Init, LiveIn, QueuedIn, Of, NoTask, Pids
  <2> QED BY <2>1, <2>2 DEF MailInv, Named
<1>2. MailInv /\ [MailNext]_mailVars => MailInv'
  <2> SUFFICES ASSUME MailInv, [MailNext]_mailVars PROVE MailInv'
    OBVIOUS
  <2>1. MailStep /\ [KernelNext]_vars
    BY KernelSteps
  <2> QED BY <2>1, NextKInv, NextCreated DEF MailInv, Names
<1> QED BY <1>1, <1>2, PTL DEF MailSpec

\* msg_count, which alone decides whether a mailbox is full or empty, is the number of
\* valid slots: a send that is let in finds a free slot, a receive finds mail.
THEOREM CountIsTrue == ASSUME MailboxAssumption PROVE MailSpec => []CountIsValidSlots
<1>1. MailInv => CountIsValidSlots
  BY DEF MailInv, BoxInv
<1> QED BY <1>1, InvHolds, PTL

-----------------------------------------------------------------------------
(* The mailbox is a bounded bag. *)

Inbox == [p \in Pids |-> Unread(p)]

LEMMA UnreadCounts == \A p \in Pids, u \in Stored : Unread(p)[u] = Cardinality(Holding(mailbox[p], u))
BY DEF Unread, Holding

\* What a call makes of the bags: those of other tasks rest.
LEMMA OtherBagsRest ==
    ASSUME BoxInv, NEW p \in Pids, NEW box, mailbox' = [mailbox EXCEPT ![p] = box]
    PROVE  \A q \in Pids : q # p => Unread(q)' = Unread(q)
<1>1. \A q \in Pids : q # p => mailbox'[q] = mailbox[q]
  BY DEF BoxInv, MbTyped
<1> QED BY <1>1 DEF Unread

\* One message more or less is one more or less in the bag.
LEMMA BagAfterSend ==
    ASSUME MailboxAssumption, BoxInv, NEW p \in Pids, NEW t \in Stored,
           mailbox' = [mailbox EXCEPT ![p] = mailbox'[p]], OneMore(mailbox[p], mailbox'[p], t)
    PROVE  Inbox' = [Inbox EXCEPT ![p][t] = @ + 1]
<1>1. \A u \in Stored : Unread(p)'[u] = IF u = t THEN Unread(p)[u] + 1 ELSE Unread(p)[u]
  BY DEF OneMore, Unread, Holding
<1>2. PICK old : old = Unread(p)
  OBVIOUS
<1>3. PICK new : new = Unread(p)'
  OBVIOUS
<1>4. new = [u \in Stored |-> new[u]] /\ old = [u \in Stored |-> old[u]]
  BY <1>2, <1>3 DEF Unread
<1>5. new = [old EXCEPT ![t] = @ + 1]
  BY <1>1, <1>2, <1>3, <1>4
<1>6. \A q \in Pids : q # p => Unread(q)' = Unread(q)
  BY OtherBagsRest
<1>7. ASSUME NEW q \in Pids PROVE Inbox'[q] = [Inbox EXCEPT ![p] = new][q]
  BY <1>3, <1>6 DEF Inbox
<1>8. Inbox' = [Inbox EXCEPT ![p] = new]
  BY <1>7 DEF Inbox
<1>9. Inbox[p] = old
  BY <1>2 DEF Inbox
<1> QED BY <1>5, <1>8, <1>9

LEMMA BagAfterReceive ==
    ASSUME MailboxAssumption, BoxInv, NEW p \in Pids, NEW t \in Stored,
           mailbox' = [mailbox EXCEPT ![p] = mailbox'[p]], OneMore(mailbox'[p], mailbox[p], t),
           mailbox'[p] \in Boxes
    PROVE  Inbox[p][t] > 0 /\ Inbox' = [Inbox EXCEPT ![p][t] = @ - 1]
<1>1. \A u \in Stored : Unread(p)[u] = IF u = t THEN Unread(p)'[u] + 1 ELSE Unread(p)'[u]
  BY DEF OneMore, Unread, Holding
<1>2. PICK old : old = Unread(p)
  OBVIOUS
<1>3. PICK new : new = Unread(p)'
  OBVIOUS
<1>4. new = [u \in Stored |-> new[u]] /\ old = [u \in Stored |-> old[u]]
  BY <1>2, <1>3 DEF Unread
<1>5. new[t] \in Nat
  <2>1. new[t] = Cardinality(Holding(mailbox'[p], t))
    BY <1>3 DEF Unread, Holding
  <2>2. Holding(mailbox'[p], t) \in SUBSET Slots
    BY DEF Holding
  <2> QED BY <2>1, <2>2, SlotsFinite
<1>6. new = [old EXCEPT ![t] = @ - 1] /\ old[t] > 0
  <2>1. \A u \in Stored : new[u] = [old EXCEPT ![t] = @ - 1][u]
    BY <1>1, <1>2, <1>3, <1>4, <1>5
  <2>2. old[t] > 0
    BY <1>1, <1>2, <1>3, <1>5
  <2> QED BY <1>4, <2>1, <2>2
<1>7. \A q \in Pids : q # p => Unread(q)' = Unread(q)
  BY OtherBagsRest
<1>8. ASSUME NEW q \in Pids PROVE Inbox'[q] = [Inbox EXCEPT ![p] = new][q]
  BY <1>3, <1>7 DEF Inbox
<1>9. Inbox' = [Inbox EXCEPT ![p] = new]
  BY <1>8 DEF Inbox
<1>10. Inbox[p] = old
  BY <1>2 DEF Inbox
<1> QED BY <1>6, <1>9, <1>10

\* The messages a bag numbers are those of its box.
LEMMA BagCounts ==
    ASSUME BoxInv, NEW p \in Pids
    PROVE  Cardinality(Bounded!Copies(Unread(p))) = msg_count[p]
<1>1. Bounded!Copies(Unread(p)) = Numbered(mailbox[p])
  BY UnreadCounts DEF Bounded!Copies, Numbered
<1>2. Filled(mailbox[p]) = Valid(p)
  BY DEF Filled, Valid
<1> QED BY <1>1, <1>2 DEF BoxInv, Agree, CountIsValidSlots

LEMMA BoundedInit == ASSUME MailboxAssumption PROVE MailInit => Bounded!Init
<1> SUFFICES ASSUME MailInit PROVE Bounded!Init
  OBVIOUS
<1>1. \A p \in Pids : mailbox[p] = EmptyBox
  BY DEF MailInit, EmptyBox
<1>2. \A p \in Pids, u \in Stored : Unread(p)[u] = 0
  BY <1>1, UnreadCounts, EmptyAgrees
<1>3. \A p \in Pids : Unread(p) = Bounded!NoMail
  BY <1>2 DEF Unread, Bounded!NoMail
<1>4. Live = {}
  BY DEF MailInit, Init, Live
<1> QED BY <1>3, <1>4 DEF MailInit, Bounded!Init

LEMMA BoundedStart ==
    ASSUME MailboxAssumption, MailInv, StartTask
    PROVE  \E p \in Pids : Bounded!Open(p)
<1>1. TypeOK /\ BoxInv
  BY DEF MailInv, KInv, IInv
<1>2. PICK p \in Pids \ Live : Live' = Live \cup {p} /\ Live' \ Live = {p}
  BY <1>1, StartNames DEF StartTask
<1>3. Reset(p) /\ mailbox' = [mailbox EXCEPT ![p] = EmptyBox]
  BY <1>1, <1>2, ResetKeepsBoxInv DEF StartTask
<1>4. \A q \in Pids : q # p => Unread(q)' = Unread(q)
  BY <1>1, <1>3, OtherBagsRest
<1>5. mailbox'[p] = EmptyBox
  BY <1>1, <1>3 DEF BoxInv, MbTyped
<1>6. \A u \in Stored : Unread(p)'[u] = 0
  <2>1. \A u \in Stored : Unread(p)'[u] = Cardinality(Holding(EmptyBox, u))
    BY <1>5 DEF Unread, Holding
  <2> QED BY <2>1, EmptyAgrees
<1>7. Unread(p)' = Bounded!NoMail
  BY <1>6 DEF Unread, Bounded!NoMail
<1>8. Inbox' = [Inbox EXCEPT ![p] = Bounded!NoMail]
  <2>1. ASSUME NEW q \in Pids PROVE Inbox'[q] = [Inbox EXCEPT ![p] = Bounded!NoMail][q]
    BY <1>4, <1>7 DEF Inbox
  <2> QED BY <2>1 DEF Inbox
<1>9. Bounded!Open(p)
  BY <1>2, <1>3, <1>8 DEF Bounded!Open, Inbox, Reset
<1> QED BY <1>9

\* Of the tasks that are not live, only those that were created can become live here.
LEMMA BoundedOther ==
    ASSUME MailInv, MailInv', OtherCall
    PROVE  Bounded!Reopen \/ \E p \in Pids : Bounded!Close(p)
<1>1. /\ Live = LiveIn(state) /\ Live' = LiveIn(state') /\ Live \subseteq Pids /\ Live' \subseteq Pids
  BY DEF Live, LiveIn
<1>2. UNCHANGED <<Inbox, thread_count>>
  BY DEF OtherCall, blocks, Inbox, Unread
<1>3. CASE LiveIn(state) \subseteq LiveIn(state')
  <2>1. PICK back : back = Live' \ Live
    OBVIOUS
  <2>2. Live' \subseteq Created
    BY <1>1, <1>2 DEF MailInv, Named, Created
  <2>3. back \in SUBSET {p \in Pids \ Live : thread_count[p] > 0}
    BY <1>1, <2>1, <2>2 DEF Created
  <2>4. Live' = Live \cup back
    BY <1>1, <1>3, <2>1
  <2> QED BY <1>2, <2>3, <2>4 DEF Bounded!Reopen, Inbox
<1>4. CASE \E p \in LiveIn(state) : LiveIn(state') = LiveIn(state) \ {p}
  BY <1>1, <1>2, <1>4 DEF Bounded!Close, Inbox
<1>5. TypeOK
  BY DEF MailInv, KInv, IInv
<1> QED BY <1>3, <1>4, <1>5, OtherNames DEF OtherCall

LEMMA BoundedMail ==
    ASSUME MailboxAssumption, BoxInv, NEW p \in Pids
    PROVE  /\ ThreadCreate(p) => Bounded!AddThread(p)
           /\ IpcReceive(p) => \E u \in Stored : Bounded!Receive(p, u)
           /\ \A t \in Texts : IpcSend(p, t) => \E u \in Stored : Bounded!Send(p, u)
<1>1. ASSUME UNCHANGED vars PROVE Live' = Live
  BY <1>1 DEF vars, Live
<1>2. ASSUME ThreadCreate(p) PROVE Bounded!AddThread(p)
  BY <1>1, <1>2 DEF ThreadCreate, Bounded!AddThread, Unread
<1>3. ASSUME IpcReceive(p) PROVE \E u \in Stored : Bounded!Receive(p, u)
  <2>1. PICK u \in Stored : OneMore(mailbox'[p], mailbox[p], u)
    BY <1>3, ReceivedBy
  <2>2. Inbox[p][u] > 0 /\ Inbox' = [Inbox EXCEPT ![p][u] = @ - 1]
    BY <1>3, <2>1, ReceivedBy, BagAfterReceive
  <2>3. Bounded!Receive(p, u)
    BY <1>1, <1>3, <2>2 DEF IpcReceive, Bounded!Receive, Inbox
  <2> QED BY <2>3
<1>4. ASSUME NEW t \in Texts, IpcSend(p, t) PROVE \E u \in Stored : Bounded!Send(p, u)
  <2>1. PICK u \in Stored : u = Cut[t] /\ OneMore(mailbox[p], mailbox'[p], u)
    BY <1>4, SentTo
  <2>2. Inbox' = [Inbox EXCEPT ![p][u] = @ + 1]
    BY <1>4, <2>1, SentTo, BagAfterSend
  <2>3. Bounded!Cardinality(Bounded!Copies(Inbox[p])) < MAX_IPC_MESSAGES
    <3>1. Bounded!Cardinality(Bounded!Copies(Inbox[p])) = Cardinality(Bounded!Copies(Inbox[p]))
      BY DEF Bounded!Cardinality, Cardinality
    <3> QED BY <1>4, <3>1, BagCounts DEF IpcSend, Inbox
  <2>4. Bounded!Send(p, u)
    BY <1>1, <1>4, <2>2, <2>3 DEF IpcSend, Bounded!Send, Inbox
  <2> QED BY <2>4
<1> QED BY <1>2, <1>3, <1>4

LEMMA BoundedStep ==
    ASSUME MailboxAssumption, MailInv, MailInv', [MailNext]_mailVars
    PROVE  [Bounded!Next]_(Bounded!vars)
<1>1. CASE UNCHANGED mailVars
  BY <1>1 DEF mailVars, vars, blocks, Bounded!vars, Unread, Live
<1>2. BoxInv
  BY DEF MailInv
<1> QED BY <1>1, <1>2, KernelSteps, BoundedStart, BoundedOther, BoundedMail DEF MailStep, Bounded!Next

\* A task finds in its mailbox what was sent to it since it started, each message once,
\* across freed and reused slots and control blocks; a task that runs again after a kill
\* is one that was started before, and finds the mail and the threads it had.
THEOREM MailboxIsBag == ASSUME MailboxAssumption PROVE MailSpec => BoundedSpec
<1>1. MailInit => Bounded!Init
  BY BoundedInit
<1>2. MailInv /\ MailInv' /\ [MailNext]_mailVars => [Bounded!Next]_(Bounded!vars)
  BY BoundedStep
<1> QED BY <1>1, <1>2, InvHolds, PTL DEF MailSpec, BoundedSpec, Bounded!Spec
=============================================================================

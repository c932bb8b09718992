------------------------------ MODULE Mailbox ------------------------------
(***************************************************************************)
(* The part of a task control block that task_create() alone resets: the   *)
(* IPC mailbox (ipc_send(), ipc_receive()) and the thread counter          *)
(* (thread_create()) of src/scheduler.c.  The shell makes these calls      *)
(* between the calls of Kernel, which end tasks, restart their slots, and  *)
(* bring killed tasks back: these find their mail and threads as they      *)
(* were.                                                                   *)
(*                                                                         *)
(* Each call takes and releases the mailbox's mutex itself and nothing     *)
(* preempts it, so the mutex is free at every call and is left out here;   *)
(* module Mutex models it.                                                 *)
(***************************************************************************)
EXTENDS Kernel

CONSTANTS
    MAX_IPC_MESSAGES, MAX_THREADS_PER_TASK,
    Texts,    \* the texts callers send
    Cut,      \* Cut[t]: t cut to MAX_MSG_LENGTH - 1 characters
    Invalid   \* a slot whose valid flag is off

Slots == 0 .. MAX_IPC_MESSAGES - 1
Stored == {Cut[t] : t \in Texts}

ASSUME MailboxAssumption ==
    /\ MAX_IPC_MESSAGES \in Nat
    /\ MAX_THREADS_PER_TASK \in Nat \ {0}
    /\ Cut \in [Texts -> Stored]
    /\ Invalid \notin Stored

VARIABLES
    mailbox,       \* mailbox[p][i]: the text of a valid slot, or Invalid
    msg_count,
    thread_count,
    arrived        \* history: per mailbox, the slots of the unread messages, oldest first

blocks == <<mailbox, msg_count, thread_count, arrived>>
mailVars == <<vars, blocks>>

Valid(p) == {i \in Slots : mailbox[p][i] # Invalid}

(* A definition marked "bug:" is a variant a slip in the code would give; the runs *)
(* put it in the place of the definition after it to show that a property notices. *)

\* The first slot of a nonempty set: the loops over the mailbox stop at it.
IsFirst(i, slots) == i \in slots /\ \A j \in slots : i <= j

-----------------------------------------------------------------------------

MailInit ==
    /\ Init
    /\ mailbox = [p \in Pids |-> [i \in Slots |-> Invalid]]
    /\ msg_count = [p \in Pids |-> 0]
    /\ thread_count = [p \in Pids |-> 0]
    /\ arrived = [p \in Pids |-> << >>]

\* bug: the valid flags of the slots are not reset.
ResetKeepsValid(p) ==
    /\ msg_count' = [msg_count EXCEPT ![p] = 0]
    /\ thread_count' = [thread_count EXCEPT ![p] = 1]
    /\ arrived' = [arrived EXCEPT ![p] = << >>]
    /\ UNCHANGED mailbox
\* bug: the mailbox is not reset at all.
ResetKeepsMail(p) ==
    /\ thread_count' = [thread_count EXCEPT ![p] = 1]
    /\ UNCHANGED <<mailbox, msg_count, arrived>>
\* task_create() resets what the slot's last task left.
Reset(p) ==
    /\ mailbox' = [mailbox EXCEPT ![p] = [i \in Slots |-> Invalid]]
    /\ msg_count' = [msg_count EXCEPT ![p] = 0]
    /\ thread_count' = [thread_count EXCEPT ![p] = 1]
    /\ arrived' = [arrived EXCEPT ![p] = << >>]

StartTask == SimLoad /\ \E p \in Live' \ Live : Reset(p)

\* Kills and ticks leave all mail where it is, of tasks that end and of killed tasks
\* that schedule() and task_yield() bring back.
OtherCall ==
    /\ SystemTick \/ \E p \in Pids : Kill(p)
    /\ UNCHANGED blocks

ThreadCreate(p) ==
    /\ p \in Live
    /\ thread_count[p] < MAX_THREADS_PER_TASK
    /\ thread_count' = [thread_count EXCEPT ![p] = @ + 1]
    /\ UNCHANGED <<vars, mailbox, msg_count, arrived>>

\* The slot a message goes to: the first that is free.
SendSlot(p) == {i \in Slots : IsFirst(i, Slots \ Valid(p))}

IpcSend(p, text) ==
    /\ p \in Live
    /\ msg_count[p] < MAX_IPC_MESSAGES
    /\ \E i \in SendSlot(p) :
       /\ mailbox' = [mailbox EXCEPT ![p][i] = Cut[text]]
       /\ arrived' = [arrived EXCEPT ![p] = Append(@, i)]
    /\ msg_count' = [msg_count EXCEPT ![p] = @ + 1]
    /\ UNCHANGED <<vars, thread_count>>

Take(p, i) ==
    /\ mailbox' = [mailbox EXCEPT ![p][i] = Invalid]
    /\ arrived' = [arrived EXCEPT ![p] = SelectSeq(@, LAMBDA j : j # i)]

IpcReceive(p) ==
    /\ p \in Live
    /\ msg_count[p] # 0
    /\ \E i \in Slots : IsFirst(i, Valid(p)) /\ Take(p, i)
    /\ msg_count' = [msg_count EXCEPT ![p] = @ - 1]
    /\ UNCHANGED <<vars, thread_count>>

MailNext ==
    /\ ~Overrun
    /\ \/ StartTask
       \/ OtherCall
       \/ \E p \in Pids : ThreadCreate(p) \/ IpcReceive(p)
       \/ \E p \in Pids, text \in Texts : IpcSend(p, text)

MailSpec == MailInit /\ [][MailNext]_mailVars

-----------------------------------------------------------------------------

\* msg_count, which alone decides "full" and "empty", is the number of valid slots:
\* a send that is let in finds a free slot and a receive that is let in finds mail.
CountIsValidSlots == \A p \in Pids : msg_count[p] = Cardinality(Valid(p))

\* A task finds in its mailbox what was sent to it since task_create(), each message once,
\* whatever slots were freed and reused, by it or by the task that had its control block
\* before; a killed task that runs again is one that was created, and finds what it had.
Unread(p) == [text \in Stored |-> Cardinality({i \in Slots : mailbox[p][i] = text})]
Bounded == INSTANCE BoundedMailbox WITH
    Capacity <- MAX_IPC_MESSAGES, MaxThreads <- MAX_THREADS_PER_TASK,
    open <- Live, inbox <- [p \in Pids |-> Unread(p)], threads <- thread_count
BoundedSpec == Bounded!Spec

\* "Retrieve the oldest IPC message for a process."
OldestFirst ==
    [][\A p \in Pids : IpcReceive(p) => arrived'[p] = Tail(arrived[p])]_mailVars
=============================================================================

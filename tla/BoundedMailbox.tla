--------------------------- MODULE BoundedMailbox ---------------------------
(***************************************************************************)
(* What a task finds in its control block: a bounded bag of messages, of   *)
(* which a receiver gets one at a time, in no promised order, and a        *)
(* bounded number of threads.  It starts with an empty bag and one thread. *)
(* A task that ended may come back, with all it had when it ended.         *)
(***************************************************************************)
EXTENDS Naturals, FiniteSets

CONSTANTS
    Pids,
    Capacity,   \* messages a mailbox can hold
    MaxThreads,
    Stored      \* message texts as a mailbox keeps them

VARIABLES
    open,       \* the live tasks
    inbox,      \* by task and text: how often it is unread
    threads

vars == <<open, inbox, threads>>

NoMail == [text \in Stored |-> 0]

\* The copies of all texts in a bag, numbered to tell them apart.
Copies(bag) == UNION {{text} \X (1 .. bag[text]) : text \in Stored}

Init ==
    /\ open = {}
    /\ inbox = [p \in Pids |-> NoMail]
    /\ threads = [p \in Pids |-> 0]

Open(p) ==
    /\ p \notin open
    /\ open' = open \cup {p}
    /\ inbox' = [inbox EXCEPT ![p] = NoMail]
    /\ threads' = [threads EXCEPT ![p] = 1]

Close(p) ==
    /\ p \in open
    /\ open' = open \ {p}
    /\ UNCHANGED <<inbox, threads>>

\* Tasks come back that were started once.
Reopen ==
    /\ \E back \in SUBSET {p \in Pids \ open : threads[p] > 0} : open' = open \cup back
    /\ UNCHANGED <<inbox, threads>>

AddThread(p) ==
    /\ p \in open
    /\ threads[p] < MaxThreads
    /\ threads' = [threads EXCEPT ![p] = @ + 1]
    /\ UNCHANGED <<open, inbox>>

Send(p, text) ==
    /\ p \in open
    /\ Cardinality(Copies(inbox[p])) < Capacity
    /\ inbox' = [inbox EXCEPT ![p][text] = @ + 1]
    /\ UNCHANGED <<open, threads>>

Receive(p, text) ==
    /\ p \in open
    /\ inbox[p][text] > 0
    /\ inbox' = [inbox EXCEPT ![p][text] = @ - 1]
    /\ UNCHANGED <<open, threads>>

Next ==
    \/ Reopen
    \/ \E p \in Pids : \/ Open(p) \/ Close(p) \/ AddThread(p)
                      \/ \E text \in Stored : Send(p, text) \/ Receive(p, text)

Spec == Init /\ [][Next]_vars
=============================================================================

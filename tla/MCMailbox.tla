----------------------------- MODULE MCMailbox -----------------------------
(* Of the texts sent, "long" does not fit a slot.  A behaviour has mail and *)
(* threads for one of the tasks.  A task gets a second entry in the queues, *)
(* no third one, and none beyond their arrays; MaxDeficit bounds how far    *)
(* kills of tasks that run again drive task_count below zero.               *)
EXTENDS Mailbox

CONSTANT MaxDeficit

VARIABLE addressee

mcVars == <<mailVars, addressee>>

MCTexts == {"short", "long"}
MCCut == [t \in MCTexts |-> IF t = "long" THEN "cut" ELSE t]
MCQuantums == [q \in Levels |-> 1]

MCInit == MailInit /\ addressee \in Pids

Crowded == Overrun \/ \E p \in Pids : Cardinality(Places(p)) > 2

AtBound ==
    /\ task_count = -MaxDeficit \/ \E p \in Pids : Cardinality(Places(p)) = 2
    /\ UNCHANGED mailVars

MCNext ==
    /\ UNCHANGED addressee
    /\ \/ AtBound
       \/ MailNext /\ task_count' >= -MaxDeficit /\ ~Crowded'
    /\ \A p \in Pids \ {addressee} :
          thread_count'[p] <= 1 /\ msg_count'[p] = 0

MCSpec == MCInit /\ [][MCNext]_mcVars
=============================================================================

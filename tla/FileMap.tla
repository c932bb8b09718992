------------------------------ MODULE FileMap ------------------------------
(***************************************************************************)
(* What the file system promises: names mapped to a kind and a size, each  *)
(* operation changing the entry it names and no other, until an error      *)
(* halts the machine.                                                      *)
(***************************************************************************)
EXTENDS Naturals

CONSTANTS Names, Sizes, DIRECTORY_SIZE

VARIABLES
    entries,    \* by name: [dir, size]
    pending,    \* the call in progress, <<operation, name>>, or <<>>
    halted

vars == <<entries, pending, halted>>

Init == entries = [n \in {} |-> 0] /\ pending = <<>> /\ ~halted

Put(name, e) ==
    entries' = [n \in DOMAIN entries \cup {name} |-> IF n = name THEN e ELSE entries[n]]

Create(name) ==
    /\ name \notin DOMAIN entries
    /\ Put(name, [dir |-> FALSE, size |-> 0])

MakeDirectory(name) ==
    /\ name \notin DOMAIN entries
    /\ Put(name, [dir |-> TRUE, size |-> DIRECTORY_SIZE])

Write(name, size) ==
    /\ name \in DOMAIN entries
    /\ Put(name, [entries[name] EXCEPT !.size = size])

Delete(name) ==
    /\ name \in DOMAIN entries
    /\ entries' = [n \in DOMAIN entries \ {name} |-> entries[n]]

\* A write may create its file first, as the shell's "edit" does.
Begin(op, name) ==
    /\ pending = <<>>
    /\ pending' = <<op, name>>
    /\ \/ UNCHANGED entries
       \/ op = "write" /\ Create(name)

Finish ==
    /\ pending # <<>>
    /\ pending' = <<>>
    /\ LET name == pending[2]
       IN CASE pending[1] = "mkdir"  -> MakeDirectory(name)
            [] pending[1] = "write"  -> \E size \in Sizes : Write(name, size)
            [] pending[1] = "delete" -> Delete(name)

Halt == halted' = TRUE /\ pending' = <<>> /\ UNCHANGED entries

Next ==
    /\ ~halted
    /\ \/ Halt
       \/ /\ UNCHANGED halted
          /\ \/ Finish
             \/ \E name \in Names :
                   \/ Create(name) /\ pending = <<>> /\ UNCHANGED pending
                   \/ \E op \in {"mkdir", "write", "delete"} : Begin(op, name)

Spec == Init /\ [][Next]_vars
=============================================================================

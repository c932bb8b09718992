------------------------------ MODULE Extents ------------------------------
(***************************************************************************)
(* What a heap promises: memory handed out lies inside the heap, apart     *)
(* from all other memory in use, and stays where it is, at its length,     *)
(* until it is given back.                                                 *)
(***************************************************************************)
EXTENDS Integers

CONSTANTS HEAP_MAX_SIZE, HEADER

VARIABLE extents   \* memory in use: [from, to], to excluded

\* The header in front of each extent belongs to it.
Apart(e, f) == e.to + HEADER <= f.from \/ f.to + HEADER <= e.from

Init == extents = {}

Obtain(new) ==
    /\ new.from \in HEADER .. HEAP_MAX_SIZE
    /\ new.to \in new.from .. HEAP_MAX_SIZE
    /\ \A e \in extents : Apart(new, e)
    /\ extents' = extents \cup {new}

GiveBack(e) == extents' = extents \ {e}

Next ==
    \/ \E new \in extents' \ extents : Obtain(new)
    \/ \E e \in extents : GiveBack(e)

Spec == Init /\ [][Next]_extents
=============================================================================

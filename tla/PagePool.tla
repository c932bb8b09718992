------------------------------ MODULE PagePool ------------------------------
(***************************************************************************)
(* What the page allocator promises: each call takes effect at one moment, *)
(* pages are handed out in turn, and a page is taken back only for its     *)
(* owner, or for anyone when it is the kernel's.                           *)
(***************************************************************************)
EXTENDS Integers

CONSTANTS TOTAL_PAGES, Pids, KERNEL

Pages == 0 .. TOTAL_PAGES - 1

VARIABLES
    owners,     \* by page in use: who has it
    turn        \* the page tried first

vars == <<owners, turn>>

Free == Pages \ DOMAIN owners

\* How many pages after the turn a page is.
Distance(page) == (page - turn) % TOTAL_PAGES

Init == owners = [p \in {} |-> KERNEL] /\ turn = 0

Allocate(pid, page) ==
    /\ page \in Free
    /\ \A q \in Free : Distance(page) <= Distance(q)
    /\ owners' = [q \in DOMAIN owners \cup {page} |-> IF q = page THEN pid ELSE owners[q]]
    /\ turn' = (page + 1) % TOTAL_PAGES

GiveBack(pid, page) ==
    /\ page \in DOMAIN owners
    /\ owners[page] \in {pid, KERNEL}
    /\ owners' = [q \in DOMAIN owners \ {page} |-> owners[q]]
    /\ UNCHANGED turn

Next == \E pid \in Pids, page \in Pages : Allocate(pid, page) \/ GiveBack(pid, page)

Spec == Init /\ [][Next]_vars
=============================================================================

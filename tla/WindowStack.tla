---------------------------- MODULE WindowStack ----------------------------
(***************************************************************************)
(* What a window manager promises: the open windows lie over one another.  *)
(* A click reaches the uppermost one at a point and brings it to the front *)
(* with the keyboard, or closes it; only the front one moves, and stays on *)
(* the desktop as a whole, above the taskbar.                              *)
(***************************************************************************)
EXTENDS Integers, Sequences

CONSTANTS VGA_WIDTH, VGA_HEIGHT, TASKBAR, Layout, NONE

VARIABLES
    area,       \* of the open windows, by index: [x, y, w, h]
    over,       \* the pairs <<i, j>> of open windows such that i lies over j
    owner       \* the window with the keyboard

vars == <<area, over, owner>>

Ids == 0 .. Len(Layout) - 1

Init == area = <<>> /\ over = {} /\ owner = NONE

Open ==
    /\ area' = [i \in Ids |-> Layout[i + 1]]
    /\ over' = {e \in Ids \X Ids : e[1] > e[2]}
    /\ owner' = NONE

At(i, x, y) ==
    x \in area[i].x .. area[i].x + area[i].w - 1 /\ y \in area[i].y .. area[i].y + area[i].h - 1

\* Some point of the window is covered by no other.
Reachable(i) ==
    \E x \in 0 .. VGA_WIDTH - 1, y \in 0 .. VGA_HEIGHT - 1 :
        At(i, x, y) /\ \A e \in over : e[2] = i => ~At(e[1], x, y)

ToFront(i) ==
    /\ Reachable(i)
    /\ over' = {e \in over : e[2] # i} \cup ({i} \X (DOMAIN area \ {i}))
    /\ owner' = i
    /\ UNCHANGED area

Close(i) ==
    /\ Reachable(i)
    /\ area' = [j \in DOMAIN area \ {i} |-> area[j]]
    /\ over' = {e \in over : i \notin {e[1], e[2]}}
    /\ owner' = IF owner = i THEN NONE ELSE owner

MoveFront ==
    /\ owner \in DOMAIN area
    /\ \A e \in over : e[2] # owner
    /\ \E x \in 0 .. VGA_WIDTH - area[owner].w, y \in 0 .. VGA_HEIGHT - TASKBAR - area[owner].h :
          area' = [area EXCEPT ![owner] = [area[owner] EXCEPT !.x = x, !.y = y]]
    /\ UNCHANGED <<over, owner>>

Next ==
    \/ Open
    \/ \E i \in DOMAIN area : ToFront(i) \/ Close(i)
    \/ MoveFront

Spec == Init /\ [][Next]_vars
=============================================================================

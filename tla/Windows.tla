------------------------------ MODULE Windows ------------------------------
(***************************************************************************)
(* The windows of src/gui.c under its event loop, with the shell command   *)
(* "gui" of src/shell.c that opens them.                                   *)
(*                                                                         *)
(* A "gui &" typed in the desktop's terminal passes the test for "gui" and *)
(* starts a second event loop inside the first.  When one returns, the     *)
(* mouse is off, and the one around it goes on with the keyboard alone: of *)
(* the locals of the loops only the innermost one's matter.  A packet that *)
(* is on its way when mouse_disable() is sent is left out.                 *)
(***************************************************************************)
EXTENDS Integers, Sequences

CONSTANTS
    VGA_WIDTH, VGA_HEIGHT,
    TASKBAR,        \* its height, 24
    TITLE,          \* the height of a title bar, 15
    CLOSE,          \* the width the close button takes of it, 14
    MARGIN,         \* what surrounds the button, 2
    ExitButton,     \* [left, right, top, bottom], right and bottom excluded
    Layout,         \* a sequence of [x, y, w, h]: the windows of "gui"
    TerminalIdx,    \* the index of the one that takes the keyboard
    Moves,          \* <<dx, dy>>
    MAX_LOOPS       \* bound: event loops inside each other

ASSUME WindowsAssumption ==
    /\ {VGA_WIDTH, VGA_HEIGHT, TASKBAR, TITLE, CLOSE, MARGIN} \subseteq Nat
    /\ VGA_WIDTH > 0 /\ VGA_HEIGHT > 0
    /\ Layout \in Seq([x : Int, y : Int, w : Nat, h : Nat])
    /\ \A i \in DOMAIN Layout : /\ Layout[i].x \in 0 .. VGA_WIDTH - Layout[i].w
                               /\ Layout[i].y \in 0 .. VGA_HEIGHT - TASKBAR - Layout[i].h
    /\ Moves \subseteq Int \X Int

NONE == -1
Indices == 0 .. Len(Layout) - 1
Top == Len(Layout) - 1

VARIABLES
    windows,        \* by index: [x, y, w, h, active]
    z_order,        \* front last
    focused,
    cursor,         \* [x, y]
    loops,          \* event loops that have not returned
    loop,           \* the locals of the innermost: [dragging, drag_idx, ox, oy, held]
    mouse_on

desktop == <<windows, z_order, focused, cursor>>
winVars == <<windows, z_order, focused, cursor, loops, loop, mouse_on>>

Window(area, active) ==
    [x |-> area.x, y |-> area.y, w |-> area.w, h |-> area.h, active |-> active]

NewLoop == [dragging |-> FALSE, drag_idx |-> NONE, ox |-> 0, oy |-> 0, held |-> FALSE]

WinInit ==
    /\ windows = [i \in Indices |-> Window(Layout[i + 1], FALSE)]
    /\ z_order = [i \in Indices |-> i]
    /\ focused = NONE
    /\ cursor = [x |-> 0, y |-> 0]
    /\ loops = 0
    /\ loop = NewLoop
    /\ mouse_on = FALSE

-----------------------------------------------------------------------------
(* A definition marked "bug:" is a variant a slip in the code would give; the runs *)
(* put it in the place of the definition after it to show that a property notices. *)

Covers(w, p) == p.x \in w.x .. w.x + w.w - 1 /\ p.y \in w.y .. w.y + w.h - 1

Hits(p) == {k \in Indices : windows[z_order[k]].active /\ Covers(windows[z_order[k]], p)}

\* bug: the search starts at the back.
WindowAtBack(p) == z_order[CHOOSE k \in Hits(p) : \A j \in Hits(p) : k <= j]
\* window_at(), when it finds one.
WindowAt(p) == z_order[CHOOSE k \in Hits(p) : \A j \in Hits(p) : j <= k]

InTitleBar(w, p) == p.x \in w.x .. w.x + w.w - CLOSE - 1 /\ p.y \in w.y .. w.y + TITLE - 1

InCloseButton(w, p) ==
    /\ p.x \in w.x + w.w - CLOSE .. w.x + w.w - MARGIN - 1
    /\ p.y \in w.y + MARGIN .. w.y + CLOSE - MARGIN - 1

InExitButton(p) ==
    /\ p.x \in ExitButton.left .. ExitButton.right - 1
    /\ p.y \in ExitButton.top .. ExitButton.bottom - 1

Raised(idx) ==
    LET pos == CHOOSE k \in Indices : z_order[k] = idx
    IN [k \in Indices |-> IF k < pos THEN z_order[k] ELSE IF k < Top THEN z_order[k + 1] ELSE idx]

\* The screen's edges as the code applies them: the near one, then the far one.
Within(v, length, limit) ==
    LET near == IF v < 0 THEN 0 ELSE v
    IN IF near + length > limit THEN limit - length ELSE near

Floor == VGA_HEIGHT - TASKBAR

\* A window that is dragged follows the cursor, inside the desktop.
Dragged(ws, l, p) ==
    IF ~l.dragging THEN ws ELSE
    LET w == ws[l.drag_idx]
    IN [ws EXCEPT ![l.drag_idx] =
          [w EXCEPT !.x = Within(p.x - l.ox, w.w, VGA_WIDTH),
                    !.y = Within(p.y - l.oy, w.h, Floor)]]

Continue(l, p) ==
    /\ loop' = l
    /\ cursor' = p
    /\ UNCHANGED <<loops, mouse_on>>

-----------------------------------------------------------------------------

\* "gui" in the shell, or "gui &" in the terminal.
StartGui ==
    /\ loops < MAX_LOOPS
    /\ loops = 0 \/ (focused = TerminalIdx /\ windows[TerminalIdx].active)
    /\ windows' = [i \in Indices |-> Window(Layout[i + 1], TRUE)]
    /\ z_order' = [i \in Indices |-> i]
    /\ focused' = NONE
    /\ cursor' = [x |-> VGA_WIDTH \div 2, y |-> VGA_HEIGHT \div 2]
    /\ loops' = loops + 1
    /\ loop' = NewLoop
    /\ mouse_on' = TRUE

Leave == loops' = loops - 1 /\ loop' = NewLoop /\ mouse_on' = FALSE

\* ESC, or "exit" in the terminal
Escape ==
    /\ loops > 0
    /\ Leave
    /\ UNCHANGED desktop

\* The pointer moves, and the left button is as it was or released.
Track(l, p) ==
    /\ windows' = Dragged(windows, l, p)
    /\ UNCHANGED <<z_order, focused>>
    /\ Continue(l, p)

CloseWindow(l, hit, p) ==
    /\ windows' = Dragged([windows EXCEPT ![hit].active = FALSE], l, p)
    /\ focused' = IF focused = hit THEN NONE ELSE focused
    /\ UNCHANGED z_order

RaiseWindow(hit) == z_order' = Raised(hit) /\ focused' = hit

Grab(l, hit, p) ==
    [l EXCEPT !.dragging = TRUE, !.drag_idx = hit,
              !.ox = p.x - windows[hit].x, !.oy = p.y - windows[hit].y]

\* The left button goes down.
Press(l, p) ==
    IF Hits(p) = {} THEN Track(l, p) ELSE
    LET hit == WindowAt(p)
    IN \/ /\ InCloseButton(windows[hit], p)
          /\ CloseWindow(l, hit, p)
          /\ Continue(l, p)
       \/ /\ ~InCloseButton(windows[hit], p)
          /\ InTitleBar(windows[hit], p)
          /\ RaiseWindow(hit)
          /\ windows' = Dragged(windows, Grab(l, hit, p), p)
          /\ Continue(Grab(l, hit, p), p)
       \/ /\ ~InCloseButton(windows[hit], p)
          /\ ~InTitleBar(windows[hit], p)
          /\ RaiseWindow(hit)
          /\ windows' = Dragged(windows, l, p)
          /\ Continue(l, p)

\* bug: the drag goes on until the next press.
ReleasedDragging(l) == l
Released(l) == [l EXCEPT !.dragging = FALSE, !.drag_idx = NONE]

\* A packet of the mouse.
Mouse(dx, dy, left) ==
    /\ mouse_on
    /\ LET p == [x |-> Within(cursor.x + dx, 1, VGA_WIDTH), y |-> Within(cursor.y + dy, 1, VGA_HEIGHT)]
           l == [loop EXCEPT !.held = left]
       IN \/ /\ left /\ ~loop.held
             /\ InExitButton(p)
             /\ Leave
             /\ cursor' = p
             /\ UNCHANGED <<windows, z_order, focused>>
          \/ /\ left /\ ~loop.held
             /\ ~InExitButton(p)
             /\ Press(l, p)
          \/ /\ left => loop.held
             /\ Track(IF loop.held /\ ~left THEN Released(l) ELSE l, p)

WinNext ==
    \/ StartGui
    \/ Escape
    \/ \E move \in Moves, left \in BOOLEAN : Mouse(move[1], move[2], left)

WinSpec == WinInit /\ [][WinNext]_winVars

-----------------------------------------------------------------------------

\* A window follows the mouse only while the button that took it is down, and it is the
\* open one in front.
DragIsHeld ==
    loop.dragging => loop.held /\ loop.drag_idx = focused /\ windows[focused].active

OpenWindows == {i \in Indices : windows[i].active}

Areas == [i \in OpenWindows |->
            [x |-> windows[i].x, y |-> windows[i].y, w |-> windows[i].w, h |-> windows[i].h]]

Over == {e \in OpenWindows \X OpenWindows :
            \E k, m \in Indices : m < k /\ z_order[k] = e[1] /\ z_order[m] = e[2]}

\* The windows are a stack of open ones: a click reaches the uppermost at the cursor, no
\* closed one keeps its place before an open one, the keyboard goes to the one in front,
\* and only that one moves, to where its title bar can always be reached.
Stack == INSTANCE WindowStack WITH area <- Areas, over <- Over, owner <- focused
StackSpec == Stack!Spec
=============================================================================

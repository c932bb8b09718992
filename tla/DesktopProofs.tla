---------------------------- MODULE DesktopProofs ----------------------------
(***************************************************************************)
(* The user's side, for screens and windows of any size: the decoder of    *)
(* the mouse finds its way back into step, the shift keys are read right,  *)
(* a window follows the mouse only while its title bar is held, the        *)
(* windows are a stack, and what is typed and printed is what is shown.    *)
(***************************************************************************)
EXTENDS Windows, Terminal, Console, MouseDecoder, Keyboard, FiniteSetTheorems,
        SequenceTheorems, WellFoundedInduction, TLAPS

-----------------------------------------------------------------------------
(* The mouse's packets. *)

\* What the decoder can have made of the bytes of a quiet packet so far.
MInv ==
    /\ phase \in 0 .. 2 /\ mouse_cycle \in 0 .. 2 /\ quiet \in -1 .. 3
    /\ quiet = 1 => phase = 1
    /\ quiet = 2 => phase = 2 /\ mouse_cycle \in {0, 2}
    /\ quiet = 3 => phase = 0 /\ mouse_cycle = 0

LEMMA NextOfThree == \A n \in 0 .. 2 : (n + 1) % 3 = IF n = 2 THEN 0 ELSE n + 1
OBVIOUS

LEMMA NextMInv == MInv /\ [MouseNext]_mouseVars => MInv'
<1> SUFFICES ASSUME MInv, [MouseNext]_mouseVars PROVE MInv'
  OBVIOUS
<1>1. ASSUME NEW bit \in BOOLEAN, Poll(bit) PROVE MInv'
  <2>1. /\ phase' = IF phase = 2 THEN 0 ELSE phase + 1
        /\ quiet' = IF phase = 0 THEN 1 ELSE IF quiet = phase /\ ~bit THEN quiet + 1 ELSE -1
        /\ mouse_cycle' = IF mouse_cycle = 0 THEN (IF bit THEN 1 ELSE 0)
                          ELSE IF mouse_cycle = 2 THEN 0 ELSE mouse_cycle + 1
    BY <1>1, NextOfThree DEF MInv, Poll, Sent, Starts
  <2> QED BY <1>1, <2>1 DEF MInv
<1>2. CASE Lost
  BY <1>2, NextOfThree DEF MInv, Lost
<1>3. CASE Reset
  BY <1>3 DEF MInv, Reset
<1>4. CASE UNCHANGED mouseVars
  BY <1>4 DEF MInv, mouseVars
<1> QED BY <1>1, <1>2, <1>3, <1>4 DEF MouseNext

\* However many bytes another reader of the port took, one packet whose deltas
\* have bit 3 clear puts the decoder in step again.
THEOREM DecoderRealigns == MouseSpec => []QuietPacketRealigns
<1>1. MouseInit => MInv
  BY DEF MouseInit, MInv
<1>2. MInv => QuietPacketRealigns
  BY DEF MInv, QuietPacketRealigns, Aligned
<1> QED BY <1>1, <1>2, NextMInv, PTL DEF MouseSpec

-----------------------------------------------------------------------------
(* The shift keys. *)

\* Both keys down is a chord: the second release then shows the first one's error.
KInv ==
    /\ down \in SUBSET ShiftKeys
    /\ reader \in Readers
    /\ shift_held \in [Readers -> BOOLEAN]
    /\ knows \in [Readers -> BOOLEAN]
    /\ chord \in BOOLEAN
    /\ down = ShiftKeys => chord
    /\ ShiftIsHeld

LEMMA ReadKeepsKInv ==
    ASSUME KInv, NEW key \in ShiftKeys, NEW pressed \in BOOLEAN, Read(key, pressed),
           down' = IF pressed THEN down \cup {key} ELSE down \ {key},
           ~pressed => key \in down
    PROVE  KInv'
<1>1. /\ down' \in SUBSET ShiftKeys
      /\ chord' = (down' # {} /\ (chord \/ down' = ShiftKeys))
      /\ reader' = reader /\ reader \in Readers
      /\ shift_held' = [shift_held EXCEPT ![reader] = pressed]
      /\ knows' = [x \in Readers |-> x = reader]
  BY DEF KInv, Read, ShiftAfter
<1>2. /\ shift_held' \in [Readers -> BOOLEAN] /\ knows' \in [Readers -> BOOLEAN]
      /\ chord' \in BOOLEAN /\ (down' = ShiftKeys => chord')
  <2>1. ShiftKeys # {}
    BY DEF ShiftKeys
  <2>2. shift_held' \in [Readers -> BOOLEAN] /\ knows' \in [Readers -> BOOLEAN]
    BY <1>1 DEF KInv
  <2> QED BY <1>1, <2>1, <2>2, Zenon
<1>3. \A x \in Readers : knows'[x] => x = reader /\ shift_held'[x] = pressed
  BY <1>1 DEF KInv
<1>4. pressed => down' # {}
  OBVIOUS
<1>5. ~pressed /\ down' # {} => chord'
  <2>1. ASSUME ~pressed, down' # {} PROVE down = ShiftKeys
    BY <2>1, <1>1 DEF KInv, ShiftKeys
  <2>2. ~pressed /\ down' # {} => chord
    BY <2>1 DEF KInv
  <2> QED BY <1>1, <2>2
<1>6. ShiftIsHeld'
  BY <1>3, <1>4, <1>5 DEF ShiftIsHeld
<1> QED BY <1>1, <1>2, <1>6 DEF KInv

LEMMA NextKInv == KInv /\ [KbdNext]_kbdVars => KInv'
<1> SUFFICES ASSUME KInv, [KbdNext]_kbdVars PROVE KInv'
  OBVIOUS
<1>1. ASSUME NEW key \in ShiftKeys, PressKey(key) PROVE KInv'
  BY <1>1, ReadKeepsKInv DEF PressKey
<1>2. ASSUME NEW key \in ShiftKeys, ReleaseKey(key) PROVE KInv'
  BY <1>2, ReadKeepsKInv DEF ReleaseKey
<1>3. ASSUME NEW key \in ShiftKeys, NEW pressed \in BOOLEAN, MouseByte(key, pressed) PROVE KInv'
  <2>1. /\ shift_held' \in [Readers -> BOOLEAN] /\ knows' \in [Readers -> BOOLEAN]
        /\ \A x \in Readers : knows'[x] => knows[x] /\ shift_held'[x] = shift_held[x]
    BY <1>3 DEF KInv, MouseByte, ShiftAfter
  <2> QED BY <1>3, <2>1 DEF KInv, MouseByte, ShiftIsHeld
<1>4. CASE StartDesktop
  <2>1. /\ shift_held' \in [Readers -> BOOLEAN] /\ knows' \in [Readers -> BOOLEAN]
        /\ \A x \in Readers : \/ knows'[x] = knows[x] /\ shift_held'[x] = shift_held[x]
                              \/ ~shift_held'[x] /\ (knows'[x] => down = {})
    BY <1>4 DEF KInv, StartDesktop
  <2> QED BY <1>4, <2>1 DEF KInv, StartDesktop, ShiftIsHeld, Readers
<1>5. CASE Edit \/ EditReturns \/ LeaveDesktop
  BY <1>5 DEF KInv, Edit, EditReturns, LeaveDesktop, ShiftIsHeld, Readers
<1>6. CASE UNCHANGED kbdVars
  BY <1>6 DEF KInv, kbdVars, ShiftIsHeld
<1> QED BY <1>1, <1>2, <1>3, <1>4, <1>5, <1>6 DEF KbdNext

\* Whoever got the last shift code knows whether a shift key is down.
THEOREM ShiftIsRead == KbdSpec => []ShiftIsHeld
<1>1. KbdInit => KInv
  BY DEF KbdInit, KInv, ShiftIsHeld, Readers, ShiftKeys
<1>2. KInv => ShiftIsHeld
  BY DEF KInv
<1> QED BY <1>1, <1>2, NextKInv, PTL DEF KbdSpec

-----------------------------------------------------------------------------
(* The windows. *)

Less == {p \in Nat \X Nat : p[1] < p[2]}

LEMMA LeastNumber ==
    ASSUME NEW T, T \subseteq Nat, T # {}
    PROVE  \E x \in T : \A y \in T : x <= y
<1>1. IsWellFoundedOn(Less, Nat)
  <2>1. OpToRel(<, Nat) = Less
    BY DEF OpToRel, Less
  <2> QED BY <2>1, NatLessThanWellFounded
<1>2. PICK x \in T : \A y \in T : ~(<<y, x>> \in Less)
  BY <1>1, WFMin
<1>3. \A y \in T : <<y, x>> \in Nat \X Nat /\ x \in Nat /\ y \in Nat
  OBVIOUS
<1>4. \A y \in T : ~(y < x)
  BY <1>2, <1>3 DEF Less
<1> QED BY <1>3, <1>4

WindowTyped == [x : Int, y : Int, w : Nat, h : Nat, active : BOOLEAN]

WInv ==
    /\ windows \in [Indices -> WindowTyped]
    /\ z_order \in [Indices -> Indices]
    /\ cursor \in [x : Int, y : Int]
    /\ loop \in [dragging : BOOLEAN, drag_idx : Int, ox : Int, oy : Int, held : BOOLEAN]
    /\ loop.dragging => loop.drag_idx \in Indices
    /\ DragIsHeld

\* What a press reaches is the uppermost of the windows that are hit, and it is open.
LEMMA WindowAtHits ==
    ASSUME z_order \in [Indices -> Indices], NEW p, Hits(p) # {}
    PROVE  /\ WindowAt(p) \in Indices /\ windows[WindowAt(p)].active
           /\ \E c \in Hits(p) : WindowAt(p) = z_order[c] /\ \A j \in Hits(p) : j <= c
<1>1. Len(Layout) \in Nat
  BY WindowsAssumption
<1> DEFINE T == {Len(Layout) - k : k \in Hits(p)}
<1>2. Hits(p) \subseteq Indices
  BY DEF Hits
<1>3. T \subseteq Nat /\ T # {}
  BY <1>1, <1>2 DEF Indices
<1>4. PICK n \in T : \A m \in T : n <= m
  <2> HIDE DEF T
  <2> QED BY <1>3, LeastNumber
<1>5. PICK k \in Hits(p) : n = Len(Layout) - k
  BY <1>4
<1>6. \A j \in Hits(p) : j <= k
  <2> SUFFICES ASSUME NEW j \in Hits(p) PROVE j <= k
    OBVIOUS
  <2>1. Len(Layout) - k <= Len(Layout) - j
    BY <1>4, <1>5
  <2>2. j \in Int /\ k \in Int
    BY <1>2, <1>5 DEF Indices
  <2> QED BY <1>1, <2>1, <2>2
<1>7. PICK c : c = CHOOSE i \in Hits(p) : \A j \in Hits(p) : j <= i
  OBVIOUS
<1>8. c \in Hits(p) /\ WindowAt(p) = z_order[c] /\ \A j \in Hits(p) : j <= c
  BY <1>5, <1>6, <1>7 DEF WindowAt
<1> QED BY <1>8 DEF Hits

LEMMA RaisedTyped ==
    ASSUME z_order \in [Indices -> Indices], NEW idx \in Indices
    PROVE  Raised(idx) \in [Indices -> Indices]
<1>1. Len(Layout) \in Nat
  BY WindowsAssumption
<1>2. ASSUME NEW k \in Indices, k < Top PROVE k + 1 \in Indices
  BY <1>1, <1>2 DEF Indices, Top
<1> DEFINE pos == CHOOSE k \in Indices : z_order[k] = idx
           val(k) == IF k < pos THEN z_order[k] ELSE IF k < Top THEN z_order[k + 1] ELSE idx
<1>3. ASSUME NEW k \in Indices PROVE val(k) \in Indices
  <2>1. k < Top => z_order[k + 1] \in Indices
    BY <1>2
  <2> QED BY <2>1
<1>4. Raised(idx) = [k \in Indices |-> val(k)]
  BY DEF Raised
<1> HIDE DEF val
<1> QED BY <1>3, <1>4

LEMMA WithinIsInt ==
    ASSUME NEW v \in Int, NEW length \in Nat, NEW limit \in Int
    PROVE  Within(v, length, limit) \in Int
BY DEF Within

LoopTyped == [dragging : BOOLEAN, drag_idx : Int, ox : Int, oy : Int, held : BOOLEAN]

LEMMA LayoutTyped ==
    \A i \in Indices : Layout[i + 1] \in [x : Int, y : Int, w : Nat, h : Nat]
<1>1. ASSUME NEW S, NEW seq \in Seq(S), NEW i \in 0 .. Len(seq) - 1 PROVE seq[i + 1] \in S
  <2>1. Len(seq) \in Nat /\ i + 1 \in 1 .. Len(seq)
    BY <1>1
  <2> QED BY <1>1, <2>1
<1> QED BY <1>1, WindowsAssumption DEF Indices

LEMMA LoopChanges ==
    ASSUME NEW l \in LoopTyped
    PROVE  /\ \A b \in BOOLEAN :
                  /\ [l EXCEPT !.held = b] \in LoopTyped
                  /\ [l EXCEPT !.held = b].held = b
                  /\ [l EXCEPT !.held = b].dragging = l.dragging
                  /\ [l EXCEPT !.held = b].drag_idx = l.drag_idx
           /\ Released(l) \in LoopTyped /\ ~Released(l).dragging
           /\ NewLoop \in LoopTyped /\ ~NewLoop.dragging
<1>1. PICK none : none = NONE
  OBVIOUS
<1>2. none \in Int
  BY <1>1 DEF NONE
<1>3. NewLoop = [dragging |-> FALSE, drag_idx |-> none, ox |-> 0, oy |-> 0, held |-> FALSE]
  BY <1>1 DEF NewLoop
<1>4. Released(l) = [l EXCEPT !.dragging = FALSE, !.drag_idx = none]
  BY <1>1 DEF Released
<1>5. Released(l) \in LoopTyped /\ ~Released(l).dragging
  BY <1>2, <1>4 DEF LoopTyped
<1>6. NewLoop \in LoopTyped /\ ~NewLoop.dragging
  BY <1>2, <1>3 DEF LoopTyped
<1>7. \A b \in BOOLEAN :
        /\ [l EXCEPT !.held = b] \in LoopTyped
        /\ [l EXCEPT !.held = b].held = b
        /\ [l EXCEPT !.held = b].dragging = l.dragging
        /\ [l EXCEPT !.held = b].drag_idx = l.drag_idx
  BY DEF LoopTyped
<1> QED BY <1>5, <1>6, <1>7

\* A drag moves its window, and opens or closes none.
LEMMA DraggedKeeps ==
    ASSUME NEW ws \in [Indices -> WindowTyped], NEW l \in LoopTyped, NEW p \in [x : Int, y : Int],
           l.dragging => l.drag_idx \in Indices
    PROVE  /\ Dragged(ws, l, p) \in [Indices -> WindowTyped]
           /\ \A i \in Indices : Dragged(ws, l, p)[i].active = ws[i].active
<1>1. CASE ~l.dragging
  BY <1>1 DEF Dragged
<1>2. CASE l.dragging
  <2>1. PICK d \in Indices : d = l.drag_idx
    BY <1>2
  <2>2. PICK w \in WindowTyped : w = ws[d]
    OBVIOUS
  <2>3. p.x - l.ox \in Int /\ p.y - l.oy \in Int /\ w.w \in Nat /\ w.h \in Nat
    BY DEF LoopTyped, WindowTyped
  <2>4. VGA_WIDTH \in Int /\ Floor \in Int
    BY WindowsAssumption DEF Floor
  <2>5. PICK x \in Int : x = Within(p.x - l.ox, w.w, VGA_WIDTH)
    BY <2>3, <2>4, WithinIsInt
  <2>6. PICK y \in Int : y = Within(p.y - l.oy, w.h, Floor)
    BY <2>3, <2>4, WithinIsInt
  <2>7. Dragged(ws, l, p) = [ws EXCEPT ![d] = [w EXCEPT !.x = x, !.y = y]]
    BY <1>2, <2>1, <2>2, <2>5, <2>6 DEF Dragged
  <2>8. /\ [w EXCEPT !.x = x, !.y = y] \in WindowTyped
        /\ [w EXCEPT !.x = x, !.y = y].active = w.active
    BY DEF WindowTyped
  <2> QED BY <2>2, <2>7, <2>8
<1> QED BY <1>1, <1>2 DEF LoopTyped

\* A step of the pointer: the drag it goes on with holds an open window with the focus.
Follows(l) == l.dragging => /\ l.held /\ l.drag_idx \in Indices
                            /\ l.drag_idx = focused' /\ windows[l.drag_idx].active

LEMMA TrackKeepsWInv ==
    ASSUME WInv, NEW l \in LoopTyped, NEW p \in [x : Int, y : Int], Follows(l),
           windows' = Dragged(windows, l, p), z_order' \in [Indices -> Indices], Continue(l, p)
    PROVE  WInv'
<1>1. /\ windows' \in [Indices -> WindowTyped]
      /\ \A i \in Indices : windows'[i].active = windows[i].active
  BY DraggedKeeps DEF WInv, Follows
<1>2. loop' = l /\ cursor' = p
  BY DEF Continue
<1>3. (loop.dragging => loop.drag_idx \in Indices)' /\ DragIsHeld'
  BY <1>1, <1>2 DEF Follows, DragIsHeld
<1> QED BY <1>1, <1>2, <1>3 DEF WInv, LoopTyped

LEMMA PressKeepsWInv ==
    ASSUME WInv, NEW l \in LoopTyped, NEW p \in [x : Int, y : Int], ~l.dragging, l.held,
           Press(l, p)
    PROVE  WInv'
<1>1. CASE Hits(p) = {}
  BY <1>1, TrackKeepsWInv DEF Press, Track, Follows, WInv
<1>2. CASE Hits(p) # {}
  <2> DEFINE hit == WindowAt(p)
  <2>1. hit \in Indices /\ windows[hit].active
    BY <1>2, WindowAtHits DEF WInv
  <2>2. windows[hit] \in WindowTyped
    BY <2>1 DEF WInv
  <2>3. CASE CloseWindow(l, hit, p) /\ Continue(l, p)
    <3>1. /\ windows' = [windows EXCEPT ![hit].active = FALSE]
          /\ z_order' = z_order /\ loop' = l /\ cursor' = p
      BY <2>3 DEF CloseWindow, Continue, Dragged
    <3>2. windows' \in [Indices -> WindowTyped]
      <4>1. [windows[hit] EXCEPT !.active = FALSE] \in WindowTyped
        BY <2>2 DEF WindowTyped
      <4> QED BY <2>1, <3>1, <4>1 DEF WInv
    <3> QED BY <3>1, <3>2 DEF WInv, LoopTyped, DragIsHeld
  <2>4. CASE /\ RaiseWindow(hit)
             /\ windows' = Dragged(windows, Grab(l, hit, p), p)
             /\ Continue(Grab(l, hit, p), p)
    <3>1. z_order' \in [Indices -> Indices] /\ focused' = hit
      BY <2>1, <2>4, RaisedTyped DEF RaiseWindow, WInv
    <3>2. PICK g : g = Grab(l, hit, p)
      OBVIOUS
    <3>3. g \in LoopTyped /\ g.held /\ g.drag_idx = hit
      <4>1. PICK ox \in Int, oy \in Int : ox = p.x - windows[hit].x /\ oy = p.y - windows[hit].y
        BY <2>2 DEF WindowTyped
      <4>2. PICK h \in Int : h = hit
        BY <2>1 DEF Indices
      <4>3. g = [l EXCEPT !.dragging = TRUE, !.drag_idx = h, !.ox = ox, !.oy = oy]
        BY <3>2, <4>1, <4>2 DEF Grab
      <4> QED BY <4>2, <4>3 DEF LoopTyped
    <3>4. Follows(g)
      BY <2>1, <3>1, <3>3 DEF Follows
    <3> QED BY <2>4, <3>1, <3>2, <3>3, <3>4, TrackKeepsWInv
  <2>5. CASE RaiseWindow(hit) /\ windows' = Dragged(windows, l, p) /\ Continue(l, p)
    <3>1. z_order' \in [Indices -> Indices]
      BY <2>1, <2>5, RaisedTyped DEF RaiseWindow, WInv
    <3> QED BY <2>5, <3>1, TrackKeepsWInv DEF Follows
  <2> QED BY <1>2, <2>3, <2>4, <2>5 DEF Press
<1> QED BY <1>1, <1>2

LEMMA NextWInv == WInv /\ [WinNext]_winVars => WInv'
<1> SUFFICES ASSUME WInv, [WinNext]_winVars PROVE WInv'
  OBVIOUS
<1>1. NewLoop \in LoopTyped /\ ~NewLoop.dragging
  BY LoopChanges DEF WInv, LoopTyped
<1>2. CASE StartGui
  <2>1. windows' \in [Indices -> WindowTyped]
    <3> QED BY <1>2, LayoutTyped DEF StartGui, Window, WindowTyped
  <2>2. z_order' \in [Indices -> Indices] /\ cursor' \in [x : Int, y : Int] /\ loop' = NewLoop
    BY <1>2, WindowsAssumption DEF StartGui
  <2> QED BY <1>1, <2>1, <2>2 DEF WInv, LoopTyped, DragIsHeld
<1>3. CASE Escape
  BY <1>1, <1>3 DEF Escape, Leave, desktop, WInv, LoopTyped, DragIsHeld
<1>4. ASSUME NEW move \in Moves, NEW left \in BOOLEAN, Mouse(move[1], move[2], left) PROVE WInv'
  <2>1. move[1] \in Int /\ move[2] \in Int
    BY WindowsAssumption
  <2>2. PICK p \in [x : Int, y : Int] :
          p = [x |-> Within(cursor.x + move[1], 1, VGA_WIDTH),
               y |-> Within(cursor.y + move[2], 1, VGA_HEIGHT)]
    <3>1. cursor.x + move[1] \in Int /\ cursor.y + move[2] \in Int
      BY <2>1 DEF WInv
    <3>2. /\ Within(cursor.x + move[1], 1, VGA_WIDTH) \in Int
          /\ Within(cursor.y + move[2], 1, VGA_HEIGHT) \in Int
      BY <3>1, WithinIsInt, WindowsAssumption
    <3> QED BY <3>2
  <2>3. PICK l \in LoopTyped : /\ l = [loop EXCEPT !.held = left]
                               /\ l.held = left /\ l.dragging = loop.dragging
                               /\ l.drag_idx = loop.drag_idx
    <3>1. PICK k \in LoopTyped : k = loop
      BY DEF WInv, LoopTyped
    <3> QED BY <3>1, LoopChanges
  <2>4. \/ /\ Leave
           /\ cursor' = p
           /\ UNCHANGED <<windows, z_order, focused>>
        \/ left /\ ~loop.held /\ Press(l, p)
        \/ (left => loop.held) /\ Track(IF loop.held /\ ~left THEN Released(l) ELSE l, p)
    BY <1>4, <2>2, <2>3 DEF Mouse
  <2>5. CASE /\ Leave
             /\ cursor' = p
             /\ UNCHANGED <<windows, z_order, focused>>
    BY <1>1, <2>5 DEF Leave, WInv, LoopTyped, DragIsHeld
  <2>6. CASE left /\ ~loop.held /\ Press(l, p)
    <3>1. ~l.dragging /\ l.held
      BY <2>3, <2>6 DEF WInv, DragIsHeld
    <3> QED BY <2>6, <3>1, PressKeepsWInv
  <2>7. CASE (left => loop.held) /\ Track(IF loop.held /\ ~left THEN Released(l) ELSE l, p)
    <3>1. PICK t : t = IF loop.held /\ ~left THEN Released(l) ELSE l
      OBVIOUS
    <3>2. t \in LoopTyped
      BY <3>1, LoopChanges
    <3>3. t.dragging => /\ t.held /\ t.drag_idx = loop.drag_idx /\ loop.dragging
      <4>1. CASE loop.held /\ ~left
        BY <3>1, <4>1, LoopChanges
      <4>2. CASE ~(loop.held /\ ~left)
        BY <2>3, <2>7, <3>1, <4>2 DEF WInv, DragIsHeld
      <4> QED BY <4>1, <4>2
    <3>4. Follows(t) /\ z_order' \in [Indices -> Indices]
      BY <2>7, <3>1, <3>3 DEF Follows, Track, WInv, DragIsHeld
    <3> QED BY <2>7, <3>1, <3>2, <3>4, TrackKeepsWInv DEF Track
  <2> QED BY <2>4, <2>5, <2>6, <2>7
<1>5. CASE UNCHANGED winVars
  BY <1>5 DEF winVars, WInv, DragIsHeld
<1> QED BY <1>2, <1>3, <1>4, <1>5 DEF WinNext

LEMMA InitWInv == WinInit => WInv
<1> SUFFICES ASSUME WinInit PROVE WInv
  OBVIOUS
<1>1. windows \in [Indices -> WindowTyped]
  BY LayoutTyped DEF WinInit, Window, WindowTyped
<1>2. PICK l : l = NewLoop
  OBVIOUS
<1>3. l \in LoopTyped /\ ~l.dragging
  <2>1. [dragging |-> FALSE, drag_idx |-> 0, ox |-> 0, oy |-> 0, held |-> FALSE] \in LoopTyped
    BY DEF LoopTyped
  <2> QED BY <1>2, <2>1, LoopChanges
<1>4. cursor \in [x : Int, y : Int] /\ z_order \in [Indices -> Indices]
  BY DEF WinInit
<1>5. loop = l
  BY <1>2 DEF WinInit
<1> QED BY <1>1, <1>3, <1>4, <1>5 DEF WInv, LoopTyped, DragIsHeld

\* A window follows the mouse only while the button that took it is down, and it is the
\* open one in front: through closing, raising, leaving and starting the desktop again.
THEOREM DragHoldsTheWindow == WinSpec => []DragIsHeld
<1>1. WInv => DragIsHeld
  BY DEF WInv
<1> QED BY <1>1, InitWInv, NextWInv, PTL DEF WinSpec

\* The order of the windows, positions 0 to Top, front last.
Permutes(z) ==
    /\ \A k, m \in Indices : z[k] = z[m] => k = m
    /\ \A i \in Indices : \E k \in Indices : z[k] = i

LiesOver(z, i, j) == \E k, m \in Indices : m < k /\ z[k] = i /\ z[m] = j

OnDesktop(w) == w.x \in 0 .. VGA_WIDTH - w.w /\ w.y \in 0 .. Floor - w.h

StackInv ==
    /\ Permutes(z_order)
    /\ \A i \in Indices : OnDesktop(windows[i])
    /\ focused # NONE =>
         focused \in Indices /\ windows[focused].active /\ z_order[Top] = focused

LEMMA LayoutOnDesktop == \A i \in Indices : OnDesktop(Layout[i + 1])
<1>1. ASSUME NEW S, NEW seq \in Seq(S), NEW i \in 0 .. Len(seq) - 1 PROVE i + 1 \in DOMAIN seq
  <2>1. Len(seq) \in Nat /\ DOMAIN seq = 1 .. Len(seq)
    BY <1>1
  <2> QED BY <1>1, <2>1
<1>2. \A i \in Indices : i + 1 \in DOMAIN Layout
  BY <1>1, WindowsAssumption DEF Indices
<1> QED BY <1>2, WindowsAssumption DEF OnDesktop, Floor

\* A window that is raised comes to lie over all the others, whose order stays.
LEMMA RaisedOrder ==
    ASSUME z_order \in [Indices -> Indices], Permutes(z_order), NEW c \in Indices
    PROVE  LET idx == z_order[c]
           IN /\ Permutes(Raised(idx))
              /\ Raised(idx)[Top] = idx
              /\ \A i, j \in Indices :
                    LiesOver(Raised(idx), i, j) <=> j # idx /\ (i = idx \/ LiesOver(z_order, i, j))
<1>1. PICK n \in Nat : n = Len(Layout)
  BY WindowsAssumption
<1>2. Indices = 0 .. n - 1 /\ Top = n - 1 /\ Top \in Indices /\ c \in 0 .. n - 1
  BY <1>1 DEF Indices, Top
<1>3. PICK idx \in Indices : idx = z_order[c]
  OBVIOUS
<1>4. PICK pos : pos = CHOOSE k \in Indices : z_order[k] = idx
  OBVIOUS
<1>5. pos = c
  BY <1>3, <1>4 DEF Permutes
<1>6. PICK z : z = Raised(idx)
  OBVIOUS
<1>7. z = [k \in Indices |-> IF k < c THEN z_order[k] ELSE IF k < Top THEN z_order[k + 1] ELSE idx]
  BY <1>4, <1>5, <1>6 DEF Raised
<1> DEFINE to(k) == IF k < c THEN k ELSE IF k = c THEN n - 1 ELSE k - 1
           from(k) == IF k < c THEN k ELSE IF k < n - 1 THEN k + 1 ELSE c
<1>8. \A k \in 0 .. n - 1 : from(k) \in 0 .. n - 1 /\ z[k] = z_order[from(k)]
  BY <1>2, <1>3, <1>7
<1>9. \A k \in 0 .. n - 1 : /\ to(k) \in 0 .. n - 1
                             /\ from(to(k)) = k /\ to(from(k)) = k
  BY <1>2
<1>10. \A k, m \in 0 .. n - 1 : k # c /\ m # c /\ m < k => to(m) < to(k)
  BY <1>2
<1>11. \A k \in 0 .. n - 1 : to(k) <= n - 1 /\ (k # c => to(k) < n - 1) /\ to(c) = n - 1
  BY <1>2
<1> HIDE DEF to, from
<1>12. \A k \in 0 .. n - 1 : z[to(k)] = z_order[k]
  BY <1>8, <1>9
<1>13. Permutes(z)
  <2>1. ASSUME NEW k \in Indices, NEW m \in Indices, z[k] = z[m] PROVE k = m
    <3>1. /\ from(k) \in Indices /\ z[k] = z_order[from(k)] /\ to(from(k)) = k
          /\ from(m) \in Indices /\ z[m] = z_order[from(m)] /\ to(from(m)) = m
      BY <1>2, <1>8, <1>9
    <3>2. from(k) = from(m)
      BY <2>1, <3>1 DEF Permutes
    <3> QED BY <3>1, <3>2
  <2>2. ASSUME NEW i \in Indices PROVE \E k \in Indices : z[k] = i
    <3>1. PICK k \in Indices : z_order[k] = i
      BY <2>2 DEF Permutes
    <3> QED BY <1>2, <1>9, <1>12, <3>1
  <2> QED BY <2>1, <2>2 DEF Permutes
<1>14. z[Top] = idx
  BY <1>2, <1>3, <1>11, <1>12
<1>15. ASSUME NEW i \in Indices, NEW j \in Indices, LiesOver(z, i, j)
       PROVE  j # idx /\ (i = idx \/ LiesOver(z_order, i, j))
  <2>1. PICK k \in Indices, m \in Indices : m < k /\ z[k] = i /\ z[m] = j
    BY <1>15 DEF LiesOver
  <2>2. PICK a \in Indices, b \in Indices : a = from(k) /\ b = from(m)
    BY <1>2, <1>8, <2>1
  <2>3. k = to(a) /\ m = to(b) /\ z_order[a] = i /\ z_order[b] = j
    BY <1>2, <1>8, <1>9, <2>1, <2>2
  <2>4. b # c
    BY <1>2, <1>11, <2>1, <2>3
  <2>5. a # c => b < a
    <3> SUFFICES ASSUME a # c, ~(b < a) PROVE FALSE
      OBVIOUS
    <3>1. a < b \/ a = b
      BY <1>2
    <3>2. k < m \/ k = m
      BY <1>2, <1>10, <2>3, <2>4, <3>1
    <3>3. k \in Int /\ m \in Int
      BY <1>2
    <3> QED BY <2>1, <3>2, <3>3
  <2> QED BY <1>3, <2>3, <2>4, <2>5 DEF Permutes, LiesOver
<1>16. ASSUME NEW i \in Indices, NEW j \in Indices, j # idx, i = idx \/ LiesOver(z_order, i, j)
       PROVE  LiesOver(z, i, j)
  <2>1. CASE i = idx
    <3>1. PICK m \in Indices : z_order[m] = j
      BY DEF Permutes
    <3>2. m # c
      BY <1>3, <1>16, <3>1
    <3>3. to(m) \in Indices /\ z[to(m)] = j /\ to(m) < Top
      BY <1>2, <1>9, <1>11, <1>12, <3>1, <3>2
    <3> QED BY <1>2, <1>14, <2>1, <3>3 DEF LiesOver
  <2>2. CASE i # idx
    <3>1. PICK k \in Indices, m \in Indices : m < k /\ z_order[k] = i /\ z_order[m] = j
      BY <1>16, <2>2 DEF LiesOver
    <3>2. k # c /\ m # c
      BY <1>3, <1>16, <2>2, <3>1
    <3>3. to(m) < to(k) /\ to(m) \in Indices /\ to(k) \in Indices /\ z[to(k)] = i /\ z[to(m)] = j
      BY <1>2, <1>9, <1>10, <1>12, <3>1, <3>2
    <3> QED BY <3>3 DEF LiesOver
  <2> QED BY <2>1, <2>2
<1> QED BY <1>3, <1>6, <1>13, <1>14, <1>15, <1>16

\* The edges of the screen, and of the desktop.
LEMMA WithinRange ==
    ASSUME NEW v \in Int, NEW length \in Nat, NEW limit \in Int, length <= limit
    PROVE  /\ Within(v, length, limit) \in 0 .. limit - length
           /\ 0 <= v /\ v <= limit - length => Within(v, length, limit) = v
BY DEF Within

Moved(ws, d, x, y) == [ws EXCEPT ![d] = [ws[d] EXCEPT !.x = x, !.y = y]]

LEMMA DraggedTo ==
    ASSUME NEW ws \in [Indices -> WindowTyped], NEW l \in LoopTyped, NEW p \in [x : Int, y : Int],
           l.dragging, NEW d \in Indices, l.drag_idx = d, OnDesktop(ws[d])
    PROVE  \E x \in 0 .. VGA_WIDTH - ws[d].w, y \in 0 .. Floor - ws[d].h :
             /\ Dragged(ws, l, p) = Moved(ws, d, x, y)
             /\ p.x - l.ox = ws[d].x => x = ws[d].x
             /\ p.y - l.oy = ws[d].y => y = ws[d].y
<1>1. PICK w \in WindowTyped : w = ws[d]
  OBVIOUS
<1>2. PICK px \in Int, py \in Int : px = p.x - l.ox /\ py = p.y - l.oy
  BY DEF LoopTyped
<1>3. /\ VGA_WIDTH \in Int /\ Floor \in Int /\ w.w \in Nat /\ w.h \in Nat
      /\ w.x \in 0 .. VGA_WIDTH - w.w /\ w.y \in 0 .. Floor - w.h
  BY <1>1, WindowsAssumption DEF WindowTyped, OnDesktop, Floor
<1>4. w.w <= VGA_WIDTH /\ w.h <= Floor
  BY <1>3
<1>5. PICK x \in 0 .. VGA_WIDTH - w.w : x = Within(px, w.w, VGA_WIDTH)
  BY <1>2, <1>3, <1>4, WithinRange
<1>6. PICK y \in 0 .. Floor - w.h : y = Within(py, w.h, Floor)
  BY <1>2, <1>3, <1>4, WithinRange
<1>7. Dragged(ws, l, p) = [ws EXCEPT ![d] = [w EXCEPT !.x = x, !.y = y]]
  BY <1>1, <1>2, <1>5, <1>6 DEF Dragged
<1>8. ASSUME px = w.x PROVE x = w.x
  <2>1. 0 <= px /\ px <= VGA_WIDTH - w.w
    BY <1>3, <1>8
  <2> QED BY <1>2, <1>3, <1>4, <1>5, <1>8, <2>1, WithinRange
<1>9. ASSUME py = w.y PROVE y = w.y
  <2>1. 0 <= py /\ py <= Floor - w.h
    BY <1>3, <1>9
  <2> QED BY <1>2, <1>3, <1>4, <1>6, <1>9, <2>1, WithinRange
<1> QED
  <2>1. p.x - l.ox = ws[d].x => x = ws[d].x
    BY <1>1, <1>2, <1>8
  <2>2. p.y - l.oy = ws[d].y => y = ws[d].y
    BY <1>1, <1>2, <1>9
  <2>3. Dragged(ws, l, p) = Moved(ws, d, x, y)
    BY <1>1, <1>7 DEF Moved
  <2> QED BY <1>1, <2>1, <2>2, <2>3

\* The pointer moves: the front window follows it, or nothing changes.
LEMMA TrackMovesFront ==
    ASSUME WInv, StackInv, NEW l \in LoopTyped, NEW p \in [x : Int, y : Int], Follows(l),
           windows' = Dragged(windows, l, p), UNCHANGED <<z_order, focused>>
    PROVE  StackInv' /\ (Stack!MoveFront \/ UNCHANGED Stack!vars)
<1>1. CASE ~l.dragging
  <2>1. windows' = windows
    BY <1>1 DEF Dragged
  <2> QED BY <2>1 DEF StackInv, Areas, Over, OpenWindows, Stack!vars
<1>2. CASE l.dragging
  <2>1. PICK d \in Indices : d = l.drag_idx
    BY <1>2 DEF Follows
  <2>2. focused = d /\ windows[d].active
    BY <1>2, <2>1 DEF Follows
  <2>3. windows \in [Indices -> WindowTyped] /\ OnDesktop(windows[d])
    BY DEF WInv, StackInv
  <2>4. PICK x \in 0 .. VGA_WIDTH - windows[d].w, y \in 0 .. Floor - windows[d].h :
          windows' = Moved(windows, d, x, y)
    BY <1>2, <2>1, <2>3, DraggedTo
  <2>5. \A i \in Indices : /\ windows[i] \in WindowTyped /\ windows'[i] \in WindowTyped
                           /\ windows'[i].active = windows[i].active
                           /\ windows'[i].w = windows[i].w /\ windows'[i].h = windows[i].h
                           /\ windows'[i].x = IF i = d THEN x ELSE windows[i].x
                           /\ windows'[i].y = IF i = d THEN y ELSE windows[i].y
    <3>1. PICK w \in WindowTyped : w = windows[d]
      BY <2>3
    <3>2. x \in Int /\ y \in Int
      OBVIOUS
    <3>3. PICK v : v = [w EXCEPT !.x = x, !.y = y]
      OBVIOUS
    <3>4. /\ v \in WindowTyped
          /\ v.x = x /\ v.y = y /\ v.w = w.w /\ v.h = w.h /\ v.active = w.active
      BY <3>2, <3>3 DEF WindowTyped
    <3>5. windows' = [windows EXCEPT ![d] = v]
      BY <2>4, <3>1, <3>3 DEF Moved
    <3> QED BY <2>3, <3>1, <3>4, <3>5
  <2>6. OpenWindows' = OpenWindows /\ Over' = Over
    <3>1. OpenWindows' = OpenWindows
      BY <2>5 DEF OpenWindows
    <3> QED BY <3>1 DEF Over
  <2>7. d \in OpenWindows /\ OpenWindows \subseteq Indices
    BY <2>2 DEF OpenWindows
  <2>8. Areas' = [Areas EXCEPT ![d] = [Areas[d] EXCEPT !.x = x, !.y = y]]
    <3> DEFINE rec(i) == [x |-> windows[i].x, y |-> windows[i].y,
                          w |-> windows[i].w, h |-> windows[i].h]
               new(i) == [x |-> windows'[i].x, y |-> windows'[i].y,
                          w |-> windows'[i].w, h |-> windows'[i].h]
    <3>1. Areas = [i \in OpenWindows |-> rec(i)] /\ Areas' = [i \in OpenWindows |-> new(i)]
      BY <2>6 DEF Areas
    <3>2. \A i \in OpenWindows : i # d => new(i) = rec(i)
      BY <2>5, <2>7
    <3>3. new(d) = [rec(d) EXCEPT !.x = x, !.y = y]
      <4>1. PICK r \in [x : Int, y : Int, w : Nat, h : Nat] : r = rec(d)
        BY <2>5 DEF WindowTyped
      <4>2. PICK n \in [x : Int, y : Int, w : Nat, h : Nat] : n = new(d)
        BY <2>5 DEF WindowTyped
      <4>3. n.x = x /\ n.y = y /\ n.w = r.w /\ n.h = r.h
        BY <2>5, <4>1, <4>2
      <4>4. n = [r EXCEPT !.x = x, !.y = y]
        BY <4>3
      <4> HIDE DEF rec, new
      <4> QED BY <4>1, <4>2, <4>4
    <3> HIDE DEF rec, new
    <3> QED BY <2>7, <3>1, <3>2, <3>3
  <2>9. \A e \in Over : e[2] # focused
    <3> SUFFICES ASSUME NEW e \in Over, e[2] = d PROVE FALSE
      BY <2>2
    <3>1. PICK k \in Indices, m \in Indices : m < k /\ z_order[m] = d
      BY DEF Over
    <3>2. z_order[Top] = d /\ Top \in Indices
      <4>1. focused # NONE
        BY <2>1, <2>2 DEF NONE, Indices
      <4>2. Top \in Indices
        BY <2>1, WindowsAssumption DEF Top, Indices
      <4> QED BY <2>2, <4>1, <4>2 DEF StackInv
    <3>3. m = Top
      BY <3>1, <3>2 DEF StackInv, Permutes
    <3> QED BY <3>1, <3>3, WindowsAssumption DEF Top, Indices
  <2>10. Areas[d].w = windows[d].w /\ Areas[d].h = windows[d].h /\ DOMAIN Areas = OpenWindows
    BY <2>7 DEF Areas
  <2>11. Stack!MoveFront
    BY <2>2, <2>4, <2>6, <2>7, <2>8, <2>9, <2>10 DEF Stack!MoveFront, Floor
  <2>12. StackInv'
    <3>1. \A i \in Indices : OnDesktop(windows[i])'
      BY <2>5 DEF StackInv, OnDesktop
    <3>2. (focused # NONE => focused \in Indices /\ windows[focused].active
                             /\ z_order[Top] = focused)'
      BY <2>5 DEF StackInv
    <3> QED BY <3>1, <3>2 DEF StackInv
  <2> QED BY <2>11, <2>12
<1> QED BY <1>1, <1>2 DEF LoopTyped

\* What a press reaches lies uncovered at the cursor.
LEMMA HitIsReachable ==
    ASSUME WInv, StackInv, NEW p \in [x : 0 .. VGA_WIDTH - 1, y : 0 .. VGA_HEIGHT - 1],
           Hits(p) # {}
    PROVE  WindowAt(p) \in OpenWindows /\ Stack!Reachable(WindowAt(p))
<1>1. PICK hit \in Indices, c \in Hits(p) :
        /\ hit = WindowAt(p) /\ windows[hit].active
        /\ hit = z_order[c] /\ \A j \in Hits(p) : j <= c
  BY WindowAtHits DEF WInv
<1>2. PICK x \in 0 .. VGA_WIDTH - 1, y \in 0 .. VGA_HEIGHT - 1 : x = p.x /\ y = p.y
  OBVIOUS
<1>3. \A i \in OpenWindows : Covers(windows[i], p) <=> Stack!At(i, x, y)
  BY <1>2 DEF Covers, Stack!At, Areas
<1>4. hit \in OpenWindows /\ Stack!At(hit, x, y)
  BY <1>1, <1>3 DEF Hits, OpenWindows
<1>5. ASSUME NEW e \in Over, e[2] = hit PROVE ~Stack!At(e[1], x, y)
  <2>1. PICK k \in Indices, m \in Indices :
          e[1] \in OpenWindows /\ m < k /\ z_order[k] = e[1] /\ z_order[m] = e[2]
    BY <1>5 DEF Over
  <2>2. m = c /\ c \in Indices
    BY <1>1, <1>5, <2>1 DEF StackInv, Permutes, Hits
  <2>3. k \notin Hits(p)
    BY <1>1, <2>1, <2>2 DEF Indices
  <2>4. ~Covers(windows[e[1]], p)
    BY <2>1, <2>3 DEF Hits, OpenWindows
  <2> QED BY <1>3, <2>1, <2>4
<1> QED BY <1>1, <1>4, <1>5 DEF Stack!Reachable

LEMMA RaiseIsToFront ==
    ASSUME WInv, StackInv, NEW hit \in OpenWindows, RaiseWindow(hit), Stack!Reachable(hit),
           windows' = windows
    PROVE  StackInv' /\ Stack!ToFront(hit)
<1>1. hit \in Indices /\ windows[hit].active /\ z_order \in [Indices -> Indices]
  BY DEF OpenWindows, WInv
<1>2. PICK c \in Indices : z_order[c] = hit
  BY <1>1 DEF StackInv, Permutes
<1>3. z_order' = Raised(hit) /\ focused' = hit
  BY DEF RaiseWindow
<1>4. /\ Permutes(z_order') /\ z_order'[Top] = hit
      /\ \A i, j \in Indices :
            LiesOver(z_order', i, j) <=> j # hit /\ (i = hit \/ LiesOver(z_order, i, j))
  BY <1>1, <1>2, <1>3, RaisedOrder DEF StackInv
<1>5. Areas' = Areas /\ OpenWindows' = OpenWindows /\ DOMAIN Areas = OpenWindows
  BY DEF Areas, OpenWindows
<1>6. /\ Over = {e \in OpenWindows \X OpenWindows : LiesOver(z_order, e[1], e[2])}
      /\ Over' = {e \in OpenWindows \X OpenWindows : LiesOver(z_order', e[1], e[2])}
  BY <1>5 DEF Over, LiesOver
<1>7. \A e \in OpenWindows \X OpenWindows :
        LiesOver(z_order', e[1], e[2]) <=> e[2] # hit /\ (e[1] = hit \/ LiesOver(z_order, e[1], e[2]))
  BY <1>4 DEF OpenWindows
<1>8. Over' = {e \in Over : e[2] # hit} \cup ({hit} \X (DOMAIN Areas \ {hit}))
  BY <1>5, <1>6, <1>7
<1>9. StackInv'
  BY <1>1, <1>3, <1>4 DEF StackInv
<1> QED BY <1>3, <1>5, <1>8, <1>9 DEF Stack!ToFront

LEMMA CloseIsClose ==
    ASSUME WInv, StackInv, NEW hit \in OpenWindows, Stack!Reachable(hit),
           windows' = [windows EXCEPT ![hit].active = FALSE], UNCHANGED z_order,
           focused' = IF focused = hit THEN NONE ELSE focused
    PROVE  StackInv' /\ Stack!Close(hit)
<1>1. hit \in Indices /\ windows \in [Indices -> WindowTyped]
  BY DEF OpenWindows, WInv
<1>2. \A i \in Indices : /\ windows[i] \in WindowTyped
                         /\ windows'[i].active <=> i # hit /\ windows[i].active
                         /\ windows'[i].w = windows[i].w /\ windows'[i].h = windows[i].h
                         /\ windows'[i].x = windows[i].x /\ windows'[i].y = windows[i].y
  <2>1. PICK w \in WindowTyped : w = windows[hit]
    BY <1>1
  <2>2. PICK v : v = [w EXCEPT !.active = FALSE]
    OBVIOUS
  <2>3. /\ v \in WindowTyped
        /\ v.x = w.x /\ v.y = w.y /\ v.w = w.w /\ v.h = w.h /\ v.active = FALSE
    BY <2>2 DEF WindowTyped
  <2>4. windows' = [windows EXCEPT ![hit] = v]
    BY <2>1, <2>2
  <2>5. \A i \in Indices : windows'[i] = IF i = hit THEN v ELSE windows[i]
    BY <1>1, <2>4
  <2> QED BY <1>1, <2>1, <2>3, <2>5
<1>3. OpenWindows' = OpenWindows \ {hit} /\ DOMAIN Areas = OpenWindows
  BY <1>2 DEF OpenWindows, Areas
<1>4. Areas' = [j \in DOMAIN Areas \ {hit} |-> Areas[j]]
  <2>1. \A i \in OpenWindows' :
          Areas[i] = [x |-> windows'[i].x, y |-> windows'[i].y, w |-> windows'[i].w, h |-> windows'[i].h]
    BY <1>2, <1>3 DEF Areas, OpenWindows
  <2> QED BY <1>3, <2>1 DEF Areas
<1>5. Over' = {e \in Over : hit \notin {e[1], e[2]}}
  BY <1>3 DEF Over
<1>6. StackInv'
  <2>1. \A i \in Indices : OnDesktop(windows[i])'
    BY <1>2 DEF StackInv, OnDesktop
  <2>2. (focused # NONE => focused \in Indices /\ windows[focused].active
                           /\ z_order[Top] = focused)'
    BY <1>2 DEF StackInv
  <2> QED BY <2>1, <2>2 DEF StackInv
<1> QED BY <1>4, <1>5, <1>6 DEF Stack!Close

LEMMA PressOnStack ==
    ASSUME WInv, StackInv, NEW l \in LoopTyped, ~l.dragging,
           NEW p \in [x : 0 .. VGA_WIDTH - 1, y : 0 .. VGA_HEIGHT - 1], Press(l, p)
    PROVE  StackInv' /\ [Stack!Next]_(Stack!vars)
<1>1. p \in [x : Int, y : Int]
  BY WindowsAssumption
<1>2. CASE Hits(p) = {}
  <2>1. Track(l, p)
    BY <1>2 DEF Press
  <2> QED BY <1>1, <2>1, TrackMovesFront DEF Track, Follows, Stack!Next
<1>3. CASE Hits(p) # {}
  <2>1. PICK hit \in OpenWindows : hit = WindowAt(p) /\ Stack!Reachable(hit)
    BY <1>3, HitIsReachable
  <2>2. hit \in DOMAIN Areas /\ hit \in Indices /\ windows[hit] \in WindowTyped
    BY <2>1 DEF Areas, OpenWindows, WInv
  <2>3. CASE CloseWindow(l, hit, p)
    <3>1. windows' = [windows EXCEPT ![hit].active = FALSE]
      BY <2>3 DEF CloseWindow, Dragged
    <3>2. StackInv' /\ Stack!Close(hit)
      BY <2>1, <2>3, <3>1, CloseIsClose DEF CloseWindow
    <3> QED BY <2>2, <3>2 DEF Stack!Next
  <2>4. CASE RaiseWindow(hit) /\ windows' = Dragged(windows, Grab(l, hit, p), p)
    <3>1. PICK g : g = Grab(l, hit, p)
      OBVIOUS
    <3>2. PICK ox \in Int, oy \in Int : ox = p.x - windows[hit].x /\ oy = p.y - windows[hit].y
      BY <1>1, <2>2 DEF WindowTyped
    <3>3. g \in LoopTyped /\ g.dragging /\ g.drag_idx = hit /\ g.ox = ox /\ g.oy = oy
      <4>1. PICK h \in Int : h = hit
        BY <2>2 DEF Indices
      <4>2. g = [l EXCEPT !.dragging = TRUE, !.drag_idx = h, !.ox = ox, !.oy = oy]
        BY <3>1, <3>2, <4>1 DEF Grab
      <4> QED BY <4>1, <4>2 DEF LoopTyped
    <3>4. windows' = windows
      <4>1. PICK x, y : /\ Dragged(windows, g, p) = Moved(windows, hit, x, y)
                        /\ p.x - g.ox = windows[hit].x => x = windows[hit].x
                        /\ p.y - g.oy = windows[hit].y => y = windows[hit].y
        BY <1>1, <2>2, <3>3, DraggedTo DEF WInv, StackInv
      <4>2. x = windows[hit].x /\ y = windows[hit].y
        BY <1>1, <2>2, <3>2, <3>3, <4>1 DEF WindowTyped
      <4>3. PICK w \in WindowTyped : w = windows[hit]
        BY <2>2
      <4>4. [w EXCEPT !.x = w.x, !.y = w.y] = w
        BY DEF WindowTyped
      <4>5. Moved(windows, hit, x, y) = [windows EXCEPT ![hit] = w]
        BY <4>2, <4>3, <4>4 DEF Moved
      <4> QED BY <2>2, <2>4, <3>1, <4>1, <4>3, <4>5 DEF WInv
    <3> QED BY <2>1, <2>2, <2>4, <3>4, RaiseIsToFront DEF Stack!Next
  <2>5. CASE RaiseWindow(hit) /\ windows' = Dragged(windows, l, p)
    <3>1. windows' = windows
      BY <2>5 DEF Dragged
    <3> QED BY <2>1, <2>2, <2>5, <3>1, RaiseIsToFront DEF Stack!Next
  <2> QED BY <1>3, <2>1, <2>3, <2>4, <2>5 DEF Press
<1> QED BY <1>2, <1>3

LEMMA NextOnStack == WInv /\ StackInv /\ [WinNext]_winVars => StackInv' /\ [Stack!Next]_(Stack!vars)
<1> SUFFICES ASSUME WInv, StackInv, [WinNext]_winVars
             PROVE  StackInv' /\ [Stack!Next]_(Stack!vars)
  OBVIOUS
<1>1. ASSUME UNCHANGED <<windows, z_order, focused>> PROVE StackInv' /\ UNCHANGED Stack!vars
  BY <1>1 DEF StackInv, Areas, Over, OpenWindows, Stack!vars
<1>2. CASE StartGui
  <2>1. PICK n \in Nat : n = Len(Layout)
    BY WindowsAssumption
  <2>2. Indices = 0 .. n - 1 /\ Stack!Ids = Indices
    BY <2>1 DEF Indices, Stack!Ids
  <2>3. \A i \in Indices : /\ Layout[i + 1] \in [x : Int, y : Int, w : Nat, h : Nat]
                           /\ OnDesktop(Layout[i + 1])
    BY LayoutTyped, LayoutOnDesktop
  <2>4. \A i \in Indices : /\ windows'[i].active
                           /\ windows'[i].x = Layout[i + 1].x /\ windows'[i].y = Layout[i + 1].y
                           /\ windows'[i].w = Layout[i + 1].w /\ windows'[i].h = Layout[i + 1].h
    BY <1>2 DEF StartGui, Window
  <2>5. OpenWindows' = Indices
    BY <2>4 DEF OpenWindows
  <2>6. Areas' = [i \in Indices |-> Layout[i + 1]]
    <3>1. \A i \in Indices : [x |-> windows'[i].x, y |-> windows'[i].y,
                              w |-> windows'[i].w, h |-> windows'[i].h] = Layout[i + 1]
      BY <2>3, <2>4
    <3> QED BY <2>5, <3>1 DEF Areas
  <2>7. z_order' = [i \in Indices |-> i] /\ focused' = NONE
    BY <1>2 DEF StartGui
  <2>8. Over' = {e \in Indices \X Indices : e[1] > e[2]}
    BY <2>2, <2>5, <2>7 DEF Over
  <2>9. StackInv'
    <3>1. \A i \in Indices : OnDesktop(windows[i])'
      BY <2>3, <2>4 DEF OnDesktop
    <3> QED BY <2>7, <3>1 DEF StackInv, Permutes
  <2> QED BY <2>2, <2>6, <2>7, <2>8, <2>9 DEF Stack!Open, Stack!Next
<1>3. CASE Escape
  BY <1>1, <1>3 DEF Escape, desktop
<1>4. ASSUME NEW move \in Moves, NEW left \in BOOLEAN, Mouse(move[1], move[2], left)
      PROVE  StackInv' /\ [Stack!Next]_(Stack!vars)
  <2>1. PICK dx \in Int, dy \in Int : dx = move[1] /\ dy = move[2]
    BY WindowsAssumption
  <2>2. PICK p \in [x : 0 .. VGA_WIDTH - 1, y : 0 .. VGA_HEIGHT - 1] :
          p = [x |-> Within(cursor.x + dx, 1, VGA_WIDTH),
               y |-> Within(cursor.y + dy, 1, VGA_HEIGHT)]
    <3>1. PICK cx \in Int, cy \in Int : cx = cursor.x + dx /\ cy = cursor.y + dy
      BY DEF WInv
    <3>2. VGA_WIDTH \in Int /\ 1 <= VGA_WIDTH /\ VGA_HEIGHT \in Int /\ 1 <= VGA_HEIGHT
      BY WindowsAssumption
    <3>3. /\ Within(cx, 1, VGA_WIDTH) \in 0 .. VGA_WIDTH - 1
          /\ Within(cy, 1, VGA_HEIGHT) \in 0 .. VGA_HEIGHT - 1
      BY <3>2, WithinRange
    <3> QED BY <3>1, <3>3
  <2>3. PICK l \in LoopTyped : /\ l = [loop EXCEPT !.held = left]
                               /\ l.held = left /\ l.dragging = loop.dragging
                               /\ l.drag_idx = loop.drag_idx
    <3>1. PICK k \in LoopTyped : k = loop
      BY DEF WInv, LoopTyped
    <3> QED BY <3>1, LoopChanges
  <2>4. \/ UNCHANGED <<windows, z_order, focused>>
        \/ left /\ ~loop.held /\ Press(l, p)
        \/ (left => loop.held) /\ Track(IF loop.held /\ ~left THEN Released(l) ELSE l, p)
    BY <1>4, <2>1, <2>2, <2>3 DEF Mouse
  <2>5. CASE left /\ ~loop.held /\ Press(l, p)
    <3>1. ~l.dragging
      BY <2>3, <2>5 DEF WInv, DragIsHeld
    <3> QED BY <2>5, <3>1, PressOnStack
  <2>6. CASE (left => loop.held) /\ Track(IF loop.held /\ ~left THEN Released(l) ELSE l, p)
    <3>1. PICK t : t = IF loop.held /\ ~left THEN Released(l) ELSE l
      OBVIOUS
    <3>2. t \in LoopTyped
      BY <3>1, LoopChanges
    <3>3. t.dragging => /\ t.held /\ t.drag_idx = loop.drag_idx /\ loop.dragging
      <4>1. CASE loop.held /\ ~left
        BY <3>1, <4>1, LoopChanges
      <4>2. CASE ~(loop.held /\ ~left)
        BY <2>3, <2>6, <3>1, <4>2 DEF WInv, DragIsHeld
      <4> QED BY <4>1, <4>2
    <3>4. Follows(t)
      BY <2>6, <3>1, <3>3 DEF Follows, Track, WInv, DragIsHeld
    <3>5. p \in [x : Int, y : Int]
      BY WindowsAssumption
    <3> QED BY <2>6, <3>1, <3>2, <3>4, <3>5, TrackMovesFront DEF Track, Stack!Next
  <2> QED BY <1>1, <2>4, <2>5, <2>6
<1>5. CASE UNCHANGED winVars
  BY <1>1, <1>5 DEF winVars
<1> QED BY <1>2, <1>3, <1>4, <1>5 DEF WinNext

\* The desktop is a stack of open windows, for screens of any size and any windows that
\* lie on them at first: a press reaches the uppermost at the cursor, the keyboard goes to
\* the front, and only the window in front moves, never off the desktop.
THEOREM WindowsAreAStack == WinSpec => StackSpec
<1>1. WinInit => WInv /\ StackInv /\ Stack!Init
  <2> SUFFICES ASSUME WinInit PROVE StackInv /\ Stack!Init
    BY InitWInv
  <2>1. \A i \in Indices : ~windows[i].active /\ OnDesktop(windows[i])
    BY LayoutOnDesktop DEF WinInit, Window, OnDesktop
  <2>2. OpenWindows = {}
    BY <2>1 DEF OpenWindows
  <2>3. Areas = <<>> /\ Over = {}
    BY <2>2 DEF Areas, Over
  <2>4. StackInv
    BY <2>1 DEF WinInit, StackInv, Permutes
  <2> QED BY <2>3, <2>4 DEF WinInit, Stack!Init
<1> QED BY <1>1, NextWInv, NextOnStack, PTL DEF WinSpec, StackSpec, Stack!Spec

-----------------------------------------------------------------------------
(* The text screen. *)

Cells == Chars \cup {SPACE, BIOS}
Positions == 0 .. Size - 1
Screens == [cells : [Positions -> Cells], pos : Positions]

BlankFrom(cells, pos) == \A p \in Positions : p >= pos => cells[p] \in {SPACE, BIOS}

LEMMA SizeFacts == SCREEN_COLS \in Nat \ {0} /\ Size \in Nat /\ Size >= SCREEN_COLS
<1>1. \A c, r \in Nat \ {0} : c * r \in Nat /\ c * r >= c
  OBVIOUS
<1> QED BY <1>1, ConsoleAssumption DEF Size

\* The screen moves up by whole rows, and nothing comes up from below.
LEMMA RolledScreen ==
    ASSUME NEW cells \in [Positions -> Cells], NEW pos \in Nat, pos < Size + SCREEN_COLS,
           BlankFrom(cells, pos)
    PROVE  \E d \in Nat : LET s == Rolled([cells |-> cells, pos |-> pos]) IN
              /\ s \in Screens /\ s.pos = pos - d /\ BlankFrom(s.cells, s.pos)
              /\ \A p \in Positions : p >= d => s.cells[p - d] = cells[p]
<1> DEFINE start == [cells |-> cells, pos |-> pos]
<1>0. Size \in Nat /\ SCREEN_COLS \in Nat /\ Size >= SCREEN_COLS
  BY SizeFacts
<1>1. CASE pos < Size
  <2>1. Rolled(start) = start
    BY <1>1 DEF Rolled
  <2>2. pos \in Positions
    BY <1>0, <1>1 DEF Positions
  <2>3. \A p \in Positions : p - 0 = p
    BY <1>0 DEF Positions
  <2>4. pos = pos - 0
    OBVIOUS
  <2> QED BY <2>1, <2>2, <2>3, <2>4 DEF Screens
<1>2. CASE pos >= Size
  <2> DEFINE up == [p \in Positions |-> IF p + SCREEN_COLS < Size THEN cells[p + SCREEN_COLS] ELSE SPACE]
             at_ == pos - SCREEN_COLS
  <2>1. Rolled(start) = [pos |-> at_, cells |-> up]
    BY <1>0, <1>2 DEF Rolled, Positions
  <2>2. at_ \in Positions
    BY <1>0, <1>2 DEF Positions
  <2>3. \A p \in Positions : p + SCREEN_COLS < Size => p + SCREEN_COLS \in Positions
    BY <1>0 DEF Positions
  <2>4. up \in [Positions -> Cells]
    BY <2>3 DEF Cells
  <2>5. BlankFrom(up, at_)
    BY <1>0, <2>3, <1>2 DEF BlankFrom, Positions
  <2>6. \A p \in Positions : p >= SCREEN_COLS => up[p - SCREEN_COLS] = cells[p]
    <3> SUFFICES ASSUME NEW p \in Positions, p >= SCREEN_COLS PROVE up[p - SCREEN_COLS] = cells[p]
      OBVIOUS
    <3>1. p - SCREEN_COLS \in Positions /\ (p - SCREEN_COLS) + SCREEN_COLS = p /\ p < Size
      BY <1>0 DEF Positions
    <3> QED BY <3>1
  <2>7. [pos |-> at_, cells |-> up] \in Screens
    BY <2>2, <2>4 DEF Screens
  <2> HIDE DEF up
  <2> QED BY <1>0, <2>1, <2>5, <2>6, <2>7
<1> QED BY <1>0, <1>1, <1>2

\* A character goes where the cursor is and the cursor moves on; then all may move up by d.
PrintedTo(s, c, t, d) ==
    /\ d \in Nat
    /\ t \in Screens /\ BlankFrom(t.cells, t.pos)
    /\ \A p \in Positions : p >= d /\ p < s.pos => t.cells[p - d] = s.cells[p]
    /\ c \in Chars => t.pos = s.pos + 1 - d /\ (s.pos >= d => t.cells[s.pos - d] = c)

LEMMA ModFacts == \A p \in Nat, m \in Nat \ {0} : p % m \in 0 .. m - 1
OBVIOUS

LEMMA ShownScreen ==
    ASSUME NEW s \in Screens, BlankFrom(s.cells, s.pos), NEW c \in Chars \cup {"\n", "\t"}
    PROVE  \E d \in Nat : PrintedTo(s, c, Shown(s, c), d)
<1>0. /\ Size \in Nat /\ SCREEN_COLS \in Nat \ {0} /\ Size >= SCREEN_COLS
      /\ TABSTOP \in Nat \ {0} /\ TABSTOP <= SCREEN_COLS
  BY SizeFacts, ConsoleAssumption
<1>00. \A x \in Chars : x # "\n" /\ x # "\t" /\ x # "BS"
  BY ConsoleAssumption
<1>1. /\ s.cells \in [Positions -> Cells] /\ s.pos \in Positions
      /\ s.pos \in Nat /\ s.pos < Size
  BY <1>0 DEF Screens, Positions
<1> DEFINE Goes(cells, e) ==
              /\ cells \in [Positions -> Cells] /\ e \in Nat /\ e > s.pos /\ e <= s.pos + SCREEN_COLS
              /\ BlankFrom(cells, e)
              /\ \A p \in Positions : p < s.pos => cells[p] = s.cells[p]
              /\ c \in Chars => e = s.pos + 1 /\ cells[s.pos] = c
              /\ Shown(s, c) = Rolled([cells |-> cells, pos |-> e])
<1>2. \E cells, e : Goes(cells, e)
  <2>1. CASE c = "\n"
    <3>0. PICK r \in 0 .. SCREEN_COLS - 1 : r = s.pos % SCREEN_COLS
      BY <1>0, <1>1, ModFacts
    <3>1. PICK e \in Nat : /\ e = s.pos + SCREEN_COLS - (s.pos % SCREEN_COLS)
                           /\ e > s.pos /\ e <= s.pos + SCREEN_COLS
      <4>1. s.pos + SCREEN_COLS - r \in Nat /\ s.pos + SCREEN_COLS - r > s.pos /\ s.pos + SCREEN_COLS - r <= s.pos + SCREEN_COLS
        BY <1>0, <1>1
      <4> QED BY <3>0, <4>1
    <3>2. [s EXCEPT !.pos = @ + SCREEN_COLS - (@ % SCREEN_COLS)] = [cells |-> s.cells, pos |-> e]
      BY <3>1 DEF Screens
    <3>4. c \notin Chars /\ c # "\t" /\ c # "BS"
      BY <2>1, <1>00
    <3>3. Shown(s, c) = Rolled([cells |-> s.cells, pos |-> e])
      BY <2>1, <3>2, <3>4 DEF Shown
    <3>5. BlankFrom(s.cells, e)
      BY <1>1, <3>1 DEF BlankFrom, Positions
    <3> QED BY <1>1, <3>1, <3>3, <3>4, <3>5
  <2>2. CASE c = "\t"
    <3>0. PICK r \in 0 .. TABSTOP - 1 : r = s.pos % TABSTOP
      BY <1>0, <1>1, ModFacts
    <3>1. PICK e \in Nat : /\ e = s.pos + TABSTOP - (s.pos % TABSTOP)
                           /\ e > s.pos /\ e <= s.pos + TABSTOP
      <4>1. s.pos + TABSTOP - r \in Nat /\ s.pos + TABSTOP - r > s.pos /\ s.pos + TABSTOP - r <= s.pos + TABSTOP
        BY <1>0, <1>1
      <4> QED BY <3>0, <4>1
    <3>2. [s EXCEPT !.pos = @ + TABSTOP - (@ % TABSTOP)] = [cells |-> s.cells, pos |-> e]
      BY <3>1 DEF Screens
    <3>4. c \notin Chars /\ c # "\n" /\ c # "BS"
      BY <2>2, <1>00
    <3>3. Shown(s, c) = Rolled([cells |-> s.cells, pos |-> e])
      BY <2>2, <3>2, <3>4 DEF Shown
    <3>5. BlankFrom(s.cells, e) /\ e <= s.pos + SCREEN_COLS
      BY <1>0, <1>1, <3>1 DEF BlankFrom, Positions
    <3> QED BY <1>1, <3>1, <3>3, <3>4, <3>5
  <2>3. CASE c \in Chars
    <3>1. c # "\n" /\ c # "\t" /\ c # "BS"
      BY <2>3, <1>00
    <3>2. PICK cells : cells = [s.cells EXCEPT ![s.pos] = c]
      OBVIOUS
    <3>3. Shown(s, c) = Rolled([cells |-> cells, pos |-> s.pos + 1])
      BY <2>3, <3>1, <3>2 DEF Shown
    <3>4. cells \in [Positions -> Cells] /\ cells[s.pos] = c
      BY <1>1, <2>3, <3>2 DEF Cells
    <3>5. \A p \in Positions : p # s.pos => cells[p] = s.cells[p]
      BY <1>1, <3>2
    <3>6. BlankFrom(cells, s.pos + 1)
      BY <1>1, <3>5 DEF BlankFrom, Positions
    <3>7. \A p \in Positions : p < s.pos => cells[p] = s.cells[p]
      BY <1>1, <3>5 DEF Positions
    <3> QED BY <1>0, <1>1, <3>3, <3>4, <3>6, <3>7
  <2> QED BY <2>1, <2>2, <2>3
<1>3. PICK cells, e : Goes(cells, e)
  BY <1>2
<1>4. PICK d \in Nat : LET t == Rolled([cells |-> cells, pos |-> e]) IN
              /\ t \in Screens /\ t.pos = e - d /\ BlankFrom(t.cells, t.pos)
              /\ \A p \in Positions : p >= d => t.cells[p - d] = cells[p]
  <2>1. e < Size + SCREEN_COLS
    BY <1>0, <1>1, <1>3
  <2> QED BY <1>3, <2>1, RolledScreen
<1>5. PICK t : t = Shown(s, c)
  OBVIOUS
<1>6. /\ t \in Screens /\ t.pos = e - d /\ BlankFrom(t.cells, t.pos)
      /\ \A p \in Positions : p >= d => t.cells[p - d] = cells[p]
  BY <1>3, <1>4, <1>5
<1>7. PrintedTo(s, c, t, d)
  BY <1>1, <1>3, <1>6 DEF PrintedTo
<1> QED BY <1>5, <1>7

ScreenInv == Screen \in Screens /\ BlankFrom(video_memory, cursor_pos)

\* Nothing was ever left behind the cursor, whoever printed.
CInv == ScreenInv /\ line \in Seq(Chars) /\ EchoMatchesLine

\* The screen after a character.
LEMMA PrintKeeps ==
    ASSUME ScreenInv, NEW c \in Chars \cup {"\n", "\t"}, PrintChar(c)
    PROVE  ScreenInv' /\ \E d \in Nat : PrintedTo(Screen, c, Screen', d)
<1>1. PICK s : s = Screen
  OBVIOUS
<1>2. s \in Screens /\ BlankFrom(s.cells, s.pos)
  BY <1>1 DEF ScreenInv, Screen
<1>3. PICK t : t = Shown(s, c)
  OBVIOUS
<1>4. PICK d \in Nat : PrintedTo(s, c, t, d)
  BY <1>2, <1>3, ShownScreen
<1>5. video_memory' = t.cells /\ cursor_pos' = t.pos
  BY <1>1, <1>3 DEF PrintChar
<1>6. t \in Screens /\ BlankFrom(t.cells, t.pos)
  BY <1>4 DEF PrintedTo
<1>7. Screen' = t
  BY <1>5, <1>6 DEF Screen, Screens
<1>8. ScreenInv'
  BY <1>5, <1>6, <1>7 DEF ScreenInv
<1> QED BY <1>1, <1>4, <1>7, <1>8

LEMMA BlankIsBehind ==
    ScreenInv => \A p \in cursor_pos .. Size - 1 : video_memory[p] \in {SPACE, BIOS}
BY SizeFacts DEF ScreenInv, BlankFrom, Screen, Screens, Positions

\* A character that is typed joins those of the line, wherever they have moved.
LEMMA TypeKeepsEcho ==
    ASSUME CInv, reading, NEW c \in Chars, PrintChar(Echo(c)),
           line' = Append(line, c), UNCHANGED <<at, before, reading>>
    PROVE  CInv'
<1>1. Echo(c) \in Chars
  BY ConsoleAssumption DEF Echo
<1>2. PICK d \in Nat : PrintedTo(Screen, Echo(c), Screen', d)
  BY <1>1, PrintKeeps DEF CInv
<1>3. ScreenInv'
  BY <1>1, PrintKeeps DEF CInv
<1>4. PICK n \in Nat : n = Len(line)
  BY DEF CInv
<1>5. /\ line' \in Seq(Chars) /\ Len(line') = n + 1 /\ line'[n + 1] = c
      /\ \A k \in 1 .. n : line'[k] = line[k]
  BY <1>4 DEF CInv
<1>6. PICK v, q : v = video_memory /\ q = cursor_pos
  OBVIOUS
<1>7. q \in Nat /\ q < Size /\ Size \in Nat
  BY <1>6, SizeFacts DEF CInv, ScreenInv, Screen, Screens, Positions
<1>8. PICK v2, q2 : v2 = video_memory' /\ q2 = cursor_pos'
  OBVIOUS
<1>9. /\ q2 = q + 1 - d /\ (q >= d => v2[q - d] = Echo(c))
      /\ \A p \in Positions : p >= d /\ p < q => v2[p - d] = v[p]
  BY <1>1, <1>2, <1>6, <1>8 DEF PrintedTo, Screen
<1>10. /\ \A k \in 1 .. n : q - n + k - 1 >= 0 => v[q - n + k - 1] = Echo(line[k])
       /\ q - n > 0 => v[q - n - 1] = before
  BY <1>4, <1>6 DEF CInv, EchoMatchesLine
<1>11. ASSUME NEW k \in 1 .. n + 1, q2 - (n + 1) + k - 1 >= 0
       PROVE  v2[q2 - (n + 1) + k - 1] = Echo(line'[k])
  <2>1. q2 - (n + 1) + k - 1 = (q - n + k - 1) - d
    <3>1. q2 = q + 1 - d /\ q \in Int /\ n \in Int /\ d \in Int /\ k \in Int
      BY <1>7, <1>9
    <3>2. \A a, b, f, h \in Int : (a + 1 - f) - (b + 1) + h - 1 = (a - b + h - 1) - f
      OBVIOUS
    <3> QED BY <3>1, <3>2
  <2>2. CASE k = n + 1
    <3>1. q2 - (n + 1) + k - 1 = q - d /\ q >= d
      BY <1>7, <1>9, <1>11, <2>2
    <3> QED BY <1>5, <1>9, <2>2, <3>1
  <2>3. CASE k \in 1 .. n
    <3>1. PICK p \in Positions : p = q - n + k - 1 /\ p >= d /\ p < q
      <4>1. q - n + k - 1 \in Positions /\ q - n + k - 1 >= d /\ q - n + k - 1 < q
        BY <1>7, <1>11, <2>1, <2>3 DEF Positions
      <4> QED BY <4>1
    <3>2. v[p] = Echo(line[k]) /\ p >= 0
      BY <1>7, <1>10, <2>3, <3>1 DEF Positions
    <3>3. line'[k] = line[k]
      BY <1>5, <2>3
    <3>4. v2[p - d] = v[p] /\ q2 - (n + 1) + k - 1 = p - d
      BY <1>9, <2>1, <3>1
    <3> QED BY <3>2, <3>3, <3>4
  <2>4. k = n + 1 \/ k \in 1 .. n
    OBVIOUS
  <2> QED BY <2>2, <2>3, <2>4
<1>12. ASSUME q2 - (n + 1) > 0 PROVE v2[q2 - (n + 1) - 1] = before
  <2>1. PICK p \in Positions : p = q - n - 1 /\ p >= d /\ p < q /\ q - n > 0
    <3>1. /\ q - n - 1 \in Positions /\ q - n - 1 >= d /\ q - n - 1 < q /\ q - n > 0
      BY <1>7, <1>9, <1>12 DEF Positions
    <3> QED BY <3>1
  <2>2. q2 - (n + 1) - 1 = p - d
    BY <1>7, <1>9, <2>1
  <2> QED BY <1>9, <1>10, <2>1, <2>2
<1>13. PICK l : l = line'
  OBVIOUS
<1>14. Len(l) = n + 1
  BY <1>5, <1>13
<1>16. EchoMatchesLine'
  <2>1. \A p \in cursor_pos' .. Size - 1 : video_memory'[p] \in {SPACE, BIOS}
    BY <1>3, SizeFacts DEF ScreenInv, BlankFrom, Screen, Screens, Positions
  <2>2. \A k \in 1 .. Len(line') : q2 - Len(line') + k - 1 >= 0 => v2[q2 - Len(line') + k - 1] = Echo(line'[k])
    BY <1>11, <1>13, <1>14
  <2>3. q2 - Len(line') > 0 => v2[q2 - Len(line') - 1] = before'
    BY <1>12, <1>13, <1>14
  <2> QED BY <1>8, <2>1, <2>2, <2>3 DEF EchoMatchesLine, Echo
<1> QED BY <1>3, <1>5, <1>16 DEF CInv

LEMMA EraseKeepsEcho ==
    ASSUME CInv, reading, line # <<>>, PrintChar("BS"),
           line' = Front(line), UNCHANGED <<at, before, reading>>
    PROVE  CInv'
<1>1. PICK v, q : v = video_memory /\ q = cursor_pos
  OBVIOUS
<1>2. /\ v \in [Positions -> Cells] /\ q \in Positions /\ BlankFrom(v, q)
      /\ Size \in Nat /\ q \in Nat /\ q < Size /\ Screen \in Screens /\ Screen.pos = q /\ Screen.cells = v
  BY <1>1, SizeFacts DEF CInv, ScreenInv, Screen, Screens, Positions
<1>3. PICK n \in Nat : n = Len(line) - 1
  BY DEF CInv
<1>4. /\ line' \in Seq(Chars) /\ Len(line') = n
      /\ \A k \in 1 .. n : line'[k] = line[k]
  BY <1>3 DEF CInv, Front
<1>5. /\ \A k \in 1 .. n + 1 : q - (n + 1) + k - 1 >= 0 => v[q - (n + 1) + k - 1] = Echo(line[k])
      /\ q - (n + 1) > 0 => v[q - (n + 1) - 1] = before
  BY <1>1, <1>3 DEF CInv, EchoMatchesLine
<1>6. PICK v2, q2 : v2 = video_memory' /\ q2 = cursor_pos'
  OBVIOUS
<1>7. PICK s : s = Screen
  OBVIOUS
<1>8. "BS" # "\n" /\ "BS" # "\t" /\ "BS" \notin Chars
  BY ConsoleAssumption
<1>9. CASE q = 0
  <2>1. Shown(s, "BS") = s
    <3>1. s.pos = 0 /\ s.pos < Size
      BY <1>2, <1>7, <1>9
    <3>2. Rolled(s) = s
      BY <3>1 DEF Rolled
    <3> QED BY <1>8, <3>1, <3>2 DEF Shown
  <2>2. v2 = v /\ q2 = q
    BY <1>2, <1>6, <1>7, <2>1 DEF PrintChar
  <2>3. ScreenInv' /\ \A p \in q2 .. Size - 1 : v2[p] \in {SPACE, BIOS}
    <3>1. ScreenInv'
      BY <1>2, <1>6, <2>2 DEF ScreenInv, Screen, Screens
    <3>2. \A p \in q2 .. Size - 1 : p \in Positions /\ p >= q
      BY <1>2, <2>2 DEF Positions
    <3> QED BY <1>2, <2>2, <3>1, <3>2 DEF BlankFrom
  <2>4. /\ \A k \in 1 .. Len(line') : ~(q2 - Len(line') + k - 1 >= 0)
        /\ ~(q2 - Len(line') > 0)
    BY <1>3, <1>4, <1>9, <2>2
  <2>5. EchoMatchesLine'
    BY <1>6, <2>3, <2>4 DEF EchoMatchesLine
  <2> QED BY <1>4, <2>3, <2>5 DEF CInv
<1>10. CASE q > 0
  <2>1. Shown(s, "BS") = [cells |-> [v EXCEPT ![q - 1] = SPACE], pos |-> q - 1]
    <3>1. PICK b : b = [cells |-> [v EXCEPT ![q - 1] = SPACE], pos |-> q - 1]
      OBVIOUS
    <3>2. b.pos < Size /\ b = [cells |-> [s.cells EXCEPT ![s.pos - 1] = SPACE], pos |-> s.pos - 1]
      BY <1>2, <1>7, <3>1
    <3>3. Rolled(b) = b
      BY <3>2 DEF Rolled
    <3>4. s.pos # 0
      BY <1>2, <1>7, <1>10
    <3>5. Shown(s, "BS") = Rolled(b)
      BY <1>8, <3>2, <3>4 DEF Shown
    <3> QED BY <1>7, <3>1, <3>3, <3>5
  <2>2. v2 = [v EXCEPT ![q - 1] = SPACE] /\ q2 = q - 1
    <3>1. PICK t : t = Shown(s, "BS")
      OBVIOUS
    <3>2. video_memory' = t.cells /\ cursor_pos' = t.pos
      BY <1>7, <3>1 DEF PrintChar
    <3>3. PICK w, r : w = [v EXCEPT ![q - 1] = SPACE] /\ r = q - 1
      OBVIOUS
    <3>4. t = [cells |-> w, pos |-> r]
      BY <2>1, <3>1, <3>3, Zenon
    <3>5. t.cells = w /\ t.pos = r
      BY <3>4
    <3> QED BY <1>6, <3>2, <3>3, <3>5
  <2>3. /\ q - 1 \in Positions /\ v2 \in [Positions -> Cells] /\ q2 \in Positions
        /\ \A p \in Positions : p # q - 1 => v2[p] = v[p]
        /\ v2[q - 1] = SPACE
    <3>1. q - 1 \in Positions
      BY <1>2, <1>10 DEF Positions
    <3> QED BY <1>2, <2>2, <3>1 DEF Cells
  <2>4. BlankFrom(v2, q2)
    BY <1>2, <2>2, <2>3 DEF BlankFrom, Positions
  <2>5. ScreenInv' /\ \A p \in q2 .. Size - 1 : v2[p] \in {SPACE, BIOS}
    <3>1. ScreenInv'
      BY <1>6, <2>3, <2>4 DEF ScreenInv, Screen, Screens
    <3>2. \A p \in q2 .. Size - 1 : p \in Positions /\ p >= q2
      BY <1>2, <1>10, <2>2 DEF Positions
    <3> QED BY <2>4, <3>1, <3>2 DEF BlankFrom
  <2>6. ASSUME NEW k \in 1 .. n, q2 - n + k - 1 >= 0
        PROVE  v2[q2 - n + k - 1] = Echo(line'[k])
    <3>1. PICK p \in Positions : p = q2 - n + k - 1 /\ p = q - (n + 1) + k - 1 /\ p >= 0 /\ p < q - 1
      <4>1. /\ q2 - n + k - 1 \in Positions /\ q2 - n + k - 1 = q - (n + 1) + k - 1
            /\ q2 - n + k - 1 < q - 1
        BY <1>2, <2>2, <2>6 DEF Positions
      <4> QED BY <2>6, <4>1
    <3>2. v[p] = Echo(line[k])
      BY <1>5, <3>1
    <3>3. line'[k] = line[k] /\ v2[p] = v[p]
      BY <1>2, <1>4, <2>3, <3>1 DEF Positions
    <3> QED BY <3>1, <3>2, <3>3
  <2>7. ASSUME q2 - n > 0 PROVE v2[q2 - n - 1] = before
    <3>1. PICK p \in Positions : p = q2 - n - 1 /\ p = q - (n + 1) - 1 /\ p < q - 1
      <4>1. /\ q2 - n - 1 \in Positions /\ q2 - n - 1 = q - (n + 1) - 1
            /\ q2 - n - 1 < q - 1
        BY <1>2, <2>2, <2>7 DEF Positions
      <4> QED BY <4>1
    <3>2. q - (n + 1) > 0
      BY <1>2, <2>2, <2>7
    <3>3. v2[p] = v[p]
      BY <1>2, <2>3, <3>1 DEF Positions
    <3> QED BY <1>5, <3>1, <3>2, <3>3
  <2>8. EchoMatchesLine'
    <3>1. \A k \in 1 .. Len(line') : q2 - Len(line') + k - 1 >= 0 => v2[q2 - Len(line') + k - 1] = Echo(line'[k])
      BY <1>4, <2>6
    <3>2. q2 - Len(line') > 0 => v2[q2 - Len(line') - 1] = before'
      BY <1>4, <2>7
    <3> QED BY <1>6, <2>5, <3>1, <3>2 DEF EchoMatchesLine, Echo
  <2> QED BY <1>4, <2>5, <2>8 DEF CInv
<1> QED BY <1>2, <1>9, <1>10

LEMMA NextCInv == CInv /\ [ConNext]_conVars => CInv'
<1> SUFFICES ASSUME CInv, [ConNext]_conVars PROVE CInv'
  OBVIOUS
\* A line that has returned says nothing about the screen.
<1>1. ASSUME ScreenInv', ~reading', line' \in Seq(Chars) PROVE CInv'
  BY <1>1 DEF CInv, EchoMatchesLine
<1>2. <<>> \in Seq(Chars)
  OBVIOUS
<1>3. ASSUME NEW c \in Chars \cup {"\n", "\t"}, Output(c) PROVE CInv'
  BY <1>1, <1>3, PrintKeeps DEF Output, CInv
<1>4. CASE ClearScreen
  <2>1. 0 \in Positions
    BY SizeFacts DEF Positions
  <2>2. ScreenInv'
    BY <1>4, <2>1 DEF ClearScreen, ScreenInv, Screen, Screens, BlankFrom, Cells, Positions
  <2> QED BY <1>1, <1>4, <2>2 DEF ClearScreen, CInv
<1>5. CASE Prompt
  <2>1. ">" \in Chars /\ PrintChar(">")
    BY <1>5, ConsoleAssumption DEF Prompt
  <2>2. ScreenInv' /\ \E d \in Nat : PrintedTo(Screen, ">", Screen', d)
    BY <2>1, PrintKeeps DEF CInv
  <2>3. PICK d \in Nat : PrintedTo(Screen, ">", Screen', d)
    BY <2>2
  <2>4. PICK q, v2, q2 : q = cursor_pos /\ v2 = video_memory' /\ q2 = cursor_pos'
    OBVIOUS
  <2>5. q2 = q + 1 - d /\ (q >= d => v2[q - d] = ">")
    BY <2>1, <2>3, <2>4 DEF PrintedTo, Screen
  <2>6. q \in Nat
    BY <2>4, SizeFacts DEF CInv, ScreenInv, Screen, Screens, Positions
  <2>7. q2 - 0 > 0 => v2[q2 - 0 - 1] = ">"
    <3>1. ASSUME q2 - 0 > 0 PROVE q2 - 0 - 1 = q - d /\ q >= d
      BY <2>5, <2>6, <3>1
    <3> QED BY <2>5, <3>1
  <2>8. line' = <<>> /\ Len(line') = 0 /\ before' = ">"
    BY <1>5 DEF Prompt
  <2>9. \A p \in q2 .. Size - 1 : v2[p] \in {SPACE, BIOS}
    BY <2>2, <2>4, SizeFacts DEF ScreenInv, BlankFrom, Screen, Screens, Positions
  <2>10. \A k \in 1 .. Len(line') : FALSE
    BY <2>8
  <2>11. q2 - Len(line') > 0 => v2[q2 - Len(line') - 1] = before'
    BY <2>7, <2>8
  <2>12. EchoMatchesLine'
    BY <2>4, <2>9, <2>10, <2>11 DEF EchoMatchesLine
  <2> QED BY <1>2, <2>2, <2>8, <2>12 DEF CInv
<1>6. ASSUME NEW c \in Typed, TypeChar(c) PROVE CInv'
  <2>1. c \in Chars /\ Echo(c) \in Chars /\ PrintChar(Echo(c)) /\ reading
    BY <1>6, ConsoleAssumption DEF TypeChar, Echo
  <2>2. CASE Room(Len(line) + 1)
    BY <1>6, <2>1, <2>2, TypeKeepsEcho DEF TypeChar
  <2>3. CASE ~Room(Len(line) + 1)
    BY <1>1, <1>2, <1>6, <2>1, <2>3, PrintKeeps DEF TypeChar, Returned, CInv
  <2> QED BY <2>2, <2>3
<1>7. CASE TypeNewline
  BY <1>1, <1>2, <1>7, PrintKeeps DEF TypeNewline, Returned, CInv
<1>8. CASE TypeBackspace
  BY <1>8, EraseKeepsEcho DEF TypeBackspace
<1>9. CASE UNCHANGED conVars
  BY <1>9 DEF conVars, CInv, ScreenInv, Screen, EchoMatchesLine, Echo
<1> QED BY <1>3, <1>4, <1>5, <1>6, <1>7, <1>8, <1>9 DEF ConNext

\* What is typed is what the screen shows, on a screen of any size, for lines of any length.
THEOREM LineIsEchoed == ConSpec => []EchoMatchesLine
<1>1. ConInit => CInv
  <2> SUFFICES ASSUME ConInit PROVE CInv
    OBVIOUS
  <2>1. 0 \in Positions
    BY SizeFacts DEF Positions
  <2>2. ScreenInv
    BY <2>1 DEF ConInit, ScreenInv, Screen, Screens, BlankFrom, Cells, Positions
  <2> QED BY <2>2 DEF ConInit, CInv, EchoMatchesLine
<1>2. CInv => EchoMatchesLine
  BY DEF CInv
<1> QED BY <1>1, <1>2, NextCInv, PTL DEF ConSpec

-----------------------------------------------------------------------------
(* The terminal.  Printing a text is putting its characters one after the other:      *)
(* the fold of the community modules, a recursion over the sets of indices, takes the *)
(* highest last.                                                                      *)

Highest(s) == CHOOSE x \in s : \A y \in s : x >= y

LEMMA HighestIsOne ==
    ASSUME NEW n \in Nat, NEW s \in SUBSET (1 .. n), s # {}
    PROVE  Highest(s) \in s /\ \A y \in s : Highest(s) >= y
<1> DEFINE T == {n - x : x \in s}
<1>1. T \subseteq Nat /\ T # {}
  <2>1. \A x \in s : n - x \in Nat
    OBVIOUS
  <2> QED BY <2>1
<1>2. PICK low \in T : \A y \in T : low <= y
  <2> HIDE DEF T
  <2> QED BY <1>1, LeastNumber
<1>3. PICK x \in s : low = n - x
  BY <1>2
<1>4. \A y \in s : x >= y
  <2> SUFFICES ASSUME NEW y \in s PROVE x >= y
    OBVIOUS
  <2>1. n - x <= n - y
    BY <1>2, <1>3
  <2>2. x \in Int /\ y \in Int
    OBVIOUS
  <2> QED BY <2>1, <2>2
<1> QED BY <1>3, <1>4 DEF Highest

IsFold(f, D, t, text) ==
    f = [s \in SUBSET D |-> IF s = {} THEN t ELSE Put(f[s \ {Highest(s)}], text[Highest(s)])]

LEMMA PutAllUnfolded ==
    ASSUME NEW t, NEW text
    PROVE  PutAll(t, text) = (CHOOSE f : IsFold(f, DOMAIN text, t, text))[DOMAIN text]
BY DEF PutAll, FoldLeft, MapThenFoldSet, IsFold, Highest, Max

LEMMA FoldExists ==
    ASSUME NEW t, NEW text, NEW n \in Nat
    PROVE  \E f : IsFold(f, 1 .. n, t, text)
<1> DEFINE T == {m \in Nat : ~ \E f : IsFold(f, 1 .. m, t, text)}
<1> SUFFICES ASSUME T # {} PROVE FALSE
  OBVIOUS
<1>1. PICK m \in T : \A k \in T : m <= k
  <2>1. T \subseteq Nat
    OBVIOUS
  <2> HIDE DEF T
  <2> QED BY <2>1, LeastNumber
<1>2. CASE m = 0
  <2> DEFINE f == [s \in SUBSET (1 .. 0) |-> t]
  <2>1. \A s \in SUBSET (1 .. 0) : s = {}
    OBVIOUS
  <2>2. IsFold(f, 1 .. 0, t, text)
    BY <2>1 DEF IsFold
  <2> QED BY <1>2, <2>2
<1>3. CASE m # 0
  <2>1. m - 1 \in Nat /\ ~(m <= m - 1)
    BY <1>3
  <2>2. PICK g : IsFold(g, 1 .. m - 1, t, text)
    BY <1>1, <2>1
  <2> DEFINE f == [s \in SUBSET (1 .. m) |-> IF m \in s THEN Put(g[s \ {m}], text[m]) ELSE g[s]]
             h == [s \in SUBSET (1 .. m) |-> IF s = {} THEN t
                                              ELSE Put(f[s \ {Highest(s)}], text[Highest(s)])]
  <2>3. \A s \in SUBSET (1 .. m) : m \notin s => s \in SUBSET (1 .. m - 1)
    OBVIOUS
  <2>4. ASSUME NEW s \in SUBSET (1 .. m) PROVE f[s] = h[s]
    <3>1. CASE m \in s
      <4>1. Highest(s) = m
        <5>1. PICK x : x = Highest(s)
          OBVIOUS
        <5>2. x \in s /\ x >= m
          BY <3>1, <5>1, HighestIsOne
        <5>3. x \in 1 .. m
          BY <5>2
        <5> QED BY <5>1, <5>2, <5>3
      <4>2. PICK w : w = s \ {m}
        OBVIOUS
      <4>3. w \in SUBSET (1 .. m) /\ m \notin w
        BY <4>2
      <4>4. f[w] = g[w]
        BY <4>3
      <4> QED BY <3>1, <4>1, <4>2, <4>4
    <3>2. CASE m \notin s /\ s = {}
      <4>1. {} \in SUBSET (1 .. m - 1)
        OBVIOUS
      <4>2. g[{}] = t
        BY <2>2, <4>1 DEF IsFold
      <4> QED BY <3>2, <4>2
    <3>3. CASE m \notin s /\ s # {}
      <4>1. s \in SUBSET (1 .. m - 1)
        BY <2>3, <3>3
      <4>2. PICK x : x = Highest(s)
        OBVIOUS
      <4>3. PICK w : w = s \ {x}
        OBVIOUS
      <4>4. w \in SUBSET (1 .. m) /\ m \notin w
        BY <3>3, <4>3
      <4>5. f[w] = g[w]
        BY <4>4
      <4>6. g[s] = Put(g[w], text[x])
        BY <2>2, <3>3, <4>1, <4>2, <4>3 DEF IsFold
      <4>7. f[s] = g[s]
        BY <3>3
      <4>8. h[s] = Put(f[w], text[x])
        BY <3>3, <4>2, <4>3
      <4> QED BY <4>5, <4>6, <4>7, <4>8
    <3> QED BY <3>1, <3>2, <3>3
  <2>5. f = h
    BY <2>4
  <2>6. IsFold(f, 1 .. m, t, text)
    BY <2>5 DEF IsFold
  <2> QED BY <2>6
<1> QED BY <1>2, <1>3

\* run[k] is the terminal after k characters.
IsRun(run, t, text) ==
    /\ run[0] = t
    /\ \A k \in 1 .. Len(text) : run[k] = Put(run[k - 1], text[k])

LEMMA PutAllRuns ==
    ASSUME NEW t, NEW C, NEW text \in Seq(C)
    PROVE  \E run : IsRun(run, t, text) /\ PutAll(t, text) = run[Len(text)]
<1>1. PICK n \in Nat : n = Len(text) /\ DOMAIN text = 1 .. n
  OBVIOUS
<1>2. PICK f : f = CHOOSE g : IsFold(g, 1 .. n, t, text)
  OBVIOUS
<1>3. IsFold(f, 1 .. n, t, text)
  BY <1>2, FoldExists
<1>4. PutAll(t, text) = f[1 .. n]
  BY <1>1, <1>2, PutAllUnfolded
<1> DEFINE run == [k \in 0 .. n |-> f[1 .. k]]
<1>5. run[0] = t
  <2>1. 1 .. 0 = {} /\ {} \in SUBSET (1 .. n)
    OBVIOUS
  <2>2. f[{}] = t
    BY <1>3, <2>1 DEF IsFold
  <2> QED BY <2>1, <2>2
<1>6. ASSUME NEW k \in 1 .. n PROVE run[k] = Put(run[k - 1], text[k])
  <2>1. PICK s \in SUBSET (1 .. n) : s = 1 .. k /\ s # {} /\ k \in s
    OBVIOUS
  <2>2. Highest(s) = k
    <3>1. Highest(s) \in s /\ Highest(s) >= k
      BY <2>1, HighestIsOne
    <3> QED BY <2>1, <3>1
  <2>3. s \ {k} = 1 .. k - 1
    BY <2>1
  <2>4. f[s] = Put(f[s \ {k}], text[k])
    BY <1>3, <2>1, <2>2 DEF IsFold
  <2>5. run[k] = f[s] /\ run[k - 1] = f[1 .. k - 1]
    BY <2>1
  <2> HIDE DEF run
  <2> QED BY <2>3, <2>4, <2>5
<1>7. run[n] = f[1 .. n]
  OBVIOUS
<1> HIDE DEF run
<1> QED BY <1>1, <1>4, <1>5, <1>6, <1>7 DEF IsRun
-----------------------------------------------------------------------------
(* The paper that never ends. *)

IsPaper(f, n, s) ==
    f = [i \in 0 .. n |-> IF i = 0 THEN [row |-> 0, col |-> 0] ELSE NextPlace(f[i - 1], s[i])]

LEMMA PaperExists ==
    ASSUME NEW s, NEW n \in Nat
    PROVE  \E f : IsPaper(f, n, s)
<1> DEFINE T == {m \in Nat : ~ \E f : IsPaper(f, m, s)}
<1> SUFFICES ASSUME T # {} PROVE FALSE
  OBVIOUS
<1>1. PICK m \in T : \A k \in T : m <= k
  <2>1. T \subseteq Nat
    OBVIOUS
  <2> HIDE DEF T
  <2> QED BY <2>1, LeastNumber
<1> DEFINE corner == [row |-> 0, col |-> 0]
<1>2. CASE m = 0
  <2> DEFINE f == [i \in 0 .. 0 |-> corner]
  <2>1. IsPaper(f, 0, s)
    BY DEF IsPaper
  <2> QED BY <1>2, <2>1
<1>3. CASE m # 0
  <2>1. m - 1 \in Nat /\ ~(m <= m - 1)
    BY <1>3
  <2>2. PICK f : IsPaper(f, m - 1, s)
    BY <1>1, <2>1
  <2> DEFINE g == [i \in 0 .. m |-> IF i = m THEN NextPlace(f[m - 1], s[m]) ELSE f[i]]
             h == [i \in 0 .. m |-> IF i = 0 THEN corner ELSE NextPlace(g[i - 1], s[i])]
  <2>3. ASSUME NEW i \in 0 .. m PROVE g[i] = h[i]
    <3>1. CASE i = m
      <4>1. m - 1 \in 0 .. m /\ m - 1 # m
        BY <1>3
      <4>2. g[m - 1] = f[m - 1]
        BY <4>1
      <4> QED BY <1>3, <3>1, <4>2
    <3>2. CASE i # m
      <4>1. i \in 0 .. m - 1 /\ (i # 0 => i - 1 \in 0 .. m /\ i - 1 # m)
        BY <3>2, <1>3
      <4>2. f[i] = IF i = 0 THEN corner ELSE NextPlace(f[i - 1], s[i])
        BY <2>2, <4>1 DEF IsPaper
      <4>3. i # 0 => g[i - 1] = f[i - 1]
        BY <4>1
      <4>4. g[i] = f[i]
        BY <3>2
      <4>5. h[i] = IF i = 0 THEN corner ELSE NextPlace(g[i - 1], s[i])
        OBVIOUS
      <4> HIDE DEF g, h, corner
      <4> QED BY <4>2, <4>3, <4>4, <4>5
    <3> QED BY <3>1, <3>2
  <2>4. g = h
    BY <2>3
  <2>5. IsPaper(g, m, s)
    BY <2>4 DEF IsPaper
  <2> QED BY <2>5
<1> QED BY <1>2, <1>3

LEMMA OnPaperIsPaper == ASSUME Len(printed) \in Nat PROVE IsPaper(OnPaper, Len(printed), printed)
<1>1. PICK f : f = CHOOSE g : IsPaper(g, Len(printed), printed)
  OBVIOUS
<1>2. IsPaper(f, Len(printed), printed)
  BY <1>1, PaperExists
<1>3. OnPaper = f
  BY <1>1 DEF OnPaper, IsPaper
<1> QED BY <1>2, <1>3

Agree(z, s, m) == \A i \in 1 .. m : z[i] = s[i]

\* The paper of a beginning is the beginning of the paper.
LEMMA PaperBegins ==
    ASSUME NEW n \in Nat, NEW m \in 0 .. n, NEW s, NEW z, Agree(z, s, m),
           NEW f, IsPaper(f, n, s), NEW q, q = [i \in 0 .. m |-> f[i]]
    PROVE  IsPaper(q, m, z)
<1> DEFINE g == [i \in 0 .. m |-> f[i]]
           h == [i \in 0 .. m |-> IF i = 0 THEN [row |-> 0, col |-> 0] ELSE NextPlace(g[i - 1], z[i])]
<1>1. ASSUME NEW i \in 0 .. m PROVE g[i] = h[i]
  <2>1. i \in 0 .. n /\ (i # 0 => i - 1 \in 0 .. m /\ z[i] = s[i])
    BY DEF Agree
  <2>2. f[i] = IF i = 0 THEN [row |-> 0, col |-> 0] ELSE NextPlace(f[i - 1], s[i])
    BY <2>1 DEF IsPaper
  <2>3. i # 0 => g[i - 1] = f[i - 1]
    BY <2>1
  <2>4. g[i] = f[i] /\ h[i] = IF i = 0 THEN [row |-> 0, col |-> 0] ELSE NextPlace(g[i - 1], z[i])
    OBVIOUS
  <2> HIDE DEF g, h
  <2> QED BY <2>1, <2>2, <2>3, <2>4
<1>2. g = h
  BY <1>1
<1> QED BY <1>2 DEF IsPaper

-----------------------------------------------------------------------------
(* The buffer beside the paper, whose row top is the buffer's first. *)

Vals == Glyphs \cup {EMPTY}
Terms == [buf : [Rows -> [Cols -> Vals]], row : Nat, col : Nat]

\* Character i stands there.
Stands(p, s, i, row, col) == s[i] \in Glyphs /\ p[i] = [row |-> row, col |-> col]

Holds(b, top, p, s, n) ==
    \A r \in Rows, c \in Cols :
        \/ /\ \A i \in 1 .. n : ~Stands(p, s, i, top + r, c + 1)
           /\ b[r][c] = EMPTY
        \/ \E i \in 1 .. n : /\ Stands(p, s, i, top + r, c + 1)
                             /\ \A j \in 1 .. n : Stands(p, s, j, top + r, c + 1) => j = i
                             /\ b[r][c] = s[i]

TopRow(row) == IF row < TERM_BUF_ROWS THEN 0 ELSE row - TERM_BUF_ROWS + 1

\* No character stands after the place p[n].
Seen(p, n) ==
    \A i \in 0 .. n :
        /\ p[i] \in [row : Nat, col : Nat]
        /\ p[i].row < p[n].row \/ (p[i].row = p[n].row /\ p[i].col <= p[n].col)

Shows(t, p, s, n) ==
    /\ t \in Terms /\ t.row \in Rows /\ t.col <= TERM_COLS
    /\ t.col = p[n].col
    /\ t.row = p[n].row - TopRow(p[n].row)
    /\ Holds(t.buf, TopRow(p[n].row), p, s, n)
    /\ Seen(p, n)

\* The buffer is in step, or one row behind and nothing stands in the next.
InStep(top, e, p, n) ==
    \/ top = TopRow(e)
    \/ /\ e > 0 /\ top = TopRow(e - 1)
       /\ \A i \in 1 .. n : p[i].row < e

ScrolledTo(u, col, e, p, s, n) ==
    /\ u \in Terms /\ u.col = col /\ u.row \in Rows /\ u.row = e - TopRow(e)
    /\ Holds(u.buf, TopRow(e), p, s, n)

\* Scrolling, when the row below the buffer is reached and nothing stands in it.
LEMMA ScrolledShows ==
    ASSUME NEW t \in Terms, NEW top \in Nat, NEW e \in Nat, t.row = e - top,
           NEW p, NEW s, NEW n \in Nat, Holds(t.buf, top, p, s, n), InStep(top, e, p, n)
    PROVE  ScrolledTo(Scrolled(t), t.col, e, p, s, n)
<1> USE DEF ScrolledTo
<1> DEFINE R == TERM_BUF_ROWS
<1>0. R \in Nat \ {0}
  BY TerminalAssumption
<1>1. TopRow(e) \in Nat /\ (e > 0 => TopRow(e - 1) \in Nat)
  BY <1>0 DEF TopRow
<1>2. CASE t.row < R
  <2>1. Scrolled(t) = t
    BY <1>2 DEF Scrolled
  <2>2. top = TopRow(e)
    BY <1>0, <1>2 DEF TopRow, InStep
  <2>3. t.row \in Rows
    BY <1>0, <1>2 DEF Rows, Terms
  <2> QED BY <2>1, <2>2, <2>3
<1>3. CASE t.row >= R
  <2>1. /\ TopRow(e) = top + 1 /\ e = top + R /\ e > 0
        /\ \A i \in 1 .. n : p[i].row < e
    <3>1. top # TopRow(e)
      BY <1>0, <1>3 DEF TopRow
    <3>2. e > 0 /\ top = TopRow(e - 1) /\ \A i \in 1 .. n : p[i].row < e
      BY <3>1 DEF InStep
    <3>3. e = top + R /\ TopRow(e) = top + 1
      BY <1>0, <1>3, <3>2 DEF TopRow
    <3> QED BY <3>2, <3>3
  <2>2. PICK empty : empty = [c \in Cols |-> EMPTY]
    OBVIOUS
  <2>3. PICK b : b = [r \in Rows |-> IF r = R - 1 THEN empty ELSE t.buf[r + 1]]
    OBVIOUS
  <2>4. Scrolled(t) = [t EXCEPT !.row = R - 1, !.buf = b]
    BY <1>0, <1>3, <2>2, <2>3 DEF Scrolled, Terms
  <2>5. \A r \in Rows : r # R - 1 => r + 1 \in Rows
    BY <1>0 DEF Rows
  <2>6. b \in [Rows -> [Cols -> Vals]]
    <3>1. empty \in [Cols -> Vals]
      BY <2>2 DEF Vals
    <3>2. t.buf \in [Rows -> [Cols -> Vals]]
      BY DEF Terms
    <3> QED BY <2>3, <2>5, <3>1, <3>2
  <2>7. R - 1 \in Rows /\ R - 1 = e - TopRow(e) /\ R - 1 \in Nat
    BY <1>0, <2>1 DEF Rows
  <2>8. PICK u : u = [t EXCEPT !.row = R - 1, !.buf = b]
    OBVIOUS
  <2>9. u \in Terms /\ u.row = R - 1 /\ u.buf = b /\ u.col = t.col
    BY <2>6, <2>7, <2>8 DEF Terms
  <2>10. Holds(b, top + 1, p, s, n)
    <3> SUFFICES ASSUME NEW r \in Rows, NEW c \in Cols
                 PROVE  \/ /\ \A i \in 1 .. n : ~Stands(p, s, i, top + 1 + r, c + 1)
                           /\ b[r][c] = EMPTY
                        \/ \E i \in 1 .. n : /\ Stands(p, s, i, top + 1 + r, c + 1)
                                             /\ \A j \in 1 .. n : Stands(p, s, j, top + 1 + r, c + 1) => j = i
                                             /\ b[r][c] = s[i]
      BY DEF Holds
    <3>1. CASE r = R - 1
      <4>1. top + 1 + r = e
        BY <1>0, <2>1, <3>1
      <4>2. \A i \in 1 .. n : ~Stands(p, s, i, top + 1 + r, c + 1)
        <5> SUFFICES ASSUME NEW i \in 1 .. n, Stands(p, s, i, e, c + 1) PROVE FALSE
          BY <4>1
        <5>1. p[i].row = e
          BY DEF Stands
        <5> QED BY <2>1, <5>1
      <4>3. b[r][c] = EMPTY
        BY <2>2, <2>3, <3>1
      <4> QED BY <4>2, <4>3
    <3>2. CASE r # R - 1
      <4>1. PICK k \in Rows : k = r + 1 /\ top + 1 + r = top + k
        <5>1. r \in Nat
          BY <1>0 DEF Rows
        <5>2. top + 1 + r = top + (r + 1)
          BY <5>1
        <5> QED BY <2>5, <3>2, <5>2
      <4>2. b[r] = t.buf[k]
        BY <2>3, <3>2, <4>1
      <4> QED BY <4>1, <4>2 DEF Holds
    <3> QED BY <3>1, <3>2
  <2> QED BY <2>1, <2>4, <2>7, <2>8, <2>9, <2>10
<1> QED BY <1>0, <1>2, <1>3 DEF Terms

\* A character that is no glyph stands nowhere.
LEMMA BlankHolds ==
    ASSUME NEW n \in Nat, NEW b, NEW top, NEW p, NEW s, Holds(b, top, p, s, n), s[n + 1] \notin Glyphs
    PROVE  Holds(b, top, p, s, n + 1)
<1>1. \A row, col : ~Stands(p, s, n + 1, row, col)
  BY DEF Stands
<1>2. \A i \in 1 .. n + 1 : i # n + 1 => i \in 1 .. n
  OBVIOUS
<1>3. \A i \in 1 .. n : i \in 1 .. n + 1
  OBVIOUS
<1> QED BY <1>1, <1>2, <1>3 DEF Holds

Apart(p, n) == \A i \in 1 .. n : p[i] # p[n + 1]

WithGlyph(u, g) == [u EXCEPT !.buf[u.row][u.col] = g, !.col = @ + 1]

\* A glyph is put where none stands.
LEMMA GlyphHolds ==
    ASSUME NEW n \in Nat, NEW u \in Terms, u.row \in Rows, u.col \in Cols, NEW top \in Nat,
           NEW p, NEW s, Holds(u.buf, top, p, s, n), NEW g \in Glyphs, s[n + 1] = g,
           p[n + 1] = [row |-> top + u.row, col |-> u.col + 1],
           Apart(p, n), NEW v, v = WithGlyph(u, g)
    PROVE  v \in Terms /\ v.row = u.row /\ v.col = u.col + 1 /\ Holds(v.buf, top, p, s, n + 1)
<1>1. PICK r0 \in Rows, c0 \in Cols : r0 = u.row /\ c0 = u.col
  OBVIOUS
<1>2. PICK b : b = [u.buf EXCEPT ![r0] = [u.buf[r0] EXCEPT ![c0] = g]]
  OBVIOUS
<1>4. u.buf \in [Rows -> [Cols -> Vals]] /\ u.row \in Nat /\ u.col \in Nat
  BY DEF Terms
<1>5. v = [u EXCEPT !.buf = b, !.col = u.col + 1]
  <2>1. [u EXCEPT !.buf[u.row][u.col] = g, !.col = @ + 1]
        = [u EXCEPT !.buf = [u.buf EXCEPT ![u.row] = [u.buf[u.row] EXCEPT ![u.col] = g]],
                    !.col = u.col + 1]
    BY <1>4 DEF Terms
  <2> QED BY <1>1, <1>2, <2>1 DEF WithGlyph
<1>6. b \in [Rows -> [Cols -> Vals]]
  <2>1. [u.buf[r0] EXCEPT ![c0] = g] \in [Cols -> Vals]
    BY <1>1, <1>4 DEF Vals
  <2> QED BY <1>2, <1>4, <2>1
<1>7. v \in Terms /\ v.row = u.row /\ v.col = u.col + 1 /\ v.buf = b
  <2>1. PICK k \in Nat : k = u.col + 1
    BY <1>4
  <2>2. v = [u EXCEPT !.buf = b, !.col = k]
    BY <1>5, <2>1
  <2>3. v \in Terms /\ v.row = u.row /\ v.col = k /\ v.buf = b
    BY <1>6, <2>2 DEF Terms
  <2> QED BY <2>1, <2>3
<1>8. \A r \in Rows, c \in Cols : b[r][c] = IF r = r0 /\ c = c0 THEN g ELSE u.buf[r][c]
  <2> SUFFICES ASSUME NEW r \in Rows, NEW c \in Cols
               PROVE  b[r][c] = IF r = r0 /\ c = c0 THEN g ELSE u.buf[r][c]
    OBVIOUS
  <2>1. CASE r = r0
    <3>1. b[r] = [u.buf[r0] EXCEPT ![c0] = g] /\ u.buf[r0] \in [Cols -> Vals]
      BY <1>2, <1>4, <2>1
    <3> QED BY <2>1, <3>1
  <2>2. CASE r # r0
    BY <1>2, <1>4, <2>2
  <2> QED BY <2>1, <2>2
<1>9. /\ \A i \in 1 .. n + 1 : i # n + 1 => i \in 1 .. n
      /\ \A i \in 1 .. n : i \in 1 .. n + 1 /\ i # n + 1
      /\ n + 1 \in 1 .. n + 1
  OBVIOUS
<1>10. \A r \in Rows, c \in Cols : r \in Nat /\ c \in Nat
  <2>1. TERM_BUF_ROWS \in Nat /\ TERM_COLS \in Nat
    BY TerminalAssumption
  <2> QED BY <2>1 DEF Rows, Cols
<1>11. ASSUME NEW r \in Rows, NEW c \in Cols
       PROVE  Stands(p, s, n + 1, top + r, c + 1) <=> r = r0 /\ c = c0
  <2>1. p[n + 1].row = top + r0 /\ p[n + 1].col = c0 + 1 /\ p[n + 1] = [row |-> top + r0, col |-> c0 + 1]
    BY <1>1
  <2>2. ASSUME Stands(p, s, n + 1, top + r, c + 1) PROVE r = r0 /\ c = c0
    <3>1. p[n + 1].row = top + r /\ p[n + 1].col = c + 1
      BY <2>2 DEF Stands
    <3> QED BY <1>10, <2>1, <3>1
  <2> QED BY <1>1, <2>1, <2>2 DEF Stands
<1>12. ASSUME NEW i \in 1 .. n PROVE ~Stands(p, s, i, top + r0, c0 + 1)
  BY <1>1 DEF Stands, Apart
<1>13. Holds(b, top, p, s, n + 1)
  <2> SUFFICES ASSUME NEW r \in Rows, NEW c \in Cols
               PROVE  \/ /\ \A i \in 1 .. n + 1 : ~Stands(p, s, i, top + r, c + 1)
                         /\ b[r][c] = EMPTY
                      \/ \E i \in 1 .. n + 1 : /\ Stands(p, s, i, top + r, c + 1)
                                               /\ \A j \in 1 .. n + 1 : Stands(p, s, j, top + r, c + 1) => j = i
                                               /\ b[r][c] = s[i]
    BY DEF Holds
  <2>1. CASE r = r0 /\ c = c0
    <3>1. \A j \in 1 .. n + 1 : Stands(p, s, j, top + r, c + 1) => j = n + 1
      BY <1>9, <1>12, <2>1
    <3>2. Stands(p, s, n + 1, top + r, c + 1) /\ b[r][c] = s[n + 1]
      BY <1>1, <1>8, <1>11, <2>1
    <3> QED BY <1>9, <3>1, <3>2
  <2>2. CASE ~(r = r0 /\ c = c0)
    <3>1. ~Stands(p, s, n + 1, top + r, c + 1) /\ b[r][c] = u.buf[r][c]
      BY <1>8, <1>11, <2>2
    <3>2. \/ /\ \A i \in 1 .. n : ~Stands(p, s, i, top + r, c + 1)
             /\ u.buf[r][c] = EMPTY
          \/ \E i \in 1 .. n : /\ Stands(p, s, i, top + r, c + 1)
                               /\ \A j \in 1 .. n : Stands(p, s, j, top + r, c + 1) => j = i
                               /\ u.buf[r][c] = s[i]
      BY DEF Holds
    <3> QED BY <1>9, <3>1, <3>2
  <2> QED BY <2>1, <2>2
<1> QED BY <1>7, <1>13

LEMMA SeenOn ==
    ASSUME NEW n \in Nat, NEW p, Seen(p, n), p[n + 1] \in [row : Nat, col : Nat],
           \/ p[n + 1].row > p[n].row
           \/ p[n + 1].row = p[n].row /\ p[n + 1].col >= p[n].col
    PROVE  Seen(p, n + 1)
<1>1. n \in 0 .. n /\ \A i \in 0 .. n + 1 : i # n + 1 => i \in 0 .. n
  OBVIOUS
<1>2. p[n].row \in Nat /\ p[n].col \in Nat /\ p[n + 1].row \in Nat /\ p[n + 1].col \in Nat
  BY <1>1 DEF Seen
<1>3. ASSUME NEW i \in 0 .. n
      PROVE  p[i].row < p[n + 1].row \/ (p[i].row = p[n + 1].row /\ p[i].col <= p[n + 1].col)
  <2>1. p[i].row \in Nat /\ p[i].col \in Nat
    BY DEF Seen
  <2>2. p[i].row < p[n].row \/ (p[i].row = p[n].row /\ p[i].col <= p[n].col)
    BY DEF Seen
  <2> QED BY <1>2, <2>1, <2>2
<1>4. p[n + 1].col <= p[n + 1].col
  BY <1>2
<1> QED BY <1>1, <1>3, <1>4 DEF Seen

LEMMA NewLineShows ==
    ASSUME NEW n \in Nat, NEW t, NEW p, NEW s, Shows(t, p, s, n), NEW e, e = p[n].row + 1
    PROVE  e \in Nat /\ ScrolledTo(Scrolled(NewLine(t)), 0, e, p, s, n)
<1>0. TERM_BUF_ROWS \in Nat \ {0}
  BY TerminalAssumption
<1>1. /\ t \in Terms /\ p[n] \in [row : Nat, col : Nat] /\ n \in 0 .. n
      /\ t.row = p[n].row - TopRow(p[n].row)
      /\ Holds(t.buf, TopRow(p[n].row), p, s, n)
  BY DEF Shows, Seen
<1>2. e \in Nat /\ e > 0 /\ e - 1 = p[n].row
  BY <1>1
<1>3. PICK top \in Nat : top = TopRow(p[n].row)
  <2>1. TopRow(p[n].row) \in Nat
    BY <1>0, <1>1 DEF TopRow
  <2> QED BY <2>1
<1>4. PICK u : u = NewLine(t)
  OBVIOUS
<1>5. u \in Terms /\ u.row = t.row + 1 /\ u.col = 0 /\ u.buf = t.buf
  <2>1. PICK k \in Nat : k = t.row + 1
    BY <1>1 DEF Terms
  <2>2. u = [t EXCEPT !.row = k, !.col = 0]
    BY <1>4, <2>1 DEF NewLine
  <2> QED BY <1>1, <2>1, <2>2 DEF Terms
<1>6. u.row = e - top
  <2>1. PICK a \in Nat : a = p[n].row
    BY <1>1
  <2>2. t.row = a - top /\ e = a + 1
    BY <1>1, <1>3, <2>1
  <2> QED BY <1>5, <2>2
<1>7. ASSUME NEW i \in 1 .. n PROVE p[i].row < e
  <2>1. i \in 0 .. n
    OBVIOUS
  <2>2. p[i].row \in Nat /\ (p[i].row < p[n].row \/ p[i].row = p[n].row)
    BY <2>1 DEF Shows, Seen
  <2> QED BY <1>1, <1>2, <2>2
<1>8. Holds(u.buf, top, p, s, n) /\ top = TopRow(e - 1)
  BY <1>1, <1>2, <1>3, <1>5
<1>9. ScrolledTo(Scrolled(u), u.col, e, p, s, n)
  <2>1. InStep(top, e, p, n)
    BY <1>2, <1>7, <1>8 DEF InStep
  <2>2. u \in Terms /\ e \in Nat /\ u.row = e - top /\ Holds(u.buf, top, p, s, n)
    BY <1>2, <1>5, <1>6, <1>8
  <2> QED BY <2>1, <2>2, ScrolledShows
<1> QED BY <1>2, <1>4, <1>5, <1>9

LEMMA StopIsAhead ==
    ASSUME NEW col \in Nat
    PROVE  /\ NextStop(col) = (col \div TAB) * TAB + TAB
           /\ NextStop(col) \in Nat /\ NextStop(col) > col
<1>1. \A k \in Nat, m \in Nat \ {0} :
         /\ (k \div m + 1) * m = (k \div m) * m + m
         /\ (k \div m) * m + m \in Nat
         /\ (k \div m) * m + m > k
  <2> SUFFICES ASSUME NEW k \in Nat, NEW m \in Nat \ {0}
               PROVE /\ (k \div m + 1) * m = (k \div m) * m + m
                     /\ (k \div m) * m + m \in Nat
                     /\ (k \div m) * m + m > k
    OBVIOUS
  <2>1. PICK q \in Nat : q = k \div m /\ q * m <= k /\ k < q * m + m
    OBVIOUS
  <2>2. (q + 1) * m = q * m + m /\ q * m \in Nat
    OBVIOUS
  <2> QED BY <2>1, <2>2
<1> QED BY <1>1, TerminalAssumption DEF NextStop

\* One character: all the wraps, tabs and scrolls of gui_term_putchar().
LEMMA PutShows ==
    ASSUME NEW n \in Nat, NEW t, NEW p, NEW s, Shows(t, p, s, n), NEW c \in Printable, s[n + 1] = c,
           p[n + 1] = NextPlace(p[n], c)
    PROVE  Shows(Put(t, c), p, s, n + 1)
<1>0. TERM_COLS \in Nat \ {0} /\ TERM_BUF_ROWS \in Nat \ {0}
  BY TerminalAssumption
<1>1. PICK a : a = p[n]
  OBVIOUS
<1>2. PICK z : z = p[n + 1]
  OBVIOUS
<1>3. /\ t \in Terms /\ t.row \in Rows /\ t.col <= TERM_COLS /\ t.col = a.col
      /\ t.row = a.row - TopRow(a.row) /\ Holds(t.buf, TopRow(a.row), p, s, n)
      /\ Seen(p, n) /\ a \in [row : Nat, col : Nat]
  <2>1. n \in 0 .. n
    OBVIOUS
  <2> QED BY <1>1, <2>1 DEF Shows, Seen
<1>4. z = NextPlace(a, c) /\ a.row \in Nat /\ a.col \in Nat /\ t.col \in Nat /\ t.row \in Nat
  BY <1>1, <1>2, <1>3 DEF Terms
<1>5. \A x \in Glyphs : x # "\n" /\ x # "\t"
  BY TerminalAssumption
<1>6. PICK e \in Nat : e = a.row + 1
  BY <1>4
<1>7. TopRow(a.row) \in Nat /\ TopRow(e) \in Nat
  BY <1>0, <1>4, <1>6 DEF TopRow
<1>8. ScrolledTo(Scrolled(NewLine(t)), 0, e, p, s, n)
  BY <1>1, <1>6, NewLineShows
\* The character takes no place, and the next one goes to the start of a new row.
<1>9. ASSUME c \notin Glyphs, z = [row |-> a.row + 1, col |-> 0], Put(t, c) = Scrolled(NewLine(t))
      PROVE  Shows(Put(t, c), p, s, n + 1)
  <2>1. PICK u : u = Scrolled(NewLine(t))
    OBVIOUS
  <2>2. /\ u \in Terms /\ u.col = 0 /\ u.row \in Rows /\ u.row = e - TopRow(e)
        /\ Holds(u.buf, TopRow(e), p, s, n + 1)
    BY <1>8, <1>9, <2>1, BlankHolds DEF ScrolledTo
  <2>3. z = [row |-> e, col |-> 0] /\ z \in [row : Nat, col : Nat] /\ z.row = e /\ z.col = 0
    BY <1>6, <1>9
  <2>4. Seen(p, n + 1)
    BY <1>1, <1>2, <1>3, <1>4, <1>6, <2>3, SeenOn
  <2> QED BY <1>0, <1>2, <1>9, <2>1, <2>2, <2>3, <2>4 DEF Shows
\* A glyph is put at the place u where the wrap and the first scroll left the cursor.
<1>10. ASSUME c \in Glyphs, NEW row \in Nat, row = a.row \/ row = e, NEW u \in Terms,
              ScrolledTo(u, u.col, row, p, s, n), u.col \in Cols,
              z = [row |-> row, col |-> u.col + 1], row = a.row => u.col + 1 > a.col,
              Put(t, c) = Scrolled(WithGlyph(u, c))
       PROVE  Shows(Put(t, c), p, s, n + 1)
  <2>1. PICK v : v = WithGlyph(u, c)
    OBVIOUS
  <2>2. PICK top \in Nat : top = TopRow(row)
    BY <1>7, <1>6, <1>10
  <2>3. u.row \in Rows /\ u.row = row - top /\ Holds(u.buf, top, p, s, n)
    BY <1>10, <2>2 DEF ScrolledTo
  <2>4. u.col \in Nat /\ u.col + 1 <= TERM_COLS /\ u.row \in Nat /\ u.row < TERM_BUF_ROWS
    BY <1>0, <1>10, <2>3 DEF Cols, Rows
  <2>5. z \in [row : Nat, col : Nat] /\ z.row = row /\ z.col = u.col + 1
    BY <1>10, <2>4
  <2>6. z = [row |-> top + u.row, col |-> u.col + 1]
    <3>1. row = top + u.row
      BY <2>3, <2>4
    <3> QED BY <1>10, <3>1
  <2>7. Apart(p, n)
    <3> SUFFICES ASSUME NEW i \in 1 .. n PROVE p[i] # p[n + 1]
      BY DEF Apart
    <3>1. i \in 0 .. n
      OBVIOUS
    <3>2. /\ p[i].row \in Nat /\ p[i].col \in Nat
          /\ p[i].row < a.row \/ (p[i].row = a.row /\ p[i].col <= a.col)
      BY <1>1, <1>3, <3>1 DEF Seen
    <3>3. ~(p[i].row = row /\ p[i].col = u.col + 1)
      BY <1>4, <1>6, <1>10, <2>4, <3>2
    <3> QED BY <1>2, <2>5, <3>3
  <2>8. v \in Terms /\ v.row = u.row /\ v.col = u.col + 1 /\ Holds(v.buf, top, p, s, n + 1)
    <3>1. p[n + 1] = [row |-> top + u.row, col |-> u.col + 1]
      BY <1>2, <2>6
    <3> QED BY <1>10, <2>1, <2>3, <2>7, <3>1, GlyphHolds
  <2>9. Scrolled(v) = v
    BY <2>4, <2>8 DEF Scrolled
  <2>10. Seen(p, n + 1)
    <3>1. z.row > a.row \/ (z.row = a.row /\ z.col >= a.col)
      BY <1>4, <1>6, <1>10, <2>4, <2>5
    <3> QED BY <1>1, <1>2, <1>3, <2>5, <3>1, SeenOn
  <2>11. Put(t, c) = v
    BY <1>10, <2>1, <2>9
  <2> QED BY <1>2, <2>2, <2>3, <2>4, <2>5, <2>8, <2>10, <2>11 DEF Shows
<1>11. CASE c = "\n"
  <2>1. c \notin Glyphs /\ c # "\t"
    BY <1>5, <1>11
  <2>2. z = [row |-> a.row + 1, col |-> 0]
    BY <1>4, <1>11 DEF NextPlace
  <2>3. Put(t, c) = Scrolled(NewLine(t))
    BY <1>11, <2>1 DEF Put
  <2> QED BY <1>9, <2>1, <2>2, <2>3
<1>12. CASE c = "\t"
  <2>1. c \notin Glyphs /\ c # "\n"
    BY <1>5, <1>12
  <2>2. PICK stop \in Nat : stop = NextStop(t.col) /\ stop > t.col /\ stop = (a.col \div TAB) * TAB + TAB
    BY <1>3, <1>4, StopIsAhead
  <2>3. PICK u : u = [t EXCEPT !.col = stop]
    OBVIOUS
  <2>4. u \in Terms /\ u.col = stop /\ u.row = t.row /\ u.buf = t.buf
    BY <1>3, <2>3 DEF Terms
  <2>5. Put(t, c) = Scrolled(Wrapped(u))
    <3>1. u = [t EXCEPT !.col = NextStop(@)]
      BY <2>2, <2>3
    <3> QED BY <1>12, <2>1, <3>1 DEF Put
  <2>6. CASE stop >= TERM_COLS
    <3>1. z = [row |-> a.row + 1, col |-> 0]
      BY <1>4, <1>12, <2>1, <2>2, <2>6 DEF NextPlace
    <3>2. Wrapped(u) = NewLine(u)
      BY <2>4, <2>6 DEF Wrapped
    <3>3. NewLine(u) = NewLine(t)
      BY <1>3, <2>3 DEF NewLine, Terms
    <3> QED BY <1>9, <2>1, <2>5, <3>1, <3>2, <3>3
  <2>7. CASE ~(stop >= TERM_COLS)
    <3>1. z = [a EXCEPT !.col = stop]
      BY <1>4, <1>12, <2>1, <2>2, <2>7 DEF NextPlace
    <3>2. z \in [row : Nat, col : Nat] /\ z.row = a.row /\ z.col = stop
      BY <1>3, <3>1
    <3>3. Wrapped(u) = u /\ Scrolled(u) = u
      BY <1>0, <1>3, <2>4, <2>7 DEF Wrapped, Scrolled, Rows
    <3>4. Holds(u.buf, TopRow(z.row), p, s, n + 1)
      BY <1>3, <2>1, <2>4, <3>2, BlankHolds
    <3>5. Seen(p, n + 1)
      BY <1>1, <1>2, <1>3, <1>4, <2>2, <3>2, SeenOn
    <3> QED BY <1>0, <1>2, <1>3, <2>2, <2>4, <2>5, <2>7, <3>2, <3>3, <3>4, <3>5 DEF Shows
  <2> QED BY <2>6, <2>7
<1>13. CASE c \in Glyphs
  <2>1. c # "\n" /\ c # "\t"
    BY <1>5, <1>13
  <2>2. PICK u : u = Scrolled(Wrapped(t))
    OBVIOUS
  <2>3. Put(t, c) = Scrolled(WithGlyph(u, c))
    BY <1>13, <2>1, <2>2 DEF Put, WithGlyph
  <2>4. CASE t.col >= TERM_COLS
    <3>1. z = [row |-> e, col |-> 1]
      BY <1>3, <1>4, <1>6, <2>1, <2>4 DEF NextPlace
    <3>2. u = Scrolled(NewLine(t))
      BY <2>2, <2>4 DEF Wrapped
    <3>3. u \in Terms /\ u.col = 0 /\ ScrolledTo(u, u.col, e, p, s, n)
      BY <1>8, <3>2 DEF ScrolledTo
    <3>4. u.col \in Cols /\ z = [row |-> e, col |-> u.col + 1] /\ e # a.row
      BY <1>0, <1>4, <1>6, <3>1, <3>3 DEF Cols
    <3> QED BY <1>10, <1>13, <2>3, <3>3, <3>4
  <2>5. CASE ~(t.col >= TERM_COLS)
    <3>1. z = [a EXCEPT !.col = a.col + 1]
      BY <1>3, <1>4, <2>1, <2>5 DEF NextPlace
    <3>2. u = t
      BY <1>0, <1>3, <2>2, <2>5 DEF Wrapped, Scrolled, Rows
    <3>3. ScrolledTo(u, u.col, a.row, p, s, n)
      BY <1>3, <3>2 DEF ScrolledTo
    <3>4. u.col \in Cols /\ u.col = a.col /\ u.col + 1 > a.col
      BY <1>0, <1>3, <1>4, <2>5, <3>2 DEF Cols
    <3>5. z = [row |-> a.row, col |-> u.col + 1]
      BY <1>3, <3>1, <3>4
    <3> QED BY <1>3, <1>4, <1>10, <1>13, <2>3, <3>2, <3>3, <3>4, <3>5
  <2> QED BY <2>4, <2>5
<1> QED BY <1>11, <1>12, <1>13 DEF Printable

LEMMA TextShows ==
    ASSUME NEW n \in Nat, NEW t, NEW s, NEW text \in Seq(Printable),
           \A k \in 1 .. Len(text) : s[n + k] = text[k],
           NEW p, IsPaper(p, n + Len(text), s), Shows(t, p, s, n)
    PROVE  Shows(PutAll(t, text), p, s, n + Len(text))
<1>1. PICK m \in Nat : m = Len(text)
  OBVIOUS
<1>2. PICK run : IsRun(run, t, text) /\ PutAll(t, text) = run[m]
  BY <1>1, PutAllRuns
<1> DEFINE T == {k \in 0 .. m : ~Shows(run[k], p, s, n + k)}
<1>3. ASSUME T # {} PROVE FALSE
  <2>1. PICK k \in T : \A j \in T : k <= j
    <3>1. T \subseteq Nat
      OBVIOUS
    <3> HIDE DEF T
    <3> QED BY <1>3, <3>1, LeastNumber
  <2>2. run[0] = t /\ n + 0 = n
    BY <1>2 DEF IsRun
  <2>3. k # 0
    BY <2>2
  <2>4. PICK j \in 0 .. m : j = k - 1 /\ k = j + 1 /\ k \in 1 .. m /\ n + k = (n + j) + 1 /\ ~(k <= j)
    BY <2>3
  <2>5. Shows(run[j], p, s, n + j)
    BY <2>1, <2>4
  <2>6. run[k] = Put(run[j], text[k])
    BY <1>1, <1>2, <2>4 DEF IsRun
  <2>7. text[k] \in Printable /\ s[(n + j) + 1] = text[k]
    <3>1. k \in 1 .. Len(text)
      BY <1>1, <2>4
    <3>2. text[k] \in Printable
      BY <3>1, ElementOfSeq
    <3>3. s[n + k] = text[k]
      BY <3>1
    <3> QED BY <2>4, <3>2, <3>3
  <2>8. PICK i \in Nat : i = n + j
    BY <2>4
  <2>9. p[i + 1] = NextPlace(p[i], text[k])
    <3>1. i + 1 \in 0 .. n + m /\ i + 1 # 0 /\ (i + 1) - 1 = i
      <4>1. j \in Nat /\ j + 1 <= m
        BY <2>4
      <4>2. i + 1 = n + (j + 1)
        BY <2>8, <4>1
      <4> QED BY <4>1, <4>2
    <3>2. p[i + 1] = NextPlace(p[(i + 1) - 1], s[i + 1])
      BY <1>1, <3>1 DEF IsPaper
    <3> QED BY <2>7, <2>8, <3>1, <3>2
  <2>10. PICK c \in Printable : c = text[k]
    BY <2>7
  <2>11. Shows(Put(run[j], c), p, s, i + 1)
    BY <2>5, <2>7, <2>8, <2>9, <2>10, PutShows
  <2>12. Shows(run[k], p, s, n + k)
    BY <2>4, <2>6, <2>8, <2>10, <2>11
  <2> QED BY <2>12
<1>4. m \in 0 .. m
  OBVIOUS
<1> QED BY <1>1, <1>2, <1>3, <1>4

\* What is shown of a text depends on the text and its paper alone.
LEMMA SameShows ==
    ASSUME NEW n \in Nat, NEW t, NEW p, NEW s, NEW q, NEW z,
           \A i \in 0 .. n : q[i] = p[i], \A i \in 1 .. n : z[i] = s[i], Shows(t, q, z, n)
    PROVE  Shows(t, p, s, n)
<1>1. n \in 0 .. n /\ q[n] = p[n] /\ \A i \in 1 .. n : i \in 0 .. n
  OBVIOUS
<1>2. Seen(p, n)
  BY <1>1 DEF Shows, Seen
<1>3. \A i \in 1 .. n : \A row, col : Stands(p, s, i, row, col) <=> Stands(q, z, i, row, col)
  BY <1>1 DEF Stands
<1>4. PICK top : top = TopRow(p[n].row)
  OBVIOUS
<1>5. Holds(t.buf, top, q, z, n)
  BY <1>1, <1>4 DEF Shows
<1>6. Holds(t.buf, top, p, s, n)
  BY <1>3, <1>5 DEF Holds
<1> QED BY <1>1, <1>2, <1>4, <1>6 DEF Shows

LEMMA BlankShows ==
    ASSUME NEW p, NEW s, NEW m \in Nat, IsPaper(p, m, s)
    PROVE  Shows(Blank, p, s, 0)
<1>1. TERM_BUF_ROWS \in Nat \ {0} /\ TERM_COLS \in Nat
  BY TerminalAssumption
<1>2. p[0] = [row |-> 0, col |-> 0]
  BY DEF IsPaper
<1>3. Blank \in Terms /\ Blank.row = 0 /\ Blank.col = 0 /\ 0 \in Rows
      /\ \A r \in Rows, c \in Cols : Blank.buf[r][c] = EMPTY
  BY <1>1 DEF Blank, Terms, Vals, Rows
<1>4. TopRow(0) = 0
  BY <1>1 DEF TopRow
<1>5. Holds(Blank.buf, 0, p, s, 0)
  BY <1>3 DEF Holds
<1>6. Seen(p, 0)
  BY <1>2 DEF Seen
<1> QED BY <1>1, <1>2, <1>3, <1>4, <1>5, <1>6 DEF Shows

TInv ==
    /\ printed \in Seq(Printable)
    /\ term_input \in Seq(Keys)
    /\ \A p : IsPaper(p, Len(printed), printed) => Shows(term, p, printed, Len(printed))

LEMMA Joined ==
    ASSUME NEW A, NEW a \in Seq(A), NEW b \in Seq(A), NEW c \in Seq(A), NEW d \in Seq(A)
    PROVE  a \o b \o c \o d \in Seq(A)
<1>1. PICK e \in Seq(A) : e = a \o b
  BY ConcatProperties
<1>2. PICK f \in Seq(A) : f = e \o c
  BY ConcatProperties
<1>3. f \o d \in Seq(A)
  BY ConcatProperties
<1> QED BY <1>1, <1>2, <1>3

LEMMA NextTInv == TInv /\ [TermNext]_termVars => TInv'
<1> SUFFICES ASSUME TInv, [TermNext]_termVars PROVE TInv'
  OBVIOUS
<1>1. <<>> \in Seq(Keys) /\ <<>> \in Seq(Printable)
  OBVIOUS
<1>2. CASE Restart
  <2>1. PICK w \in Seq(Printable) : w = Welcome
    BY TerminalAssumption
  <2>2. PICK m \in Nat : m = Len(w)
    OBVIOUS
  <2>3. ASSUME NEW p, IsPaper(p, m, w) PROVE Shows(PutAll(Blank, w), p, w, m)
    <3>1. Shows(Blank, p, w, 0)
      BY <2>3, BlankShows
    <3>2. 0 + Len(w) = m /\ \A k \in 1 .. Len(w) : w[0 + k] = w[k]
      BY <2>2
    <3>3. Shows(PutAll(Blank, w), p, w, 0 + Len(w))
      BY <2>3, <3>1, <3>2, TextShows
    <3> QED BY <3>2, <3>3
  <2> QED BY <1>1, <1>2, <2>1, <2>2, <2>3 DEF Restart, TInv
<1>3. ASSUME NEW c \in Keys, Type(c) PROVE TInv'
  BY <1>3 DEF Type, TInv
<1>4. CASE Backspace
  <2>1. Front(term_input) \in Seq(Keys)
    BY <1>4 DEF Backspace, TInv, Front
  <2> QED BY <1>4, <2>1 DEF Backspace, TInv
<1>5. ASSUME NEW output \in Outputs, Enter(output) PROVE TInv'
  <2>1. PICK text : text = <<">", " ">> \o term_input \o <<"\n">> \o output
    OBVIOUS
  <2>2. text \in Seq(Printable)
    <3>1. output \in Seq(Printable) /\ term_input \in Seq(Printable)
      <4>1. Keys \subseteq Printable /\ Outputs \subseteq Seq(Printable)
        BY TerminalAssumption DEF Printable
      <4>2. term_input \in Seq(Keys)
        BY DEF TInv
      <4> QED BY <4>1, <4>2, SeqMonotonic
    <3>2. <<">", " ">> \in Seq(Printable) /\ <<"\n">> \in Seq(Printable)
      <4>1. ">" \in Printable /\ " " \in Printable /\ "\n" \in Printable
        BY TerminalAssumption DEF Printable
      <4>2. \A x \in Printable, y \in Printable : <<x, y>> \in Seq(Printable) /\ <<x>> \in Seq(Printable)
        OBVIOUS
      <4> QED BY <4>1, <4>2
    <3>3. PICK a \in Seq(Printable), b \in Seq(Printable), c \in Seq(Printable), d \in Seq(Printable) :
             a = <<">", " ">> /\ b = term_input /\ c = <<"\n">> /\ d = output
      BY <3>1, <3>2
    <3>4. a \o b \o c \o d \in Seq(Printable)
      BY Joined
    <3> QED BY <2>1, <3>3, <3>4
  <2>3. /\ term' = PutAll(term, text)
        /\ printed' = printed \o text
        /\ term_input' = <<>>
    BY <1>5, <2>1 DEF Enter
  <2>4. PICK z \in Seq(Printable) : z = printed
    BY DEF TInv
  <2>5. PICK s \in Seq(Printable) : s = z \o text
    <3>1. z \o text \in Seq(Printable)
      BY <2>2, <2>4
    <3> QED BY <3>1
  <2>6. PICK n \in Nat, m \in Nat : n = Len(z) /\ m = Len(text) /\ Len(s) = n + m
    BY <2>2, <2>5
  <2>7. /\ \A i \in 1 .. n : z[i] = s[i]
        /\ \A k \in 1 .. m : s[n + k] = text[k]
    BY <2>2, <2>5, <2>6
  <2>8. ASSUME NEW p, IsPaper(p, n + m, s) PROVE Shows(PutAll(term, text), p, s, n + m)
    <3>1. PICK q : q = [i \in 0 .. n |-> p[i]]
      OBVIOUS
    <3>2. IsPaper(q, n, z)
      <4>1. n + m \in Nat /\ n \in 0 .. n + m /\ Agree(z, s, n)
        BY <2>7 DEF Agree
      <4> QED BY <2>8, <3>1, <4>1, PaperBegins
    <3>3. Shows(term, q, z, n)
      BY <2>4, <2>6, <3>2 DEF TInv
    <3>4. PICK t : t = term
      OBVIOUS
    <3>5. \A i \in 0 .. n : q[i] = p[i]
      BY <3>1
    <3>6. Shows(t, p, s, n)
      BY <2>7, <3>3, <3>4, <3>5, SameShows
    <3>7. Shows(PutAll(t, text), p, s, n + Len(text))
      BY <2>2, <2>6, <2>7, <2>8, <3>6, TextShows
    <3> QED BY <2>6, <3>4, <3>7
  <2>9. printed' = s /\ Len(printed') = n + m
    BY <2>3, <2>4, <2>5, <2>6
  <2>10. \A p : IsPaper(p, Len(printed'), printed') => Shows(term', p, printed', Len(printed'))
    BY <2>3, <2>8, <2>9
  <2> QED BY <1>1, <2>3, <2>9, <2>10 DEF TInv
<1>6. CASE EnterClear
  <2>1. term' = Blank /\ printed' = <<>> /\ Len(printed') = 0 /\ term_input' = <<>>
    BY <1>6 DEF EnterClear
  <2>2. \A p : IsPaper(p, 0, <<>>) => Shows(Blank, p, <<>>, 0)
    BY BlankShows
  <2> QED BY <1>1, <2>1, <2>2 DEF TInv
<1>7. CASE UNCHANGED termVars
  BY <1>7 DEF termVars, TInv
<1> QED BY <1>2, <1>3, <1>4, <1>5, <1>6, <1>7 DEF TermNext

LEMMA InitTInv == TermInit => TInv
<1> SUFFICES ASSUME TermInit PROVE TInv
  OBVIOUS
<1>1. term = Blank /\ printed = <<>> /\ Len(printed) = 0 /\ term_input = <<>>
  BY DEF TermInit
<1>2. \A p : IsPaper(p, 0, <<>>) => Shows(Blank, p, <<>>, 0)
  BY BlankShows
<1> QED BY <1>1, <1>2 DEF TInv

LEMMA NowShows == TInv => Shows(term, OnPaper, printed, Len(printed))
BY OnPaperIsPaper DEF TInv

\* The buffer shows the last rows of the paper, whatever commands print and however often
\* it wraps and scrolls.
THEOREM TerminalShowsTail == TermSpec => []ShowsTail
<1>1. TInv => ShowsTail
  <2> SUFFICES ASSUME TInv PROVE ShowsTail
    OBVIOUS
  <2>1. PICK p, s, n : p = OnPaper /\ s = printed /\ n = Len(printed)
    OBVIOUS
  <2>2. Shows(term, p, s, n)
    BY <2>1, NowShows
  <2>3. PICK top : top = TopRow(p[n].row)
    OBVIOUS
  <2>4. ASSUME NEW r \in Rows, NEW c \in Cols
        PROVE  LET here == {i \in 1 .. n : s[i] \in Glyphs /\ p[i] = [row |-> top + r, col |-> c + 1]}
               IN IF here = {} THEN term.buf[r][c] = EMPTY
                  ELSE \E i \in here : here = {i} /\ term.buf[r][c] = s[i]
    BY <2>2, <2>3 DEF Shows, Holds, Stands
  <2>5. term.row = p[n].row - top /\ term.col = p[n].col
    BY <2>2, <2>3 DEF Shows
  <2> QED BY <2>1, <2>3, <2>4, <2>5 DEF ShowsTail, TopRow
<1> QED BY <1>1, InitTInv, NextTInv, PTL DEF TermSpec

\* Whatever the height of the window, the row that is written and the input line are drawn.
THEOREM InputLineIsDrawn == TermSpec => []InputLineShown
<1>1. TInv => InputLineShown
  <2> SUFFICES ASSUME TInv PROVE InputLineShown
    OBVIOUS
  <2>1. PICK row : row = term.row
    OBVIOUS
  <2>2. row \in Nat
    BY <2>1, NowShows DEF Shows, Terms
  <2>3. HEIGHT \in Nat /\ HEIGHT >= 46
    BY TerminalAssumption
  <2>4. PICK k \in Nat : k = MaxRows /\ 9 * k <= HEIGHT - 28 /\ k >= 2
    BY <2>3 DEF MaxRows
  <2>5. PICK first \in Nat : first = FirstRow /\ first <= row /\ row - first <= k - 2
    BY <2>1, <2>2, <2>4 DEF FirstRow
  <2>6. \A j \in Int : j <= k - 1 => Fits(j)
    BY <2>3, <2>4 DEF Fits
  <2>7. Drawn = first .. row
    BY <2>1, <2>2, <2>4, <2>5, <2>6 DEF Drawn
  <2>8. Cardinality(first .. row) = row - first + 1
    BY <2>2, <2>5, FS_Interval
  <2>9. Cardinality(Drawn) \in Int /\ Cardinality(Drawn) <= k - 1
    BY <2>2, <2>4, <2>5, <2>7, <2>8
  <2> QED BY <2>1, <2>2, <2>5, <2>6, <2>7, <2>9 DEF InputLineShown
<1> QED BY <1>1, InitTInv, NextTInv, PTL DEF TermSpec
=============================================================================

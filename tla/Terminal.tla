------------------------------ MODULE Terminal ------------------------------
(***************************************************************************)
(* The terminal window of src/gui.c: the buffer that gui_term_putchar()    *)
(* fills and scrolls, the input line of the event loop, and the rows that  *)
(* gui_draw_terminal_content() draws.  A key handler, with the command it  *)
(* runs and all that prints, is a step.                                    *)
(***************************************************************************)
EXTENDS Integers, Sequences, SequencesExt, FiniteSets

CONSTANTS
    TERM_COLS, TERM_BUF_ROWS, TERM_INPUT_MAX,
    TAB,            \* distance of the tab stops, 4
    HEIGHT,         \* of the window, in pixels
    Glyphs,         \* printable characters
    Keys,           \* those that are typed
    Outputs,        \* what commands print
    Welcome,        \* what the event loop prints at its start
    MaxPrinted      \* bound: characters printed since the buffer was cleared

Printable == Glyphs \cup {"\n", "\t"}

\* The window has room for a row and for the input line under it.
ASSUME TerminalAssumption ==
    /\ {TERM_COLS, TERM_BUF_ROWS, TAB} \subseteq Nat \ {0}
    /\ HEIGHT \in Nat /\ HEIGHT >= 46
    /\ Glyphs \cap {"\n", "\t"} = {}
    /\ Keys \cup {">", " "} \subseteq Glyphs
    /\ Outputs \cup {Welcome} \subseteq Seq(Printable)

EMPTY == ""

Rows == 0 .. TERM_BUF_ROWS - 1
Cols == 0 .. TERM_COLS - 1

VARIABLES
    term,           \* [buf, row, col]: term_buf, term_cur_row, term_cur_col
    term_input,
    printed         \* history: what was printed since the buffer was cleared

termVars == <<term, term_input, printed>>

-----------------------------------------------------------------------------
(* A definition marked "bug:" is a variant a slip in the code would give; the runs *)
(* put it in the place of the definition after it to show that a property notices. *)

\* bug: the last row is not cleared.
ScrolledKeepingLast(t) ==
    IF t.row < TERM_BUF_ROWS THEN t
    ELSE [t EXCEPT !.row = TERM_BUF_ROWS - 1,
                   !.buf = [r \in Rows |-> IF r = TERM_BUF_ROWS - 1 THEN @[r] ELSE @[r + 1]]]
Scrolled(t) ==
    IF t.row < TERM_BUF_ROWS THEN t
    ELSE [t EXCEPT !.row = TERM_BUF_ROWS - 1,
                   !.buf = [r \in Rows |-> IF r = TERM_BUF_ROWS - 1 THEN [c \in Cols |-> EMPTY]
                                                                    ELSE @[r + 1]]]

NewLine(t) == [t EXCEPT !.row = @ + 1, !.col = 0]

Wrapped(t) == IF t.col >= TERM_COLS THEN NewLine(t) ELSE t

NextStop(col) == (col \div TAB + 1) * TAB

\* gui_term_putchar()
Put(t, c) ==
    Scrolled(CASE c = "\n" -> NewLine(t)
               [] c = "\t" -> Wrapped([t EXCEPT !.col = NextStop(@)])
               [] c \in Glyphs ->
                    LET place == Scrolled(Wrapped(t))
                    IN [place EXCEPT !.buf[place.row][place.col] = c, !.col = @ + 1]
               [] OTHER -> t)

Blank == [buf |-> [r \in Rows |-> [c \in Cols |-> EMPTY]], row |-> 0, col |-> 0]

PutAll(t, text) == FoldLeft(Put, t, text)

-----------------------------------------------------------------------------

TermInit == term = Blank /\ term_input = <<>> /\ printed = <<>>

\* gui_init() and the start of the event loop
Restart == term' = PutAll(Blank, Welcome) /\ printed' = Welcome /\ term_input' = <<>>

Type(c) ==
    /\ Len(term_input) < TERM_INPUT_MAX
    /\ term_input' = Append(term_input, c)
    /\ UNCHANGED <<term, printed>>

Backspace ==
    /\ term_input # <<>>
    /\ term_input' = Front(term_input)
    /\ UNCHANGED <<term, printed>>

\* The line is echoed, and the command prints.
Enter(output) ==
    LET text == <<">", " ">> \o term_input \o <<"\n">> \o output
    IN /\ Len(printed) + Len(text) <= MaxPrinted
       /\ term' = PutAll(term, text)
       /\ printed' = printed \o text
       /\ term_input' = <<>>

\* "clear"
EnterClear == term' = Blank /\ printed' = <<>> /\ term_input' = <<>>

TermNext ==
    \/ Restart
    \/ \E c \in Keys : Type(c)
    \/ Backspace
    \/ \E output \in Outputs : Enter(output)
    \/ EnterClear

TermSpec == TermInit /\ [][TermNext]_termVars

-----------------------------------------------------------------------------

\* Where the characters would be on paper that never ends: the place of each, and
\* where the next one goes.
NextPlace(place, c) ==
    LET stop == (place.col \div TAB) * TAB + TAB
    IN IF c = "\n" \/ (c = "\t" /\ stop >= TERM_COLS) THEN [row |-> place.row + 1, col |-> 0]
       ELSE IF c = "\t" THEN [place EXCEPT !.col = stop]
       ELSE IF place.col >= TERM_COLS THEN [row |-> place.row + 1, col |-> 1]
       ELSE [place EXCEPT !.col = @ + 1]

OnPaper ==
    LET after[i \in 0 .. Len(printed)] ==
          IF i = 0 THEN [row |-> 0, col |-> 0] ELSE NextPlace(after[i - 1], printed[i])
    IN after

\* The buffer shows the last rows of that paper, each character once and in its place,
\* through wraps, tabs and the scrolling in two places of gui_term_putchar().
ShowsTail ==
    LET end == OnPaper[Len(printed)]
        top == IF end.row < TERM_BUF_ROWS THEN 0 ELSE end.row - TERM_BUF_ROWS + 1
    IN /\ term.row = end.row - top
       /\ term.col = end.col
       /\ \A r \in Rows, c \in Cols :
             LET here == {i \in 1 .. Len(printed) :
                             printed[i] \in Glyphs /\ OnPaper[i] = [row |-> top + r, col |-> c + 1]}
             IN IF here = {} THEN term.buf[r][c] = EMPTY
                ELSE \E i \in here : here = {i} /\ term.buf[r][c] = printed[i]

-----------------------------------------------------------------------------
(* gui_draw_terminal_content(): rows of 9 pixels, the first 18 below the window's edge, *)
(* none in the last 2.                                                                   *)

MaxRows == (HEIGHT - 28) \div 9

\* bug: one row more.
FirstRowHigh == IF term.row - MaxRows + 1 < 0 THEN 0 ELSE term.row - MaxRows + 1
FirstRow == IF term.row - MaxRows + 2 < 0 THEN 0 ELSE term.row - MaxRows + 2

Fits(k) == 18 + 9 * k + 9 <= HEIGHT - 2
Drawn == {r \in FirstRow .. term.row : Fits(r - FirstRow)}

\* The row that is being written and the input line under it are always drawn.
InputLineShown == term.row \in Drawn /\ Fits(Cardinality(Drawn))
=============================================================================

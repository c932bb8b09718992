------------------------------ MODULE Console ------------------------------
(***************************************************************************)
(* The text screen of src/io.c and what is typed on it: print_char(),      *)
(* read_line() and read_line_masked(), used by login() of src/kernel.c and *)
(* run_shell() of src/shell.c.                                             *)
(***************************************************************************)
EXTENDS Integers, Sequences, SequencesExt

CONSTANTS
    SCREEN_COLS, SCREEN_ROWS,
    TABSTOP,        \* 8
    Chars,          \* printable characters, ">" and "*" among them
    Typed,          \* those on the keyboard that are typed
    MaxLen          \* by prompt: max_len of the buffer read into

ASSUME ConsoleAssumption ==
    /\ {SCREEN_COLS, SCREEN_ROWS, TABSTOP} \subseteq Nat \ {0}
    /\ TABSTOP <= SCREEN_COLS
    /\ Typed \subseteq Chars /\ {">", "*"} \subseteq Chars
    /\ Chars \cap {"\n", "\t", "BS"} = {}

SPACE == " "
BIOS == "bios"      \* what was on the screen when the system started
Size == SCREEN_COLS * SCREEN_ROWS

VARIABLES
    video_memory, cursor_pos,
    at,             \* the prompt: "username", "password" or "shell"
    reading,        \* whether read_line() or read_line_masked() runs
    line,           \* buffer[0 .. i - 1]
    before          \* history: the last character of the prompt

conVars == <<video_memory, cursor_pos, at, reading, line, before>>

Screen == [cells |-> video_memory, pos |-> cursor_pos]

-----------------------------------------------------------------------------
(* A definition marked "bug:" is a variant a slip in the code would give; the runs *)
(* put it in the place of the definition after it to show that a property notices. *)

\* The loop around scroll_screen(): one turn, as a character moves the cursor by a row
\* at most.
Rolled(s) ==
    IF s.pos < Size THEN s
    ELSE [pos |-> s.pos - SCREEN_COLS,
          cells |-> [p \in 0 .. Size - 1 |->
                       IF p + SCREEN_COLS < Size THEN s.cells[p + SCREEN_COLS] ELSE SPACE]]

\* print_char()
Shown(s, c) ==
    Rolled(CASE c = "\n" -> [s EXCEPT !.pos = @ + SCREEN_COLS - (@ % SCREEN_COLS)]
             [] c = "\t" -> [s EXCEPT !.pos = @ + TABSTOP - (@ % TABSTOP)]
             [] c = "BS" -> IF s.pos = 0 THEN s
                            ELSE [cells |-> [s.cells EXCEPT ![s.pos - 1] = SPACE], pos |-> s.pos - 1]
             [] c \in Chars -> [cells |-> [s.cells EXCEPT ![s.pos] = c], pos |-> s.pos + 1]
             [] OTHER -> s)

PrintChar(c) ==
    LET s == Shown(Screen, c) IN video_memory' = s.cells /\ cursor_pos' = s.pos

-----------------------------------------------------------------------------

ConInit ==
    /\ video_memory = [p \in 0 .. Size - 1 |-> BIOS]
    /\ cursor_pos = 0
    /\ at = "username"
    /\ reading = FALSE
    /\ line = <<>>
    /\ before = SPACE

\* What commands and login() print between two prompts.
Output(c) ==
    /\ ~reading
    /\ PrintChar(c)
    /\ UNCHANGED <<at, reading, line, before>>

\* "clear"
ClearScreen ==
    /\ ~reading /\ at = "shell"
    /\ video_memory' = [p \in 0 .. Size - 1 |-> SPACE]
    /\ cursor_pos' = 0
    /\ UNCHANGED <<at, reading, line, before>>

Prompt ==
    /\ ~reading
    /\ PrintChar(">")
    /\ reading' = TRUE
    /\ line' = <<>>
    /\ before' = ">"
    /\ UNCHANGED at

\* login() asks again until authenticate_user() agrees; the shell asks for ever.
Returned ==
    /\ reading' = FALSE
    /\ line' = <<>>
    /\ \/ at = "username" /\ at' = "password"
       \/ at = "password" /\ at' \in {"username", "shell"}
       \/ at = "shell" /\ UNCHANGED at

Echo(c) == IF at = "password" THEN "*" ELSE c

\* The loop goes on.
Room(n) == n < MaxLen[at] - 1

\* A line of max_len - 1 characters returns without its newline.
TypeChar(c) ==
    /\ reading
    /\ PrintChar(Echo(c))
    /\ IF Room(Len(line) + 1)
       THEN line' = Append(line, c) /\ UNCHANGED <<at, reading>>
       ELSE Returned
    /\ UNCHANGED before

TypeNewline ==
    /\ reading
    /\ PrintChar("\n")
    /\ Returned
    /\ UNCHANGED before

\* bug: an empty line is erased further.
TypeBackspaceAlways ==
    /\ reading
    /\ PrintChar("BS")
    /\ line' = IF line = <<>> THEN line ELSE Front(line)
    /\ UNCHANGED <<at, reading, before>>
TypeBackspace ==
    /\ reading
    /\ line # <<>>
    /\ PrintChar("BS")
    /\ line' = Front(line)
    /\ UNCHANGED <<at, reading, before>>

ConNext ==
    \/ \E c \in Chars \cup {"\n", "\t"} : Output(c)
    \/ ClearScreen
    \/ Prompt
    \/ \E c \in Typed : TypeChar(c)
    \/ TypeNewline
    \/ TypeBackspace

ConSpec == ConInit /\ [][ConNext]_conVars

-----------------------------------------------------------------------------

\* What was typed is what the screen shows, as stars for a password, between the prompt
\* and the cursor, and nothing that was erased or scrolled is left over behind it,
\* however often the line wrapped.
EchoMatchesLine ==
    reading =>
        LET start == cursor_pos - Len(line)
        IN /\ \A k \in 1 .. Len(line) : start + k - 1 >= 0 => video_memory[start + k - 1] = Echo(line[k])
           /\ start > 0 => video_memory[start - 1] = before
           /\ \A p \in cursor_pos .. Size - 1 : video_memory[p] \in {SPACE, BIOS}

=============================================================================

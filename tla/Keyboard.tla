------------------------------ MODULE Keyboard ------------------------------
(***************************************************************************)
(* The shift keys.  Two readers take scancodes from the same port and each *)
(* keeps its own shift_held: read_char() of src/io.c a static one, the     *)
(* desktop's event loop of src/gui.c a local one that starts at 0.  Neither *)
(* sees what the other read: the shell starts the desktop with "gui &", and *)
(* "edit" in the desktop's terminal reads lines with read_char(), which    *)
(* then takes the bytes of the mouse for scancodes as well.                *)
(***************************************************************************)
EXTENDS Integers, FiniteSets

ShiftKeys == {"left", "right"}
Readers == {"read_char", "desktop"}

VARIABLES
    down,           \* the shift keys that are held down
    reader,         \* who reads the port
    desktop_open,
    shift_held,     \* by reader
    knows,          \* history, by reader: it got the last shift code, or started with all up
    chord           \* history: both keys were down since all were up

kbdVars == <<down, reader, desktop_open, shift_held, knows, chord>>

KbdInit ==
    /\ down = {} /\ chord = FALSE
    /\ reader = "read_char" /\ desktop_open = FALSE
    /\ shift_held = [x \in Readers |-> FALSE]
    /\ knows = [x \in Readers |-> TRUE]

-----------------------------------------------------------------------------
(* A definition marked "bug:" is a variant a slip in the code would give; the runs *)
(* put it in the place of the definition after it to show that a property notices. *)

\* bug: the release of the right key, 0xB6, is not told from other releases.
ShiftAfterLeft(key, pressed) == IF pressed THEN TRUE ELSE shift_held[reader] /\ key # "left"
\* 0x2A, 0x36 and 0xAA, 0xB6
ShiftAfter(key, pressed) == pressed

Read(key, pressed) ==
    /\ shift_held' = [shift_held EXCEPT ![reader] = ShiftAfter(key, pressed)]
    /\ knows' = [x \in Readers |-> x = reader]
    /\ chord' = (down' # {} /\ (chord \/ down' = ShiftKeys))
    /\ UNCHANGED <<reader, desktop_open>>

\* A key that is held repeats its code.
PressKey(key) == down' = down \cup {key} /\ Read(key, TRUE)
ReleaseKey(key) == key \in down /\ down' = down \ {key} /\ Read(key, FALSE)

\* A byte of the mouse that has the value of a shift code.
MouseByte(key, pressed) ==
    /\ desktop_open /\ reader = "read_char"
    /\ shift_held' = [shift_held EXCEPT ![reader] = ShiftAfter(key, pressed)]
    /\ knows' = [knows EXCEPT ![reader] = FALSE]
    /\ UNCHANGED <<down, reader, desktop_open, chord>>

StartDesktop ==
    /\ ~desktop_open /\ desktop_open' = TRUE
    /\ reader' = "desktop"
    /\ shift_held' = [shift_held EXCEPT !["desktop"] = FALSE]
    /\ knows' = [knows EXCEPT !["desktop"] = (down = {})]
    /\ UNCHANGED <<down, chord>>

Edit ==
    /\ reader = "desktop" /\ reader' = "read_char"
    /\ UNCHANGED <<down, desktop_open, shift_held, knows, chord>>

EditReturns ==
    /\ desktop_open /\ reader = "read_char" /\ reader' = "desktop"
    /\ UNCHANGED <<down, desktop_open, shift_held, knows, chord>>

LeaveDesktop ==
    /\ reader = "desktop" /\ reader' = "read_char"
    /\ desktop_open' = FALSE
    /\ UNCHANGED <<down, shift_held, knows, chord>>

KbdNext ==
    \/ \E key \in ShiftKeys : PressKey(key) \/ ReleaseKey(key)
    \/ \E key \in ShiftKeys, pressed \in BOOLEAN : MouseByte(key, pressed)
    \/ StartDesktop \/ Edit \/ EditReturns \/ LeaveDesktop

KbdSpec == KbdInit /\ [][KbdNext]_kbdVars

-----------------------------------------------------------------------------

\* A reader that got the last shift code is right about the keys, however much it missed
\* before: it takes no letter for a shifted one with both keys up, and misses no shift but
\* after both were down at once.
ShiftIsHeld ==
    \A x \in Readers : knows[x] =>
        /\ shift_held[x] => down # {}
        /\ down # {} /\ ~chord => shift_held[x]
=============================================================================

---------------------------- MODULE MouseDecoder ----------------------------
(***************************************************************************)
(* input_poll() of src/io.c puts the mouse's bytes together, three to a    *)
(* packet.  The keyboard shares the port: while the desktop's terminal     *)
(* runs "edit", read_char() takes the mouse's bytes for scancodes, and     *)
(* they are lost to the packet.                                            *)
(***************************************************************************)
EXTENDS Integers

\* Bit 3 of a byte: always set in the first of a packet; in the other two, dx and dy,
\* it is set or not.
VARIABLES
    phase,          \* which byte of its packet the mouse sends next
    mouse_cycle,
    quiet           \* history: the bytes sent since a packet began without one lost or
                    \* one, after the first, with bit 3 set; -1 when there was such a byte

mouseVars == <<phase, mouse_cycle, quiet>>

MouseInit == phase = 0 /\ mouse_cycle = 0 /\ quiet = -1

-----------------------------------------------------------------------------
(* A definition marked "bug:" is a variant a slip in the code would give; the runs *)
(* put it in the place of the definition after it to show that a property notices. *)

\* bug: any byte starts a packet.
StartsAlways(bit) == TRUE
\* The test of the sync bit.
Starts(bit) == bit

Sent(bit) ==
    /\ phase' = (phase + 1) % 3
    /\ quiet' = IF phase = 0 THEN 1 ELSE IF quiet = phase /\ ~bit THEN quiet + 1 ELSE -1

\* input_poll() gets a byte of the mouse.
Poll(bit) ==
    /\ phase = 0 => bit
    /\ mouse_cycle' = IF mouse_cycle = 0 THEN (IF Starts(bit) THEN 1 ELSE 0)
                                         ELSE (mouse_cycle + 1) % 3
    /\ Sent(bit)

\* read_char() gets it.
Lost ==
    /\ phase' = (phase + 1) % 3
    /\ quiet' = -1
    /\ UNCHANGED mouse_cycle

\* mouse_init()
Reset == mouse_cycle' = 0 /\ UNCHANGED phase /\ quiet' = -1

MouseNext == (\E bit \in BOOLEAN : Poll(bit)) \/ Lost \/ Reset

MouseSpec == MouseInit /\ [][MouseNext]_mouseVars

-----------------------------------------------------------------------------

Aligned == mouse_cycle = phase

\* However many bytes were lost, one packet whose deltas both have bit 3 clear puts the
\* decoder in step with the mouse again: the windows get the buttons the mouse sent.  Such
\* is the packet of a click at rest, or of a move by 1 to 7; a delta of -1 has the bit set.
QuietPacketRealigns == quiet = 3 => Aligned
=============================================================================

----------------------------- MODULE MCDesktop -----------------------------
(* The six parts of the user's side, which share no state: each behaviour works one *)
(* of them.  The windows lie on a desktop of 3 by 3 cells; the screens have two or   *)
(* three rows of three cells.                                                        *)
EXTENDS Windows, Terminal, Console, MouseDecoder, Keyboard, MCSha3

VARIABLE part
allVars == <<winVars, termVars, conVars, mouseVars, kbdVars, hashVars, part>>

MCLayout == <<[x |-> 0, y |-> 0, w |-> 2, h |-> 2],
              [x |-> 1, y |-> 0, w |-> 2, h |-> 3],
              [x |-> 0, y |-> 1, w |-> 3, h |-> 2]>>
MCExitButton == [left |-> 2, right |-> 3, top |-> 3, bottom |-> 4]
MCMoves == {<<0, 1>>, <<0, -1>>, <<1, 0>>, <<-1, 0>>}

MCOutputs == {<<>>, <<"\t", "a">>, <<"a", "b", "a", "b", "\n">>}
MCWelcome == <<"b", "\n">>
MCMaxLen == [p \in {"username", "password", "shell"} |-> IF p = "shell" THEN 6 ELSE 3]

DesktopInit ==
    /\ WinInit /\ TermInit /\ ConInit /\ MouseInit /\ KbdInit /\ HashInit
    /\ part \in {"windows", "terminal", "console", "mouse", "keyboard", "password"}
    /\ part # "password" => build = "masked"

DesktopNext ==
    \/ part = "windows" /\ WinNext
       /\ UNCHANGED <<termVars, conVars, mouseVars, kbdVars, hashVars, part>>
    \/ part = "terminal" /\ TermNext
       /\ UNCHANGED <<winVars, conVars, mouseVars, kbdVars, hashVars, part>>
    \/ part = "console" /\ ConNext
       /\ UNCHANGED <<winVars, termVars, mouseVars, kbdVars, hashVars, part>>
    \/ part = "mouse" /\ MouseNext
       /\ UNCHANGED <<winVars, termVars, conVars, kbdVars, hashVars, part>>
    \/ part = "keyboard" /\ KbdNext
       /\ UNCHANGED <<winVars, termVars, conVars, mouseVars, hashVars, part>>
    \/ part = "password" /\ HashNext
       /\ UNCHANGED <<winVars, termVars, conVars, mouseVars, kbdVars, part>>

DesktopSpec == DesktopInit /\ [][DesktopNext]_allVars
=============================================================================

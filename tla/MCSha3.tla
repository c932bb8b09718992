------------------------------- MODULE MCSha3 -------------------------------
(* What is hashed: the passwords of the login, and messages around the length of a  *)
(* block, whose padding takes one byte or a block of its own.                       *)
EXTENDS Sha3

MCAdminPass == <<{0, 1, 4, 5, 6}, {0, 1, 3, 5, 6}, {0, 3, 4, 5, 6},
                 {1, 2, 3, 5, 6}, {0, 2, 5, 6}, {2, 4, 5, 6}>>      \* skynet
MCPasswords == {MCAdminPass, <<>>}

Ones(n) == [i \in 1 .. n |-> {i % 8}]
MCMessages == {Ones(135), Ones(136)}
=============================================================================

------------------------------- MODULE Keccak -------------------------------
(***************************************************************************)
(* SHA-3 256 as FIPS 202 states it, on bits A[x, y, z]: a lane A[x, y] is  *)
(* the set of the z at which it is 1.  The round constants come from the   *)
(* shift register and the rotation offsets from the walk of the standard,  *)
(* not from tables.                                                        *)
(*                                                                         *)
(* An implementation may differ in what it states: what rho makes of the   *)
(* lanes in FreeLanes is open, a lane is rotated by OffsetSlip more than   *)
(* the standard says, and the bits in ConstantSlip of a round's constant   *)
(* are flipped.  With no free lane and no slip this is the standard.       *)
(***************************************************************************)
EXTENDS Integers, Sequences, FiniteSets

RATE == 136         \* bytes of a block

CONSTANTS FreeLanes, OffsetSlip, ConstantSlip

VARIABLES
    A,
    step,
    round,
    message,    \* bytes, each the set of its bits that are 1
    blocks,     \* of the padded message, absorbed so far
    digest      \* the set of the bits that are 1, {} when there is none

vars == <<A, step, round, message, blocks, digest>>

Z == 0 .. 63
Sheet == 0 .. 4
Odd(S) == Cardinality(S) % 2 = 1

\* M || 01 || pad10*1, as the set of the positions that are 1
Blocks(m) == Len(m) \div RATE + 1
PaddedBits(m) ==
    (UNION {{8 * (i - 1) + b : b \in m[i]} : i \in DOMAIN m})
        \cup {8 * Len(m) + 1, 8 * Len(m) + 2, 8 * RATE * Blocks(m) - 1}
Block(m, n) == {p - 8 * RATE * n : p \in PaddedBits(m)} \cap 0 .. 8 * RATE - 1

walk[t \in 0 .. 23] ==
    IF t = 0 THEN <<1, 0>>
    ELSE LET c == walk[t - 1] IN <<c[2], (2 * c[1] + 3 * c[2]) % 5>>
Offset == [c \in Sheet \X Sheet |->
              IF c = <<0, 0>> THEN 0
              ELSE LET t == CHOOSE t \in 0 .. 23 : walk[t] = c
                   IN ((t + 1) * (t + 2)) \div 2 % 64]

Shifted(R) == IF 7 \in R THEN ({i + 1 : i \in R} \ {8, 4, 5, 6}) \cup {0}
                              \cup ({4, 5, 6} \ {i + 1 : i \in R})
              ELSE {i + 1 : i \in R}
register[t \in 0 .. 254] == IF t = 0 THEN {0} ELSE Shifted(register[t - 1])
RC(n) == {2 ^ j - 1 : j \in {k \in 0 .. 6 : 0 \in register[k + 7 * n]}}

-----------------------------------------------------------------------------
Init ==
    /\ A = [c \in Sheet \X Sheet |-> {}]
    /\ step = "none" /\ round = 0 /\ message = <<>> /\ blocks = 0 /\ digest = {}

Begin ==
    /\ step = "none" /\ step' = "absorb"
    /\ A' = [c \in Sheet \X Sheet |-> {}]
    /\ message' \in Seq(SUBSET (0 .. 7))
    /\ blocks' = 0 /\ round' = 0 /\ digest' = {}

Absorb ==
    /\ step = "absorb" /\ step' = "theta" /\ round' = 0
    /\ LET block == Block(message, blocks)
       IN A' = [c \in Sheet \X Sheet |->
                   {z \in Z : (z \in A[c]) # (64 * (5 * c[2] + c[1]) + z \in block)}]
    /\ blocks' = blocks + 1
    /\ UNCHANGED <<message, digest>>

Theta ==
    /\ step = "theta" /\ step' = "rhopi"
    /\ LET C == {xz \in Sheet \X Z : Odd({y \in Sheet : xz[2] \in A[xz[1], y]})}
       IN A' = [c \in Sheet \X Sheet |->
                   {z \in Z : (z \in A[c]) # ((<<(c[1] + 4) % 5, z>> \in C) #
                                               (<<(c[1] + 1) % 5, (z + 63) % 64>> \in C))}]
    /\ UNCHANGED <<round, message, blocks, digest>>

RhoPi ==
    /\ step = "rhopi" /\ step' = "chi"
    /\ A' \in [Sheet \X Sheet -> SUBSET Z]
    /\ \A x, y \in Sheet : <<x, y>> \notin FreeLanes =>
          A'[y, (2 * x + 3 * y) % 5] =
              {(z + (Offset[x, y] + OffsetSlip[x, y])) % 64 : z \in A[x, y]}
    /\ UNCHANGED <<round, message, blocks, digest>>

Chi ==
    /\ step = "chi" /\ step' = "iota"
    /\ A' = [c \in Sheet \X Sheet |->
                {z \in Z : (z \in A[c]) # (/\ z \notin A[(c[1] + 1) % 5, c[2]]
                                           /\ z \in A[(c[1] + 2) % 5, c[2]])}]
    /\ UNCHANGED <<round, message, blocks, digest>>

Iota ==
    /\ step = "iota"
    /\ A' \in [Sheet \X Sheet -> SUBSET Z]
    /\ \A c \in Sheet \X Sheet : c # <<0, 0>> => A'[c] = A[c]
    /\ LET constant == RC(round)
       IN A'[0, 0] = {z \in Z : (z \in A[0, 0]) # ((z \in constant) # (z \in ConstantSlip[round]))}
    /\ IF round < 23 THEN step' = "theta" /\ round' = round + 1
       ELSE /\ step' = IF blocks < Blocks(message) THEN "absorb" ELSE "squeeze"
            /\ UNCHANGED round
    /\ UNCHANGED <<message, blocks, digest>>

Squeeze ==
    /\ step = "squeeze" /\ step' = "none"
    /\ digest' = UNION {{64 * x + z : z \in A[x, 0]} : x \in 0 .. 3}
    /\ message' = <<>> /\ blocks' = 0 /\ round' = 0
    /\ UNCHANGED A

\* The caller drops the digest.
Forget == step = "none" /\ digest' = {} /\ UNCHANGED <<A, step, round, message, blocks>>

Next == Begin \/ Absorb \/ Theta \/ RhoPi \/ Chi \/ Iota \/ Squeeze \/ Forget

Spec == Init /\ [][Next]_vars
=============================================================================

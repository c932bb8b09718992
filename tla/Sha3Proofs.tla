---------------------------- MODULE Sha3Proofs ----------------------------
(***************************************************************************)
(* sha3_256() against FIPS 202, for messages of any length and content.    *)
(***************************************************************************)
EXTENDS Sha3, FiniteSetTheorems, SequenceTheorems, WellFoundedInduction, TLAPS

-----------------------------------------------------------------------------
(* The tables of the standard. *)

Less == {p \in Nat \X Nat : p[1] < p[2]}

LEMMA LeastNumber ==
    ASSUME NEW T, T \subseteq Nat, T # {}
    PROVE  \E x \in T : \A y \in T : x <= y
<1>1. IsWellFoundedOn(Less, Nat)
  <2>1. OpToRel(<, Nat) = Less
    BY DEF OpToRel, Less
  <2> QED BY <2>1, NatLessThanWellFounded
<1>2. PICK x \in T : \A y \in T : ~(<<y, x>> \in Less)
  BY <1>1, WFMin
<1>3. \A y \in T : <<y, x>> \in Nat \X Nat /\ x \in Nat /\ y \in Nat
  OBVIOUS
<1>4. \A y \in T : ~(y < x)
  BY <1>2, <1>3 DEF Less
<1> QED BY <1>3, <1>4

\* The lanes in the order of the walk.
Turns == <<<<1, 0>>, <<0, 2>>, <<2, 1>>, <<1, 2>>, <<2, 3>>, <<3, 3>>, <<3, 0>>, <<0, 1>>,
           <<1, 3>>, <<3, 1>>, <<1, 4>>, <<4, 4>>, <<4, 0>>, <<0, 3>>, <<3, 4>>, <<4, 3>>,
           <<3, 2>>, <<2, 2>>, <<2, 0>>, <<0, 4>>, <<4, 2>>, <<2, 4>>, <<4, 1>>, <<1, 1>>>>

IsWalk(f) ==
    f = [t \in 0 .. 23 |-> IF t = 0 THEN <<1, 0>>
                           ELSE <<f[t - 1][2], (2 * f[t - 1][1] + 3 * f[t - 1][2]) % 5>>]

LEMMA TurnsFollow ==
    \A t \in 1 .. 23 : Turns[t + 1] = <<Turns[t][2], (2 * Turns[t][1] + 3 * Turns[t][2]) % 5>>
BY DEF Turns

LEMMA WalkTurns == \A t \in 0 .. 23 : Sponge!walk[t] = Turns[t + 1]
<1>1. PICK turns : turns = [t \in 0 .. 23 |-> Turns[t + 1]]
  OBVIOUS
<1>2. IsWalk(turns)
  <2>1. Turns[1] = <<1, 0>>
    BY DEF Turns
  <2>2. \A t \in 0 .. 23 : t # 0 => turns[t - 1] = Turns[t] /\ t \in 1 .. 23
    BY <1>1
  <2> QED BY <1>1, <2>1, <2>2, TurnsFollow DEF IsWalk
<1>3. PICK walk : walk = Sponge!walk
  OBVIOUS
<1>4. walk = CHOOSE f : IsWalk(f)
  BY <1>3 DEF Sponge!walk, IsWalk
<1>5. IsWalk(walk)
  BY <1>2, <1>4
<1>6. \A t \in 0 .. 23 : walk[t] = IF t = 0 THEN <<1, 0>>
          ELSE <<walk[t - 1][2], (2 * walk[t - 1][1] + 3 * walk[t - 1][2]) % 5>>
  BY <1>5 DEF IsWalk
<1> DEFINE Wrong == {t \in 0 .. 23 : walk[t] # Turns[t + 1]}
<1>7. ASSUME Wrong # {} PROVE FALSE
  <2>1. PICK t \in Wrong : \A s \in Wrong : t <= s
    <3>1. Wrong \subseteq Nat
      OBVIOUS
    <3> HIDE DEF Wrong
    <3> QED BY <1>7, <3>1, LeastNumber
  <2>2. t # 0
    <3>1. Turns[1] = <<1, 0>>
      BY DEF Turns
    <3> QED BY <1>6, <2>1, <3>1
  <2>3. t \in 1 .. 23 /\ t - 1 \in 0 .. 23 /\ t - 1 \notin Wrong
    BY <2>1, <2>2
  <2>4. walk[t - 1] = Turns[t]
    BY <2>3
  <2>5. walk[t] = Turns[t + 1]
    BY <1>6, <2>2, <2>3, <2>4, TurnsFollow
  <2> QED BY <2>1, <2>5
<1> QED BY <1>3, <1>7

IsRegister(f, n) ==
    f = [t \in 0 .. n |-> IF t = 0 THEN {0} ELSE Sponge!Shifted(f[t - 1])]

LEMMA RegisterExists == \A n \in 0 .. 254 : \E f : IsRegister(f, n)
<1> DEFINE Wrong == {n \in 0 .. 254 : ~\E f : IsRegister(f, n)}
<1>1. ASSUME Wrong # {} PROVE FALSE
  <2>1. PICK n \in Wrong : \A m \in Wrong : n <= m
    <3>1. Wrong \subseteq Nat
      OBVIOUS
    <3> HIDE DEF Wrong
    <3> QED BY <1>1, <3>1, LeastNumber
  <2>2. CASE n = 0
    <3>1. PICK f : f = [t \in 0 .. 0 |-> {0}]
      OBVIOUS
    <3>2. IsRegister(f, 0)
      BY <3>1 DEF IsRegister
    <3> QED BY <2>1, <2>2, <3>2
  <2>3. CASE n # 0
    <3>1. n - 1 \in 0 .. 254 /\ n - 1 \notin Wrong
      BY <2>1, <2>3
    <3>2. PICK f : IsRegister(f, n - 1)
      BY <3>1
    <3>3. PICK g : g = [t \in 0 .. n |-> IF t < n THEN f[t] ELSE Sponge!Shifted(f[n - 1])]
      OBVIOUS
    <3>4. n \in 1 .. 254
      BY <2>1, <2>3
    <3>5. \A t \in 0 .. n - 1 : f[t] = IF t = 0 THEN {0} ELSE Sponge!Shifted(f[t - 1])
      BY <3>2 DEF IsRegister
    <3>6. ASSUME NEW t \in 0 .. n
          PROVE  g[t] = IF t = 0 THEN {0} ELSE Sponge!Shifted(g[t - 1])
      <4>1. CASE t < n
        <5>1. g[t] = f[t] /\ (t # 0 => g[t - 1] = f[t - 1])
          BY <3>3, <3>4, <4>1
        <5> QED BY <3>4, <3>5, <4>1, <5>1
      <4>2. CASE t = n
        <5>1. g[t] = Sponge!Shifted(f[n - 1]) /\ g[n - 1] = f[n - 1] /\ t # 0
          BY <3>3, <3>4, <4>2
        <5> QED BY <4>2, <5>1
      <4> QED BY <3>4, <4>1, <4>2
    <3>7. IsRegister(g, n)
      BY <3>3, <3>6 DEF IsRegister
    <3> QED BY <2>1, <3>7
  <2> QED BY <2>2, <2>3
<1> QED BY <1>1

LEMMA RegisterIs ==
    /\ Sponge!register[0] = {0}
    /\ \A t \in 1 .. 254 : Sponge!register[t] = Sponge!Shifted(Sponge!register[t - 1])
<1>1. PICK f : f = Sponge!register
  OBVIOUS
<1>2. f = CHOOSE g : IsRegister(g, 254)
  BY <1>1 DEF Sponge!register, IsRegister
<1>3. \E g : IsRegister(g, 254)
  BY RegisterExists
<1>4. IsRegister(f, 254)
  BY <1>2, <1>3
<1>5. \A t \in 0 .. 254 : f[t] = IF t = 0 THEN {0} ELSE Sponge!Shifted(f[t - 1])
  BY <1>4 DEF IsRegister
<1> QED BY <1>1, <1>5

LEMMA ShiftedBits ==
    ASSUME NEW R \in SUBSET (0 .. 7)
    PROVE  LET N == Sponge!Shifted(R)
           IN /\ N \subseteq 0 .. 7
              /\ 0 \in N <=> 7 \in R
              /\ 1 \in N <=> 0 \in R
              /\ 2 \in N <=> 1 \in R
              /\ 3 \in N <=> 2 \in R
              /\ 4 \in N <=> ((3 \in R) # (7 \in R))
              /\ 5 \in N <=> ((4 \in R) # (7 \in R))
              /\ 6 \in N <=> ((5 \in R) # (7 \in R))
              /\ 7 \in N <=> 6 \in R
BY DEF Sponge!Shifted

\* What seven shifts put out, at the places 2^0 - 1 to 2^6 - 1 of a constant, and leave.
PutOut(R) ==
    {z \in {0, 1, 3, 7, 15, 31, 63} :
        \/ z = 0 /\ 0 \in R
        \/ z = 1 /\ 7 \in R
        \/ z = 3 /\ 6 \in R
        \/ z = 7 /\ ((5 \in R) # (7 \in R))
        \/ z = 15 /\ (((4 \in R) # (6 \in R)) # (7 \in R))
        \/ z = 31 /\ (((3 \in R) # (5 \in R)) # (6 \in R))
        \/ z = 63 /\ (((2 \in R) # (4 \in R)) # (5 \in R))}

SevenOn(R) ==
    {i \in 0 .. 7 :
        \/ i = 0 /\ (((1 \in R) # (3 \in R)) # (4 \in R))
        \/ i = 1 /\ (((2 \in R) # (4 \in R)) # (5 \in R))
        \/ i = 2 /\ (((3 \in R) # (5 \in R)) # (6 \in R))
        \/ i = 3 /\ (((4 \in R) # (6 \in R)) # (7 \in R))
        \/ i = 4 /\ (((((1 \in R) # (3 \in R)) # (4 \in R)) # (5 \in R)) # (7 \in R))
        \/ i = 5 /\ (((((1 \in R) # (2 \in R)) # (3 \in R)) # (5 \in R)) # (6 \in R))
        \/ i = 6 /\ ((((1 \in R) # (2 \in R)) # (6 \in R)) # (7 \in R))
        \/ i = 7 /\ ((((0 \in R) # (2 \in R)) # (3 \in R)) # (7 \in R))}

LEMMA SevenShifts ==
    ASSUME NEW R0 \in SUBSET (0 .. 7), NEW R1, NEW R2, NEW R3, NEW R4, NEW R5, NEW R6, NEW R7,
           R1 = Sponge!Shifted(R0), R2 = Sponge!Shifted(R1), R3 = Sponge!Shifted(R2),
           R4 = Sponge!Shifted(R3), R5 = Sponge!Shifted(R4), R6 = Sponge!Shifted(R5),
           R7 = Sponge!Shifted(R6)
    PROVE  /\ R7 = SevenOn(R0)
           /\ \A z \in {0, 1, 3, 7, 15, 31, 63} : z \in PutOut(R0) <=>
                \/ z = 0 /\ 0 \in R0
                \/ z = 1 /\ 0 \in R1
                \/ z = 3 /\ 0 \in R2
                \/ z = 7 /\ 0 \in R3
                \/ z = 15 /\ 0 \in R4
                \/ z = 31 /\ 0 \in R5
                \/ z = 63 /\ 0 \in R6
<1>1. /\ R1 \in SUBSET (0 .. 7) /\ R2 \in SUBSET (0 .. 7) /\ R3 \in SUBSET (0 .. 7)
      /\ R4 \in SUBSET (0 .. 7) /\ R5 \in SUBSET (0 .. 7) /\ R6 \in SUBSET (0 .. 7)
      /\ R7 \in SUBSET (0 .. 7)
  BY ShiftedBits
<1> DEFINE Steps(R, N) == /\ 0 \in N <=> 7 \in R
                          /\ 1 \in N <=> 0 \in R
                          /\ 2 \in N <=> 1 \in R
                          /\ 3 \in N <=> 2 \in R
                          /\ 4 \in N <=> ((3 \in R) # (7 \in R))
                          /\ 5 \in N <=> ((4 \in R) # (7 \in R))
                          /\ 6 \in N <=> ((5 \in R) # (7 \in R))
                          /\ 7 \in N <=> 6 \in R
<1>2. /\ Steps(R0, R1) /\ Steps(R1, R2) /\ Steps(R2, R3) /\ Steps(R3, R4)
      /\ Steps(R4, R5) /\ Steps(R5, R6) /\ Steps(R6, R7)
  BY <1>1, ShiftedBits
<1>3. \A i \in 0 .. 7 : i \in R7 <=> i \in SevenOn(R0)
  BY <1>2 DEF SevenOn
<1>4. R7 = SevenOn(R0)
  <2>1. SevenOn(R0) \subseteq 0 .. 7
    BY DEF SevenOn
  <2> QED BY <1>1, <1>3, <2>1
<1>5. \A z \in {0, 1, 3, 7, 15, 31, 63} : z \in PutOut(R0) <=>
                \/ z = 0 /\ 0 \in R0
                \/ z = 1 /\ 0 \in R1
                \/ z = 3 /\ 0 \in R2
                \/ z = 7 /\ 0 \in R3
                \/ z = 15 /\ 0 \in R4
                \/ z = 31 /\ 0 \in R5
                \/ z = 63 /\ 0 \in R6
  BY <1>2 DEF PutOut
<1> QED BY <1>4, <1>5

LEMMA NextRow ==
    ASSUME NEW n \in 0 .. 23, Sponge!register[7 * n] \in SUBSET (0 .. 7)
    PROVE  /\ Sponge!RC(n) = PutOut(Sponge!register[7 * n])
           /\ Sponge!register[7 * n + 7] = SevenOn(Sponge!register[7 * n])
<1>1. PICK f : f = Sponge!register
  OBVIOUS
<1>2. PICK b \in Nat : b = 7 * n /\ b <= 161
  OBVIOUS
<1>3. \A k \in 1 .. 7 : f[b + k] = Sponge!Shifted(f[(b + k) - 1])
  BY <1>1, <1>2, RegisterIs
<1>4. /\ f[b + 1] = Sponge!Shifted(f[b]) /\ f[b + 2] = Sponge!Shifted(f[b + 1])
      /\ f[b + 3] = Sponge!Shifted(f[b + 2]) /\ f[b + 4] = Sponge!Shifted(f[b + 3])
      /\ f[b + 5] = Sponge!Shifted(f[b + 4]) /\ f[b + 6] = Sponge!Shifted(f[b + 5])
      /\ f[b + 7] = Sponge!Shifted(f[b + 6])
  BY <1>2, <1>3
<1>5. /\ f[b + 7] = SevenOn(f[b])
      /\ \A z \in {0, 1, 3, 7, 15, 31, 63} : z \in PutOut(f[b]) <=>
                \/ z = 0 /\ 0 \in f[b]
                \/ z = 1 /\ 0 \in f[b + 1]
                \/ z = 3 /\ 0 \in f[b + 2]
                \/ z = 7 /\ 0 \in f[b + 3]
                \/ z = 15 /\ 0 \in f[b + 4]
                \/ z = 31 /\ 0 \in f[b + 5]
                \/ z = 63 /\ 0 \in f[b + 6]
  <2>1. f[b] \in SUBSET (0 .. 7)
    BY <1>1, <1>2
  <2> QED BY <1>4, <2>1, SevenShifts
<1>6. PICK out : out = {k \in 0 .. 6 : 0 \in f[k + b]}
  OBVIOUS
<1>7. Sponge!RC(n) = {2 ^ j - 1 : j \in out}
  BY <1>1, <1>2, <1>6 DEF Sponge!RC
<1>8. \A z : z \in Sponge!RC(n) <=> z \in PutOut(f[b])
  <2>1. /\ 2 ^ 0 - 1 = 0 /\ 2 ^ 1 - 1 = 1 /\ 2 ^ 2 - 1 = 3 /\ 2 ^ 3 - 1 = 7
        /\ 2 ^ 4 - 1 = 15 /\ 2 ^ 5 - 1 = 31 /\ 2 ^ 6 - 1 = 63
    OBVIOUS
  <2>2. /\ 0 \in out <=> 0 \in f[b]
        /\ 1 \in out <=> 0 \in f[b + 1]
        /\ 2 \in out <=> 0 \in f[b + 2]
        /\ 3 \in out <=> 0 \in f[b + 3]
        /\ 4 \in out <=> 0 \in f[b + 4]
        /\ 5 \in out <=> 0 \in f[b + 5]
        /\ 6 \in out <=> 0 \in f[b + 6]
        /\ out \subseteq 0 .. 6
    BY <1>2, <1>6
  <2>3. \A z : z \in Sponge!RC(n) <=>
          \/ z = 0 /\ 0 \in out
          \/ z = 1 /\ 1 \in out
          \/ z = 3 /\ 2 \in out
          \/ z = 7 /\ 3 \in out
          \/ z = 15 /\ 4 \in out
          \/ z = 31 /\ 5 \in out
          \/ z = 63 /\ 6 \in out
    <3>1. PICK place : place = [j \in 0 .. 6 |-> 2 ^ j - 1]
      OBVIOUS
    <3>2. /\ place[0] = 0 /\ place[1] = 1 /\ place[2] = 3 /\ place[3] = 7
          /\ place[4] = 15 /\ place[5] = 31 /\ place[6] = 63
      BY <2>1, <3>1
    <3>3. Sponge!RC(n) = {place[j] : j \in out}
      BY <1>7, <2>2, <3>1
    <3>4. \A j : j \in out => j = 0 \/ j = 1 \/ j = 2 \/ j = 3 \/ j = 4 \/ j = 5 \/ j = 6
      BY <2>2
    <3> QED BY <3>2, <3>3, <3>4
  <2>4. PutOut(f[b]) \subseteq {0, 1, 3, 7, 15, 31, 63}
    BY DEF PutOut
  <2> QED BY <1>5, <2>2, <2>3, <2>4
<1> QED BY <1>1, <1>2, <1>5, <1>8

\* One row of the table of constants: what is in the register, and what seven shifts put out.
RowIs(n, R, constant) == Sponge!register[7 * n] = R /\ Sponge!RC(n) = constant

LEMMA RowStep ==
    ASSUME NEW n \in 0 .. 22, NEW R, NEW constant, RowIs(n, R, constant), R \in SUBSET (0 .. 7)
    PROVE  RowIs(n + 1, SevenOn(R), PutOut(SevenOn(R)))
<1>1. Sponge!register[7 * (n + 1)] = SevenOn(R)
  <2>1. Sponge!register[7 * n] = R
    BY DEF RowIs
  <2>2. n \in 0 .. 23 /\ Sponge!register[7 * n] \in SUBSET (0 .. 7)
    BY <2>1
  <2>3. Sponge!register[7 * n + 7] = SevenOn(Sponge!register[7 * n])
    BY <2>2, NextRow
  <2>4. PICK b : b = 7 * n + 7
    OBVIOUS
  <2>5. b = 7 * (n + 1)
    BY <2>4
  <2> QED BY <2>1, <2>3, <2>4, <2>5
<1>2. SevenOn(R) \in SUBSET (0 .. 7)
  BY DEF SevenOn
<1> QED BY <1>1, <1>2, NextRow DEF RowIs

\* The constants of the standard, round by round.
LEMMA Constants ==
    /\ RowIs(0, {0}, {0})
    /\ RowIs(1, {7}, {1, 7, 15})
    /\ RowIs(2, {3, 4, 6, 7}, {1, 3, 7, 15, 63})
    /\ RowIs(3, {1, 3, 4}, {15, 31, 63})
    /\ RowIs(4, {0, 1, 2, 3, 4, 6, 7}, {0, 1, 3, 7, 15})
    /\ RowIs(5, {0, 3}, {0, 31})
    /\ RowIs(6, {0, 2, 4, 5}, {0, 7, 15, 31, 63})
    /\ RowIs(7, {0, 1, 2, 3, 6}, {0, 3, 15, 63})
    /\ RowIs(8, {1, 3, 6, 7}, {1, 3, 7})
    /\ RowIs(9, {4, 5, 6}, {3, 7})
    /\ RowIs(10, {0, 6}, {0, 3, 15, 31})
    /\ RowIs(11, {2, 3, 5, 6, 7}, {1, 3, 31})
    /\ RowIs(12, {0, 2, 4, 6, 7}, {0, 1, 3, 7, 15, 31})
    /\ RowIs(13, {0, 2, 3, 6, 7}, {0, 1, 3, 7, 63})
    /\ RowIs(14, {0, 1, 5, 6}, {0, 3, 7, 15, 63})
    /\ RowIs(15, {0, 1, 3, 5, 7}, {0, 1, 15, 63})
    /\ RowIs(16, {1, 3, 5, 7}, {1, 15, 63})
    /\ RowIs(17, {1, 3, 5}, {7, 63})
    /\ RowIs(18, {1, 4, 5, 6, 7}, {1, 3, 15})
    /\ RowIs(19, {3, 5, 6, 7}, {1, 3, 31, 63})
    /\ RowIs(20, {0, 1, 2, 4, 5}, {0, 7, 15, 31, 63})
    /\ RowIs(21, {1, 2, 3, 4, 5}, {7, 15, 63})
    /\ RowIs(22, {0, 1, 3}, {0, 31})
    /\ RowIs(23, {2, 6}, {3, 15, 31, 63})
<1>0. RowIs(0, {0}, {0})
  <2>1. PutOut({0}) = {0}
    BY DEF PutOut
  <2> QED BY <2>1, RegisterIs, NextRow DEF RowIs
<1>1. RowIs(1, {7}, {1, 7, 15})
  <2>1. SevenOn({0}) = {7} /\ PutOut({7}) = {1, 7, 15}
    BY DEF SevenOn, PutOut
  <2> QED BY <1>0, <2>1, RowStep
<1>2. RowIs(2, {3, 4, 6, 7}, {1, 3, 7, 15, 63})
  <2>1. SevenOn({7}) = {3, 4, 6, 7} /\ PutOut({3, 4, 6, 7}) = {1, 3, 7, 15, 63}
    BY DEF SevenOn, PutOut
  <2> QED BY <1>1, <2>1, RowStep
<1>3. RowIs(3, {1, 3, 4}, {15, 31, 63})
  <2>1. SevenOn({3, 4, 6, 7}) = {1, 3, 4} /\ PutOut({1, 3, 4}) = {15, 31, 63}
    BY DEF SevenOn, PutOut
  <2> QED BY <1>2, <2>1, RowStep
<1>4. RowIs(4, {0, 1, 2, 3, 4, 6, 7}, {0, 1, 3, 7, 15})
  <2>1. /\ SevenOn({1, 3, 4}) = {0, 1, 2, 3, 4, 6, 7}
        /\ PutOut({0, 1, 2, 3, 4, 6, 7}) = {0, 1, 3, 7, 15}
    BY DEF SevenOn, PutOut
  <2> QED BY <1>3, <2>1, RowStep
<1>5. RowIs(5, {0, 3}, {0, 31})
  <2>1. SevenOn({0, 1, 2, 3, 4, 6, 7}) = {0, 3} /\ PutOut({0, 3}) = {0, 31}
    BY DEF SevenOn, PutOut
  <2> QED BY <1>4, <2>1, RowStep
<1>6. RowIs(6, {0, 2, 4, 5}, {0, 7, 15, 31, 63})
  <2>1. SevenOn({0, 3}) = {0, 2, 4, 5} /\ PutOut({0, 2, 4, 5}) = {0, 7, 15, 31, 63}
    BY DEF SevenOn, PutOut
  <2> QED BY <1>5, <2>1, RowStep
<1>7. RowIs(7, {0, 1, 2, 3, 6}, {0, 3, 15, 63})
  <2>1. SevenOn({0, 2, 4, 5}) = {0, 1, 2, 3, 6} /\ PutOut({0, 1, 2, 3, 6}) = {0, 3, 15, 63}
    BY DEF SevenOn, PutOut
  <2> QED BY <1>6, <2>1, RowStep
<1>8. RowIs(8, {1, 3, 6, 7}, {1, 3, 7})
  <2>1. SevenOn({0, 1, 2, 3, 6}) = {1, 3, 6, 7} /\ PutOut({1, 3, 6, 7}) = {1, 3, 7}
    BY DEF SevenOn, PutOut
  <2> QED BY <1>7, <2>1, RowStep
<1>9. RowIs(9, {4, 5, 6}, {3, 7})
  <2>1. SevenOn({1, 3, 6, 7}) = {4, 5, 6} /\ PutOut({4, 5, 6}) = {3, 7}
    BY DEF SevenOn, PutOut
  <2> QED BY <1>8, <2>1, RowStep
<1>10. RowIs(10, {0, 6}, {0, 3, 15, 31})
  <2>1. SevenOn({4, 5, 6}) = {0, 6} /\ PutOut({0, 6}) = {0, 3, 15, 31}
    BY DEF SevenOn, PutOut
  <2> QED BY <1>9, <2>1, RowStep
<1>11. RowIs(11, {2, 3, 5, 6, 7}, {1, 3, 31})
  <2>1. SevenOn({0, 6}) = {2, 3, 5, 6, 7} /\ PutOut({2, 3, 5, 6, 7}) = {1, 3, 31}
    BY DEF SevenOn, PutOut
  <2> QED BY <1>10, <2>1, RowStep
<1>12. RowIs(12, {0, 2, 4, 6, 7}, {0, 1, 3, 7, 15, 31})
  <2>1. SevenOn({2, 3, 5, 6, 7}) = {0, 2, 4, 6, 7} /\ PutOut({0, 2, 4, 6, 7}) = {0, 1, 3, 7, 15, 31}
    BY DEF SevenOn, PutOut
  <2> QED BY <1>11, <2>1, RowStep
<1>13. RowIs(13, {0, 2, 3, 6, 7}, {0, 1, 3, 7, 63})
  <2>1. SevenOn({0, 2, 4, 6, 7}) = {0, 2, 3, 6, 7} /\ PutOut({0, 2, 3, 6, 7}) = {0, 1, 3, 7, 63}
    BY DEF SevenOn, PutOut
  <2> QED BY <1>12, <2>1, RowStep
<1>14. RowIs(14, {0, 1, 5, 6}, {0, 3, 7, 15, 63})
  <2>1. SevenOn({0, 2, 3, 6, 7}) = {0, 1, 5, 6} /\ PutOut({0, 1, 5, 6}) = {0, 3, 7, 15, 63}
    BY DEF SevenOn, PutOut
  <2> QED BY <1>13, <2>1, RowStep
<1>15. RowIs(15, {0, 1, 3, 5, 7}, {0, 1, 15, 63})
  <2>1. SevenOn({0, 1, 5, 6}) = {0, 1, 3, 5, 7} /\ PutOut({0, 1, 3, 5, 7}) = {0, 1, 15, 63}
    BY DEF SevenOn, PutOut
  <2> QED BY <1>14, <2>1, RowStep
<1>16. RowIs(16, {1, 3, 5, 7}, {1, 15, 63})
  <2>1. SevenOn({0, 1, 3, 5, 7}) = {1, 3, 5, 7} /\ PutOut({1, 3, 5, 7}) = {1, 15, 63}
    BY DEF SevenOn, PutOut
  <2> QED BY <1>15, <2>1, RowStep
<1>17. RowIs(17, {1, 3, 5}, {7, 63})
  <2>1. SevenOn({1, 3, 5, 7}) = {1, 3, 5} /\ PutOut({1, 3, 5}) = {7, 63}
    BY DEF SevenOn, PutOut
  <2> QED BY <1>16, <2>1, RowStep
<1>18. RowIs(18, {1, 4, 5, 6, 7}, {1, 3, 15})
  <2>1. SevenOn({1, 3, 5}) = {1, 4, 5, 6, 7} /\ PutOut({1, 4, 5, 6, 7}) = {1, 3, 15}
    BY DEF SevenOn, PutOut
  <2> QED BY <1>17, <2>1, RowStep
<1>19. RowIs(19, {3, 5, 6, 7}, {1, 3, 31, 63})
  <2>1. SevenOn({1, 4, 5, 6, 7}) = {3, 5, 6, 7} /\ PutOut({3, 5, 6, 7}) = {1, 3, 31, 63}
    BY DEF SevenOn, PutOut
  <2> QED BY <1>18, <2>1, RowStep
<1>20. RowIs(20, {0, 1, 2, 4, 5}, {0, 7, 15, 31, 63})
  <2>1. SevenOn({3, 5, 6, 7}) = {0, 1, 2, 4, 5} /\ PutOut({0, 1, 2, 4, 5}) = {0, 7, 15, 31, 63}
    BY DEF SevenOn, PutOut
  <2> QED BY <1>19, <2>1, RowStep
<1>21. RowIs(21, {1, 2, 3, 4, 5}, {7, 15, 63})
  <2>1. SevenOn({0, 1, 2, 4, 5}) = {1, 2, 3, 4, 5} /\ PutOut({1, 2, 3, 4, 5}) = {7, 15, 63}
    BY DEF SevenOn, PutOut
  <2> QED BY <1>20, <2>1, RowStep
<1>22. RowIs(22, {0, 1, 3}, {0, 31})
  <2>1. SevenOn({1, 2, 3, 4, 5}) = {0, 1, 3} /\ PutOut({0, 1, 3}) = {0, 31}
    BY DEF SevenOn, PutOut
  <2> QED BY <1>21, <2>1, RowStep
<1>23. RowIs(23, {2, 6}, {3, 15, 31, 63})
  <2>1. SevenOn({0, 1, 3}) = {2, 6} /\ PutOut({2, 6}) = {3, 15, 31, 63}
    BY DEF SevenOn, PutOut
  <2> QED BY <1>22, <2>1, RowStep
<1> QED BY <1>0, <1>1, <1>2, <1>3, <1>4, <1>5, <1>6, <1>7, <1>8, <1>9, <1>10, <1>11, <1>12,
           <1>13, <1>14, <1>15, <1>16, <1>17, <1>18, <1>19, <1>20, <1>21, <1>22, <1>23

\* The table of the code: flipping the bits of ConstantSlip makes it of the standard's.
LEMMA RndcIsRC ==
    \A n \in 0 .. 23 : \A z :
        z \in keccakf_rndc[n + 1] <=> ((z \in Sponge!RC(n)) # (z \in ConstantSlip[n]))
<1>1. /\ Sponge!RC(0) = {0} /\ Sponge!RC(1) = {1, 7, 15} /\ Sponge!RC(2) = {1, 3, 7, 15, 63}
      /\ Sponge!RC(3) = {15, 31, 63} /\ Sponge!RC(4) = {0, 1, 3, 7, 15}
      /\ Sponge!RC(5) = {0, 31} /\ Sponge!RC(6) = {0, 7, 15, 31, 63}
      /\ Sponge!RC(7) = {0, 3, 15, 63} /\ Sponge!RC(8) = {1, 3, 7} /\ Sponge!RC(9) = {3, 7}
      /\ Sponge!RC(10) = {0, 3, 15, 31} /\ Sponge!RC(11) = {1, 3, 31}
      /\ Sponge!RC(12) = {0, 1, 3, 7, 15, 31} /\ Sponge!RC(13) = {0, 1, 3, 7, 63}
      /\ Sponge!RC(14) = {0, 3, 7, 15, 63} /\ Sponge!RC(15) = {0, 1, 15, 63}
      /\ Sponge!RC(16) = {1, 15, 63} /\ Sponge!RC(17) = {7, 63} /\ Sponge!RC(18) = {1, 3, 15}
      /\ Sponge!RC(19) = {1, 3, 31, 63} /\ Sponge!RC(20) = {0, 7, 15, 31, 63}
      /\ Sponge!RC(21) = {7, 15, 63} /\ Sponge!RC(22) = {0, 31}
      /\ Sponge!RC(23) = {3, 15, 31, 63}
  BY Constants DEF RowIs
<1>2. /\ keccakf_rndc[1] = {0} /\ keccakf_rndc[2] = {1, 7, 15}
      /\ keccakf_rndc[3] = {1, 3, 7, 15, 31} /\ keccakf_rndc[4] = {15, 31}
      /\ keccakf_rndc[5] = {0, 1, 3, 7, 15} /\ keccakf_rndc[6] = {0, 31}
      /\ keccakf_rndc[7] = {0, 7, 15, 31} /\ keccakf_rndc[8] = {0, 3, 15, 63}
      /\ keccakf_rndc[9] = {1, 3, 7} /\ keccakf_rndc[10] = {3, 7}
      /\ keccakf_rndc[11] = {0, 3, 15, 31} /\ keccakf_rndc[12] = {1, 3, 31}
      /\ keccakf_rndc[13] = {0, 1, 3, 7, 15, 31} /\ keccakf_rndc[14] = {0, 1, 3, 7, 63}
      /\ keccakf_rndc[15] = {0, 3, 7, 15, 63} /\ keccakf_rndc[16] = {0, 1, 15, 63}
      /\ keccakf_rndc[17] = {1, 15, 63} /\ keccakf_rndc[18] = {7, 63}
      /\ keccakf_rndc[19] = {1, 3, 15} /\ keccakf_rndc[20] = {1, 3, 31, 63}
      /\ keccakf_rndc[21] = {0, 7, 15, 31, 63} /\ keccakf_rndc[22] = {7, 15, 63}
      /\ keccakf_rndc[23] = {0, 31} /\ keccakf_rndc[24] = {3, 15, 31, 63}
  BY DEF keccakf_rndc
<1>3. PICK code, standard : /\ code = [n \in 0 .. 23 |-> keccakf_rndc[n + 1]]
                            /\ standard = [n \in 0 .. 23 |-> Sponge!RC(n)]
  OBVIOUS
<1>4. /\ code[0] = keccakf_rndc[1] /\ code[1] = keccakf_rndc[2] /\ code[2] = keccakf_rndc[3]
      /\ code[3] = keccakf_rndc[4] /\ code[4] = keccakf_rndc[5] /\ code[5] = keccakf_rndc[6]
      /\ code[6] = keccakf_rndc[7] /\ code[7] = keccakf_rndc[8] /\ code[8] = keccakf_rndc[9]
      /\ code[9] = keccakf_rndc[10] /\ code[10] = keccakf_rndc[11]
      /\ code[11] = keccakf_rndc[12] /\ code[12] = keccakf_rndc[13]
      /\ code[13] = keccakf_rndc[14] /\ code[14] = keccakf_rndc[15]
      /\ code[15] = keccakf_rndc[16] /\ code[16] = keccakf_rndc[17]
      /\ code[17] = keccakf_rndc[18] /\ code[18] = keccakf_rndc[19]
      /\ code[19] = keccakf_rndc[20] /\ code[20] = keccakf_rndc[21]
      /\ code[21] = keccakf_rndc[22] /\ code[22] = keccakf_rndc[23]
      /\ code[23] = keccakf_rndc[24]
  BY <1>3
<1>5. /\ standard[0] = Sponge!RC(0) /\ standard[1] = Sponge!RC(1)
      /\ standard[2] = Sponge!RC(2) /\ standard[3] = Sponge!RC(3)
      /\ standard[4] = Sponge!RC(4) /\ standard[5] = Sponge!RC(5)
      /\ standard[6] = Sponge!RC(6) /\ standard[7] = Sponge!RC(7)
      /\ standard[8] = Sponge!RC(8) /\ standard[9] = Sponge!RC(9)
      /\ standard[10] = Sponge!RC(10) /\ standard[11] = Sponge!RC(11)
      /\ standard[12] = Sponge!RC(12) /\ standard[13] = Sponge!RC(13)
      /\ standard[14] = Sponge!RC(14) /\ standard[15] = Sponge!RC(15)
      /\ standard[16] = Sponge!RC(16) /\ standard[17] = Sponge!RC(17)
      /\ standard[18] = Sponge!RC(18) /\ standard[19] = Sponge!RC(19)
      /\ standard[20] = Sponge!RC(20) /\ standard[21] = Sponge!RC(21)
      /\ standard[22] = Sponge!RC(22) /\ standard[23] = Sponge!RC(23)
  BY <1>3
<1>6. /\ code[0] = standard[0] /\ code[1] = standard[1] /\ code[4] = standard[4]
      /\ code[5] = standard[5] /\ code[7] = standard[7] /\ code[8] = standard[8]
      /\ code[9] = standard[9] /\ code[10] = standard[10] /\ code[11] = standard[11]
      /\ code[12] = standard[12] /\ code[13] = standard[13] /\ code[14] = standard[14]
      /\ code[15] = standard[15] /\ code[16] = standard[16] /\ code[17] = standard[17]
      /\ code[18] = standard[18] /\ code[19] = standard[19] /\ code[20] = standard[20]
      /\ code[21] = standard[21] /\ code[22] = standard[22] /\ code[23] = standard[23]
  BY <1>1, <1>2, <1>4, <1>5
<1>7. \A n \in 0 .. 23 \ {2, 3, 6} : code[n] = standard[n] /\ ConstantSlip[n] = {}
  BY <1>6 DEF ConstantSlip
<1>8. ConstantSlip[2] = {31, 63} /\ ConstantSlip[3] = {63} /\ ConstantSlip[6] = {63}
  BY DEF ConstantSlip
<1>9. \A z : /\ z \in code[2] <=> ((z \in standard[2]) # (z \in ConstantSlip[2]))
             /\ z \in code[3] <=> ((z \in standard[3]) # (z \in ConstantSlip[3]))
             /\ z \in code[6] <=> ((z \in standard[6]) # (z \in ConstantSlip[6]))
  BY <1>1, <1>2, <1>4, <1>5, <1>8
<1>10. ASSUME NEW n \in 0 .. 23, NEW z
       PROVE  z \in code[n] <=> ((z \in standard[n]) # (z \in ConstantSlip[n]))
  <2>1. CASE n \notin {2, 3, 6}
    BY <1>7, <2>1
  <2>2. CASE n \in {2, 3, 6}
    BY <1>9, <2>2
  <2> QED BY <2>1, <2>2
<1> QED BY <1>3, <1>10

-----------------------------------------------------------------------------
(* The walk of rho and pi. *)

\* Where keccakf_piln has a lane.
Where == <<24, 18, 6, 12, 7, 23, 2, 9, 22, 1, 3, 17,
           16, 20, 13, 8, 4, 5, 15, 19, 10, 21, 14, 11>>

LEMMA PilnWhere ==
    /\ \A i \in 1 .. 24 : keccakf_piln[i] \in 1 .. 24 /\ Where[keccakf_piln[i]] = i
    /\ \A k \in 1 .. 24 : Where[k] \in 1 .. 24 /\ keccakf_piln[Where[k]] = k
BY DEF keccakf_piln, Where

LEMMA PlaceIs == \A k \in 1 .. 24 : Place(k) = Where[k]
<1> SUFFICES ASSUME NEW k \in 1 .. 24 PROVE Place(k) = Where[k]
  OBVIOUS
<1>1. PICK i : i = CHOOSE j \in 1 .. 24 : keccakf_piln[j] = k
  OBVIOUS
<1>2. i \in 1 .. 24 /\ keccakf_piln[i] = k
  BY <1>1, PilnWhere
<1> QED BY <1>1, <1>2, PilnWhere DEF Place

\* The lane the walk is at, and the one pi moves it to.
LEMMA TurnLanes ==
    \A t \in 0 .. 23 : /\ Turns[t + 1][1] \in 0 .. 4 /\ Turns[t + 1][2] \in 0 .. 4
                       /\ Turns[t + 1] = <<Turns[t + 1][1], Turns[t + 1][2]>>
                       /\ Turns[t + 1][1] + 5 * Turns[t + 1][2] =
                            IF t = 0 THEN 1 ELSE keccakf_piln[t]
                       /\ Turns[t + 1][2] + 5 * ((2 * Turns[t + 1][1] + 3 * Turns[t + 1][2]) % 5) =
                            keccakf_piln[t + 1]
BY DEF Turns, keccakf_piln

LEMMA OffsetsAre ==
    \A t \in 0 .. 23 \ {14} :
        /\ keccakf_rotc[t + 1] = (((t + 1) * (t + 2)) \div 2 % 64) + (IF t = 13 THEN 3 ELSE 0)
        /\ keccakf_rotc[t + 1] \in 0 .. 63
<1>1. PICK code, standard : /\ code = [t \in 0 .. 23 |-> keccakf_rotc[t + 1]]
                            /\ standard = [t \in 0 .. 23 |-> ((t + 1) * (t + 2)) \div 2 % 64]
  OBVIOUS
<1>2. /\ code[0] = 1 /\ code[1] = 3 /\ code[2] = 6 /\ code[3] = 10
      /\ code[4] = 15 /\ code[5] = 21 /\ code[6] = 28 /\ code[7] = 36
      /\ code[8] = 45 /\ code[9] = 55 /\ code[10] = 2 /\ code[11] = 14
      /\ code[12] = 27 /\ code[13] = 44 /\ code[15] = 8 /\ code[16] = 25 /\ code[17] = 43
      /\ code[18] = 62 /\ code[19] = 18 /\ code[20] = 39 /\ code[21] = 61
      /\ code[22] = 20 /\ code[23] = 44
  BY <1>1 DEF keccakf_rotc
<1>3. /\ standard[0] = 1 /\ standard[1] = 3 /\ standard[2] = 6 /\ standard[3] = 10
      /\ standard[4] = 15 /\ standard[5] = 21 /\ standard[6] = 28 /\ standard[7] = 36
      /\ standard[8] = 45 /\ standard[9] = 55 /\ standard[10] = 2 /\ standard[11] = 14
      /\ standard[12] = 27 /\ standard[13] = 41 /\ standard[15] = 8 /\ standard[16] = 25 /\ standard[17] = 43
      /\ standard[18] = 62 /\ standard[19] = 18 /\ standard[20] = 39 /\ standard[21] = 61
      /\ standard[22] = 20 /\ standard[23] = 44
  BY <1>1
<1>4. \A t \in 0 .. 23 \ {14} :
          code[t] = standard[t] + (IF t = 13 THEN 3 ELSE 0) /\ code[t] \in 0 .. 63
  BY <1>2, <1>3
<1> QED BY <1>1, <1>4

LEMMA RhoPiLanes ==
    ASSUME NEW x \in 0 .. 4, NEW y \in 0 .. 4, <<x, y>> # <<0, 0>>
    PROVE  LET k == y + 5 * ((2 * x + 3 * y) % 5)
           IN /\ k \in 1 .. 24
              /\ Before(k) = x + 5 * y
              /\ <<x, y>> # <<3, 4>> =>
                    /\ keccakf_rotc[Place(k)] = Sponge!Offset[x, y] + OffsetSlip[x, y]
                    /\ keccakf_rotc[Place(k)] \in 0 .. 63
<1>1. PICK lane \in 1 .. 24 : lane = x + 5 * y
  BY DEF Turns
<1>2. PICK t \in 0 .. 23 : lane = IF t = 0 THEN 1 ELSE keccakf_piln[t]
  <2>1. PICK i \in 1 .. 24 : keccakf_piln[i] = lane
    BY PilnWhere
  <2>2. CASE i = 24
    <3>1. keccakf_piln[24] = 1
      BY DEF keccakf_piln
    <3>2. lane = 1
      BY <2>1, <2>2, <3>1
    <3> QED BY <3>2
  <2>3. CASE i # 24
    BY <2>1, <2>3
  <2> QED BY <2>2, <2>3
<1>3. PICK tx \in 0 .. 4, ty \in 0 .. 4 : tx = Turns[t + 1][1] /\ ty = Turns[t + 1][2]
  BY TurnLanes
<1>4. tx = x /\ ty = y /\ Turns[t + 1] = <<x, y>>
  <2>1. tx + 5 * ty = lane /\ Turns[t + 1] = <<tx, ty>>
    BY <1>2, <1>3, TurnLanes
  <2> QED BY <1>1, <2>1
<1>5. PICK k : k = y + 5 * ((2 * x + 3 * y) % 5)
  OBVIOUS
<1>6. k = keccakf_piln[t + 1] /\ k \in 1 .. 24 /\ Place(k) = t + 1
  <2>1. k = keccakf_piln[t + 1]
    BY <1>3, <1>4, <1>5, TurnLanes
  <2> QED BY <2>1, PilnWhere, PlaceIs
<1>7. Before(k) = x + 5 * y
  BY <1>1, <1>2, <1>6 DEF Before
<1>8. ASSUME <<x, y>> # <<3, 4>>
      PROVE  /\ keccakf_rotc[Place(k)] = Sponge!Offset[x, y] + OffsetSlip[x, y]
             /\ keccakf_rotc[Place(k)] \in 0 .. 63
  <2>1. t # 14 /\ (t = 13 <=> <<x, y>> = <<0, 3>>)
    <3>1. /\ Turns[14] = <<0, 3>> /\ Turns[15] = <<3, 4>>
          /\ \A i \in 0 .. 23 : Turns[i + 1] = <<0, 3>> => i = 13
      BY DEF Turns
    <3> QED BY <1>4, <1>8, <3>1
  <2>2. keccakf_rotc[Place(k)] = (((t + 1) * (t + 2)) \div 2 % 64) + (IF t = 13 THEN 3 ELSE 0)
    BY <1>6, <2>1, OffsetsAre
  <2>9. OffsetSlip[x, y] = IF t = 13 THEN 3 ELSE 0
    BY <2>1 DEF OffsetSlip
  <2>3. PICK c : c = <<x, y>>
    OBVIOUS
  <2>4. PICK u : u = CHOOSE i \in 0 .. 23 : Sponge!walk[i] = c
    OBVIOUS
  <2>5. u \in 0 .. 23 /\ Turns[u + 1] = <<x, y>>
    BY <1>4, <2>3, <2>4, WalkTurns
  <2>6. u = t
    <3>1. PICK ux \in 0 .. 4, uy \in 0 .. 4 : ux = Turns[u + 1][1] /\ uy = Turns[u + 1][2]
      BY <2>5, TurnLanes
    <3>2. ux = x /\ uy = y
      BY <2>5, <3>1
    <3>3. k = keccakf_piln[u + 1]
      BY <1>5, <2>5, <3>1, <3>2, TurnLanes
    <3>4. t + 1 \in 1 .. 24 /\ u + 1 \in 1 .. 24 /\ keccakf_piln[t + 1] = keccakf_piln[u + 1]
      BY <1>6, <2>5, <3>3
    <3>5. t + 1 = u + 1
      BY <3>4, PilnWhere
    <3> QED BY <2>5, <3>5
  <2>7. Sponge!Offset[c] = ((u + 1) * (u + 2)) \div 2 % 64
    <3>1. c \in Sponge!Sheet \X Sponge!Sheet /\ c # <<0, 0>>
      BY <2>3 DEF Sponge!Sheet
    <3> QED BY <2>4, <3>1 DEF Sponge!Offset
  <2> QED BY <1>6, <2>1, <2>2, <2>3, <2>6, <2>7, <2>9, OffsetsAre
<1> QED BY <1>5, <1>6, <1>7, <1>8

-----------------------------------------------------------------------------
(* Bits and bytes. *)

Words == SUBSET (0 .. 63)
Bytes == SUBSET (0 .. 7)
Texts == Seq(Bytes)

LEMMA Element == ASSUME NEW S, NEW m \in Seq(S), NEW i \in 1 .. Len(m) PROVE m[i] \in S
OBVIOUS

LEMMA TextShape ==
    ASSUME NEW m \in Texts
    PROVE  /\ Len(m) \in Nat /\ DOMAIN m = 1 .. Len(m)
           /\ \A i \in 1 .. Len(m) : m[i] \subseteq 0 .. 7
<1>1. Len(m) \in Nat /\ DOMAIN m = 1 .. Len(m)
  BY DEF Texts
<1>2. \A i \in 1 .. Len(m) : m[i] \in Bytes
  BY Element DEF Texts
<1> QED BY <1>1, <1>2 DEF Bytes

LEMMA XorBits == \A a, b, z : z \in Xor(a, b) <=> ((z \in a) # (z \in b))
BY DEF Xor

LEMMA XorWord == \A a, b \in Words : Xor(a, b) \in Words
BY DEF Xor, Words

LEMMA RotlWord ==
    ASSUME NEW lane \in Words, NEW n \in Nat
    PROVE  /\ ROTL64(lane, n) \in Words
           /\ n < 64 => ROTL64(lane, n) = {(z + n) % 64 : z \in lane}
BY DEF ROTL64, Words

LEMMA RotlByOne ==
    ASSUME NEW lane \in Words, NEW z \in 0 .. 63
    PROVE  z \in ROTL64(lane, 1) <=> (z + 63) % 64 \in lane
<1>1. ROTL64(lane, 1) = {(y + 1) % 64 : y \in lane} /\ lane \subseteq 0 .. 63
  BY RotlWord DEF Words
<1>2. ASSUME z \in ROTL64(lane, 1) PROVE (z + 63) % 64 \in lane
  <2>1. PICK y \in lane : z = (y + 1) % 64
    BY <1>1, <1>2
  <2>2. y \in 0 .. 63
    BY <1>1
  <2>3. (z + 63) % 64 = y
    BY <2>1, <2>2
  <2> QED BY <2>3
<1>3. ASSUME (z + 63) % 64 \in lane PROVE z \in ROTL64(lane, 1)
  <2>1. PICK y \in lane : y = (z + 63) % 64
    BY <1>3
  <2>2. z = (y + 1) % 64
    BY <2>1
  <2> QED BY <1>1, <2>2
<1> QED BY <1>2, <1>3

\* The parity of a column.
LEMMA Parity ==
    ASSUME NEW S \in SUBSET (0 .. 4)
    PROVE  Sponge!Odd(S) <=>
             (((((0 \in S) # (1 \in S)) # (2 \in S)) # (3 \in S)) # (4 \in S))
<1> DEFINE T(i) == S \cap 0 .. i
<1>1. \A i \in -1 .. 4 : IsFiniteSet(T(i)) /\ Cardinality(T(i)) \in Nat
  <2>1. \A i \in -1 .. 4 : IsFiniteSet(0 .. i)
    BY FS_Interval
  <2>2. ASSUME NEW i \in -1 .. 4 PROVE IsFiniteSet(T(i))
    <3>1. T(i) \subseteq 0 .. i
      OBVIOUS
    <3> HIDE DEF T
    <3> QED BY <2>1, <3>1, FS_Subset
  <2> HIDE DEF T
  <2> QED BY <2>2, FS_CardinalityType
<1>2. ASSUME NEW i \in 0 .. 4
      PROVE  Cardinality(T(i)) % 2 = 1 <=> ((Cardinality(T(i - 1)) % 2 = 1) # (i \in S))
  <2>1. CASE i \in S
    <3>1. T(i) = T(i - 1) \cup {i} /\ i \notin T(i - 1)
      BY <2>1
    <3>2. i - 1 \in -1 .. 4
      OBVIOUS
    <3> HIDE DEF T
    <3>3. Cardinality(T(i)) = Cardinality(T(i - 1)) + 1
      BY <1>1, <3>1, <3>2, FS_AddElement
    <3>4. Cardinality(T(i - 1)) \in Nat
      BY <1>1, <3>2
    <3> QED BY <2>1, <3>3, <3>4
  <2>2. CASE i \notin S
    <3>1. T(i) = T(i - 1)
      BY <2>2
    <3> HIDE DEF T
    <3> QED BY <2>2, <3>1
  <2> QED BY <2>1, <2>2
<1>3. Cardinality(T(-1)) = 0 /\ T(4) = S
  <2>1. T(-1) = {}
    OBVIOUS
  <2> QED BY <2>1, FS_EmptySet
<1>4. Sponge!Odd(S) <=> Cardinality(S) % 2 = 1
  BY DEF Sponge!Odd, Sponge!Cardinality, Cardinality
<1> HIDE DEF T
<1>5. /\ Cardinality(T(0)) % 2 = 1 <=> ((Cardinality(T(-1)) % 2 = 1) # (0 \in S))
      /\ Cardinality(T(1)) % 2 = 1 <=> ((Cardinality(T(0)) % 2 = 1) # (1 \in S))
      /\ Cardinality(T(2)) % 2 = 1 <=> ((Cardinality(T(1)) % 2 = 1) # (2 \in S))
      /\ Cardinality(T(3)) % 2 = 1 <=> ((Cardinality(T(2)) % 2 = 1) # (3 \in S))
      /\ Cardinality(T(4)) % 2 = 1 <=> ((Cardinality(T(3)) % 2 = 1) # (4 \in S))
  BY <1>2
<1> QED BY <1>3, <1>4, <1>5

\* The byte at a place of a padded message.
PadByte(m, i) ==
    (IF i <= Len(m) THEN m[i] ELSE IF i = Len(m) + 1 THEN {1, 2} ELSE {})
        \cup (IF i = 136 * Sponge!Blocks(m) THEN {7} ELSE {})

LEMMA BlocksOf ==
    ASSUME NEW m \in Texts, NEW n \in Nat, NEW rest \in Nat, Len(m) = 136 * n + rest
    PROVE  /\ Sponge!Blocks(m) \in Nat
           /\ rest < 136 => Sponge!Blocks(m) = n + 1
           /\ rest >= 136 => Sponge!Blocks(m) > n + 1
BY DEF Sponge!Blocks, Sponge!RATE

LEMMA BlocksType == ASSUME NEW m \in Texts PROVE Sponge!Blocks(m) \in Nat \ {0}
BY TextShape DEF Sponge!Blocks, Sponge!RATE

\* The positions that are 1 in a padded message.
LEMMA PaddedPlaces ==
    ASSUME NEW m \in Texts, NEW p
    PROVE  p \in Sponge!PaddedBits(m) <=>
             \/ \E j \in 1 .. Len(m) : \E c \in m[j] : p = 8 * (j - 1) + c
             \/ p = 8 * Len(m) + 1 \/ p = 8 * Len(m) + 2
             \/ p = 1088 * Sponge!Blocks(m) - 1
<1> DEFINE bits == UNION {{8 * (i - 1) + b : b \in m[i]} : i \in DOMAIN m}
           pad == {8 * Len(m) + 1, 8 * Len(m) + 2, 8 * Sponge!RATE * Sponge!Blocks(m) - 1}
<1>1. Sponge!PaddedBits(m) = bits \cup pad
  BY DEF Sponge!PaddedBits
<1>2. p \in bits <=> \E j \in 1 .. Len(m) : \E c \in m[j] : p = 8 * (j - 1) + c
  <2>1. DOMAIN m = 1 .. Len(m)
    BY TextShape
  <2>2. p \in bits <=> \E j \in DOMAIN m : p \in {8 * (j - 1) + b : b \in m[j]}
    OBVIOUS
  <2> QED BY <2>1, <2>2
<1>3. p \in pad <=> p = 8 * Len(m) + 1 \/ p = 8 * Len(m) + 2 \/ p = 1088 * Sponge!Blocks(m) - 1
  <2>1. PICK bl : bl = Sponge!Blocks(m)
    OBVIOUS
  <2>2. bl \in Int
    BY <2>1, BlocksType
  <2>3. 8 * Sponge!RATE * bl - 1 = 1088 * bl - 1
    BY <2>2 DEF Sponge!RATE
  <2> QED BY <2>1, <2>3
<1> HIDE DEF bits, pad
<1> QED BY <1>1, <1>2, <1>3

LEMMA PaddedInt == ASSUME NEW m \in Texts PROVE Sponge!PaddedBits(m) \subseteq Int
<1> SUFFICES ASSUME NEW q, q \in Sponge!PaddedBits(m) PROVE q \in Int
  OBVIOUS
<1>1. PICK len \in Nat, bl \in Nat : len = Len(m) /\ bl = Sponge!Blocks(m)
  BY TextShape, BlocksType
<1>2. \A j \in 1 .. Len(m) : \A c \in m[j] : c \in 0 .. 7
  BY TextShape
<1>3. \/ \E j \in 1 .. Len(m) : \E c \in m[j] : q = 8 * (j - 1) + c
      \/ q = 8 * Len(m) + 1 \/ q = 8 * Len(m) + 2 \/ q = 1088 * Sponge!Blocks(m) - 1
  BY PaddedPlaces
<1>4. CASE \E j \in 1 .. Len(m) : \E c \in m[j] : q = 8 * (j - 1) + c
  <2>1. PICK j \in 1 .. Len(m) : \E c \in m[j] : q = 8 * (j - 1) + c
    BY <1>4
  <2>2. PICK c \in m[j] : q = 8 * (j - 1) + c
    BY <2>1
  <2>3. c \in 0 .. 7 /\ j \in Int
    BY <1>2
  <2> QED BY <2>2, <2>3
<1>5. CASE q = 8 * Len(m) + 1 \/ q = 8 * Len(m) + 2 \/ q = 1088 * Sponge!Blocks(m) - 1
  BY <1>1, <1>5
<1> QED BY <1>3, <1>4, <1>5

LEMMA PaddedByte ==
    ASSUME NEW m \in Texts, NEW i \in Nat \ {0}, NEW b \in 0 .. 7
    PROVE  8 * (i - 1) + b \in Sponge!PaddedBits(m) <=> b \in PadByte(m, i)
<1>1. PICK n \in Nat, bl \in Nat : n = Len(m) /\ bl = Sponge!Blocks(m)
  BY TextShape, BlocksType
<1>2. \A j \in 1 .. n : m[j] \subseteq 0 .. 7
  BY <1>1, TextShape
<1>3. PICK p \in Nat : p = 8 * (i - 1) + b
  OBVIOUS
<1>4. p \in Sponge!PaddedBits(m) <=>
        \/ \E j \in 1 .. n : \E c \in m[j] : p = 8 * (j - 1) + c
        \/ p = 8 * n + 1 \/ p = 8 * n + 2 \/ p = 1088 * bl - 1
  BY <1>1, PaddedPlaces
<1>5. (\E j \in 1 .. n : \E c \in m[j] : p = 8 * (j - 1) + c) <=> i <= n /\ b \in m[i]
  <2>1. ASSUME NEW j \in 1 .. n, NEW c \in m[j], p = 8 * (j - 1) + c PROVE j = i /\ c = b
    <3>1. c \in 0 .. 7
      BY <1>2, <2>1
    <3> QED BY <1>3, <2>1, <3>1
  <2>2. ASSUME i <= n, b \in m[i] PROVE \E j \in 1 .. n : \E c \in m[j] : p = 8 * (j - 1) + c
    BY <1>3, <2>2
  <2> QED BY <2>1, <2>2
<1>6. p = 8 * n + 1 <=> i = n + 1 /\ b = 1
  BY <1>3
<1>7. p = 8 * n + 2 <=> i = n + 1 /\ b = 2
  BY <1>3
<1>8. p = 1088 * bl - 1 <=> i = 136 * bl /\ b = 7
  BY <1>3
<1> QED BY <1>1, <1>3, <1>4, <1>5, <1>6, <1>7, <1>8 DEF PadByte

LEMMA Octet == ASSUME NEW z \in 0 .. 63 PROVE \E j \in 0 .. 7, b \in 0 .. 7 : z = 8 * j + b
<1>1. PICK q \in Int : q = z \div 8
  OBVIOUS
<1>2. 8 * q <= z /\ z < 8 * q + 8
  BY <1>1
<1>3. q \in 0 .. 7 /\ z - 8 * q \in 0 .. 7 /\ z = 8 * q + (z - 8 * q)
  BY <1>2
<1> QED BY <1>3

\* What absorbing a block mixes into a lane.
LaneOf(block, k) == UNION {{8 * j + b : b \in block[8 * k + j + 1]} : j \in 0 .. 7}

LEMMA BlockBits ==
    ASSUME NEW m \in Texts, NEW n \in Nat, NEW block,
           \A i \in 1 .. 136 : block[i] = PadByte(m, 136 * n + i) /\ block[i] \subseteq 0 .. 7,
           NEW k \in 0 .. 24, NEW z \in 0 .. 63
    PROVE  64 * k + z \in Sponge!Block(m, n) <=> k < 17 /\ z \in LaneOf(block, k)
<1>1. PICK j \in 0 .. 7, b \in 0 .. 7 : z = 8 * j + b
  BY Octet
<1>2. k < 17 => (z \in LaneOf(block, k) <=> b \in block[8 * k + j + 1])
  <2> SUFFICES ASSUME k < 17 PROVE z \in LaneOf(block, k) <=> b \in block[8 * k + j + 1]
    OBVIOUS
  <2>1. \A h \in 0 .. 7 : block[8 * k + h + 1] \subseteq 0 .. 7
    OBVIOUS
  <2>2. z \in LaneOf(block, k) <=> \E h \in 0 .. 7 : \E c \in block[8 * k + h + 1] : z = 8 * h + c
    BY DEF LaneOf
  <2>3. ASSUME NEW h \in 0 .. 7, NEW c \in block[8 * k + h + 1], z = 8 * h + c PROVE h = j /\ c = b
    <3>1. c \in 0 .. 7
      BY <2>1, <2>3
    <3> QED BY <1>1, <2>3, <3>1
  <2> QED BY <1>1, <2>2, <2>3
<1>3. PICK p \in Nat : p = 64 * k + z
  OBVIOUS
<1>4. p \in Sponge!Block(m, n) <=> p < 1088 /\ p + 1088 * n \in Sponge!PaddedBits(m)
  <2>1. Sponge!PaddedBits(m) \subseteq Int
    BY PaddedInt
  <2>2. p \in Sponge!Block(m, n) <=>
          p \in 0 .. 1087 /\ \E q \in Sponge!PaddedBits(m) : p = q - 1088 * n
    BY DEF Sponge!Block, Sponge!RATE
  <2>3. PICK a \in Nat : a = 1088 * n
    OBVIOUS
  <2> QED BY <2>1, <2>2, <2>3
<1>5. p < 1088 <=> k < 17
  BY <1>3
<1>6. PICK i \in Nat \ {0} : i = 136 * n + (8 * k + j + 1)
  OBVIOUS
<1>7. p + 1088 * n = 8 * (i - 1) + b
  BY <1>1, <1>3, <1>6
<1>8. k < 17 => block[8 * k + j + 1] = PadByte(m, i)
  BY <1>6
<1>9. 8 * (i - 1) + b \in Sponge!PaddedBits(m) <=> b \in PadByte(m, i)
  BY PaddedByte
<1> QED BY <1>2, <1>3, <1>4, <1>5, <1>7, <1>8, <1>9

-----------------------------------------------------------------------------
(* The inductive invariant of a hash. *)

Rows == [0 .. 24 -> Words]
Digests == [1 .. 32 -> Bytes]

HTyped ==
    /\ build \in {"masked", "folded"}
    /\ st \in Rows /\ r \in 0 .. 23
    /\ pc \in {"idle", "begin", "absorb", "theta", "rhopi", "chi", "iota", "squeeze", "returned"}
    /\ msg \in Texts /\ last \in BOOLEAN
    /\ todo \in Seq(Texts) /\ digests \in Seq(Digests)

\* msg is what n blocks leave of a message.
Left(m, n) ==
    /\ Len(m) = 136 * n + Len(msg)
    /\ \A i \in 1 .. Len(msg) : msg[i] = m[136 * n + i]

HInv ==
    /\ HTyped
    /\ Hashing \/ pc = "begin" => todo # <<>>
    /\ Hashing => \E n \in Nat : Left(Head(todo), n)
    /\ Hashing /\ last => Len(msg) < 136
    /\ pc = "absorb" => last = FALSE
    /\ pc = "squeeze" => last = TRUE

LEMMA Singles ==
    /\ \A m \in Texts : <<m>> \in Seq(Texts) /\ <<m>> # <<>>
    /\ \A m, n \in Texts : <<m, n>> \in Seq(Texts) /\ <<m, n>> # <<>>
OBVIOUS

LEMMA EmptyText == <<>> \in Texts /\ Len(<<>>) = 0
BY EmptySeq DEF Texts

LEMMA HInvInit == HashInit => HInv
<1> SUFFICES ASSUME HashInit PROVE HInv
  OBVIOUS
<1>1. st \in Rows
  BY DEF HashInit, Rows, Words, Lanes
<1>2. <<>> \in Seq(Texts) /\ <<>> \in Seq(Digests)
  BY EmptySeq
<1>3. /\ build \in {"masked", "folded"} /\ r = 0 /\ pc = "idle" /\ last = FALSE
      /\ msg = <<>> /\ todo = <<>> /\ digests = <<>>
  BY DEF HashInit
<1>4. msg \in Texts /\ todo \in Seq(Texts) /\ digests \in Seq(Digests)
  <2> HIDE DEF Texts, Digests
  <2> QED BY <1>2, <1>3, EmptyText
<1>5. HTyped
  <2>1. r \in 0 .. 23
    BY <1>3, SMT
  <2> QED BY <1>1, <1>3, <1>4, <2>1, Zenon DEF HTyped
<1> QED BY <1>3, <1>5 DEF HInv, Hashing

\* The message the caller hashes, and the lanes an action leaves.
LEMMA HeadIsText == ASSUME HInv, Hashing \/ pc = "begin" PROVE Head(todo) \in Texts
BY HeadTailProperties DEF HInv, HTyped

LEMMA LaneWord ==
    ASSUME NEW block, NEW k \in 0 .. 16, \A i \in 1 .. 136 : block[i] \subseteq 0 .. 7
    PROVE  LaneOf(block, k) \in Words
<1> SUFFICES ASSUME NEW z \in LaneOf(block, k) PROVE z \in 0 .. 63
  BY DEF Words
<1>1. PICK j \in 0 .. 7 : z \in {8 * j + b : b \in block[8 * k + j + 1]}
  BY DEF LaneOf
<1>2. PICK b \in block[8 * k + j + 1] : z = 8 * j + b
  BY <1>1
<1>3. 8 * k + j + 1 \in 1 .. 136
  OBVIOUS
<1>4. b \in 0 .. 7
  BY <1>2, <1>3
<1> QED BY <1>2, <1>4

LEMMA AbsorbedLanes ==
    ASSUME HInv, NEW block, \A i \in 1 .. 136 : block[i] \subseteq 0 .. 7
    PROVE  /\ Absorbed(block) \in Rows
           /\ \A k \in 0 .. 24 : Absorbed(block)[k] =
                  IF k >= 17 THEN st[k] ELSE Xor(st[k], LaneOf(block, k))
<1>1. \A k \in 0 .. 24 :
         Absorbed(block)[k] = IF k >= 17 THEN st[k] ELSE Xor(st[k], LaneOf(block, k))
  BY DEF Absorbed, Lanes, RATE, LaneOf
<1>2. ASSUME NEW k \in 0 .. 24 PROVE Absorbed(block)[k] \in Words
  <2>1. st[k] \in Words
    BY DEF HInv, HTyped, Rows
  <2>2. CASE k >= 17
    BY <1>1, <2>1, <2>2
  <2>3. CASE k < 17
    <3>1. k \in 0 .. 16
      BY <2>3
    <3>2. LaneOf(block, k) \in Words
      BY <3>1, LaneWord
    <3>3. Xor(st[k], LaneOf(block, k)) \in Words
      BY <2>1, <3>2, XorWord
    <3> QED BY <1>1, <2>3, <3>3
  <2> QED BY <2>2, <2>3
<1>3. Absorbed(block) = [k \in 0 .. 24 |-> Absorbed(block)[k]]
  BY DEF Absorbed, Lanes
<1> QED BY <1>1, <1>2, <1>3 DEF Rows

\* The block with the padding.
LEMMA PaddedBytes ==
    ASSUME HInv, Len(msg) < 136
    PROVE  \A i \in 1 .. 136 : Padded[i] \subseteq 0 .. 7
<1>1. \A i \in 1 .. Len(msg) : msg[i] \subseteq 0 .. 7
  BY TextShape DEF HInv, HTyped
<1>2. Len(msg) \in Nat
  BY TextShape DEF HInv, HTyped
<1>3. ASSUME NEW i \in 1 .. 136 PROVE Padded[i] \subseteq 0 .. 7
  <2>1. Padded[i] = (IF i <= Len(msg) THEN msg[i] ELSE IF i = Len(msg) + 1 THEN {1, 2} ELSE {})
                        \cup (IF i = 136 THEN {7} ELSE {})
    BY DEF Padded, RATE
  <2>2. i <= Len(msg) => msg[i] \subseteq 0 .. 7
    BY <1>1, <1>2
  <2>3. {1, 2} \subseteq 0 .. 7 /\ {7} \subseteq 0 .. 7
    OBVIOUS
  <2> QED BY <2>1, <2>2, <2>3
<1> QED BY <1>3

LEMMA BlockBytes ==
    ASSUME HInv, Len(msg) >= 136
    PROVE  /\ \A i \in 1 .. 136 : msg[i] \subseteq 0 .. 7
           /\ SubSeq(msg, 137, Len(msg)) \in Texts
           /\ Len(SubSeq(msg, 137, Len(msg))) = Len(msg) - 136
           /\ \A i \in 1 .. Len(msg) - 136 : SubSeq(msg, 137, Len(msg))[i] = msg[136 + i]
<1>1. msg \in Texts /\ Len(msg) \in Nat
  BY TextShape DEF HInv, HTyped
<1>2. \A i \in 1 .. Len(msg) : msg[i] \in Bytes
  BY <1>1, Element DEF Texts
<1>3. PICK len \in Nat : len = Len(msg) /\ len >= 136
  BY <1>1
<1>4. len >= 136
  BY <1>3
<1>5. \A i \in 137 .. len : msg[i] \in Bytes
  BY <1>2, <1>3
<1>6. /\ SubSeq(msg, 137, len) \in Seq(Bytes)
      /\ Len(SubSeq(msg, 137, len)) = IF 137 <= len THEN len - 137 + 1 ELSE 0
      /\ \A i \in 1 .. len - 137 + 1 : SubSeq(msg, 137, len)[i] = msg[137 + i - 1]
  BY <1>5, SubSeqProperties
<1>7. /\ Len(SubSeq(msg, 137, len)) = len - 136
      /\ \A i \in 1 .. len - 136 : SubSeq(msg, 137, len)[i] = msg[136 + i]
  <2>1. PICK rest : rest = SubSeq(msg, 137, len)
    OBVIOUS
  <2>2. /\ Len(rest) = IF 137 <= len THEN len - 137 + 1 ELSE 0
        /\ \A i \in 1 .. len - 137 + 1 : rest[i] = msg[137 + i - 1]
    BY <1>6, <2>1
  <2>3. len >= 137 \/ len = 136
    BY <1>4
  <2>4. Len(rest) = len - 136
    BY <2>2, <2>3
  <2>5. ASSUME NEW i \in 1 .. len - 136 PROVE rest[i] = msg[136 + i]
    <3>1. i \in 1 .. len - 137 + 1 /\ 137 + i - 1 = 136 + i
      OBVIOUS
    <3> QED BY <2>2, <3>1
  <2> QED BY <2>1, <2>4, <2>5
<1>8. \A i \in 1 .. 136 : msg[i] \subseteq 0 .. 7
  BY <1>2, <1>3 DEF Bytes
<1> QED BY <1>3, <1>6, <1>7, <1>8 DEF Texts

-----------------------------------------------------------------------------
(* The invariant holds in every step. *)

LEMMA HInvCall ==
    ASSUME HInv, Hash \/ AuthenticateUser
    PROVE  HInv'
<1>1. todo' \in Seq(Texts) /\ todo' # <<>>
  <2>1. CASE Hash
    <3>1. PICK m \in Messages : todo' = <<m>>
      BY <2>1 DEF Hash
    <3>2. m \in Texts
      BY Sha3Assumption DEF Texts, Bytes
    <3> QED BY <3>1, <3>2, Singles
  <2>2. CASE AuthenticateUser
    <3>1. /\ login' \in [user : Usernames, password : Passwords]
          /\ todo' = <<AdminPass, login'.password>>
      BY <2>2 DEF AuthenticateUser
    <3>2. PICK word : word = login'.password
      OBVIOUS
    <3>3. word \in Texts /\ AdminPass \in Texts
      <4>1. word \in Passwords
        BY <3>1, <3>2
      <4> QED BY <4>1, Sha3Assumption DEF Texts, Bytes
    <3> QED BY <3>1, <3>2, <3>3, Singles
  <2> QED BY <2>1, <2>2
<1>2. /\ build' = build /\ st' = st /\ r' = r /\ msg' = msg /\ last' = last
      /\ digests' = digests /\ pc' = "begin"
  BY DEF Hash, AuthenticateUser
<1>3. HTyped'
  BY <1>1, <1>2 DEF HInv, HTyped
<1> QED BY <1>1, <1>2, <1>3 DEF HInv, Hashing

LEMMA HInvBegin ==
    ASSUME HInv, Begin
    PROVE  HInv' /\ Left(Head(todo), 0)'
<1>1. /\ build' = build /\ r' = 0 /\ msg' = Head(todo) /\ last' = FALSE
      /\ digests' = digests /\ pc' = "absorb" /\ todo' = todo /\ pc = "begin"
      /\ st' = [k \in 0 .. 24 |-> {}]
  BY DEF Begin, Lanes
<1>2. Head(todo) \in Texts
  BY <1>1, HeadIsText
<1>3. st' \in Rows
  BY <1>1 DEF Rows, Words
<1>4. HTyped'
  <2>1. r' \in 0 .. 23
    BY <1>1, SMT
  <2>2. msg' \in Texts /\ last' \in BOOLEAN
    BY <1>1, <1>2, Zenon
  <2>3. build \in {"masked", "folded"} /\ todo \in Seq(Texts) /\ digests \in Seq(Digests)
    BY DEF HInv, HTyped
  <2> QED BY <1>1, <1>3, <2>1, <2>2, <2>3, Zenon DEF HTyped
<1>5. Left(Head(todo), 0)'
  <2>1. PICK m \in Texts : m = Head(todo)
    BY <1>2
  <2>2. Len(m) \in Nat
    BY TextShape
  <2>3. Len(m) = 136 * 0 + Len(m) /\ \A i \in 1 .. Len(m) : m[i] = m[136 * 0 + i]
    BY <2>2
  <2> QED BY <1>1, <2>1, <2>3 DEF Left
<1>6. todo' # <<>>
  BY <1>1 DEF HInv
<1> QED BY <1>1, <1>4, <1>5, <1>6 DEF HInv, Hashing

LEMMA HInvAbsorbBlock ==
    ASSUME HInv, AbsorbBlock, NEW n \in Nat, Left(Head(todo), n)
    PROVE  HInv' /\ Left(Head(todo), n + 1)'
<1>1. /\ build' = build /\ r' = 0 /\ last' = last
      /\ digests' = digests /\ pc' = "theta" /\ todo' = todo /\ pc = "absorb"
      /\ Len(msg) >= 136 /\ st' = Absorbed(msg) /\ msg' = SubSeq(msg, 137, Len(msg))
  BY DEF AbsorbBlock, RATE
<1>2. /\ \A i \in 1 .. 136 : msg[i] \subseteq 0 .. 7
      /\ msg' \in Texts
      /\ Len(msg') = Len(msg) - 136
      /\ \A i \in 1 .. Len(msg) - 136 : msg'[i] = msg[136 + i]
  BY <1>1, BlockBytes
<1>3. st' \in Rows
  BY <1>1, <1>2, AbsorbedLanes
<1>4. HTyped'
  BY <1>1, <1>2, <1>3 DEF HInv, HTyped
<1>5. Left(Head(todo), n + 1)'
  <2>1. PICK m \in Texts : m = Head(todo)
    BY <1>1, HeadIsText DEF Hashing
  <2>2. PICK len \in Nat, all \in Nat : len = Len(msg) /\ all = Len(m)
    BY TextShape DEF HInv, HTyped
  <2>3. all = 136 * n + len /\ \A i \in 1 .. len : msg[i] = m[136 * n + i]
    BY <2>1, <2>2 DEF Left
  <2>4. all = 136 * (n + 1) + (len - 136)
    BY <2>3
  <2>5. ASSUME NEW i \in 1 .. len - 136 PROVE msg'[i] = m[136 * (n + 1) + i]
    <3>1. 136 + i \in 1 .. len /\ 136 * n + (136 + i) = 136 * (n + 1) + i
      OBVIOUS
    <3> QED BY <1>2, <2>2, <2>3, <3>1
  <2>6. Len(msg') = len - 136
    BY <1>2, <2>2
  <2> QED BY <1>1, <2>1, <2>2, <2>4, <2>5, <2>6 DEF Left
<1>6. todo' # <<>> /\ last' = FALSE
  BY <1>1 DEF HInv, Hashing
<1> QED BY <1>1, <1>4, <1>5, <1>6 DEF HInv, Hashing

LEMMA HInvAbsorbRest ==
    ASSUME HInv, AbsorbRest
    PROVE  HInv'
<1>1. /\ build' = build /\ r' = 0 /\ last' = TRUE /\ msg' = msg
      /\ digests' = digests /\ pc' = "theta" /\ todo' = todo /\ pc = "absorb"
      /\ Len(msg) < 136 /\ st' = Absorbed(Padded)
  BY DEF AbsorbRest, RATE
<1>2. st' \in Rows
  BY <1>1, PaddedBytes, AbsorbedLanes
<1>3. HTyped'
  BY <1>1, <1>2 DEF HInv, HTyped
<1>4. PICK n \in Nat : Left(Head(todo), n)
  BY <1>1 DEF HInv, Hashing
<1>5. Left(Head(todo), n)'
  BY <1>1, <1>4 DEF Left
<1>6. todo' # <<>>
  BY <1>1 DEF HInv, Hashing
<1> QED BY <1>1, <1>3, <1>5, <1>6 DEF HInv, Hashing

\* The steps of the permutation change the lanes, the round and the step only.
LEMMA HInvPermute ==
    ASSUME HInv, Hashing, UNCHANGED <<build, msg, last, todo, digests>>,
           st' \in Rows, r' \in 0 .. 23,
           \/ pc' \in {"theta", "rhopi", "chi", "iota"}
           \/ pc' = IF last THEN "squeeze" ELSE "absorb"
    PROVE  HInv'
<1>1. last \in BOOLEAN
  BY DEF HInv, HTyped
<1>2. pc' \in {"theta", "rhopi", "chi", "iota", "squeeze", "absorb"}
  BY <1>1
<1>3. HTyped'
  BY <1>2 DEF HInv, HTyped
<1>4. PICK n \in Nat : Left(Head(todo), n)
  BY DEF HInv
<1>5. Left(Head(todo), n)'
  BY <1>4 DEF Left
<1>6. todo' # <<>> /\ (last' => Len(msg') < 136)
  BY DEF HInv
<1>7. (pc' = "absorb" => last' = FALSE) /\ (pc' = "squeeze" => last' = TRUE)
  BY <1>1
<1> QED BY <1>2, <1>3, <1>5, <1>6, <1>7 DEF HInv

LEMMA HInvReturn ==
    ASSUME HInv, Return
    PROVE  HInv'
<1>1. /\ build' = build /\ r' = r /\ last' = last /\ msg' = msg /\ st' = st
      /\ digests' = <<>> /\ pc' = "idle" /\ todo' = todo
  BY DEF Return
<1>2. digests' \in Seq(Digests)
  BY <1>1, EmptySeq
<1>3. HTyped'
  BY <1>1, <1>2 DEF HInv, HTyped
<1> QED BY <1>1, <1>3 DEF HInv, Hashing

\* The digest, by the number of a bit.
DigestOf == [n \in 1 .. 32 |-> {b \in 0 .. 7 : (8 * (n - 1) + b) % 64 \in st[(n - 1) \div 8]}]

LEMMA HInvSqueeze ==
    ASSUME HInv, Squeeze
    PROVE  HInv' /\ digests' = Append(digests, DigestOf)
<1>1. /\ build' = build /\ r' = r /\ last' = last /\ msg' = msg /\ st' = st /\ pc = "squeeze"
      /\ digests' = Append(digests, DigestOf) /\ todo' = Tail(todo)
      /\ pc' = IF todo' = <<>> THEN "returned" ELSE "begin"
  BY DEF Squeeze, DigestOf
<1>2. todo # <<>>
  BY <1>1 DEF HInv, Hashing
<1>3. todo' \in Seq(Texts)
  BY <1>1, <1>2, HeadTailProperties DEF HInv, HTyped
<1>4. DigestOf \in Digests
  BY DEF DigestOf, Digests, Bytes
<1>5. digests' \in Seq(Digests)
  BY <1>1, <1>4, AppendProperties DEF HInv, HTyped
<1>6. pc' \in {"returned", "begin"}
  BY <1>1
<1>7. HTyped'
  BY <1>1, <1>3, <1>5, <1>6 DEF HInv, HTyped
<1>8. pc' = "begin" => todo' # <<>>
  BY <1>1
<1> QED BY <1>1, <1>6, <1>7, <1>8 DEF HInv, Hashing

-----------------------------------------------------------------------------
(* The lanes after each step of the permutation. *)

Column(i) == Xor(Xor(Xor(Xor(st[i], st[i + 5]), st[i + 10]), st[i + 15]), st[i + 20])

LEMMA LaneIsWord == ASSUME HInv, NEW k \in 0 .. 24 PROVE st[k] \in Words
BY DEF HInv, HTyped, Rows

LEMMA ColumnWord == ASSUME HInv, NEW i \in 0 .. 4 PROVE Column(i) \in Words
<1>1. /\ st[i] \in Words /\ st[i + 5] \in Words /\ st[i + 10] \in Words
      /\ st[i + 15] \in Words /\ st[i + 20] \in Words
  BY LaneIsWord
<1>2. Xor(st[i], st[i + 5]) \in Words
  BY <1>1, XorWord
<1>3. Xor(Xor(st[i], st[i + 5]), st[i + 10]) \in Words
  BY <1>1, <1>2, XorWord
<1>4. Xor(Xor(Xor(st[i], st[i + 5]), st[i + 10]), st[i + 15]) \in Words
  BY <1>1, <1>3, XorWord
<1> QED BY <1>1, <1>4, XorWord DEF Column

LEMMA ColumnBits ==
    ASSUME HInv, NEW i \in 0 .. 4, NEW z
    PROVE  z \in Column(i) <=> Sponge!Odd({y \in 0 .. 4 : z \in st[i + 5 * y]})
<1> DEFINE ys == {y \in 0 .. 4 : z \in st[i + 5 * y]}
<1>1. z \in Column(i) <=>
        (((((z \in st[i]) # (z \in st[i + 5])) # (z \in st[i + 10])) # (z \in st[i + 15]))
            # (z \in st[i + 20]))
  BY XorBits DEF Column
<1>3. Sponge!Odd(ys) <=>
        (((((0 \in ys) # (1 \in ys)) # (2 \in ys)) # (3 \in ys)) # (4 \in ys))
  <2>1. ys \in SUBSET (0 .. 4)
    OBVIOUS
  <2> HIDE DEF ys
  <2> QED BY <2>1, Parity
<1>4. /\ (0 \in ys) <=> (z \in st[i])
      /\ (1 \in ys) <=> (z \in st[i + 5])
      /\ (2 \in ys) <=> (z \in st[i + 10])
      /\ (3 \in ys) <=> (z \in st[i + 15])
      /\ (4 \in ys) <=> (z \in st[i + 20])
  OBVIOUS
<1> QED BY <1>1, <1>3, <1>4

\* What theta mixes into the lanes x + 5y.
Mixed(x) == Xor(Column((x + 4) % 5), ROTL64(Column((x + 1) % 5), 1))

LEMMA ThetaLanes ==
    ASSUME HInv, Theta
    PROVE  /\ st' \in Rows
           /\ \A k \in 0 .. 24 : st'[k] = Xor(st[k], Mixed(k % 5))
<1>1. st' = [k \in 0 .. 24 |-> Xor(st[k], Mixed(k % 5))]
  <2> DEFINE bc == [i \in 0 .. 4 |-> Column(i)]
             t == [i \in 0 .. 4 |-> Xor(bc[(i + 4) % 5], ROTL64(bc[(i + 1) % 5], 1))]
  <2>1. st' = [k \in 0 .. 24 |-> Xor(st[k], t[k % 5])]
    BY DEF Theta, Column, Lanes
  <2>2. ASSUME NEW x \in 0 .. 4 PROVE t[x] = Mixed(x)
    <3>1. (x + 4) % 5 \in 0 .. 4 /\ (x + 1) % 5 \in 0 .. 4
      OBVIOUS
    <3>2. bc[(x + 4) % 5] = Column((x + 4) % 5) /\ bc[(x + 1) % 5] = Column((x + 1) % 5)
      BY <3>1
    <3>3. t[x] = Xor(bc[(x + 4) % 5], ROTL64(bc[(x + 1) % 5], 1))
      OBVIOUS
    <3> HIDE DEF bc, t
    <3> QED BY <3>2, <3>3 DEF Mixed
  <2> HIDE DEF bc, t
  <2>3. ASSUME NEW k \in 0 .. 24 PROVE Xor(st[k], t[k % 5]) = Xor(st[k], Mixed(k % 5))
    <3>1. k % 5 \in 0 .. 4
      OBVIOUS
    <3> QED BY <2>2, <3>1
  <2> QED BY <2>1, <2>3
<1>2. ASSUME NEW k \in 0 .. 24 PROVE Xor(st[k], Mixed(k % 5)) \in Words
  <2>1. ((k % 5) + 4) % 5 \in 0 .. 4 /\ ((k % 5) + 1) % 5 \in 0 .. 4
    OBVIOUS
  <2>2. Column(((k % 5) + 4) % 5) \in Words /\ Column(((k % 5) + 1) % 5) \in Words
    BY <2>1, ColumnWord
  <2>3. ROTL64(Column(((k % 5) + 1) % 5), 1) \in Words
    BY <2>2, RotlWord
  <2>4. Mixed(k % 5) \in Words
    BY <2>2, <2>3, XorWord DEF Mixed
  <2> QED BY <2>4, LaneIsWord, XorWord
<1> QED BY <1>1, <1>2 DEF Rows

LEMMA RhoPiRows == ASSUME HInv, RhoPi PROVE st' \in Rows
<1>1. st' = [k \in 0 .. 24 |->
           IF k = 0 THEN st[0] ELSE ROTL64(st[Before(k)], keccakf_rotc[Place(k)])]
  BY DEF RhoPi, Lanes
<1>2. ASSUME NEW k \in 1 .. 24 PROVE ROTL64(st[Before(k)], keccakf_rotc[Place(k)]) \in Words
  <2>1. Before(k) \in 0 .. 24 /\ keccakf_rotc[Place(k)] \in Nat
    <3>1. PICK i \in 1 .. 24 : i = Place(k)
      BY PlaceIs DEF Where
    <3>2. keccakf_rotc[i] \in Nat
      BY DEF keccakf_rotc
    <3>3. \A j \in 1 .. 24 : keccakf_piln[j] \in 0 .. 24
      BY DEF keccakf_piln
    <3>4. Before(k) = IF i = 1 THEN 1 ELSE keccakf_piln[i - 1]
      BY <3>1 DEF Before
    <3>5. Before(k) \in 0 .. 24
      BY <3>3, <3>4
    <3> QED BY <3>1, <3>2, <3>5
  <2> QED BY <2>1, LaneIsWord, RotlWord
<1>3. st[0] \in Words
  BY LaneIsWord
<1>4. ASSUME NEW k \in 0 .. 24
      PROVE  (IF k = 0 THEN st[0] ELSE ROTL64(st[Before(k)], keccakf_rotc[Place(k)])) \in Words
  BY <1>2, <1>3
<1> QED BY <1>1, <1>4 DEF Rows

LEMMA ChiLanes ==
    ASSUME HInv, Chi
    PROVE  /\ st' \in Rows
           /\ \A k \in 0 .. 24 : st'[k] = ChiOf(st, k)
<1>1. st' = [k \in 0 .. 24 |-> ChiOf(st, k)]
  BY DEF Chi, Lanes
<1>2. ASSUME NEW k \in 0 .. 24 PROVE ChiOf(st, k) \in Words
  <2>1. k - (k % 5) + ((k + 2) % 5) \in 0 .. 24 /\ k - (k % 5) + ((k + 1) % 5) \in 0 .. 24
    OBVIOUS
  <2>2. PICK a, b : a = st[k - (k % 5) + ((k + 2) % 5)] /\ b = st[k - (k % 5) + ((k + 1) % 5)]
    OBVIOUS
  <2>3. a \in Words
    BY <2>1, <2>2, LaneIsWord
  <2>4. a \ b \in Words
    BY <2>3 DEF Words
  <2> QED BY <2>2, <2>4, LaneIsWord, XorWord DEF ChiOf
<1> QED BY <1>1, <1>2 DEF Rows

LEMMA RndcWords == \A n \in 0 .. 23 : keccakf_rndc[n + 1] \in Words
BY DEF keccakf_rndc, Words

LEMMA IotaLanes ==
    ASSUME HInv, Iota
    PROVE  /\ st' \in Rows
           /\ st'[0] = Xor(st[0], keccakf_rndc[r + 1])
           /\ \A k \in 1 .. 24 : st'[k] = st[k]
<1>1. PICK word : word = Xor(st[0], keccakf_rndc[r + 1])
  OBVIOUS
<1>2. st' = [st EXCEPT ![0] = word]
  BY <1>1 DEF Iota
<1>3. st \in [0 .. 24 -> Words] /\ r \in 0 .. 23
  BY DEF HInv, HTyped, Rows
<1>4. word \in Words
  BY <1>1, <1>3, RndcWords, XorWord
<1> QED BY <1>1, <1>2, <1>3, <1>4 DEF Rows

-----------------------------------------------------------------------------
(* Every step of sha3_256() is a step of the sponge or leaves it alone. *)

LEMMA LaneAt ==
    /\ \A x, y \in 0 .. 4 : A[<<x, y>>] = st[x + 5 * y]
    /\ \A x, y \in 0 .. 4 : A'[<<x, y>>] = st'[x + 5 * y]
    /\ \A c \in (0 .. 4) \X (0 .. 4) : A[c] = st[c[1] + 5 * c[2]]
    /\ \A c \in (0 .. 4) \X (0 .. 4) : A'[c] = st'[c[1] + 5 * c[2]]
    /\ DOMAIN A = (0 .. 4) \X (0 .. 4) /\ DOMAIN A' = (0 .. 4) \X (0 .. 4)
BY DEF A

LEMMA Lane == ASSUME NEW x \in 0 .. 4, NEW y \in 0 .. 4
              PROVE  x + 5 * y \in 0 .. 24 /\ (x + 5 * y) % 5 = x
OBVIOUS

\* What a step inside a hash shows of the sponge.
LEMMA Inside ==
    ASSUME Hashing, Hashing', todo' = todo
    PROVE  /\ step = pc /\ step' = pc' /\ round = r /\ round' = r'
           /\ message = Head(todo) /\ message' = Head(todo)
           /\ digest = {} /\ digest' = {}
BY DEF step, round, message, digest, Hashing

LEMMA Counted ==
    ASSUME NEW all, NEW len \in Nat, NEW n \in Nat, all = 136 * n + len
    PROVE  (all - len) \div 136 = n
OBVIOUS

LEMMA BlocksAre ==
    ASSUME HInv, Hashing, NEW n \in Nat, Left(Head(todo), n)
    PROVE  blocks = n + (IF last THEN 1 ELSE 0)
<1>1. PICK len \in Nat, all \in Nat : len = Len(msg) /\ all = Len(Head(todo))
  BY HeadIsText, TextShape DEF HInv, HTyped
<1>2. all = 136 * n + len
  BY <1>1 DEF Left
<1>3. (Len(Head(todo)) - Len(msg)) \div 136 = n
  BY <1>1, <1>2, Counted
<1> QED BY <1>3 DEF blocks, RATE

LEMMA BlocksStay ==
    ASSUME Hashing, Hashing', UNCHANGED <<todo, msg, last>>
    PROVE  blocks' = blocks
BY DEF blocks

LEMMA ThetaRefines == ASSUME HInv, Theta PROVE Sponge!Theta
<1> DEFINE C == {xz \in (0 .. 4) \X (0 .. 63) : Sponge!Odd({y \in 0 .. 4 : xz[2] \in A[xz[1], y]})}
           G == [c \in (0 .. 4) \X (0 .. 4) |->
                    {z \in 0 .. 63 : (z \in A[c]) # ((<<(c[1] + 4) % 5, z>> \in C) #
                                               (<<(c[1] + 1) % 5, (z + 63) % 64>> \in C))}]
<1>1. ASSUME NEW x \in 0 .. 4, NEW z \in 0 .. 63 PROVE <<x, z>> \in C <=> z \in Column(x)
  <2>1. <<x, z>> \in C <=> Sponge!Odd({y \in 0 .. 4 : z \in A[x, y]})
    OBVIOUS
  <2>2. {y \in 0 .. 4 : z \in A[x, y]} = {y \in 0 .. 4 : z \in st[x + 5 * y]}
    <3>1. \A y \in 0 .. 4 : A[x, y] = st[x + 5 * y]
      BY LaneAt, Zenon
    <3> QED BY <3>1, Zenon
  <2>3. z \in Column(x) <=> Sponge!Odd({y \in 0 .. 4 : z \in st[x + 5 * y]})
    BY ColumnBits
  <2> QED BY <2>1, <2>2, <2>3
<1> HIDE DEF C
<1>2. ASSUME NEW x \in 0 .. 4, NEW z \in 0 .. 63
      PROVE  z \in Mixed(x) <=>
               ((<<(x + 4) % 5, z>> \in C) # (<<(x + 1) % 5, (z + 63) % 64>> \in C))
  <2>1. PICK w \in 0 .. 4, e \in 0 .. 4, d \in 0 .. 63 :
          w = (x + 4) % 5 /\ e = (x + 1) % 5 /\ d = (z + 63) % 64
    OBVIOUS
  <2>2. z \in Mixed(x) <=> ((z \in Column(w)) # (z \in ROTL64(Column(e), 1)))
    BY <2>1, XorBits DEF Mixed
  <2>3. z \in ROTL64(Column(e), 1) <=> d \in Column(e)
    BY <2>1, ColumnWord, RotlByOne
  <2>4. (<<w, z>> \in C <=> z \in Column(w)) /\ (<<e, d>> \in C <=> d \in Column(e))
    BY <1>1
  <2> QED BY <2>1, <2>2, <2>3, <2>4
<1>3. ASSUME NEW x \in 0 .. 4, NEW y \in 0 .. 4 PROVE A'[<<x, y>>] = G[<<x, y>>]
  <2>1. PICK k \in 0 .. 24 : k = x + 5 * y /\ k % 5 = x
    BY Lane
  <2>2. st'[k] = Xor(st[k], Mixed(x)) /\ st'[k] \in Words
    BY <2>1, ThetaLanes DEF Rows
  <2>3. A'[<<x, y>>] = st'[k] /\ A[<<x, y>>] = st[k]
    BY <2>1, LaneAt
  <2>4. ASSUME NEW z \in 0 .. 63
        PROVE  z \in st'[k] <=> ((z \in A[<<x, y>>]) # ((<<(x + 4) % 5, z>> \in C) #
                                               (<<(x + 1) % 5, (z + 63) % 64>> \in C)))
    <3>1. z \in st'[k] <=> ((z \in st[k]) # (z \in Mixed(x)))
      BY <2>2, XorBits
    <3>2. z \in st[k] <=> z \in A[<<x, y>>]
      BY <2>3
    <3>3. z \in Mixed(x) <=>
            ((<<(x + 4) % 5, z>> \in C) # (<<(x + 1) % 5, (z + 63) % 64>> \in C))
      BY <1>2
    <3> QED BY <3>1, <3>2, <3>3
  <2>5. st'[k] = {z \in 0 .. 63 : (z \in A[<<x, y>>]) # ((<<(x + 4) % 5, z>> \in C) #
                                               (<<(x + 1) % 5, (z + 63) % 64>> \in C))}
    BY <2>2, <2>4 DEF Words
  <2>6. G[<<x, y>>] = {z \in 0 .. 63 : (z \in A[<<x, y>>]) # ((<<(x + 4) % 5, z>> \in C) #
                                               (<<(x + 1) % 5, (z + 63) % 64>> \in C))}
    OBVIOUS
  <2> QED BY <2>3, <2>5, <2>6
<1>4. A' = G
  <2>1. DOMAIN G = (0 .. 4) \X (0 .. 4)
    OBVIOUS
  <2>2. A' = [c \in DOMAIN A' |-> A'[c]] /\ G = [c \in DOMAIN G |-> G[c]]
    BY DEF A
  <2>3. ASSUME NEW c \in (0 .. 4) \X (0 .. 4) PROVE A'[c] = G[c]
    <3>1. PICK x \in 0 .. 4, y \in 0 .. 4 : c = <<x, y>>
      OBVIOUS
    <3> HIDE DEF G
    <3> QED BY <1>3, <3>1
  <2> HIDE DEF G
  <2> QED BY <2>1, <2>2, <2>3, LaneAt
<1>5. /\ pc = "theta" /\ pc' = "rhopi" /\ r' = r /\ msg' = msg /\ last' = last /\ todo' = todo
      /\ digests' = digests
  BY DEF Theta
<1>6. Hashing /\ Hashing'
  BY <1>5 DEF Hashing
<1>7. /\ step = "theta" /\ step' = "rhopi" /\ round' = round /\ message' = message
      /\ blocks' = blocks /\ digest' = digest
  BY <1>5, <1>6, Inside, BlocksStay
<1> QED BY <1>4, <1>7 DEF Sponge!Theta, Sponge!Sheet, Sponge!Z, C

LEMMA AbsorbsBlock ==
    ASSUME HInv, NEW n \in Nat, NEW m \in Texts, NEW block,
           \A i \in 1 .. 136 : block[i] = PadByte(m, 136 * n + i) /\ block[i] \subseteq 0 .. 7,
           st' = Absorbed(block)
    PROVE  A' = [c \in Sponge!Sheet \X Sponge!Sheet |->
                    {z \in Sponge!Z : (z \in A[c]) #
                        (64 * (5 * c[2] + c[1]) + z \in Sponge!Block(m, n))}]
<1> DEFINE G == [c \in (0 .. 4) \X (0 .. 4) |->
                    {z \in 0 .. 63 : (z \in A[c]) #
                        (64 * (5 * c[2] + c[1]) + z \in Sponge!Block(m, n))}]
<1>1. ASSUME NEW x \in 0 .. 4, NEW y \in 0 .. 4 PROVE A'[<<x, y>>] = G[<<x, y>>]
  <2>1. PICK k \in 0 .. 24 : k = x + 5 * y /\ k = 5 * y + x
    OBVIOUS
  <2>2. st'[k] = (IF k >= 17 THEN st[k] ELSE Xor(st[k], LaneOf(block, k))) /\ st'[k] \in Words
    BY AbsorbedLanes DEF Rows
  <2>3. A'[<<x, y>>] = st'[k] /\ A[<<x, y>>] = st[k]
    <3>1. A'[<<x, y>>] = st'[x + 5 * y] /\ A[<<x, y>>] = st[x + 5 * y]
      BY LaneAt
    <3> QED BY <2>1, <3>1
  <2>4. ASSUME NEW z \in 0 .. 63
        PROVE  z \in st'[k] <=> ((z \in A[<<x, y>>]) # (64 * k + z \in Sponge!Block(m, n)))
    <3>1. 64 * k + z \in Sponge!Block(m, n) <=> k < 17 /\ z \in LaneOf(block, k)
      BY BlockBits
    <3>2. CASE k >= 17
      <4>1. st'[k] = A[<<x, y>>] /\ ~ k < 17
        BY <2>2, <2>3, <3>2
      <4> QED BY <3>1, <4>1
    <3>3. CASE k < 17
      <4>1. st'[k] = Xor(A[<<x, y>>], LaneOf(block, k))
        BY <2>2, <2>3, <3>3
      <4>2. z \in st'[k] <=> ((z \in A[<<x, y>>]) # (z \in LaneOf(block, k)))
        BY <4>1, XorBits
      <4> QED BY <3>1, <3>3, <4>2
    <3> QED BY <3>2, <3>3
  <2>5. st'[k] = {z \in 0 .. 63 : (z \in A[<<x, y>>]) # (64 * k + z \in Sponge!Block(m, n))}
    BY <2>2, <2>4 DEF Words
  <2>6. G[<<x, y>>] = {z \in 0 .. 63 : (z \in A[<<x, y>>]) #
                                         (64 * (5 * y + x) + z \in Sponge!Block(m, n))}
    OBVIOUS
  <2> QED BY <2>1, <2>3, <2>5, <2>6
<1>2. A' = G
  <2>1. DOMAIN G = (0 .. 4) \X (0 .. 4)
    OBVIOUS
  <2>2. A' = [c \in DOMAIN A' |-> A'[c]] /\ G = [c \in DOMAIN G |-> G[c]]
    BY DEF A
  <2>3. ASSUME NEW c \in (0 .. 4) \X (0 .. 4) PROVE A'[c] = G[c]
    <3>1. PICK x \in 0 .. 4, y \in 0 .. 4 : c = <<x, y>>
      OBVIOUS
    <3> HIDE DEF G
    <3> QED BY <1>1, <3>1
  <2> HIDE DEF G
  <2> QED BY <2>1, <2>2, <2>3, LaneAt
<1> QED BY <1>2 DEF Sponge!Sheet, Sponge!Z

LEMMA AbsorbRefines == ASSUME HInv, AbsorbBlock \/ AbsorbRest PROVE Sponge!Absorb
<1>1. /\ pc = "absorb" /\ pc' = "theta" /\ r' = 0 /\ todo' = todo /\ digests' = digests
      /\ last = FALSE
  BY DEF AbsorbBlock, AbsorbRest, HInv
<1>2. Hashing /\ Hashing'
  BY <1>1 DEF Hashing
<1>3. PICK n \in Nat : Left(Head(todo), n)
  BY <1>2 DEF HInv
<1>4. PICK m \in Texts : m = Head(todo)
  BY <1>2, HeadIsText
<1>5. PICK len \in Nat : len = Len(msg)
  BY TextShape DEF HInv, HTyped
<1>6. Len(m) = 136 * n + len /\ \A i \in 1 .. len : msg[i] = m[136 * n + i]
  BY <1>3, <1>4, <1>5 DEF Left
<1>7. blocks = n
  BY <1>1, <1>2, <1>3, BlocksAre
<1>8. blocks' = n + 1 /\ \E block : st' = Absorbed(block) /\ \A i \in 1 .. 136 :
         block[i] = PadByte(m, 136 * n + i) /\ block[i] \subseteq 0 .. 7
  <2>1. CASE AbsorbBlock
    <3>1. last' = last /\ len >= 136 /\ st' = Absorbed(msg)
      BY <1>5, <2>1 DEF AbsorbBlock, RATE
    <3>2. HInv' /\ Left(Head(todo), n + 1)'
      BY <1>3, <2>1, HInvAbsorbBlock
    <3>3. blocks' = n + 1
      <4>1. PICK len2 \in Nat, all \in Nat : len2 = Len(msg') /\ all = Len(Head(todo'))
        <5>1. todo' = todo /\ Len(Head(todo)) \in Nat
          BY <1>1, <1>4, TextShape
        <5>2. Len(msg') \in Nat
          BY <3>2, TextShape DEF HInv, HTyped
        <5> QED BY <5>1, <5>2
      <4>2. all = 136 * (n + 1) + len2 /\ n + 1 \in Nat
        BY <3>2, <4>1 DEF Left
      <4>3. (Len(Head(todo')) - Len(msg')) \div 136 = n + 1
        BY <4>1, <4>2, Counted
      <4>4. last' = FALSE
        BY <1>1, <3>1
      <4>5. blocks' = (Len(Head(todo')) - Len(msg')) \div 136 + (IF last' THEN 1 ELSE 0)
        BY <1>2 DEF blocks, RATE
      <4>6. blocks' = (n + 1) + 0
        BY <4>3, <4>4, <4>5
      <4> QED BY <4>6
    <3>4. ASSUME NEW i \in 1 .. 136
          PROVE  msg[i] = PadByte(m, 136 * n + i) /\ msg[i] \subseteq 0 .. 7
      <4>1. PICK p \in Nat, bl \in Nat : p = 136 * n + i /\ bl = Sponge!Blocks(m)
        <5>1. 136 * n + i \in Nat /\ Sponge!Blocks(m) \in Nat
          BY BlocksType
        <5> QED BY <5>1
      <4>2. Len(m) >= p /\ msg[i] = m[p]
        BY <1>6, <3>1, <4>1
      <4>3. bl > n + 1
        BY <1>6, <3>1, <4>1, BlocksOf
      <4>4. p # 136 * bl
        BY <4>1, <4>3
      <4>5. PadByte(m, p) = m[p]
        BY <4>1, <4>2, <4>4 DEF PadByte
      <4>6. msg[i] \subseteq 0 .. 7
        BY <1>5, <3>1, BlockBytes
      <4> QED BY <4>1, <4>2, <4>5, <4>6
    <3> QED BY <3>1, <3>3, <3>4
  <2>2. CASE AbsorbRest
    <3>1. last' = TRUE /\ msg' = msg /\ len < 136 /\ st' = Absorbed(Padded)
      BY <1>5, <2>2 DEF AbsorbRest, RATE
    <3>2. blocks' = n + 1
      <4>1. (Len(Head(todo')) - Len(msg')) \div 136 = n
        BY <1>1, <1>4, <1>5, <1>6, <3>1, Counted
      <4> QED BY <1>2, <3>1, <4>1 DEF blocks, RATE
    <3>3. ASSUME NEW i \in 1 .. 136
          PROVE  Padded[i] = PadByte(m, 136 * n + i) /\ Padded[i] \subseteq 0 .. 7
      <4>1. PICK p \in Nat, bl \in Nat : p = 136 * n + i /\ bl = Sponge!Blocks(m)
        <5>1. 136 * n + i \in Nat /\ Sponge!Blocks(m) \in Nat
          BY BlocksType
        <5> QED BY <5>1
      <4>2. bl = n + 1
        BY <1>6, <3>1, <4>1, BlocksOf
      <4>3. PICK lm \in Nat : lm = Len(m) /\ lm = 136 * n + len
        BY <1>6
      <4>4. (p = 136 * bl <=> i = 136) /\ (p <= lm <=> i <= len) /\ (p = lm + 1 <=> i = len + 1)
        BY <4>1, <4>2, <4>3
      <4>5. PadByte(m, p) =
              (IF p <= lm THEN m[p] ELSE IF p = lm + 1 THEN {1, 2} ELSE {})
                  \cup (IF p = 136 * bl THEN {7} ELSE {})
        BY <4>1, <4>3 DEF PadByte
      <4>6. Padded[i] =
              (IF i <= len THEN msg[i] ELSE IF i = len + 1 THEN {1, 2} ELSE {})
                  \cup (IF i = 136 THEN {7} ELSE {})
        BY <1>5 DEF Padded, RATE
      <4>7. i <= len => msg[i] = m[p]
        BY <1>6, <4>1
      <4>8. Padded[i] \subseteq 0 .. 7
        BY <1>5, <3>1, PaddedBytes
      <4> QED BY <4>1, <4>4, <4>5, <4>6, <4>7, <4>8
    <3> QED BY <3>1, <3>2, <3>3
  <2> QED BY <2>1, <2>2
<1>9. A' = [c \in Sponge!Sheet \X Sponge!Sheet |->
                {z \in Sponge!Z : (z \in A[c]) #
                    (64 * (5 * c[2] + c[1]) + z \in Sponge!Block(m, n))}]
  <2>1. PICK block : st' = Absorbed(block) /\ \A i \in 1 .. 136 :
           block[i] = PadByte(m, 136 * n + i) /\ block[i] \subseteq 0 .. 7
    BY <1>8
  <2> QED BY <2>1, AbsorbsBlock
<1>10. /\ step = "absorb" /\ step' = "theta" /\ round' = 0 /\ message' = m /\ message = m
       /\ blocks = n /\ blocks' = n + 1 /\ digest' = digest
  BY <1>1, <1>2, <1>4, <1>7, <1>8, Inside
<1> QED BY <1>9, <1>10 DEF Sponge!Absorb

-----------------------------------------------------------------------------
(* Rho and pi, chi, iota, the digest. *)

LEMMA LanesTyped == ASSUME st' \in Rows PROVE A' \in [(0 .. 4) \X (0 .. 4) -> SUBSET (0 .. 63)]
<1>1. ASSUME NEW c \in (0 .. 4) \X (0 .. 4) PROVE A'[c] \in SUBSET (0 .. 63)
  <2>1. PICK x \in 0 .. 4, y \in 0 .. 4 : c = <<x, y>>
    OBVIOUS
  <2>2. A'[<<x, y>>] = st'[x + 5 * y] /\ x + 5 * y \in 0 .. 24
    BY LaneAt, Lane
  <2>3. st'[x + 5 * y] \in SUBSET (0 .. 63)
    BY <2>2 DEF Rows, Words
  <2> QED BY <2>1, <2>2, <2>3
<1>2. A' = [c \in (0 .. 4) \X (0 .. 4) |-> A'[c]]
  BY DEF A
<1> QED BY <1>1, <1>2

LEMMA RhoPiRefines == ASSUME HInv, RhoPi PROVE Sponge!RhoPi
<1>1. /\ pc = "rhopi" /\ pc' = "chi" /\ r' = r /\ msg' = msg /\ last' = last /\ todo' = todo
      /\ digests' = digests
      /\ st' = [k \in 0 .. 24 |->
                 IF k = 0 THEN st[0] ELSE ROTL64(st[Before(k)], keccakf_rotc[Place(k)])]
  BY DEF RhoPi, Lanes
<1>2. Hashing /\ Hashing'
  BY <1>1 DEF Hashing
<1>3. /\ step = "rhopi" /\ step' = "chi" /\ round' = round /\ message' = message
      /\ blocks' = blocks /\ digest' = digest
  BY <1>1, <1>2, Inside, BlocksStay
<1>4. A' \in [(0 .. 4) \X (0 .. 4) -> SUBSET (0 .. 63)]
  BY RhoPiRows, LanesTyped
<1>5. ASSUME NEW x \in 0 .. 4, NEW y \in 0 .. 4, <<x, y>> # <<3, 4>>
      PROVE  A'[y, (2 * x + 3 * y) % 5] =
                 {(z + (Sponge!Offset[x, y] + OffsetSlip[x, y])) % 64 : z \in A[x, y]}
  <2>1. PICK v \in 0 .. 4, k \in 0 .. 24 : v = (2 * x + 3 * y) % 5 /\ k = y + 5 * v
    <3>1. (2 * x + 3 * y) % 5 \in 0 .. 4
      OBVIOUS
    <3> QED BY <3>1, Lane
  <2>2. PICK standard, slip, offset :
            /\ standard = Sponge!Offset[x, y] /\ slip = OffsetSlip[x, y] /\ offset = standard + slip
    OBVIOUS
  <2>3. A'[<<y, v>>] = st'[k] /\ A[<<x, y>>] = st[x + 5 * y] /\ x + 5 * y \in 0 .. 24
    BY <2>1, LaneAt, Lane
  <2>4. st'[k] = {(z + offset) % 64 : z \in st[x + 5 * y]}
    <3>1. CASE <<x, y>> = <<0, 0>>
      <4>1. x = 0 /\ y = 0 /\ k = 0
        BY <2>1, <3>1
      <4>2. st'[k] = st[0] /\ st[0] \in Words
        BY <1>1, <4>1, LaneIsWord
      <4>3. standard = 0 /\ slip = 0
        <5>1. Sponge!Offset[<<0, 0>>] = 0 /\ OffsetSlip[<<0, 0>>] = 0
          BY DEF Sponge!Offset, Sponge!Sheet, OffsetSlip
        <5>2. /\ Sponge!Offset[x, y] = Sponge!Offset[<<x, y>>]
              /\ OffsetSlip[x, y] = OffsetSlip[<<x, y>>]
          BY Zenon
        <5> QED BY <2>2, <3>1, <5>1, <5>2, Zenon
      <4>4. \A z \in 0 .. 63 : (z + offset) % 64 = z
        BY <2>2, <4>3
      <4>5. {(z + offset) % 64 : z \in st[0]} = st[0]
        BY <4>2, <4>4 DEF Words
      <4> QED BY <4>1, <4>2, <4>5
    <3>2. CASE <<x, y>> # <<0, 0>>
      <4>1. /\ k \in 1 .. 24 /\ Before(k) = x + 5 * y
            /\ keccakf_rotc[Place(k)] = offset /\ keccakf_rotc[Place(k)] \in 0 .. 63
        <5>1. LET h == y + 5 * ((2 * x + 3 * y) % 5)
              IN /\ h \in 1 .. 24
                 /\ Before(h) = x + 5 * y
                 /\ keccakf_rotc[Place(h)] = Sponge!Offset[x, y] + OffsetSlip[x, y]
                 /\ keccakf_rotc[Place(h)] \in 0 .. 63
          BY <1>5, <3>2, RhoPiLanes, Zenon
        <5> QED BY <2>1, <2>2, <5>1, Zenon
      <4>2. st'[k] = ROTL64(st[x + 5 * y], offset)
        BY <1>1, <4>1
      <4>3. st[x + 5 * y] \in Words /\ offset \in Nat /\ offset < 64
        BY <2>3, <4>1, LaneIsWord
      <4> QED BY <4>2, <4>3, RotlWord
    <3> QED BY <3>1, <3>2
  <2>5. A'[<<y, v>>] = {(z + offset) % 64 : z \in A[<<x, y>>]}
    BY <2>3, <2>4
  <2> QED BY <2>1, <2>2, <2>5, Zenon
<1> QED BY <1>3, <1>4, <1>5 DEF Sponge!RhoPi, Sponge!Sheet, Sponge!Z

LEMMA ChiRefines == ASSUME HInv, Chi PROVE Sponge!Chi
<1> DEFINE G == [c \in (0 .. 4) \X (0 .. 4) |->
                {z \in 0 .. 63 : (z \in A[c]) # (/\ z \notin A[<<(c[1] + 1) % 5, c[2]>>]
                                                 /\ z \in A[<<(c[1] + 2) % 5, c[2]>>])}]
<1>1. ASSUME NEW x \in 0 .. 4, NEW y \in 0 .. 4 PROVE A'[<<x, y>>] = G[<<x, y>>]
  <2>1. PICK v \in 0 .. 4, w \in 0 .. 4, k \in 0 .. 24 :
           v = (x + 1) % 5 /\ w = (x + 2) % 5 /\ k = x + 5 * y /\ k % 5 = x
    BY Lane
  <2>2. k - (k % 5) + ((k + 2) % 5) = w + 5 * y /\ k - (k % 5) + ((k + 1) % 5) = v + 5 * y
    BY <2>1
  <2>3. st'[k] = Xor(st[k], st[w + 5 * y] \ st[v + 5 * y]) /\ st'[k] \in Words
    BY <2>2, ChiLanes DEF ChiOf, Rows
  <2>4. /\ A'[<<x, y>>] = st'[k] /\ A[<<x, y>>] = st[k]
        /\ A[<<v, y>>] = st[v + 5 * y] /\ A[<<w, y>>] = st[w + 5 * y]
    BY <2>1, LaneAt
  <2>5. ASSUME NEW z \in 0 .. 63
        PROVE  z \in st'[k] <=> ((z \in A[<<x, y>>]) # (z \notin A[<<v, y>>] /\ z \in A[<<w, y>>]))
    <3>1. z \in st'[k] <=> ((z \in st[k]) # (z \in st[w + 5 * y] \ st[v + 5 * y]))
      BY <2>3, XorBits
    <3> QED BY <2>4, <3>1
  <2>6. st'[k] = {z \in 0 .. 63 : (z \in A[<<x, y>>]) # (z \notin A[<<v, y>>] /\ z \in A[<<w, y>>])}
    BY <2>3, <2>5 DEF Words
  <2>7. G[<<x, y>>] = {z \in 0 .. 63 : (z \in A[<<x, y>>]) #
                          (z \notin A[<<(x + 1) % 5, y>>] /\ z \in A[<<(x + 2) % 5, y>>])}
    OBVIOUS
  <2> HIDE DEF G
  <2> QED BY <2>1, <2>4, <2>6, <2>7
<1>2. A' = G
  <2>1. DOMAIN G = (0 .. 4) \X (0 .. 4)
    OBVIOUS
  <2>2. A' = [c \in DOMAIN A' |-> A'[c]] /\ G = [c \in DOMAIN G |-> G[c]]
    BY DEF A
  <2>3. ASSUME NEW c \in (0 .. 4) \X (0 .. 4) PROVE A'[c] = G[c]
    <3>1. PICK x \in 0 .. 4, y \in 0 .. 4 : c = <<x, y>>
      OBVIOUS
    <3> HIDE DEF G
    <3> QED BY <1>1, <3>1
  <2> HIDE DEF G
  <2> QED BY <2>1, <2>2, <2>3, LaneAt
<1>3. /\ pc = "chi" /\ pc' = "iota" /\ r' = r /\ msg' = msg /\ last' = last /\ todo' = todo
      /\ digests' = digests
  BY DEF Chi
<1>4. Hashing /\ Hashing'
  BY <1>3 DEF Hashing
<1>5. /\ step = "chi" /\ step' = "iota" /\ round' = round /\ message' = message
      /\ blocks' = blocks /\ digest' = digest
  BY <1>3, <1>4, Inside, BlocksStay
<1>6. A' = [c \in (0 .. 4) \X (0 .. 4) |->
                {z \in 0 .. 63 : (z \in A[c]) # (/\ z \notin A[(c[1] + 1) % 5, c[2]]
                                                 /\ z \in A[(c[1] + 2) % 5, c[2]])}]
  BY <1>2, Zenon
<1> QED BY <1>5, <1>6, Zenon DEF Sponge!Chi, Sponge!Sheet, Sponge!Z

LEMMA IotaRefines == ASSUME HInv, Iota PROVE Sponge!Iota
<1>1. /\ pc = "iota" /\ msg' = msg /\ last' = last /\ todo' = todo /\ digests' = digests
      /\ \/ r < 23 /\ r' = r + 1 /\ pc' = "theta"
         \/ r = 23 /\ r' = r /\ pc' = IF last THEN "squeeze" ELSE "absorb"
  BY DEF Iota
<1>2. last \in BOOLEAN /\ r \in 0 .. 23
  BY DEF HInv, HTyped
<1>3. Hashing /\ Hashing'
  BY <1>1, <1>2 DEF Hashing
<1>4. /\ step = "iota" /\ step' = pc' /\ round = r /\ round' = r' /\ message' = message
      /\ message = Head(todo) /\ blocks' = blocks /\ digest' = digest
  BY <1>1, <1>3, Inside, BlocksStay
<1>5. A' \in [(0 .. 4) \X (0 .. 4) -> SUBSET (0 .. 63)]
  BY IotaLanes, LanesTyped
<1>6. ASSUME NEW c \in (0 .. 4) \X (0 .. 4), c # <<0, 0>> PROVE A'[c] = A[c]
  <2>1. PICK x \in 0 .. 4, y \in 0 .. 4 : c = <<x, y>>
    OBVIOUS
  <2>2. x + 5 * y \in 1 .. 24
    <3>1. x # 0 \/ y # 0
      BY <1>6, <2>1
    <3> QED BY <3>1
  <2>3. A'[<<x, y>>] = st'[x + 5 * y] /\ A[<<x, y>>] = st[x + 5 * y]
    BY LaneAt
  <2>4. st'[x + 5 * y] = st[x + 5 * y]
    BY <2>2, IotaLanes
  <2> QED BY <2>1, <2>3, <2>4
<1>7. A'[<<0, 0>>] = {z \in 0 .. 63 :
                         (z \in A[<<0, 0>>]) # ((z \in Sponge!RC(r)) # (z \in ConstantSlip[r]))}
  <2>1. PICK constant : constant = keccakf_rndc[r + 1]
    OBVIOUS
  <2>5. \A z : z \in constant <=> ((z \in Sponge!RC(r)) # (z \in ConstantSlip[r]))
    BY <1>2, <2>1, RndcIsRC
  <2>2. A'[<<0, 0>>] = st'[0] /\ A[<<0, 0>>] = st[0]
    <3>1. 0 \in 0 .. 4 /\ 0 + 5 * 0 = 0
      OBVIOUS
    <3> QED BY <3>1, LaneAt
  <2>3. st'[0] = Xor(st[0], constant) /\ st'[0] \in Words
    BY <2>1, IotaLanes DEF Rows
  <2>4. \A z : z \in st'[0] <=> ((z \in st[0]) # (z \in constant))
    BY <2>3, XorBits
  <2> QED BY <2>2, <2>3, <2>4, <2>5 DEF Words
<1>8. r = 23 => (blocks < Sponge!Blocks(message) <=> last = FALSE)
  <2>1. PICK n \in Nat : Left(Head(todo), n)
    BY <1>3 DEF HInv
  <2>2. PICK m \in Texts : m = Head(todo)
    BY <1>3, HeadIsText
  <2>3. PICK len \in Nat : len = Len(msg) /\ Len(m) = 136 * n + len
    BY <2>1, <2>2, TextShape DEF HInv, HTyped, Left
  <2>4. /\ Sponge!Blocks(m) \in Nat
        /\ len < 136 => Sponge!Blocks(m) = n + 1
        /\ len >= 136 => Sponge!Blocks(m) > n + 1
    BY <2>3, BlocksOf
  <2>5. PICK bl \in Nat : bl = Sponge!Blocks(m) /\ bl >= n + 1 /\ (len < 136 => bl = n + 1)
    BY <2>4
  <2>6. CASE last = TRUE
    <3>1. blocks = n + 1
      BY <1>3, <2>1, <2>6, BlocksAre
    <3>2. len < 136
      BY <1>3, <2>3, <2>6 DEF HInv
    <3>3. ~ (blocks < bl)
      BY <2>5, <3>1, <3>2
    <3> QED BY <1>4, <2>2, <2>5, <2>6, <3>3, Zenon
  <2>7. CASE last = FALSE
    <3>1. blocks = n + 0
      BY <1>3, <2>1, <2>7, BlocksAre
    <3>2. blocks < bl
      BY <2>5, <3>1
    <3> QED BY <1>4, <2>2, <2>5, <2>7, <3>2, Zenon
  <2> QED BY <1>2, <2>6, <2>7
<1>9. IF r < 23 THEN step' = "theta" /\ round' = r + 1
      ELSE /\ step' = IF blocks < Sponge!Blocks(message) THEN "absorb" ELSE "squeeze"
           /\ round' = r
  <2>1. CASE r < 23 /\ r' = r + 1 /\ pc' = "theta"
    BY <1>4, <2>1
  <2>2. CASE r = 23 /\ r' = r /\ pc' = IF last THEN "squeeze" ELSE "absorb"
    <3>1. step' = IF blocks < Sponge!Blocks(message) THEN "absorb" ELSE "squeeze"
      <4>1. /\ blocks < Sponge!Blocks(message) <=> last = FALSE
            /\ step' = IF last THEN "squeeze" ELSE "absorb"
        BY <1>4, <1>8, <2>2
      <4>2. CASE last = TRUE
        BY <4>1, <4>2, Zenon
      <4>3. CASE last = FALSE
        BY <4>1, <4>3, Zenon
      <4> QED BY <1>2, <4>2, <4>3
    <3>2. ~ (r < 23) /\ round' = r
      BY <1>4, <2>2
    <3> QED BY <3>1, <3>2, Zenon
  <2> QED BY <1>1, <2>1, <2>2
<1>10. A'[0, 0] = A'[<<0, 0>>] /\ A[0, 0] = A[<<0, 0>>]
  BY Zenon
<1>11. A'[0, 0] = {z \in 0 .. 63 :
                      (z \in A[0, 0]) # ((z \in Sponge!RC(round)) # (z \in ConstantSlip[round]))}
  BY <1>4, <1>7, <1>10, Zenon
<1> QED BY <1>4, <1>5, <1>6, <1>9, <1>11, Zenon DEF Sponge!Iota, Sponge!Sheet, Sponge!Z

\* The bits of a digest, numbered through its bytes.
BitsOf(bytes) == UNION {{8 * (n - 1) + b : b \in bytes[n]} : n \in 1 .. 32}

LEMMA DigestBits ==
    ASSUME HInv
    PROVE  BitsOf(DigestOf) = UNION {{64 * x + z : z \in st[x]} : x \in 0 .. 3}
<1> DEFINE L == UNION {{8 * (n - 1) + b : b \in DigestOf[n]} : n \in 1 .. 32}
           R == UNION {{64 * x + z : z \in st[x]} : x \in 0 .. 3}
<1>1. ASSUME NEW p \in L PROVE p \in R
  <2>1. PICK n \in 1 .. 32 : p \in {8 * (n - 1) + b : b \in DigestOf[n]}
    OBVIOUS
  <2>2. PICK b \in DigestOf[n] : p = 8 * (n - 1) + b
    BY <2>1
  <2>3. b \in 0 .. 7 /\ (8 * (n - 1) + b) % 64 \in st[(n - 1) \div 8]
    BY <2>2 DEF DigestOf
  <2>4. PICK x \in 0 .. 7, j \in 0 .. 7 : n - 1 = 8 * x + j
    BY Octet
  <2>5. PICK z \in 0 .. 63 : z = 8 * j + b
    BY <2>3
  <2>6. x \in 0 .. 3 /\ n = 8 * x + j + 1
    BY <2>4
  <2>7. (8 * (n - 1) + b) % 64 = z /\ (n - 1) \div 8 = x /\ 8 * (n - 1) + b = 64 * x + z
    BY <2>3, <2>5, <2>6
  <2> QED BY <2>2, <2>3, <2>6, <2>7
<1>2. ASSUME NEW p \in R PROVE p \in L
  <2>1. PICK x \in 0 .. 3 : p \in {64 * x + z : z \in st[x]}
    OBVIOUS
  <2>2. PICK z \in st[x] : p = 64 * x + z
    BY <2>1
  <2>3. z \in 0 .. 63
    BY <2>2, LaneIsWord DEF Words
  <2>4. PICK j \in 0 .. 7, b \in 0 .. 7 : z = 8 * j + b
    BY <2>3, Octet
  <2>5. PICK n \in 1 .. 32 : n = 8 * x + j + 1
    OBVIOUS
  <2>6. (8 * (n - 1) + b) % 64 = z /\ (n - 1) \div 8 = x /\ p = 8 * (n - 1) + b
    BY <2>2, <2>4, <2>5
  <2>7. b \in DigestOf[n]
    BY <2>2, <2>6 DEF DigestOf
  <2> QED BY <2>6, <2>7
<1> QED BY <1>1, <1>2 DEF BitsOf

LEMMA SqueezeRefines == ASSUME HInv, Squeeze PROVE Sponge!Squeeze
<1>1. pc = "squeeze" /\ st' = st /\ pc' = IF todo' = <<>> THEN "returned" ELSE "begin"
  BY DEF Squeeze
<1>2. Hashing /\ ~ Hashing'
  BY <1>1 DEF Hashing
<1>3. /\ step = "squeeze" /\ step' = "none" /\ message' = <<>> /\ blocks' = 0 /\ round' = 0
      /\ A' = A
  BY <1>1, <1>2 DEF step, message, blocks, round, A
<1>4. digests' # <<>> /\ Last(digests') = DigestOf
  <2>1. digests' = Append(digests, DigestOf) /\ digests' \in Seq(Digests)
    BY HInvSqueeze DEF HInv, HTyped
  <2>2. DigestOf \in Digests
    BY DEF DigestOf, Digests, Bytes
  <2>3. /\ Len(Append(digests, DigestOf)) = Len(digests) + 1
        /\ Append(digests, DigestOf)[Len(digests) + 1] = DigestOf
        /\ Append(digests, DigestOf) # <<>>
    BY <2>2, AppendProperties DEF HInv, HTyped
  <2> QED BY <2>1, <2>3 DEF Last
<1>5. digest' = BitsOf(Last(digests'))
  BY <1>2, <1>4 DEF digest, BitsOf
<1>6. digest' = UNION {{64 * x + z : z \in st[x]} : x \in 0 .. 3}
  BY <1>4, <1>5, DigestBits
<1>7. \A x \in 0 .. 3 : A[x, 0] = st[x]
  <2>1. \A x \in 0 .. 3 : A[<<x, 0>>] = st[x + 5 * 0] /\ x + 5 * 0 = x
    BY LaneAt
  <2>2. \A x \in 0 .. 3 : A[<<x, 0>>] = st[x]
    BY <2>1
  <2> QED BY <2>2, Zenon
<1>8. digest' = UNION {{64 * x + z : z \in A[x, 0]} : x \in 0 .. 3}
  <2>1. {{64 * x + z : z \in A[x, 0]} : x \in 0 .. 3} = {{64 * x + z : z \in st[x]} : x \in 0 .. 3}
    BY <1>7, Zenon
  <2> QED BY <1>6, <2>1, Zenon
<1> QED BY <1>3, <1>8, Zenon DEF Sponge!Squeeze

LEMMA BeginRefines == ASSUME HInv, Begin PROVE Sponge!Begin
<1>1. /\ pc = "begin" /\ pc' = "absorb" /\ r' = 0 /\ msg' = Head(todo) /\ last' = FALSE
      /\ todo' = todo /\ digests' = digests /\ st' = [k \in 0 .. 24 |-> {}]
  BY DEF Begin, Lanes
<1>2. ~ Hashing /\ Hashing'
  BY <1>1 DEF Hashing
<1>3. HInv' /\ Left(Head(todo), 0)'
  BY HInvBegin
<1>4. step = "none" /\ step' = "absorb" /\ round' = 0 /\ digest' = {} /\ message' = Head(todo)
  BY <1>1, <1>2 DEF step, round, digest, message
<1>5. message' \in Seq(SUBSET (0 .. 7))
  BY <1>1, <1>4, HeadIsText DEF Texts, Bytes
<1>6. blocks' = 0
  <2>1. PICK m \in Texts : m = Head(todo)
    BY <1>1, HeadIsText
  <2>2. PICK len \in Nat : len = Len(m)
    BY TextShape
  <2>3. blocks' = (Len(Head(todo')) - Len(msg')) \div 136 + (IF last' THEN 1 ELSE 0)
    BY <1>2 DEF blocks, RATE
  <2>4. blocks' = (len - len) \div 136 + 0
    BY <1>1, <2>1, <2>2, <2>3
  <2> QED BY <2>4
<1>7. A' = [c \in (0 .. 4) \X (0 .. 4) |-> {}]
  <2>1. ASSUME NEW c \in (0 .. 4) \X (0 .. 4) PROVE st'[c[1] + 5 * c[2]] = {}
    BY <1>1
  <2> QED BY <2>1 DEF A
<1> QED BY <1>4, <1>5, <1>6, <1>7 DEF Sponge!Begin, Sponge!Sheet

LEMMA ReturnRefines == ASSUME HInv, Return PROVE Sponge!Forget
<1>1. pc = "returned" /\ pc' = "idle" /\ digests' = <<>> /\ st' = st
  BY DEF Return
<1>2. ~ Hashing /\ ~ Hashing'
  BY <1>1 DEF Hashing
<1>3. /\ step = "none" /\ step' = step /\ round' = round /\ message' = message
      /\ blocks' = blocks /\ digest' = {} /\ A' = A
  BY <1>1, <1>2 DEF step, round, message, blocks, digest, A
<1> QED BY <1>3 DEF Sponge!Forget

LEMMA CallStutters == ASSUME HInv, Hash \/ AuthenticateUser PROVE UNCHANGED Sponge!vars
<1>1. pc = "idle" /\ pc' = "begin" /\ st' = st /\ digests' = digests
  BY DEF Hash, AuthenticateUser
<1>2. ~ Hashing /\ ~ Hashing'
  BY <1>1 DEF Hashing
<1> QED BY <1>1, <1>2 DEF Sponge!vars, step, round, message, blocks, digest, A

-----------------------------------------------------------------------------
(* The theorem. *)

\* The invariant of a hash: what of the message is left, and when the padding is in.
LEMMA HInvNext == HInv /\ [HashNext]_hashVars => HInv'
<1> SUFFICES ASSUME HInv, [HashNext]_hashVars PROVE HInv'
  OBVIOUS
<1>1. CASE Hash \/ AuthenticateUser
  BY <1>1, HInvCall
<1>2. CASE Begin
  BY <1>2, HInvBegin
<1>3. CASE AbsorbBlock
  <2>1. Hashing
    BY <1>3 DEF AbsorbBlock, Hashing
  <2>2. PICK n \in Nat : Left(Head(todo), n)
    BY <2>1 DEF HInv
  <2> QED BY <1>3, <2>2, HInvAbsorbBlock
<1>4. CASE AbsorbRest
  BY <1>4, HInvAbsorbRest
<1>5. CASE Theta
  <2>1. /\ pc = "theta" /\ pc' = "rhopi" /\ r' = r
        /\ UNCHANGED <<build, msg, last, todo, digests>>
    BY <1>5 DEF Theta
  <2>2. Hashing /\ r' \in 0 .. 23 /\ st' \in Rows
    BY <1>5, <2>1, ThetaLanes DEF Hashing, HInv, HTyped
  <2> QED BY <2>1, <2>2, HInvPermute
<1>6. CASE RhoPi
  <2>1. /\ pc = "rhopi" /\ pc' = "chi" /\ r' = r
        /\ UNCHANGED <<build, msg, last, todo, digests>>
    BY <1>6 DEF RhoPi
  <2>2. Hashing /\ r' \in 0 .. 23 /\ st' \in Rows
    BY <1>6, <2>1, RhoPiRows DEF Hashing, HInv, HTyped
  <2> QED BY <2>1, <2>2, HInvPermute
<1>7. CASE Chi
  <2>1. /\ pc = "chi" /\ pc' = "iota" /\ r' = r
        /\ UNCHANGED <<build, msg, last, todo, digests>>
    BY <1>7 DEF Chi
  <2>2. Hashing /\ r' \in 0 .. 23 /\ st' \in Rows
    BY <1>7, <2>1, ChiLanes DEF Hashing, HInv, HTyped
  <2> QED BY <2>1, <2>2, HInvPermute
<1>8. CASE Iota
  <2>1. /\ pc = "iota" /\ UNCHANGED <<build, msg, last, todo, digests>>
        /\ \/ r < 23 /\ r' = r + 1 /\ pc' = "theta"
           \/ r = 23 /\ r' = r /\ pc' = IF last THEN "squeeze" ELSE "absorb"
    BY <1>8 DEF Iota
  <2>2. r \in 0 .. 23
    BY DEF HInv, HTyped
  <2>3. Hashing /\ r' \in 0 .. 23 /\ st' \in Rows
    BY <1>8, <2>1, <2>2, IotaLanes DEF Hashing
  <2>4. pc' \in {"theta", "rhopi", "chi", "iota"} \/ pc' = IF last THEN "squeeze" ELSE "absorb"
    BY <2>1
  <2> QED BY <2>1, <2>3, <2>4, HInvPermute
<1>9. CASE Squeeze
  BY <1>9, HInvSqueeze
<1>10. CASE Return
  BY <1>10, HInvReturn
<1>11. CASE UNCHANGED hashVars
  <2>1. UNCHANGED <<build, st, r, pc, msg, last, todo, digests>>
    BY <1>11 DEF hashVars
  <2>2. Hashing' <=> Hashing
    BY <2>1 DEF Hashing
  <2>3. HTyped'
    BY <2>1 DEF HInv, HTyped
  <2>4. \A n : Left(Head(todo), n)' <=> Left(Head(todo), n)
    BY <2>1 DEF Left
  <2> QED BY <2>1, <2>2, <2>3, <2>4 DEF HInv
<1> QED BY <1>1, <1>2, <1>3, <1>4, <1>5, <1>6, <1>7, <1>8, <1>9, <1>10, <1>11 DEF HashNext

\* Every hash works on the bytes of its message that are left, in the lanes of a word each.
THEOREM HashInvariant == HashSpec => []HInv
BY HInvInit, HInvNext, PTL DEF HashSpec

LEMMA SpongeInit == HashInit => Sponge!Init
<1> SUFFICES ASSUME HashInit PROVE Sponge!Init
  OBVIOUS
<1>1. pc = "idle" /\ digests = <<>> /\ st = [k \in 0 .. 24 |-> {}]
  BY DEF HashInit, Lanes
<1>2. step = "none" /\ round = 0 /\ message = <<>> /\ blocks = 0 /\ digest = {}
  BY <1>1 DEF step, round, message, blocks, digest, Hashing
<1>3. A = [c \in (0 .. 4) \X (0 .. 4) |-> {}]
  <2>1. ASSUME NEW c \in (0 .. 4) \X (0 .. 4) PROVE st[c[1] + 5 * c[2]] = {}
    BY <1>1
  <2> QED BY <2>1 DEF A
<1> QED BY <1>2, <1>3 DEF Sponge!Init, Sponge!Sheet

LEMMA SpongeStep == HInv /\ [HashNext]_hashVars => [Sponge!Next]_Sponge!vars
<1> SUFFICES ASSUME HInv, [HashNext]_hashVars PROVE Sponge!Next \/ UNCHANGED Sponge!vars
  OBVIOUS
<1>1. CASE UNCHANGED hashVars
  <2>1. UNCHANGED <<st, r, pc, msg, last, todo, digests>>
    BY <1>1 DEF hashVars
  <2>2. Hashing' <=> Hashing
    BY <2>1 DEF Hashing
  <2> QED BY <2>1, <2>2 DEF Sponge!vars, step, round, message, blocks, digest, A
<1> QED BY <1>1, CallStutters, BeginRefines, AbsorbRefines, ThetaRefines, RhoPiRefines, ChiRefines,
           IotaRefines, SqueezeRefines, ReturnRefines DEF HashNext, Sponge!Next

\* sha3_256() is the sponge of FIPS 202 for every message, block by block, step by step,
\* padding, lane order and digest, with these differences and no other: what the build makes
\* of the rotation of lane (3, 4) by 65, the rotation of lane (0, 3) by 44 for 41, and the bits
\* 31 and 63 that are wrong in the constants of rounds 2, 3 and 6.
THEOREM HashIsSponge == HashSpec => SpongeSpec
<1>1. HashSpec => []HInv
  BY HashInvariant
<1> QED BY <1>1, SpongeInit, SpongeStep, PTL DEF HashSpec, SpongeSpec, Sponge!Spec

-----------------------------------------------------------------------------
(* A login: the digest of a message is the one the steps from its first block lead to. *)

Rotated(how, lane, n) == IF n < 64 \/ how = "masked" THEN {(z + n) % 64 : z \in lane} ELSE {}
MixedInto(s, block) ==
    [k \in 0 .. 24 |-> IF k >= 17 THEN s[k] ELSE Xor(s[k], LaneOf(block, k))]
PaddedOf(m) ==
    [i \in 1 .. 136 |->
        (IF i <= Len(m) THEN m[i] ELSE IF i = Len(m) + 1 THEN {1, 2} ELSE {})
            \cup (IF i = 136 THEN {7} ELSE {})]
ColumnOf(s, i) == Xor(Xor(Xor(Xor(s[i], s[i + 5]), s[i + 10]), s[i + 15]), s[i + 20])
ThetaOf(how, s) ==
    [k \in 0 .. 24 |-> Xor(s[k], Xor(ColumnOf(s, ((k % 5) + 4) % 5),
                                     Rotated(how, ColumnOf(s, ((k % 5) + 1) % 5), 1)))]
RhoPiOf(how, s) ==
    [k \in 0 .. 24 |-> IF k = 0 THEN s[0] ELSE Rotated(how, s[Before(k)], keccakf_rotc[Place(k)])]
RowsOf(s) == [k \in 0 .. 24 |-> ChiOf(s, k)]
IotaOf(s, n) == [s EXCEPT ![0] = Xor(@, keccakf_rndc[n + 1])]

\* What sha3_256() works with, where it starts, and its one next step in a build that
\* makes "how" of the rotation by 65.
State(lanes, n, at, rest, padded) ==
    [st |-> lanes, r |-> n, pc |-> at, msg |-> rest, last |-> padded]

Start(m) == State([k \in 0 .. 24 |-> {}], 0, "absorb", m, FALSE)

After(how, s) ==
    IF s.pc = "absorb" THEN
        IF Len(s.msg) >= 136
        THEN State(MixedInto(s.st, s.msg), 0, "theta", SubSeq(s.msg, 137, Len(s.msg)), s.last)
        ELSE State(MixedInto(s.st, PaddedOf(s.msg)), 0, "theta", s.msg, TRUE)
    ELSE IF s.pc = "theta" THEN State(ThetaOf(how, s.st), s.r, "rhopi", s.msg, s.last)
    ELSE IF s.pc = "rhopi" THEN State(RhoPiOf(how, s.st), s.r, "chi", s.msg, s.last)
    ELSE IF s.pc = "chi" THEN State(RowsOf(s.st), s.r, "iota", s.msg, s.last)
    ELSE IF s.r < 23 THEN State(IotaOf(s.st, s.r), s.r + 1, "theta", s.msg, s.last)
    ELSE State(IotaOf(s.st, s.r), s.r, IF s.last THEN "squeeze" ELSE "absorb", s.msg, s.last)

IsRun(how, f, n, m) ==
    /\ f[0] = Start(m)
    /\ \A i \in 0 .. n - 1 : f[i].pc # "squeeze" /\ f[i + 1] = After(how, f[i])

Comes(how, m, s) == \E n \in Nat : \E f : IsRun(how, f, n, m) /\ f[n] = s

DigestIn(s) == [n \in 1 .. 32 |-> {b \in 0 .. 7 : (8 * (n - 1) + b) % 64 \in s[(n - 1) \div 8]}]

Gives(how, m, d) == \E s : Comes(how, m, s) /\ s.pc = "squeeze" /\ d = DigestIn(s.st)

Now == State(st, r, pc, msg, last)

LEMMA ComesFirst == ASSUME NEW how, NEW m PROVE Comes(how, m, Start(m))
<1>1. PICK f : f = [i \in {0} |-> Start(m)]
  OBVIOUS
<1>2. IsRun(how, f, 0, m) /\ f[0] = Start(m)
  BY <1>1 DEF IsRun
<1> QED BY <1>2 DEF Comes

LEMMA ComesNext ==
    ASSUME NEW how, NEW m, NEW s, Comes(how, m, s), s.pc # "squeeze"
    PROVE  Comes(how, m, After(how, s))
<1>1. PICK n \in Nat : \E f : IsRun(how, f, n, m) /\ f[n] = s
  BY DEF Comes
<1>2. PICK f : IsRun(how, f, n, m) /\ f[n] = s
  BY <1>1
<1>3. PICK t : t = After(how, s)
  OBVIOUS
<1>4. PICK g : g = [i \in 0 .. n + 1 |-> IF i <= n THEN f[i] ELSE t]
  OBVIOUS
<1>5. g[0] = Start(m) /\ g[n + 1] = t /\ n + 1 \in Nat
  BY <1>2, <1>4 DEF IsRun
<1>6. ASSUME NEW i \in 0 .. (n + 1) - 1 PROVE g[i].pc # "squeeze" /\ g[i + 1] = After(how, g[i])
  <2>1. CASE i < n
    <3>1. f[i].pc # "squeeze" /\ f[i + 1] = After(how, f[i])
      BY <1>2, <2>1 DEF IsRun
    <3>2. g[i] = f[i] /\ g[i + 1] = f[i + 1]
      BY <1>4, <2>1
    <3> QED BY <3>1, <3>2
  <2>2. CASE i = n
    <3>1. g[i] = s /\ g[i + 1] = t
      BY <1>2, <1>4, <2>2
    <3> QED BY <1>3, <3>1
  <2> QED BY <2>1, <2>2
<1>7. IsRun(how, g, n + 1, m)
  BY <1>5, <1>6 DEF IsRun
<1> QED BY <1>3, <1>5, <1>7 DEF Comes

LEMMA RunsAgree ==
    ASSUME NEW how, NEW m, NEW f, NEW g, NEW n \in Nat, NEW k \in Nat,
           IsRun(how, f, n, m), IsRun(how, g, k, m), NEW i \in Nat, i <= n, i <= k
    PROVE  f[i] = g[i]
<1> DEFINE Bad == {j \in Nat : j <= n /\ j <= k /\ f[j] # g[j]}
<1> SUFFICES ASSUME Bad # {} PROVE FALSE
  OBVIOUS
<1>1. PICK j \in Bad : \A h \in Bad : j <= h
  <2>1. Bad \subseteq Nat
    OBVIOUS
  <2> HIDE DEF Bad
  <2> QED BY <2>1, LeastNumber
<1>2. j \in Nat /\ j <= n /\ j <= k /\ f[j] # g[j]
  OBVIOUS
<1>3. j # 0
  BY <1>2 DEF IsRun
<1>4. PICK h \in Nat : j = h + 1
  BY <1>2, <1>3
<1>5. h \notin Bad /\ h <= n /\ h <= k
  BY <1>1, <1>2, <1>4
<1>6. f[h] = g[h]
  BY <1>5
<1>7. f[h + 1] = After(how, f[h]) /\ g[h + 1] = After(how, g[h])
  <2>1. h \in 0 .. n - 1 /\ h \in 0 .. k - 1
    BY <1>2, <1>4
  <2> QED BY <2>1 DEF IsRun
<1> QED BY <1>2, <1>4, <1>6, <1>7

\* A message has one digest.
LEMMA OneDigest ==
    ASSUME NEW how, NEW m, NEW d, NEW e, Gives(how, m, d), Gives(how, m, e)
    PROVE  d = e
<1>1. PICK s, t : /\ Comes(how, m, s) /\ s.pc = "squeeze" /\ d = DigestIn(s.st)
                  /\ Comes(how, m, t) /\ t.pc = "squeeze" /\ e = DigestIn(t.st)
  BY DEF Gives
<1>2. PICK n \in Nat : \E f : IsRun(how, f, n, m) /\ f[n] = s
  BY <1>1 DEF Comes
<1>3. PICK f : IsRun(how, f, n, m) /\ f[n] = s
  BY <1>2
<1>4. PICK k \in Nat : \E g : IsRun(how, g, k, m) /\ g[k] = t
  BY <1>1 DEF Comes
<1>5. PICK g : IsRun(how, g, k, m) /\ g[k] = t
  BY <1>4
<1>6. ~ (n < k)
  <2> SUFFICES ASSUME n < k PROVE FALSE
    OBVIOUS
  <2>1. g[n] = f[n]
    BY <1>3, <1>5, RunsAgree
  <2>2. n \in 0 .. k - 1
    OBVIOUS
  <2>3. g[n].pc # "squeeze"
    BY <1>5, <2>2 DEF IsRun
  <2> QED BY <1>1, <1>3, <2>1, <2>3
<1>7. ~ (k < n)
  <2> SUFFICES ASSUME k < n PROVE FALSE
    OBVIOUS
  <2>1. f[k] = g[k]
    BY <1>3, <1>5, RunsAgree
  <2>2. k \in 0 .. n - 1
    OBVIOUS
  <2>3. f[k].pc # "squeeze"
    BY <1>3, <2>2 DEF IsRun
  <2> QED BY <1>1, <1>5, <2>1, <2>3
<1>8. n = k
  BY <1>6, <1>7
<1>9. f[n] = g[n]
  BY <1>3, <1>5, <1>8, RunsAgree
<1> QED BY <1>1, <1>3, <1>5, <1>8, <1>9

LEMMA StateParts ==
    ASSUME NEW lanes, NEW n, NEW at, NEW rest, NEW padded
    PROVE  LET s == State(lanes, n, at, rest, padded)
           IN s.st = lanes /\ s.r = n /\ s.pc = at /\ s.msg = rest /\ s.last = padded
BY DEF State

\* The actions of a hash are the steps of After.
LEMMA NowGoesOn ==
    ASSUME HInv, AbsorbBlock \/ AbsorbRest \/ Theta \/ RhoPi \/ Chi \/ Iota
    PROVE  Now' = After(build, Now) /\ Hashing /\ Hashing' /\ pc # "squeeze"
<1>1. Now.st = st /\ Now.r = r /\ Now.pc = pc /\ Now.msg = msg /\ Now.last = last
  BY StateParts DEF Now
<1>2. Now' = State(st', r', pc', msg', last')
  BY DEF Now
<1>3. CASE AbsorbBlock
  <2>1. /\ pc = "absorb" /\ pc' = "theta" /\ r' = 0 /\ last' = last
        /\ Len(msg) >= 136 /\ st' = Absorbed(msg) /\ msg' = SubSeq(msg, 137, Len(msg))
    BY <1>3 DEF AbsorbBlock, RATE
  <2>2. Absorbed(msg) = MixedInto(st, msg)
    BY DEF Absorbed, MixedInto, Lanes, RATE, LaneOf
  <2>3. After(build, Now) = State(MixedInto(st, msg), 0, "theta", SubSeq(msg, 137, Len(msg)), last)
    BY <1>1, <2>1 DEF After
  <2> QED BY <1>2, <2>1, <2>2, <2>3 DEF Hashing
<1>4. CASE AbsorbRest
  <2>1. /\ pc = "absorb" /\ pc' = "theta" /\ r' = 0 /\ last' = TRUE
        /\ ~ (Len(msg) >= 136) /\ st' = Absorbed(Padded) /\ msg' = msg
    <3>1. Len(msg) \in Nat /\ Len(msg) < 136
      BY <1>4, TextShape DEF AbsorbRest, RATE, HInv, HTyped
    <3> QED BY <1>4, <3>1 DEF AbsorbRest
  <2>2. Absorbed(Padded) = MixedInto(st, PaddedOf(msg))
    <3>1. Padded = PaddedOf(msg)
      BY DEF Padded, PaddedOf, RATE
    <3>2. Absorbed(PaddedOf(msg)) = MixedInto(st, PaddedOf(msg))
      BY DEF Absorbed, MixedInto, Lanes, RATE, LaneOf
    <3> QED BY <3>1, <3>2
  <2>3. After(build, Now) = State(MixedInto(st, PaddedOf(msg)), 0, "theta", msg, TRUE)
    BY <1>1, <2>1 DEF After
  <2> QED BY <1>2, <2>1, <2>2, <2>3 DEF Hashing
<1>5. CASE Theta
  <2>1. pc = "theta" /\ pc' = "rhopi" /\ r' = r /\ msg' = msg /\ last' = last
    BY <1>5 DEF Theta
  <2>2. st' = ThetaOf(build, st)
    <3>1. \A k \in 0 .. 24 : st'[k] = Xor(st[k], Mixed(k % 5))
      BY <1>5, ThetaLanes
    <3>2. st' = [k \in 0 .. 24 |-> st'[k]]
      BY <1>5, ThetaLanes DEF Rows
    <3>3. \A x : Mixed(x) = Xor(ColumnOf(st, (x + 4) % 5),
                                 Rotated(build, ColumnOf(st, (x + 1) % 5), 1))
      BY DEF Mixed, Column, ColumnOf, ROTL64, Rotated
    <3>4. \A k \in 0 .. 24 : st'[k] = Xor(st[k], Xor(ColumnOf(st, ((k % 5) + 4) % 5),
                                     Rotated(build, ColumnOf(st, ((k % 5) + 1) % 5), 1)))
      BY <3>1, <3>3
    <3> QED BY <3>2, <3>4 DEF ThetaOf
  <2>3. After(build, Now) = State(ThetaOf(build, st), r, "rhopi", msg, last)
    BY <1>1, <2>1 DEF After
  <2> QED BY <1>2, <2>1, <2>2, <2>3 DEF Hashing
<1>6. CASE RhoPi
  <2>1. /\ pc = "rhopi" /\ pc' = "chi" /\ r' = r /\ msg' = msg /\ last' = last
        /\ st' = RhoPiOf(build, st)
    BY <1>6 DEF RhoPi, RhoPiOf, Lanes, ROTL64, Rotated
  <2>2. After(build, Now) = State(RhoPiOf(build, st), r, "chi", msg, last)
    BY <1>1, <2>1 DEF After
  <2> QED BY <1>2, <2>1, <2>2 DEF Hashing
<1>7. CASE Chi
  <2>1. /\ pc = "chi" /\ pc' = "iota" /\ r' = r /\ msg' = msg /\ last' = last
        /\ st' = RowsOf(st)
    BY <1>7 DEF Chi, RowsOf, Lanes
  <2>2. After(build, Now) = State(RowsOf(st), r, "iota", msg, last)
    BY <1>1, <2>1 DEF After
  <2> QED BY <1>2, <2>1, <2>2 DEF Hashing
<1>8. CASE Iota
  <2>1. pc = "iota" /\ msg' = msg /\ last' = last /\ st' = IotaOf(st, r)
    BY <1>8 DEF Iota, IotaOf
  <2>2. last \in BOOLEAN /\ r \in 0 .. 23
    BY DEF HInv, HTyped
  <2>3. CASE r < 23 /\ r' = r + 1 /\ pc' = "theta"
    <3>1. After(build, Now) = State(IotaOf(st, r), r + 1, "theta", msg, last)
      BY <1>1, <2>1, <2>3 DEF After
    <3> QED BY <1>2, <2>1, <2>3, <3>1 DEF Hashing
  <2>4. CASE r = 23 /\ r' = r /\ pc' = IF last THEN "squeeze" ELSE "absorb"
    <3>1. ~ (r < 23) /\ Hashing'
      BY <2>2, <2>4 DEF Hashing
    <3>2. After(build, Now) =
            State(IotaOf(st, r), r, IF last THEN "squeeze" ELSE "absorb", msg, last)
      BY <1>1, <2>1, <3>1 DEF After
    <3> QED BY <1>2, <2>1, <2>4, <3>1, <3>2 DEF Hashing
  <2> QED BY <1>8, <2>3, <2>4 DEF Iota
<1> QED BY <1>3, <1>4, <1>5, <1>6, <1>7, <1>8

\* What a caller holds: nothing before a call, then the digests of its messages.
LInv ==
    /\ Hashing => Comes(build, Head(todo), Now)
    /\ pc = "idle" => digests = <<>> /\ login = NoLogin
    /\ login # NoLogin =>
          /\ login \in [user : Usernames, password : Passwords]
          /\ \/ /\ digests = <<>> /\ pc # "returned"
                /\ todo = <<AdminPass, login.password>>
             \/ \E d : /\ digests = <<d>> /\ pc # "returned"
                       /\ Gives(build, AdminPass, d) /\ todo = <<login.password>>
             \/ \E d, e : /\ digests = <<d, e>> /\ pc = "returned"
                          /\ Gives(build, AdminPass, d) /\ Gives(build, login.password, e)

-----------------------------------------------------------------------------
(* The digests of a login are those of its two messages. *)

\* Short sequences.
LEMMA Lists ==
    ASSUME NEW a, NEW b
    PROVE  /\ Append(<<>>, a) = <<a>> /\ Append(<<a>>, b) = <<a, b>>
           /\ Head(<<a>>) = a /\ Head(<<a, b>>) = a
           /\ Tail(<<a>>) = <<>> /\ Tail(<<a, b>>) = <<b>>
           /\ <<a>> # <<>>
<1>1. Append(<<>>, a) = <<a>>
  OBVIOUS
<1>2. Append(<<a>>, b) = <<a, b>>
  <2>1. /\ <<a>> \in Seq({a, b}) /\ Len(<<a>>) = 1 /\ <<a>>[1] = a /\ b \in {a, b}
        /\ <<a, b>> \in Seq({a, b}) /\ Len(<<a, b>>) = 2 /\ <<a, b>>[1] = a /\ <<a, b>>[2] = b
    OBVIOUS
  <2>2. PICK s : s = Append(<<a>>, b)
    OBVIOUS
  <2>3. s \in Seq({a, b}) /\ Len(s) = 2 /\ s[1] = a /\ s[2] = b
    <3>1. /\ s \in Seq({a, b}) /\ Len(s) = Len(<<a>>) + 1
          /\ \A i \in 1 .. Len(<<a>>) : s[i] = <<a>>[i]
          /\ s[Len(<<a>>) + 1] = b
      BY <2>1, <2>2, AppendProperties
    <3> QED BY <2>1, <3>1
  <2>4. PICK t : t = <<a, b>>
    OBVIOUS
  <2>5. t \in Seq({a, b}) /\ Len(t) = 2 /\ t[1] = a /\ t[2] = b
    BY <2>1, <2>4
  <2>6. Len(s) = Len(t) /\ \A i \in 1 .. Len(s) : s[i] = t[i]
    BY <2>3, <2>5
  <2>7. s = t
    BY <2>3, <2>5, <2>6, SeqEqual
  <2> QED BY <2>2, <2>4, <2>7
<1>3. Head(<<a>>) = a /\ Head(<<a, b>>) = a
  OBVIOUS
<1>4. Tail(<<a>>) = <<>>
  <2>1. <<a>> \in Seq({a}) /\ Len(<<a>>) = 1 /\ <<a>> # <<>>
    OBVIOUS
  <2>2. Tail(<<a>>) \in Seq({a}) /\ Len(Tail(<<a>>)) = 0
    BY <2>1, HeadTailProperties
  <2> QED BY <2>2, EmptySeq
<1>5. Tail(<<a, b>>) = <<b>>
  OBVIOUS
<1>6. <<a>> # <<>>
  OBVIOUS
<1> QED BY <1>1, <1>2, <1>3, <1>4, <1>5, <1>6

Asked ==
    /\ digests = <<>> /\ pc # "returned"
    /\ todo = <<AdminPass, login.password>>
Halfway ==
    \E d : /\ digests = <<d>> /\ pc # "returned"
           /\ Gives(build, AdminPass, d) /\ todo = <<login.password>>
Answered ==
    \E d, e : /\ digests = <<d, e>> /\ pc = "returned"
              /\ Gives(build, AdminPass, d) /\ Gives(build, login.password, e)

LEMMA LInvInit == HashInit => LInv
BY DEF HashInit, LInv, Hashing

LEMMA LInvCall ==
    ASSUME HInv, LInv, Hash \/ AuthenticateUser
    PROVE  LInv'
<1>1. pc = "idle" /\ pc' = "begin" /\ digests' = digests /\ digests = <<>> /\ login = NoLogin
  BY DEF Hash, AuthenticateUser, LInv
<1>2. ~ Hashing'
  BY <1>1 DEF Hashing
<1>3. CASE Hash
  <2>1. login' = NoLogin
    BY <1>1, <1>3 DEF Hash
  <2> QED BY <1>1, <1>2, <2>1 DEF LInv, NoLogin
<1>4. CASE AuthenticateUser
  <2>1. /\ login' \in [user : Usernames, password : Passwords]
        /\ todo' = <<AdminPass, login'.password>>
    BY <1>4 DEF AuthenticateUser
  <2>2. Asked'
    BY <1>1, <2>1 DEF Asked
  <2> QED BY <1>1, <1>2, <2>1, <2>2 DEF LInv, Asked
<1> QED BY <1>3, <1>4

\* Until the digest is there only what sha3_256() works with changes.
LEMMA LInvInside ==
    ASSUME LInv, build' = build, todo' = todo, digests' = digests, login' = login,
           pc \notin {"idle", "returned"}, Hashing', Comes(build, Head(todo), Now')
    PROVE  LInv'
<1>1. pc' # "idle" /\ pc' # "returned"
  BY DEF Hashing
<1>2. Comes(build, Head(todo), Now)'
  <2>1. PICK m, s : m = Head(todo) /\ s = Now'
    OBVIOUS
  <2>2. Comes(build, m, s)'
    BY <2>1
  <2>3. Head(todo)' = m /\ Now' = s
    BY <2>1
  <2> QED BY <2>2, <2>3
<1>3. ASSUME login' # NoLogin
      PROVE  login' \in [user : Usernames, password : Passwords] /\ (Asked' \/ Halfway')
  <2>1. login \in [user : Usernames, password : Passwords] /\ (Asked \/ Halfway)
    BY <1>3 DEF LInv, Asked, Halfway, NoLogin
  <2>2. Asked => Asked'
    BY <1>1 DEF Asked
  <2>3. Halfway => Halfway'
    <3> SUFFICES ASSUME Halfway PROVE Halfway'
      OBVIOUS
    <3>1. PICK d : digests = <<d>> /\ Gives(build, AdminPass, d) /\ todo = <<login.password>>
      BY DEF Halfway
    <3>2. Gives(build, AdminPass, d)'
      BY <3>1
    <3> QED BY <1>1, <3>1, <3>2 DEF Halfway
  <2> QED BY <2>1, <2>2, <2>3
<1> QED BY <1>1, <1>2, <1>3 DEF LInv, Asked, Halfway, NoLogin

LEMMA LInvSqueeze ==
    ASSUME HInv, LInv, Squeeze
    PROVE  LInv'
<1>1. /\ pc = "squeeze" /\ build' = build /\ login' = login /\ todo' = Tail(todo)
      /\ pc' = IF todo' = <<>> THEN "returned" ELSE "begin"
  BY DEF Squeeze
<1>2. digests' = Append(digests, DigestOf)
  BY HInvSqueeze
<1>3. Hashing /\ ~ Hashing' /\ pc' # "idle"
  BY <1>1 DEF Hashing
<1>4. Gives(build, Head(todo), DigestOf)
  <2>1. Comes(build, Head(todo), Now)
    BY <1>3 DEF LInv
  <2>2. Now.pc = "squeeze" /\ Now.st = st
    BY <1>1, StateParts DEF Now
  <2>3. DigestOf = DigestIn(Now.st)
    BY <2>2 DEF DigestOf, DigestIn
  <2> QED BY <2>1, <2>2, <2>3 DEF Gives
<1>5. PICK e : e = DigestOf
  OBVIOUS
<1>6. PICK word : word = login.password
  OBVIOUS
<1>7. ASSUME login' # NoLogin
      PROVE  /\ login' \in [user : Usernames, password : Passwords]
             /\ Halfway' \/ Answered'
  <2>1. login \in [user : Usernames, password : Passwords] /\ (Asked \/ Halfway)
    BY <1>1, <1>7 DEF LInv, Asked, Halfway, NoLogin
  <2>2. Asked => Halfway'
    <3> SUFFICES ASSUME Asked PROVE Halfway'
      OBVIOUS
    <3>1. digests = <<>> /\ todo = <<AdminPass, word>>
      BY <1>6 DEF Asked
    <3>2. digests' = <<e>> /\ todo' = <<word>> /\ Head(todo) = AdminPass
      BY <1>1, <1>2, <1>5, <3>1, Lists
    <3>3. pc' = "begin"
      BY <1>1, <3>2, Lists
    <3>4. Gives(build, AdminPass, e)'
      BY <1>1, <1>4, <1>5, <3>2
    <3> QED BY <1>1, <1>6, <3>2, <3>3, <3>4 DEF Halfway
  <2>3. Halfway => Answered'
    <3> SUFFICES ASSUME Halfway PROVE Answered'
      OBVIOUS
    <3>1. PICK d : digests = <<d>> /\ Gives(build, AdminPass, d) /\ todo = <<word>>
      BY <1>6 DEF Halfway
    <3>2. digests' = <<d, e>> /\ todo' = <<>> /\ Head(todo) = word
      BY <1>1, <1>2, <1>5, <3>1, Lists
    <3>3. pc' = "returned"
      BY <1>1, <3>2
    <3>4. Gives(build, AdminPass, d)' /\ Gives(build, word, e)'
      BY <1>1, <1>4, <1>5, <3>1, <3>2
    <3> QED BY <1>1, <1>6, <3>2, <3>3, <3>4 DEF Answered
  <2> QED BY <1>1, <2>1, <2>2, <2>3
<1> QED BY <1>3, <1>7 DEF LInv, Halfway, Answered, NoLogin

LEMMA LInvNext == HInv /\ LInv /\ [HashNext]_hashVars => LInv'
<1> SUFFICES ASSUME HInv, LInv, [HashNext]_hashVars PROVE LInv'
  OBVIOUS
<1>1. CASE Hash \/ AuthenticateUser
  BY <1>1, LInvCall
<1>2. CASE Begin
  <2>1. /\ pc = "begin" /\ pc' = "absorb" /\ build' = build /\ todo' = todo
        /\ digests' = digests /\ login' = login
        /\ st' = [k \in 0 .. 24 |-> {}] /\ msg' = Head(todo) /\ last' = FALSE /\ r' = 0
    BY <1>2 DEF Begin, Lanes
  <2>2. Now' = Start(Head(todo)) /\ Hashing'
    BY <2>1 DEF Now, Start, State, Hashing
  <2>3. Comes(build, Head(todo), Now')
    BY <2>2, ComesFirst
  <2> QED BY <2>1, <2>2, <2>3, LInvInside
<1>3. CASE AbsorbBlock \/ AbsorbRest \/ Theta \/ RhoPi \/ Chi \/ Iota
  <2>1. build' = build /\ todo' = todo /\ digests' = digests /\ login' = login
    BY <1>3 DEF AbsorbBlock, AbsorbRest, Theta, RhoPi, Chi, Iota
  <2>2. Now' = After(build, Now) /\ Hashing /\ Hashing' /\ pc # "squeeze"
    BY <1>3, NowGoesOn
  <2>3. Now.pc = pc
    BY StateParts DEF Now
  <2>4. Comes(build, Head(todo), After(build, Now))
    BY <2>2, <2>3, ComesNext DEF LInv
  <2>5. pc \notin {"idle", "returned"}
    BY <2>2 DEF Hashing
  <2> QED BY <2>1, <2>2, <2>4, <2>5, LInvInside
<1>4. CASE Squeeze
  BY <1>4, LInvSqueeze
<1>5. CASE Return
  <2>1. pc' = "idle" /\ digests' = <<>> /\ login' = NoLogin
    BY <1>5 DEF Return
  <2>2. ~ Hashing'
    BY <2>1 DEF Hashing
  <2> QED BY <2>1, <2>2 DEF LInv, NoLogin
<1>6. CASE UNCHANGED hashVars
  <2>1. UNCHANGED <<build, st, r, pc, msg, last, todo, digests, login>>
    BY <1>6 DEF hashVars
  <2>2. (Hashing' <=> Hashing) /\ Now' = Now
    BY <2>1 DEF Hashing, Now
  <2>3. Hashing => Comes(build, Head(todo), Now)'
    <3>1. PICK m, s : m = Head(todo) /\ s = Now
      OBVIOUS
    <3>2. Hashing => Comes(build, m, s)'
      BY <2>1, <3>1 DEF LInv
    <3>3. Head(todo)' = m /\ Now' = s
      BY <2>1, <2>2, <3>1
    <3> QED BY <3>2, <3>3
  <2> QED BY <2>1, <2>2, <2>3 DEF LInv, NoLogin
<1> QED BY <1>1, <1>2, <1>3, <1>4, <1>5, <1>6 DEF HashNext

\* What is typed at the login is hashed after the password of the system, by the same steps.
THEOREM LoginInvariant == HashSpec => []LInv
<1>1. HashSpec => []HInv
  BY HashInvariant
<1> QED BY <1>1, LInvInit, LInvNext, PTL DEF HashSpec

\* authenticate_user() lets the user with the password in, in every build.
Welcome == [user |-> AdminUser, password |-> AdminPass]
RightAccepted == pc = "returned" /\ login # NoLogin /\ login = Welcome => Accepted

\* No other password that can be typed has the digest of the right one.
NoCollision ==
    \A word \in Passwords : \A d :
        Gives(build, word, d) /\ Gives(build, AdminPass, d) => word = AdminPass

LEMMA AnswerOf ==
    ASSUME LInv, pc = "returned", login # NoLogin
    PROVE  \E d, e : /\ Gives(build, AdminPass, d) /\ Gives(build, login.password, e)
                     /\ (Accepted <=> login.user = AdminUser /\ d = e)
<1>1. PICK d, e : /\ digests = <<d, e>> /\ Gives(build, AdminPass, d)
                  /\ Gives(build, login.password, e)
  BY DEF LInv
<1>2. digests[2] = digests[1] <=> d = e
  BY <1>1
<1> QED BY <1>1, <1>2 DEF Accepted

\* The right login is accepted whatever the build makes of the rotation by 65.
THEOREM RightLogin == HashSpec => []RightAccepted
<1>1. LInv => RightAccepted
  <2> SUFFICES ASSUME LInv, pc = "returned", login # NoLogin, login = Welcome PROVE Accepted
    BY DEF RightAccepted
  <2>1. login.user = AdminUser /\ login.password = AdminPass
    BY DEF Welcome
  <2>2. PICK d, e : /\ Gives(build, AdminPass, d) /\ Gives(build, login.password, e)
                    /\ (Accepted <=> login.user = AdminUser /\ d = e)
    BY AnswerOf
  <2>3. d = e
    BY <2>1, <2>2, OneDigest
  <2> QED BY <2>1, <2>2, <2>3
<1> QED BY <1>1, LoginInvariant, PTL

\* authenticate_user() accepts the one user with the one password, as long as no other
\* password has the same digest.
THEOREM LoginIsExact == HashSpec => [](NoCollision => LoginExact)
<1>1. LInv => (NoCollision => LoginExact)
  <2> SUFFICES ASSUME LInv, NoCollision, pc = "returned", login # NoLogin
               PROVE  Accepted <=> login = [user |-> AdminUser, password |-> AdminPass]
    BY DEF LoginExact
  <2>1. login \in [user : Usernames, password : Passwords]
    BY DEF LInv
  <2>2. PICK d, e : /\ Gives(build, AdminPass, d) /\ Gives(build, login.password, e)
                    /\ (Accepted <=> login.user = AdminUser /\ d = e)
    BY AnswerOf
  <2>3. d = e <=> login.password = AdminPass
    <3>1. d = e => login.password = AdminPass
      BY <2>1, <2>2 DEF NoCollision
    <3>2. login.password = AdminPass => d = e
      BY <2>2, OneDigest
    <3> QED BY <3>1, <3>2
  <2>4. login = [user |-> AdminUser, password |-> AdminPass]
          <=> login.user = AdminUser /\ login.password = AdminPass
    BY <2>1
  <2> QED BY <2>2, <2>3, <2>4
<1> QED BY <1>1, LoginInvariant, PTL
=============================================================================

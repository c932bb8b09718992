-------------------------------- MODULE Sha3 --------------------------------
(***************************************************************************)
(* Passwords: sha3_256() of src/sha3.c and, on top of it, hash_password()  *)
(* and authenticate_user() of src/security.c.                              *)
(*                                                                         *)
(* A byte or a lane is the set of its bits that are 1, so ^ is symmetric   *)
(* difference.  ROTL64() by 65 shifts a 64-bit value by 65 and by -1, which *)
(* C leaves undefined: a build for this 32-bit processor masks the counts, *)
(* which makes it a rotation by 1, or folds the shifts to 0.  The hex text  *)
(* of a digest is one to one with its bytes and stands for them.           *)
(***************************************************************************)
EXTENDS Integers, Sequences, SequencesExt

RATE == 136         \* SHA3_256_RATE

CONSTANTS
    Messages,       \* what sha3_256() is called with directly
    Usernames, Passwords,   \* what is typed at the login
    AdminUser, AdminPass

\* A message is a sequence of bytes.
ASSUME Sha3Assumption == Messages \cup Passwords \cup {AdminPass} \subseteq Seq(SUBSET (0 .. 7))

NoLogin == [user |-> "none", password |-> <<>>]

VARIABLES
    build,          \* what the compiler made of ROTL64(t, 65)
    st, r,
    pc,             \* the step of sha3_256(), or where its caller is
    msg,            \* the bytes not absorbed yet
    last,           \* whether the block with the padding is in
    todo,           \* the messages the caller hashes, the current one first
    digests,
    login           \* the [user, password] typed, NoLogin in a direct call

hashVars == <<build, st, r, pc, msg, last, todo, digests, login>>

Lanes == 0 .. 24
Xor(a, b) == (a \cup b) \ (a \cap b)
ROTL64(lane, n) ==
    IF n < 64 \/ build = "masked" THEN {(z + n) % 64 : z \in lane} ELSE {}

keccakf_rndc == <<
    {0}, {1, 7, 15}, {1, 3, 7, 15, 31}, {15, 31}, {0, 1, 3, 7, 15}, {0, 31},
    {0, 7, 15, 31}, {0, 3, 15, 63}, {1, 3, 7}, {3, 7}, {0, 3, 15, 31}, {1, 3, 31},
    {0, 1, 3, 7, 15, 31}, {0, 1, 3, 7, 63}, {0, 3, 7, 15, 63}, {0, 1, 15, 63},
    {1, 15, 63}, {7, 63}, {1, 3, 15}, {1, 3, 31, 63}, {0, 7, 15, 31, 63},
    {7, 15, 63}, {0, 31}, {3, 15, 31, 63}>>
keccakf_rotc == <<1,  3,  6,  10, 15, 21, 28, 36, 45, 55, 2,  14,
                  27, 44, 65, 8,  25, 43, 62, 18, 39, 61, 20, 44>>
keccakf_piln == <<10, 7,  11, 17, 18, 3,  5,  16, 8,  21, 24, 4,
                  15, 23, 19, 13, 12, 2,  20, 14, 22, 9,  6,  1>>

\* A block of bytes, mixed into the state eight bytes a lane.
Absorbed(block) ==
    [k \in Lanes |-> IF k >= RATE \div 8 THEN st[k]
                     ELSE Xor(st[k], UNION {{8 * j + b : b \in block[8 * k + j + 1]} : j \in 0 .. 7})]

Padded ==
    [i \in 1 .. RATE |->
        (IF i <= Len(msg) THEN msg[i] ELSE IF i = Len(msg) + 1 THEN {1, 2} ELSE {})
            \cup (IF i = RATE THEN {7} ELSE {})]

-----------------------------------------------------------------------------
(* A definition marked "bug:" is a variant a slip in the code would give; the runs *)
(* put it in the place of the definition after it to show that a property notices. *)

HashInit ==
    /\ build \in {"masked", "folded"}
    /\ st = [k \in Lanes |-> {}] /\ r = 0 /\ msg = <<>> /\ last = FALSE
    /\ pc = "idle" /\ todo = <<>> /\ digests = <<>> /\ login = NoLogin

Hash ==
    /\ pc = "idle" /\ pc' = "begin"
    /\ \E m \in Messages : todo' = <<m>>
    /\ UNCHANGED <<build, st, r, msg, last, digests, login>>

AuthenticateUser ==
    /\ pc = "idle" /\ pc' = "begin"
    /\ login' \in [user : Usernames, password : Passwords]
    /\ todo' = <<AdminPass, login'.password>>
    /\ UNCHANGED <<build, st, r, msg, last, digests>>

\* bug: the state of the last hash is not cleared.
BeginUncleared ==
    /\ pc = "begin" /\ pc' = "absorb"
    /\ msg' = Head(todo) /\ last' = FALSE /\ r' = 0
    /\ UNCHANGED <<build, st, todo, digests, login>>

Begin ==
    /\ pc = "begin" /\ pc' = "absorb"
    /\ st' = [k \in Lanes |-> {}]
    /\ msg' = Head(todo) /\ last' = FALSE /\ r' = 0
    /\ UNCHANGED <<build, todo, digests, login>>

AbsorbBlock ==
    /\ pc = "absorb" /\ pc' = "theta" /\ r' = 0
    /\ Len(msg) >= RATE
    /\ st' = Absorbed(msg)
    /\ msg' = SubSeq(msg, RATE + 1, Len(msg))
    /\ UNCHANGED <<build, last, todo, digests, login>>

AbsorbRest ==
    /\ pc = "absorb" /\ pc' = "theta" /\ r' = 0
    /\ Len(msg) < RATE
    /\ st' = Absorbed(Padded)
    /\ last' = TRUE
    /\ UNCHANGED <<build, msg, todo, digests, login>>

Theta ==
    /\ pc = "theta" /\ pc' = "rhopi"
    /\ LET bc == [i \in 0 .. 4 |->
                     Xor(Xor(Xor(Xor(st[i], st[i + 5]), st[i + 10]), st[i + 15]), st[i + 20])]
           t == [i \in 0 .. 4 |-> Xor(bc[(i + 4) % 5], ROTL64(bc[(i + 1) % 5], 1))]
       IN st' = [k \in Lanes |-> Xor(st[k], t[k % 5])]
    /\ UNCHANGED <<build, r, msg, last, todo, digests, login>>

\* The cycle through keccakf_piln: every lane but the first goes one place on, rotated.
Place(k) == CHOOSE i \in 1 .. 24 : keccakf_piln[i] = k
Before(k) == IF Place(k) = 1 THEN 1 ELSE keccakf_piln[Place(k) - 1]

RhoPi ==
    /\ pc = "rhopi" /\ pc' = "chi"
    /\ st' = [k \in Lanes |-> IF k = 0 THEN st[0]
                              ELSE ROTL64(st[Before(k)], keccakf_rotc[Place(k)])]
    /\ UNCHANGED <<build, r, msg, last, todo, digests, login>>

ChiOf(s, k) == Xor(s[k], s[k - (k % 5) + ((k + 2) % 5)] \ s[k - (k % 5) + ((k + 1) % 5)])

\* bug: the row is not copied to bc before its lanes are changed.
ChiUncopied ==
    /\ pc = "chi" /\ pc' = "iota"
    /\ LET s[k \in Lanes] == IF k % 5 < 3 THEN ChiOf(st, k)
                             ELSE ChiOf([n \in Lanes |-> IF n < k THEN s[n] ELSE st[n]], k)
       IN st' = s
    /\ UNCHANGED <<build, r, msg, last, todo, digests, login>>

Chi ==
    /\ pc = "chi" /\ pc' = "iota"
    /\ st' = [k \in Lanes |-> ChiOf(st, k)]
    /\ UNCHANGED <<build, r, msg, last, todo, digests, login>>

Iota ==
    /\ pc = "iota"
    /\ st' = [st EXCEPT ![0] = Xor(@, keccakf_rndc[r + 1])]
    /\ \/ r < 23 /\ r' = r + 1 /\ pc' = "theta"
       \/ r = 23 /\ UNCHANGED r /\ pc' = IF last THEN "squeeze" ELSE "absorb"
    /\ UNCHANGED <<build, msg, last, todo, digests, login>>

Squeeze ==
    /\ pc = "squeeze"
    /\ digests' = Append(digests, [n \in 1 .. 32 |->
                      {b \in 0 .. 7 : (8 * (n - 1) + b) % 64 \in st[(n - 1) \div 8]}])
    /\ todo' = Tail(todo)
    /\ pc' = IF todo' = <<>> THEN "returned" ELSE "begin"
    /\ UNCHANGED <<build, st, r, msg, last, login>>

Return ==
    /\ pc = "returned" /\ pc' = "idle"
    /\ digests' = <<>> /\ login' = NoLogin
    /\ UNCHANGED <<build, st, r, msg, last, todo>>

Accepted == login.user = AdminUser /\ digests[2] = digests[1]

HashNext ==
    \/ Hash \/ AuthenticateUser \/ Begin \/ AbsorbBlock \/ AbsorbRest
    \/ Theta \/ RhoPi \/ Chi \/ Iota \/ Squeeze \/ Return

HashSpec == HashInit /\ [][HashNext]_hashVars

-----------------------------------------------------------------------------
Hashing == pc \notin {"idle", "begin", "returned"}

\* The state of the standard.
A == [c \in (0 .. 4) \X (0 .. 4) |-> st[c[1] + 5 * c[2]]]
step == IF Hashing THEN pc ELSE "none"
round == IF Hashing THEN r ELSE 0
message == IF Hashing THEN Head(todo) ELSE <<>>
blocks ==
    IF Hashing THEN (Len(Head(todo)) - Len(msg)) \div RATE + (IF last THEN 1 ELSE 0) ELSE 0
digest ==
    IF Hashing \/ digests = <<>> THEN {}
    ELSE UNION {{8 * (n - 1) + b : b \in Last(digests)[n]} : n \in 1 .. 32}

\* Where the tables leave the standard: lane (0, 3) is rotated by 44, not 41; the constant of
\* round 2 has bit 31 in place of bit 63, those of rounds 3 and 6 lack bit 63.
OffsetSlip == [c \in (0 .. 4) \X (0 .. 4) |-> IF c = <<0, 3>> THEN 3 ELSE 0]
ConstantSlip == [n \in 0 .. 23 |-> IF n = 2 THEN {31, 63} ELSE IF n \in {3, 6} THEN {63} ELSE {}]

Sponge == INSTANCE Keccak WITH FreeLanes <- {<<3, 4>>}
Fips == INSTANCE Keccak WITH
    FreeLanes <- {},
    OffsetSlip <- [c \in (0 .. 4) \X (0 .. 4) |-> 0], ConstantSlip <- [n \in 0 .. 23 |-> {}]

\* sha3_256() is the sponge of FIPS 202 in every step, padding, lane order and digest
\* included, with these differences and no other: OffsetSlip, ConstantSlip, and the undefined
\* rotation of the lane (3, 4), of which anything may come.
SpongeSpec == Sponge!Spec

\* "Computes the SHA-3 256 hash of a message": the sponge of FIPS 202.
FipsSpec == Fips!Spec

\* authenticate_user() accepts the one user with the one password, whatever a build makes
\* of the rotation: both digests come out of the same code.
LoginExact ==
    pc = "returned" /\ login # NoLogin =>
        (Accepted <=> login = [user |-> AdminUser, password |-> AdminPass])
=============================================================================

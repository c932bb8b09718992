---------------------------- MODULE BankerProofs ----------------------------
(***************************************************************************)
(* The Banker, for every task table, every set of resources, and all       *)
(* totals, demands and amounts:                                            *)
(*   - the bookkeeping: nothing is lost or made up, task_count counts the  *)
(*     live tasks, and a task holds and needs what it declared;            *)
(*   - is_safe_state() decides safety: its greedy passes say "safe"        *)
(*     exactly when no group of live tasks is stuck;                       *)
(*   - the system is safe exactly while no live task declared more than    *)
(*     the system owns, and then somebody can always end;                  *)
(*   - the Banker implements SafeAllocator.                                *)
(*                                                                         *)
(* The invariant of the bookkeeping adds that a slot without a task holds  *)
(* nothing: it is what makes task_create(), which zeroes allocation        *)
(* without giving anything back, conserve the resources.  Safety is        *)
(* carried by GroupsGo: of every group of tasks with demands that fit, one *)
(* could be satisfied if the group held everything that is taken.          *)
(*                                                                         *)
(* Sums over sets of tasks and the loops of is_safe_state() are recursive; *)
(* what is said of them for every set or round is proved by taking a       *)
(* smallest counterexample.                                                *)
(***************************************************************************)
EXTENDS Banker, FiniteSetTheorems, WellFoundedInduction, TLAPS

DeadHoldNothing == \A p \in Pids \ live : allocation[p] = Zero

IInv ==
    /\ TypeOK
    /\ Conserved
    /\ CountIsLive
    /\ NeedIsTheRest
    /\ DeadHoldNothing

-----------------------------------------------------------------------------
(* One resource: what the slots below i hold of it, summed. *)

Column(al, r) == [p \in Pids |-> al[p][r]]

IsHeld(held, col, free, total) ==
    /\ held \in [0 .. MAX_TASKS -> 0 .. total]
    /\ held[0] = 0
    /\ \A i \in Pids : held[i + 1] = held[i] + col[i]
    /\ \A i, j \in 0 .. MAX_TASKS : i <= j => held[i] <= held[j]
    /\ free + held[MAX_TASKS] = total

LEMMA ConservedIff ==
    ASSUME allocation \in [Pids -> [Resources -> Nat]]
    PROVE  Conserved <=> \A r \in Resources : \E held :
                             IsHeld(held, Column(allocation, r), available[r], Total[r])
BY DEF Conserved, IsHeld, Column

\* What slot p holds can change as long as what is free changes against it.
LEMMA Exchange ==
    ASSUME NEW col \in [Pids -> Nat], NEW free \in Nat, NEW total \in Nat,
           NEW p \in Pids, NEW c \in Nat, NEW free2 \in Nat,
           free2 + c = free + col[p],
           NEW held, IsHeld(held, col, free, total)
    PROVE  \E held2 : IsHeld(held2, [col EXCEPT ![p] = c], free2, total)
<1> USE BankerAssumption
<1> DEFINE held2 == [i \in 0 .. MAX_TASKS |->
                        IF i <= p THEN held[i] ELSE (held[i] - col[p]) + c]
<1>1. /\ MAX_TASKS \in Nat /\ p \in Nat /\ p + 1 \in 0 .. MAX_TASKS /\ p < MAX_TASKS
      /\ col[p] \in Nat
  BY DEF Pids
<1>2. /\ \A i \in 0 .. MAX_TASKS : held[i] \in 0 .. total
      /\ \A i, j \in 0 .. MAX_TASKS : i <= j => held[i] <= held[j]
      /\ free + held[MAX_TASKS] = total
      /\ held[p + 1] = held[p] + col[p]
      /\ held[0] = 0
  BY <1>1 DEF IsHeld
<1>3. \A i \in 0 .. MAX_TASKS : p < i => col[p] <= held[i]
  <2> SUFFICES ASSUME NEW i \in 0 .. MAX_TASKS, p < i PROVE col[p] <= held[i]
    OBVIOUS
  <2>1. held[p + 1] <= held[i] /\ p \in 0 .. MAX_TASKS
    BY <1>1, <1>2
  <2>2. held[p] \in Nat /\ held[i] \in Nat
    BY <1>2, <2>1
  <2> QED BY <1>1, <1>2, <2>1, <2>2
<1>4. held2 \in [0 .. MAX_TASKS -> 0 .. total]
  <2> SUFFICES ASSUME NEW i \in 0 .. MAX_TASKS PROVE held2[i] \in 0 .. total
    OBVIOUS
  <2>1. CASE i <= p
    BY <2>1, <1>2
  <2>2. CASE ~(i <= p)
    <3>1. held[i] <= held[MAX_TASKS] /\ held[i] \in Nat /\ held[MAX_TASKS] \in Nat
      BY <1>1, <1>2
    <3>2. col[p] <= held[i]
      BY <2>2, <1>1, <1>3
    <3>3. free + held[MAX_TASKS] = total /\ col[p] \in Nat /\ c \in Nat
      BY <1>1, <1>2
    <3>4. (held[i] - col[p]) + c \in 0 .. total
      <4> HIDE DEF held2
      <4> QED BY <3>1, <3>2, <3>3
    <3> QED BY <2>2, <3>4
  <2> QED BY <2>1, <2>2
<1>5. held2[0] = 0
  BY <1>1, <1>2
<1>6. ASSUME NEW i \in Pids PROVE held2[i + 1] = held2[i] + [col EXCEPT ![p] = c][i]
  <2>0. i \in 0 .. MAX_TASKS /\ i + 1 \in 0 .. MAX_TASKS /\ i \in Nat
    BY <1>1 DEF Pids
  <2>1. /\ i \in 0 .. MAX_TASKS /\ i + 1 \in 0 .. MAX_TASKS /\ i \in Nat
        /\ held[i + 1] = held[i] + col[i] /\ col[i] \in Nat
    <3>1. \A k \in Pids : held[k + 1] = held[k] + col[k]
      BY DEF IsHeld
    <3>2. held[i + 1] = held[i] + col[i] /\ col[i] \in Nat
      BY <3>1
    <3> QED BY <2>0, <3>2
  <2>2. held[i] \in Nat
    BY <2>1, <1>2
  <2>3. CASE i = p
    <3>1. held2[i] = held[i] /\ held2[i + 1] = (held[i + 1] - col[p]) + c
      BY <2>1, <2>3
    <3>2. [col EXCEPT ![p] = c][i] = c
      BY <2>3
    <3> HIDE DEF held2
    <3> QED BY <2>1, <2>2, <2>3, <3>1, <3>2, <1>1
  <2>4. CASE i # p
    <3>1. [col EXCEPT ![p] = c][i] = col[i]
      BY <2>4
    <3>2. i <= p <=> i + 1 <= p
      BY <2>1, <2>4, <1>1
    <3> QED BY <2>1, <2>2, <3>1, <3>2, <1>1
  <2> QED BY <2>3, <2>4
<1>7. ASSUME NEW i \in 0 .. MAX_TASKS, NEW j \in 0 .. MAX_TASKS, i <= j
      PROVE  held2[i] <= held2[j]
  <2>1. held[i] \in Nat /\ held[j] \in Nat /\ held[i] <= held[j] /\ held[p] \in Nat
    BY <1>1, <1>2, <1>7
  <2>2. CASE (i <= p) = (j <= p)
    <3>1. \/ held2[i] = held[i] /\ held2[j] = held[j]
          \/ held2[i] = (held[i] - col[p]) + c /\ held2[j] = (held[j] - col[p]) + c
      BY <2>2
    <3>2. col[p] \in Nat
      BY <1>1
    <3> HIDE DEF held2
    <3> QED BY <2>1, <3>1, <3>2
  <2>3. CASE i <= p /\ ~(j <= p)
    <3>1. held[i] <= held[p] /\ held[p + 1] <= held[j]
      BY <2>3, <1>1, <1>2
    <3>2. held2[i] = held[i] /\ held2[j] = (held[j] - col[p]) + c
      BY <2>3
    <3>3. col[p] \in Nat /\ c \in Nat /\ held[p + 1] = held[p] + col[p]
      BY <1>1, <1>2
    <3>4. held[p + 1] \in Nat
      BY <1>1, <1>2
    <3> HIDE DEF held2
    <3> QED BY <2>1, <3>1, <3>2, <3>3, <3>4
  <2> QED BY <2>2, <2>3, <1>1, <1>7
<1>8. free2 + held2[MAX_TASKS] = total
  <2>1. held[MAX_TASKS] \in Nat /\ held2[MAX_TASKS] = (held[MAX_TASKS] - col[p]) + c
    BY <1>1, <1>2
  <2>2. free + held[MAX_TASKS] = total /\ col[p] \in Nat
    BY <1>1, <1>2
  <2>3. free2 + c = free + col[p]
    OBVIOUS
  <2> HIDE DEF held2
  <2> QED BY <2>1, <2>2, <2>3
<1> HIDE DEF held2
<1> QED BY <1>4, <1>5, <1>6, <1>7, <1>8 DEF IsHeld

\* The same for all resources at once, as a step of the allocator makes it.
LEMMA ExchangeConserves ==
    ASSUME TypeOK, Conserved, NEW p \in Pids, NEW c \in [Resources -> Nat],
           available' \in [Resources -> Nat],
           allocation' = [allocation EXCEPT ![p] = c],
           \A r \in Resources : available'[r] + c[r] = available[r] + allocation[p][r]
    PROVE  Conserved'
<1> USE BankerAssumption
<1>1. /\ allocation \in [Pids -> [Resources -> Nat]]
      /\ available \in [Resources -> Nat]
      /\ allocation' \in [Pids -> [Resources -> Nat]]
  BY DEF TypeOK
<1>2. ASSUME NEW r \in Resources
      PROVE  \E held : IsHeld(held, Column(allocation', r), available'[r], Total[r])
  <2>1. PICK held : IsHeld(held, Column(allocation, r), available[r], Total[r])
    BY <1>1, ConservedIff
  <2>2. /\ Column(allocation, r) \in [Pids -> Nat]
        /\ Column(allocation, r)[p] = allocation[p][r]
        /\ [Column(allocation, r) EXCEPT ![p] = c[r]] = Column(allocation', r)
    <3>1. Column(allocation, r) \in [Pids -> Nat] /\ Column(allocation', r) \in [Pids -> Nat]
      BY <1>1 DEF Column
    <3>2. ASSUME NEW q \in Pids
          PROVE  [Column(allocation, r) EXCEPT ![p] = c[r]][q] = Column(allocation', r)[q]
      <4>1. allocation'[q] = IF q = p THEN c ELSE allocation[q]
        BY <1>1
      <4> QED BY <4>1 DEF Column
    <3> QED BY <3>1, <3>2 DEF Column
  <2>3. /\ available[r] \in Nat /\ available'[r] \in Nat /\ c[r] \in Nat /\ Total[r] \in Nat
        /\ available'[r] + c[r] = available[r] + Column(allocation, r)[p]
    <3>1. available[r] \in Nat /\ available'[r] \in Nat /\ c[r] \in Nat /\ Total[r] \in Nat
      BY <1>1
    <3>2. available'[r] + c[r] = available[r] + allocation[p][r]
      OBVIOUS
    <3> QED BY <3>1, <3>2, <2>2
  <2>4. \E held2 : IsHeld(held2, [Column(allocation, r) EXCEPT ![p] = c[r]],
                          available'[r], Total[r])
    BY <2>1, <2>2, <2>3, Exchange
  <2> QED BY <2>2, <2>4
<1> QED BY <1>1, <1>2 DEF Conserved, IsHeld, Column

-----------------------------------------------------------------------------

LEMMA CountWithTask ==
    ASSUME NEW S \in SUBSET Pids, NEW p \in Pids \ S
    PROVE  /\ IsFiniteSet(S) /\ Cardinality(S) \in Nat
           /\ Cardinality(S \cup {p}) = Cardinality(S) + 1
           /\ Cardinality(S \cup {p}) <= MAX_TASKS
<1> USE BankerAssumption
<1>1. IsFiniteSet(Pids) /\ Cardinality(Pids) = MAX_TASKS
  BY FS_Interval DEF Pids
<1>2. IsFiniteSet(S) /\ IsFiniteSet(S \cup {p})
  BY <1>1, FS_Subset
<1>3. Cardinality(S) \in Nat
  BY <1>2, FS_CardinalityType
<1>4. Cardinality(S \cup {p}) = Cardinality(S) + 1
  BY <1>2, FS_AddElement
<1>5. Cardinality(S \cup {p}) <= Cardinality(Pids)
  BY <1>1, FS_Subset
<1> QED BY <1>1, <1>2, <1>3, <1>4, <1>5

LEMMA InitIInv == Init => IInv
<1> SUFFICES ASSUME Init PROVE IInv
  OBVIOUS
<1> USE BankerAssumption
<1>1. Zero \in [Resources -> Nat]
  BY DEF Zero
<1>2. TypeOK
  BY <1>1 DEF Init, TypeOK
<1>3. CountIsLive
  BY FS_EmptySet DEF Init, CountIsLive
<1>4. Conserved
  <2> SUFFICES ASSUME NEW r \in Resources
               PROVE  \E held : IsHeld(held, Column(allocation, r), available[r], Total[r])
    BY <1>2, ConservedIff DEF TypeOK
  <2>1. \A p \in Pids : Column(allocation, r)[p] = 0
    BY DEF Init, Column, Zero
  <2>2. available[r] = Total[r] /\ Total[r] \in Nat
    BY DEF Init
  <2> WITNESS [i \in 0 .. MAX_TASKS |-> 0]
  <2> QED BY <2>1, <2>2 DEF IsHeld, Pids
<1>5. NeedIsTheRest /\ DeadHoldNothing
  BY DEF Init, NeedIsTheRest, DeadHoldNothing
<1> QED BY <1>2, <1>3, <1>4, <1>5 DEF IInv

LEMMA TaskCreateKeepsIInv ==
    ASSUME IInv, NEW d \in Demands, TaskCreate(d)
    PROVE  IInv'
<1> USE BankerAssumption
<1>1. PICK p \in Pids \ live :
          /\ live' = live \cup {p}
          /\ max_demand' = [max_demand EXCEPT ![p] = d]
          /\ allocation' = [allocation EXCEPT ![p] = Zero]
          /\ need' = [need EXCEPT ![p] = d]
  BY DEF TaskCreate
<1>2. TypeOK /\ Conserved /\ d \in [Resources -> Nat] /\ Zero \in [Resources -> Nat]
  BY DEF IInv, Zero
<1>3. CountIsLive' /\ task_count' \in 0 .. MAX_TASKS
  <2>1. live \in SUBSET Pids
    BY <1>2 DEF TypeOK
  <2>2. /\ Cardinality(live) \in Nat
        /\ Cardinality(live \cup {p}) = Cardinality(live) + 1
        /\ Cardinality(live \cup {p}) <= MAX_TASKS
    BY <2>1, CountWithTask
  <2>3. task_count' = task_count + 1 /\ task_count = Cardinality(live)
    BY DEF IInv, CountIsLive, TaskCreate
  <2>4. task_count' = Cardinality(live')
    BY <1>1, <2>2, <2>3
  <2>5. task_count' \in 0 .. MAX_TASKS
    BY <2>2, <2>3
  <2> QED BY <2>4, <2>5 DEF CountIsLive
<1>4. TypeOK'
  BY <1>1, <1>2, <1>3 DEF TypeOK, TaskCreate
<1>5. allocation[p] = Zero
  BY <1>1 DEF IInv, DeadHoldNothing
<1>6. Conserved'
  <2>1. \A r \in Resources : available'[r] + Zero[r] = available[r] + allocation[p][r]
    BY <1>2, <1>5 DEF TaskCreate, TypeOK
  <2> QED BY <1>1, <1>2, <1>4, <2>1, ExchangeConserves DEF TypeOK
<1>7. NeedIsTheRest'
  <2> SUFFICES ASSUME NEW q \in live', NEW r \in Resources
               PROVE  allocation'[q][r] + need'[q][r] = max_demand'[q][r]
    BY DEF NeedIsTheRest
  <2>1. CASE q = p
    <3>1. allocation'[q][r] = 0 /\ need'[q][r] = d[r] /\ max_demand'[q][r] = d[r]
      BY <1>1, <1>2, <2>1 DEF TypeOK, Zero
    <3>2. d[r] \in Nat
      BY <1>2
    <3> QED BY <3>1, <3>2
  <2>2. CASE q # p
    BY <1>1, <1>2, <2>2 DEF IInv, TypeOK, NeedIsTheRest
  <2> QED BY <2>1, <2>2
<1>8. DeadHoldNothing'
  BY <1>1, <1>2 DEF IInv, TypeOK, DeadHoldNothing
<1> QED BY <1>3, <1>4, <1>6, <1>7, <1>8 DEF IInv

LEMMA TaskTerminateKeepsIInv ==
    ASSUME IInv, NEW p \in Pids, TaskTerminate(p)
    PROVE  IInv'
<1> USE BankerAssumption
<1>1. /\ TypeOK /\ Conserved /\ Zero \in [Resources -> Nat] /\ p \in live
      /\ available \in [Resources -> Nat] /\ allocation \in [Pids -> [Resources -> Nat]]
  BY DEF IInv, TypeOK, Zero, TaskTerminate
<1>2. available' \in [Resources -> Nat]
  BY <1>1 DEF TaskTerminate
<1>3. CountIsLive' /\ task_count' \in 0 .. MAX_TASKS
  <2>1. live \ {p} \in SUBSET Pids /\ p \in Pids \ (live \ {p}) /\ (live \ {p}) \cup {p} = live
    BY <1>1 DEF TypeOK
  <2>2. /\ Cardinality(live \ {p}) \in Nat
        /\ Cardinality(live) = Cardinality(live \ {p}) + 1
        /\ Cardinality(live) <= MAX_TASKS
    BY <2>1, CountWithTask
  <2> QED BY <2>2 DEF IInv, CountIsLive, TaskTerminate
<1>4. TypeOK'
  BY <1>1, <1>2, <1>3 DEF TypeOK, TaskTerminate
<1>5. Conserved'
  <2>1. \A r \in Resources : available'[r] + Zero[r] = available[r] + allocation[p][r]
    BY <1>1 DEF TaskTerminate, Zero
  <2> QED BY <1>1, <1>2, <2>1, ExchangeConserves DEF TaskTerminate
<1>6. NeedIsTheRest' /\ DeadHoldNothing'
  BY <1>1 DEF IInv, NeedIsTheRest, DeadHoldNothing, TaskTerminate
<1> QED BY <1>3, <1>4, <1>5, <1>6 DEF IInv

LEMMA GrantKeepsIInv ==
    ASSUME IInv, NEW p \in Pids, NEW v \in Amounts, Grant(p, v)
    PROVE  IInv'
<1> USE BankerAssumption
<1> DEFINE c == [r \in Resources |-> allocation[p][r] + v[r]]
<1>1. /\ TypeOK /\ Conserved /\ p \in live /\ v \in [Resources -> Nat]
      /\ available \in [Resources -> Nat] /\ allocation \in [Pids -> [Resources -> Nat]]
      /\ need \in [Pids -> [Resources -> Nat]] /\ max_demand \in [Pids -> [Resources -> Nat]]
  BY DEF IInv, TypeOK, Grant, Consistent
<1>2. \A r \in Resources : v[r] <= need[p][r] /\ v[r] <= available[r]
  BY DEF Grant, Consistent
<1>3. /\ available' = [r \in Resources |-> available[r] - v[r]]
      /\ allocation' = [allocation EXCEPT ![p] = c]
      /\ need' = [need EXCEPT ![p] = [r \in Resources |-> need[p][r] - v[r]]]
      /\ UNCHANGED <<live, max_demand, task_count>>
  BY <1>1 DEF Grant, TrialAvailable, TrialAllocation, TrialNeed
<1>4. c \in [Resources -> Nat] /\ available' \in [Resources -> Nat]
  BY <1>1, <1>2, <1>3
<1>5. TypeOK'
  <2>1. need' \in [Pids -> [Resources -> Nat]]
    <3>1. [r \in Resources |-> need[p][r] - v[r]] \in [Resources -> Nat]
      BY <1>1, <1>2
    <3> QED BY <1>1, <1>3, <3>1
  <2>2. allocation' \in [Pids -> [Resources -> Nat]]
    BY <1>1, <1>3, <1>4
  <2> QED BY <1>1, <1>3, <1>4, <2>1, <2>2 DEF TypeOK
<1>6. Conserved'
  <2>1. ASSUME NEW r \in Resources
        PROVE  available'[r] + c[r] = available[r] + allocation[p][r]
    <3>1. available[r] \in Nat /\ allocation[p][r] \in Nat /\ v[r] \in Nat
      BY <1>1
    <3>2. available'[r] = available[r] - v[r] /\ c[r] = allocation[p][r] + v[r]
      BY <1>3
    <3> HIDE DEF c
    <3> QED BY <3>1, <3>2
  <2> HIDE DEF c
  <2> QED BY <1>1, <1>3, <1>4, <2>1, ExchangeConserves
<1>7. NeedIsTheRest'
  <2> SUFFICES ASSUME NEW q \in live, NEW r \in Resources
               PROVE  allocation'[q][r] + need'[q][r] = max_demand[q][r]
    BY <1>3 DEF NeedIsTheRest
  <2>1. /\ allocation[q][r] + need[q][r] = max_demand[q][r] /\ q \in Pids
        /\ allocation[q][r] \in Nat /\ need[q][r] \in Nat /\ v[r] \in Nat
    BY <1>1 DEF IInv, TypeOK, NeedIsTheRest
  <2>2. CASE q = p
    <3>1. allocation'[q][r] = allocation[q][r] + v[r] /\ need'[q][r] = need[q][r] - v[r]
      BY <1>1, <1>3, <2>2
    <3> QED BY <2>1, <3>1
  <2>3. CASE q # p
    BY <1>1, <1>3, <2>1, <2>3
  <2> QED BY <2>2, <2>3
<1>8. CountIsLive' /\ DeadHoldNothing'
  BY <1>1, <1>3 DEF IInv, CountIsLive, DeadHoldNothing
<1> QED BY <1>5, <1>6, <1>7, <1>8 DEF IInv

LEMMA ReleaseKeepsIInv ==
    ASSUME IInv, NEW p \in Pids, NEW v \in Amounts, ReleaseResources(p, v)
    PROVE  IInv'
<1> USE BankerAssumption
<1> DEFINE back == Released(p, v)
           c == [r \in Resources |-> allocation[p][r] - back[r]]
<1>1. /\ TypeOK /\ Conserved /\ p \in live /\ v \in [Resources -> Nat]
      /\ available \in [Resources -> Nat] /\ allocation \in [Pids -> [Resources -> Nat]]
      /\ need \in [Pids -> [Resources -> Nat]] /\ max_demand \in [Pids -> [Resources -> Nat]]
  BY DEF IInv, TypeOK, ReleaseResources
<1>2. back \in [Resources -> Nat] /\ \A r \in Resources : back[r] <= allocation[p][r]
  BY <1>1 DEF Released
<1>3. /\ available' = [r \in Resources |-> available[r] + back[r]]
      /\ allocation' = [allocation EXCEPT ![p] = c]
      /\ need' = [need EXCEPT ![p] = [r \in Resources |-> need[p][r] + back[r]]]
      /\ UNCHANGED <<live, max_demand, task_count>>
  BY <1>1 DEF ReleaseResources
<1> HIDE DEF back
<1>4. c \in [Resources -> Nat] /\ available' \in [Resources -> Nat]
  BY <1>1, <1>2, <1>3
<1>5. TypeOK'
  <2>1. need' \in [Pids -> [Resources -> Nat]]
    BY <1>1, <1>2, <1>3
  <2>2. allocation' \in [Pids -> [Resources -> Nat]]
    BY <1>1, <1>3, <1>4
  <2> QED BY <1>1, <1>3, <1>4, <2>1, <2>2 DEF TypeOK
<1>6. Conserved'
  <2>1. ASSUME NEW r \in Resources
        PROVE  available'[r] + c[r] = available[r] + allocation[p][r]
    <3>1. available[r] \in Nat /\ allocation[p][r] \in Nat /\ back[r] \in Nat
      BY <1>1, <1>2
    <3>2. available'[r] = available[r] + back[r] /\ c[r] = allocation[p][r] - back[r]
      BY <1>3
    <3> HIDE DEF c
    <3> QED BY <3>1, <3>2
  <2> HIDE DEF c
  <2> QED BY <1>1, <1>3, <1>4, <2>1, ExchangeConserves
<1>7. NeedIsTheRest'
  <2> SUFFICES ASSUME NEW q \in live, NEW r \in Resources
               PROVE  allocation'[q][r] + need'[q][r] = max_demand[q][r]
    BY <1>3 DEF NeedIsTheRest
  <2>1. /\ allocation[q][r] + need[q][r] = max_demand[q][r] /\ q \in Pids
        /\ allocation[q][r] \in Nat /\ need[q][r] \in Nat /\ back[r] \in Nat
    BY <1>1, <1>2 DEF IInv, TypeOK, NeedIsTheRest
  <2>2. CASE q = p
    <3>1. allocation'[q][r] = allocation[q][r] - back[r] /\ need'[q][r] = need[q][r] + back[r]
      BY <1>1, <1>3, <2>2
    <3> QED BY <2>1, <3>1
  <2>3. CASE q # p
    BY <1>1, <1>3, <2>1, <2>3
  <2> QED BY <2>2, <2>3
<1>8. CountIsLive' /\ DeadHoldNothing'
  BY <1>1, <1>3 DEF IInv, CountIsLive, DeadHoldNothing
<1> QED BY <1>5, <1>6, <1>7, <1>8 DEF IInv

\* What the rollback leaves is what the trial allocation found.
LEMMA RolledBack ==
    ASSUME IInv, NEW p \in Pids, NEW v \in Amounts, RollBack(p, v)
    PROVE  UNCHANGED vars
<1> USE BankerAssumption
<1>1. /\ v \in [Resources -> Nat] /\ available \in [Resources -> Nat]
      /\ allocation \in [Pids -> [Resources -> Nat]] /\ need \in [Pids -> [Resources -> Nat]]
  BY DEF IInv, TypeOK
<1>2. available' = available
  <2>1. \A r \in Resources : (available[r] - v[r]) + v[r] = available[r]
    BY <1>1
  <2> QED BY <1>1, <2>1 DEF RollBack, TrialAvailable
<1>3. allocation' = allocation
  <2>1. \A r \in Resources : (allocation[p][r] + v[r]) - v[r] = allocation[p][r]
    BY <1>1
  <2>2. allocation' = [allocation EXCEPT ![p] = [r \in Resources |-> (allocation[p][r] + v[r]) - v[r]]]
    BY <1>1 DEF RollBack, TrialAllocation
  <2>3. [r \in Resources |-> (allocation[p][r] + v[r]) - v[r]] = allocation[p]
    BY <1>1, <2>1
  <2> QED BY <1>1, <2>2, <2>3
<1>4. need' = need
  <2>1. \A r \in Resources : (need[p][r] - v[r]) + v[r] = need[p][r]
    BY <1>1
  <2>2. need' = [need EXCEPT ![p] = [r \in Resources |-> (need[p][r] - v[r]) + v[r]]]
    BY <1>1 DEF RollBack, TrialNeed
  <2>3. [r \in Resources |-> (need[p][r] - v[r]) + v[r]] = need[p]
    BY <1>1, <2>1
  <2> QED BY <1>1, <2>2, <2>3
<1> QED BY <1>2, <1>3, <1>4 DEF RollBack, vars

LEMMA RestKeepsIInv == ASSUME IInv, UNCHANGED vars PROVE IInv'
BY DEF vars, IInv, TypeOK, Conserved, CountIsLive, NeedIsTheRest, DeadHoldNothing

LEMMA NextIInv == IInv /\ [Next]_vars => IInv'
<1> SUFFICES ASSUME IInv, [Next]_vars PROVE IInv'
  OBVIOUS
<1>1. ASSUME NEW d \in Demands, TaskCreate(d) PROVE IInv'
  BY <1>1, TaskCreateKeepsIInv
<1>2. ASSUME NEW p \in Pids, TaskTerminate(p) PROVE IInv'
  BY <1>2, TaskTerminateKeepsIInv
<1>3. ASSUME NEW p \in Pids, NEW v \in Amounts, RequestResources(p, v) PROVE IInv'
  BY <1>3, GrantKeepsIInv, RolledBack, RestKeepsIInv DEF RequestResources
<1>4. ASSUME NEW p \in Pids, NEW v \in Amounts, ReleaseResources(p, v) PROVE IInv'
  BY <1>4, ReleaseKeepsIInv
<1>5. CASE UNCHANGED vars
  BY <1>5, RestKeepsIInv
<1> QED BY <1>1, <1>2, <1>3, <1>4, <1>5 DEF Next

\* The matrices and the counter stay in range: no release, trial allocation or
\* reclaimed slot drives an amount below zero or the counter past the table.
THEOREM Typed == Spec => []TypeOK
<1>1. IInv => TypeOK
  BY DEF IInv
<1> QED BY InitIInv, NextIInv, <1>1, PTL DEF Spec

\* Resources are conserved by request_resources(), release_resources(), task_create()
\* and task_terminate() in any order, whatever was demanded.
THEOREM ResourcesConserved == Spec => []Conserved
<1>1. IInv => Conserved
  BY DEF IInv
<1> QED BY InitIInv, NextIInv, <1>1, PTL DEF Spec

\* The counter that bounds the loop of is_safe_state() is the number of live tasks.
THEOREM LiveTasksCounted == Spec => []CountIsLive
<1>1. IInv => CountIsLive
  BY DEF IInv
<1> QED BY InitIInv, NextIInv, <1>1, PTL DEF Spec

\* No live task ever holds more than it declared.
THEOREM DemandsKept == Spec => []NeedIsTheRest
<1>1. IInv => NeedIsTheRest
  BY DEF IInv
<1> QED BY InitIInv, NextIInv, <1>1, PTL DEF Spec

-----------------------------------------------------------------------------
(* Induction over sets of slots, as a principle about a set of counterexamples:    *)
(* one that is not empty has a member none of whose proper subsets is in it.       *)

Less == {p \in Nat \X Nat : p[1] < p[2]}

LEMMA LeastNumber ==
    ASSUME NEW T, T \subseteq Nat, T # {}
    PROVE  \E x \in T : \A y \in T : x <= y
<1>1. IsWellFoundedOn(Less, Nat)
  <2>1. OpToRel(<, Nat) = Less
    BY DEF OpToRel, Less
  <2> QED BY <2>1, NatLessThanWellFounded
<1>2. PICK x \in T : \A y \in T : ~(<<y, x>> \in Less)
  BY <1>1, WFMin
<1>3. \A y \in T : <<y, x>> \in Nat \X Nat /\ x \in Nat /\ y \in Nat
  OBVIOUS
<1>4. \A y \in T : ~(y < x)
  BY <1>2, <1>3 DEF Less
<1> QED BY <1>3, <1>4

LEMMA PidSets ==
    ASSUME NEW S \in SUBSET Pids
    PROVE  IsFiniteSet(S) /\ Cardinality(S) \in Nat /\ Cardinality(S) <= MAX_TASKS
<1> USE BankerAssumption
<1>1. IsFiniteSet(Pids) /\ Cardinality(Pids) = MAX_TASKS
  BY FS_Interval DEF Pids
<1> QED BY <1>1, FS_Subset, FS_CardinalityType

LEMMA SmallestSet ==
    ASSUME NEW F, F \subseteq SUBSET Pids, F # {}
    PROVE  \E S \in F : \A T \in SUBSET S : T # S => T \notin F
<1> DEFINE sizes == {Cardinality(S) : S \in F}
<1>1. sizes \subseteq Nat /\ sizes # {}
  BY PidSets
<1>2. PICK n \in sizes : \A m \in sizes : n <= m
  BY <1>1, LeastNumber
<1>3. PICK S \in F : n = Cardinality(S)
  BY <1>2
<1>4. ASSUME NEW T \in SUBSET S, T # S, T \in F PROVE FALSE
  <2>1. Cardinality(T) < Cardinality(S)
    BY <1>4, PidSets, FS_Subset
  <2>2. n <= Cardinality(T) /\ Cardinality(T) \in Nat /\ n \in Nat
    BY <1>1, <1>2, <1>4, PidSets
  <2> QED BY <1>3, <2>1, <2>2
<1> QED BY <1>4

-----------------------------------------------------------------------------
(* HeldBy, which the community modules define by a recursion over sets, is a sum:  *)
(* the order in which the recursion takes the slots does not matter.               *)

Some(s) == CHOOSE x \in s : TRUE
IsSum(sum, S, al, r) ==
    sum = [s \in SUBSET S |-> IF s = {} THEN 0 ELSE al[Some(s)][r] + sum[s \ {Some(s)}]]

LEMMA HeldByUnfolded ==
    ASSUME NEW S, NEW al, NEW r
    PROVE  HeldBy(S, al, r) = (CHOOSE sum : IsSum(sum, S, al, r))[S]
BY DEF HeldBy, MapThenSumSet, MapThenFoldSet, IsSum, Some

LEMMA SomeIsOne == ASSUME NEW s, s # {} PROVE Some(s) \in s /\ s \ {Some(s)} # s
BY DEF Some

LEMMA OneSum ==
    ASSUME NEW S \in SUBSET Pids, NEW T \in SUBSET S, NEW al, NEW r,
           NEW f, IsSum(f, S, al, r), NEW g, IsSum(g, T, al, r)
    PROVE  f[T] = g[T]
<1> DEFINE F == {u \in SUBSET T : f[u] # g[u]}
<1> SUFFICES ASSUME F # {} PROVE FALSE
  OBVIOUS
<1>1. PICK u \in F : \A v \in SUBSET u : v # u => v \notin F
  <2>1. F \subseteq SUBSET Pids
    OBVIOUS
  <2> HIDE DEF F
  <2> QED BY <2>1, SmallestSet
<1>2. /\ f[u] = IF u = {} THEN 0 ELSE al[Some(u)][r] + f[u \ {Some(u)}]
      /\ g[u] = IF u = {} THEN 0 ELSE al[Some(u)][r] + g[u \ {Some(u)}]
  BY DEF IsSum
<1>3. CASE u = {}
  BY <1>2, <1>3
<1>4. CASE u # {}
  <2>1. u \ {Some(u)} \in SUBSET u /\ u \ {Some(u)} # u
    BY <1>4, SomeIsOne
  <2>2. f[u \ {Some(u)}] = g[u \ {Some(u)}]
    BY <1>1, <2>1
  <2> QED BY <1>2, <1>4, <2>2
<1> QED BY <1>3, <1>4

LEMMA SumExists ==
    ASSUME NEW S \in SUBSET Pids, NEW al, NEW r
    PROVE  \E sum : IsSum(sum, S, al, r)
<1> DEFINE F == {T \in SUBSET Pids : ~ \E sum : IsSum(sum, T, al, r)}
<1> SUFFICES ASSUME F # {} PROVE FALSE
  OBVIOUS
<1>1. PICK T \in F : \A u \in SUBSET T : u # T => u \notin F
  <2>1. F \subseteq SUBSET Pids
    OBVIOUS
  <2> HIDE DEF F
  <2> QED BY <2>1, SmallestSet
<1> DEFINE g == [s \in SUBSET T |-> IF s = {} THEN 0
                                    ELSE al[Some(s)][r] + HeldBy(s \ {Some(s)}, al, r)]
<1>2. ASSUME NEW u \in SUBSET T, u # T PROVE g[u] = HeldBy(u, al, r)
  <2>1. \E sum : IsSum(sum, u, al, r)
    BY <1>1, <1>2
  <2>2. PICK f : f = CHOOSE sum : IsSum(sum, u, al, r)
    OBVIOUS
  <2>3. IsSum(f, u, al, r) /\ HeldBy(u, al, r) = f[u]
    BY <2>1, <2>2, HeldByUnfolded
  <2>4. f[u] = IF u = {} THEN 0 ELSE al[Some(u)][r] + f[u \ {Some(u)}]
    BY <2>3 DEF IsSum
  <2>5. ASSUME u # {} PROVE f[u \ {Some(u)}] = HeldBy(u \ {Some(u)}, al, r)
    <3> DEFINE w == u \ {Some(u)}
    <3>1. w \in SUBSET T /\ w # T /\ w \subseteq u
      BY <1>2, <2>5, SomeIsOne
    <3>2. \E sum : IsSum(sum, w, al, r)
      BY <1>1, <3>1
    <3>3. PICK h : h = CHOOSE sum : IsSum(sum, w, al, r)
      OBVIOUS
    <3>4. IsSum(h, w, al, r) /\ HeldBy(w, al, r) = h[w]
      BY <3>2, <3>3, HeldByUnfolded
    <3>5. u \in SUBSET Pids /\ w \in SUBSET u
      BY <3>1
    <3> HIDE DEF w, g
    <3>6. f[w] = h[w]
      BY <2>3, <3>1, <3>4, <3>5, OneSum
    <3> QED BY <3>4, <3>6 DEF w
  <2> QED BY <2>3, <2>4, <2>5
<1>3. IsSum(g, T, al, r)
  <2>1. ASSUME NEW s \in SUBSET T, s # {}
        PROVE  HeldBy(s \ {Some(s)}, al, r) = g[s \ {Some(s)}]
    <3>1. PICK w : w = s \ {Some(s)}
      OBVIOUS
    <3>2. w \in SUBSET T /\ w # T
      BY <2>1, <3>1, SomeIsOne
    <3> HIDE DEF g
    <3>3. g[w] = HeldBy(w, al, r)
      BY <1>2, <3>2
    <3> QED BY <3>1, <3>3
  <2> DEFINE h == [s \in SUBSET T |-> IF s = {} THEN 0 ELSE al[Some(s)][r] + g[s \ {Some(s)}]]
  <2>2. ASSUME NEW s \in SUBSET T PROVE g[s] = h[s]
    BY <2>1
  <2>3. g = h
    BY <2>2
  <2> QED BY <2>3 DEF IsSum
<1> QED BY <1>1, <1>3

LEMMA HeldByRecursion ==
    ASSUME NEW S \in SUBSET Pids, NEW al, NEW r
    PROVE  HeldBy(S, al, r) = IF S = {} THEN 0
                              ELSE al[Some(S)][r] + HeldBy(S \ {Some(S)}, al, r)
<1>1. PICK f : f = CHOOSE sum : IsSum(sum, S, al, r)
  OBVIOUS
<1>2. IsSum(f, S, al, r) /\ HeldBy(S, al, r) = f[S]
  BY <1>1, SumExists, HeldByUnfolded
<1>3. f[S] = IF S = {} THEN 0 ELSE al[Some(S)][r] + f[S \ {Some(S)}]
  BY <1>2 DEF IsSum
<1>4. PICK w : w = S \ {Some(S)}
  OBVIOUS
<1>5. PICK h : h = CHOOSE sum : IsSum(sum, w, al, r)
  OBVIOUS
<1>6. IsSum(h, w, al, r) /\ HeldBy(w, al, r) = h[w]
  BY <1>4, <1>5, SumExists, HeldByUnfolded
<1>7. w \in SUBSET S
  BY <1>4
<1>8. f[w] = h[w]
  <2>1. IsSum(f, S, al, r) /\ IsSum(h, w, al, r)
    BY <1>2, <1>6
  <2> QED BY <1>7, <2>1, OneSum
<1> QED BY <1>2, <1>3, <1>4, <1>6, <1>8

Matrices == [Pids -> [Resources -> Nat]]

LEMMA HeldTyped ==
    ASSUME NEW S \in SUBSET Pids, NEW al \in Matrices, NEW r \in Resources
    PROVE  HeldBy(S, al, r) \in Nat
<1> DEFINE F == {T \in SUBSET Pids : HeldBy(T, al, r) \notin Nat}
<1> SUFFICES ASSUME F # {} PROVE FALSE
  OBVIOUS
<1>1. PICK T \in F : \A u \in SUBSET T : u # T => u \notin F
  <2>1. F \subseteq SUBSET Pids
    OBVIOUS
  <2> HIDE DEF F
  <2> QED BY <2>1, SmallestSet
<1>2. CASE T = {}
  BY <1>2, HeldByRecursion
<1>3. CASE T # {}
  <2>1. PICK p, u : p = Some(T) /\ u = T \ {Some(T)}
    OBVIOUS
  <2>2. p \in Pids /\ u \in SUBSET T /\ u # T
    BY <1>3, <2>1, SomeIsOne
  <2>3. HeldBy(u, al, r) \in Nat /\ al[p][r] \in Nat
    BY <1>1, <2>2 DEF Matrices
  <2>4. HeldBy(T, al, r) = al[p][r] + HeldBy(u, al, r)
    BY <1>3, <2>1, HeldByRecursion
  <2> QED BY <2>3, <2>4
<1> QED BY <1>2, <1>3

Without(S, p) == S \ {p}

LEMMA HeldWithout ==
    ASSUME NEW S \in SUBSET Pids, NEW al \in Matrices, NEW r \in Resources, NEW p \in S
    PROVE  HeldBy(S, al, r) = al[p][r] + HeldBy(Without(S, p), al, r)
<1> USE DEF Without
<1> DEFINE F == {T \in SUBSET Pids : \E q \in T :
                    HeldBy(T, al, r) # al[q][r] + HeldBy(T \ {q}, al, r)}
<1> SUFFICES ASSUME F # {} PROVE FALSE
  OBVIOUS
<1>1. PICK T \in F : \A u \in SUBSET T : u # T => u \notin F
  <2>1. F \subseteq SUBSET Pids
    OBVIOUS
  <2> HIDE DEF F
  <2> QED BY <2>1, SmallestSet
<1>2. PICK q \in T : HeldBy(T, al, r) # al[q][r] + HeldBy(T \ {q}, al, r)
  OBVIOUS
<1>3. PICK x, u : x = Some(T) /\ u = T \ {x}
  OBVIOUS
<1>4. x \in T /\ u \in SUBSET T /\ u # T /\ T \in SUBSET Pids
  BY <1>2, <1>3, SomeIsOne
<1>5. HeldBy(T, al, r) = al[x][r] + HeldBy(u, al, r)
  <2>1. T \in SUBSET Pids /\ T # {} /\ u = T \ {Some(T)} /\ x = Some(T)
    BY <1>2, <1>3
  <2> QED BY <2>1, HeldByRecursion
<1>6. q # x
  BY <1>2, <1>3, <1>5
<1>7. PICK v, w : v = T \ {q} /\ w = u \ {q}
  OBVIOUS
<1>8. q \in u /\ x \in v /\ v \in SUBSET T /\ v # T /\ w = v \ {x}
  BY <1>2, <1>3, <1>4, <1>6, <1>7
<1>9. HeldBy(u, al, r) = al[q][r] + HeldBy(w, al, r)
  <2>1. \A z \in u : HeldBy(u, al, r) = al[z][r] + HeldBy(u \ {z}, al, r)
    BY <1>1, <1>4
  <2> QED BY <1>7, <1>8, <2>1
<1>10. HeldBy(v, al, r) = al[x][r] + HeldBy(w, al, r)
  <2>1. \A z \in v : HeldBy(v, al, r) = al[z][r] + HeldBy(v \ {z}, al, r)
    BY <1>1, <1>4, <1>8
  <2> QED BY <1>8, <2>1
<1>11. al[x][r] \in Nat /\ al[q][r] \in Nat /\ HeldBy(w, al, r) \in Nat
  <2>1. w \in SUBSET Pids /\ x \in Pids /\ q \in Pids
    BY <1>4, <1>7, <1>8
  <2> QED BY <2>1, HeldTyped DEF Matrices
<1> QED BY <1>2, <1>5, <1>7, <1>9, <1>10, <1>11

LEMMA HeldWith ==
    ASSUME NEW S \in SUBSET Pids, NEW al \in Matrices, NEW r \in Resources, NEW p \in Pids \ S
    PROVE  HeldBy(S \cup {p}, al, r) = HeldBy(S, al, r) + al[p][r]
<1>1. PICK T : T = S \cup {p}
  OBVIOUS
<1>2. T \in SUBSET Pids /\ p \in T /\ S = T \ {p}
  BY <1>1
<1>3. HeldBy(T, al, r) = al[p][r] + HeldBy(S, al, r)
  <2>1. T \in SUBSET Pids /\ p \in T
    BY <1>2
  <2>2. S = Without(T, p)
    BY <1>2 DEF Without
  <2> QED BY <2>1, <2>2, HeldWithout
<1>4. HeldBy(S, al, r) \in Nat /\ al[p][r] \in Nat
  BY HeldTyped DEF Matrices
<1> QED BY <1>1, <1>2, <1>3, <1>4

LEMMA HeldSplits ==
    ASSUME NEW T \in SUBSET Pids, NEW S \in SUBSET T, NEW al \in Matrices, NEW r \in Resources
    PROVE  /\ HeldBy(T, al, r) = HeldBy(S, al, r) + HeldBy(T \ S, al, r)
           /\ HeldBy(S, al, r) <= HeldBy(T, al, r)
<1> DEFINE F == {U \in SUBSET T :
                    HeldBy(T, al, r) # HeldBy(U, al, r) + HeldBy(T \ U, al, r)}
<1>1. F = {}
  <2> SUFFICES ASSUME F # {} PROVE FALSE
    OBVIOUS
  <2>1. PICK U \in F : \A u \in SUBSET U : u # U => u \notin F
    <3>1. F \subseteq SUBSET Pids
      OBVIOUS
    <3> HIDE DEF F
    <3> QED BY <3>1, SmallestSet
  <2>2. CASE U = {}
    <3>1. T \ U = T /\ HeldBy(U, al, r) = 0 /\ HeldBy(T, al, r) \in Nat
      BY <2>2, HeldByRecursion, HeldTyped
    <3> QED BY <3>1
  <2>3. CASE U # {}
    <3>1. PICK p, u : p \in U /\ u = U \ {p}
      BY <2>3
    <3>2. PICK V, W : V = T \ u /\ W = T \ U
      OBVIOUS
    <3>3. /\ u \in SUBSET U /\ u # U /\ u \in SUBSET T /\ U \in SUBSET Pids /\ p \in U
          /\ V \in SUBSET Pids /\ p \in V /\ W = V \ {p}
      BY <3>1, <3>2
    <3>4. HeldBy(T, al, r) = HeldBy(u, al, r) + HeldBy(V, al, r)
      BY <2>1, <3>2, <3>3
    <3>5. HeldBy(U, al, r) = al[p][r] + HeldBy(u, al, r)
      <4>1. U \in SUBSET Pids /\ p \in U
        BY <3>1, <3>3
      <4>2. u = Without(U, p)
        BY <3>1 DEF Without
      <4> HIDE DEF F
      <4> QED BY <4>1, <4>2, HeldWithout
    <3>6. HeldBy(V, al, r) = al[p][r] + HeldBy(W, al, r)
      <4>1. V \in SUBSET Pids /\ p \in V
        BY <3>3
      <4>2. W = Without(V, p)
        BY <3>3 DEF Without
      <4> HIDE DEF F
      <4> QED BY <4>1, <4>2, HeldWithout
    <3>7. HeldBy(u, al, r) \in Nat /\ HeldBy(W, al, r) \in Nat /\ al[p][r] \in Nat
      <4>1. u \in SUBSET Pids /\ W \in SUBSET Pids /\ p \in Pids
        BY <3>3
      <4> QED BY <4>1, HeldTyped DEF Matrices
    <3> QED BY <3>2, <3>4, <3>5, <3>6, <3>7
  <2> QED BY <2>2, <2>3
<1>2. HeldBy(T, al, r) = HeldBy(S, al, r) + HeldBy(T \ S, al, r)
  BY <1>1
<1>3. HeldBy(S, al, r) \in Nat /\ HeldBy(T \ S, al, r) \in Nat
  <2>1. S \in SUBSET Pids /\ T \ S \in SUBSET Pids
    OBVIOUS
  <2> QED BY <2>1, HeldTyped
<1> QED BY <1>2, <1>3

LEMMA HeldSame ==
    ASSUME NEW S \in SUBSET Pids, NEW al \in Matrices, NEW be \in Matrices, NEW r \in Resources,
           \A p \in S : al[p][r] = be[p][r]
    PROVE  HeldBy(S, al, r) = HeldBy(S, be, r)
<1> DEFINE F == {T \in SUBSET S : HeldBy(T, al, r) # HeldBy(T, be, r)}
<1> SUFFICES ASSUME F # {} PROVE FALSE
  OBVIOUS
<1>1. PICK T \in F : \A u \in SUBSET T : u # T => u \notin F
  <2>1. F \subseteq SUBSET Pids
    OBVIOUS
  <2> HIDE DEF F
  <2> QED BY <2>1, SmallestSet
<1>2. CASE T = {}
  BY <1>2, HeldByRecursion
<1>3. CASE T # {}
  <2>1. PICK p, u : p \in T /\ u = T \ {p}
    BY <1>3
  <2>2. T \in SUBSET Pids /\ u \in SUBSET T /\ u # T /\ p \in S
    BY <2>1
  <2>3. HeldBy(u, al, r) = HeldBy(u, be, r) /\ al[p][r] = be[p][r]
    BY <1>1, <2>2
  <2> HIDE DEF F
  <2>6. T \in SUBSET Pids /\ p \in T
    BY <2>1, <2>2
  <2>7. u = Without(T, p)
    BY <2>1 DEF Without
  <2>4. HeldBy(T, al, r) = al[p][r] + HeldBy(u, al, r)
    BY <2>6, <2>7, HeldWithout
  <2>5. HeldBy(T, be, r) = be[p][r] + HeldBy(u, be, r)
    BY <2>6, <2>7, HeldWithout
  <2> QED BY <2>3, <2>4, <2>5 DEF F
<1> QED BY <1>2, <1>3

-----------------------------------------------------------------------------
(* is_safe_state().  Good is the invariant of its loops: work is what is free once  *)
(* the finished tasks have ended, count is their number, and a group of tasks one   *)
(* of which has finished is not stuck.                                              *)

Vector == [Resources -> Nat]

Served(group, av, al, nd) ==
    \E p \in group : \A r \in Resources : nd[p][r] <= av[r] + HeldBy(live \ group, al, r)

Good(s, av, al, nd) ==
    /\ s.finish \in SUBSET Pids
    /\ Pids \ live \subseteq s.finish
    /\ \A r \in Resources : s.work[r] = av[r] + HeldBy(s.finish \cap live, al, r)
    /\ s.count = Cardinality(s.finish \cap live)
    /\ \A group \in SUBSET live : group \cap s.finish # {} => Served(group, av, al, nd)

Fits(s, i, nd) == i \notin s.finish /\ \A r \in Resources : nd[i][r] <= s.work[r]

Stuck(s, nd) == \A i \in Pids : ~Fits(s, i, nd)

LEMMA SafeIff ==
    ASSUME NEW av, NEW al, NEW nd
    PROVE  SafeByGroups(av, al, nd)
               <=> \A group \in SUBSET live : group # {} => Served(group, av, al, nd)
<1>1. SafeByGroups(av, al, nd)
          <=> \A group \in (SUBSET live) \ {{}} : Served(group, av, al, nd)
  BY DEF SafeByGroups, Served
<1>2. ASSUME NEW group
      PROVE  group \in (SUBSET live) \ {{}} <=> group \in SUBSET live /\ group # {}
  BY Zenon
<1> QED BY <1>1, <1>2

LEMMA VisitFacts ==
    ASSUME NEW s, NEW i, NEW al, NEW nd
    PROVE  /\ ~Fits(s, i, nd) => Visit(s, i, al, nd) = s
           /\ Fits(s, i, nd) =>
                /\ Visit(s, i, al, nd).finish = s.finish \cup {i}
                /\ Visit(s, i, al, nd).count = s.count + 1
                /\ \A r \in Resources : Visit(s, i, al, nd).work[r] = s.work[r] + al[i][r]
BY DEF Visit, Fits

LEMMA VisitKeepsGood ==
    ASSUME live \in SUBSET Pids,
           NEW av \in Vector, NEW al \in Matrices, NEW nd \in Matrices,
           NEW s, Good(s, av, al, nd), NEW i \in Pids
    PROVE  Good(Visit(s, i, al, nd), av, al, nd)
<1> SUFFICES ASSUME Fits(s, i, nd) PROVE Good(Visit(s, i, al, nd), av, al, nd)
  BY VisitFacts
<1>1. PICK t : t = Visit(s, i, al, nd)
  OBVIOUS
<1>2. /\ t.finish = s.finish \cup {i} /\ t.count = s.count + 1
      /\ \A r \in Resources : t.work[r] = s.work[r] + al[i][r]
  BY <1>1, VisitFacts
<1>3. PICK D : D = s.finish \cap live
  OBVIOUS
<1>4. /\ i \in live /\ i \notin s.finish /\ \A r \in Resources : nd[i][r] <= s.work[r]
      /\ D \in SUBSET Pids /\ i \in Pids \ D /\ t.finish \cap live = D \cup {i}
  BY <1>2, <1>3 DEF Fits, Good
<1>5. \A r \in Resources : s.work[r] = av[r] + HeldBy(D, al, r)
  BY <1>3 DEF Good
<1>6. t.finish \in SUBSET Pids /\ Pids \ live \subseteq t.finish
  BY <1>2 DEF Good
<1>7. ASSUME NEW r \in Resources PROVE t.work[r] = av[r] + HeldBy(t.finish \cap live, al, r)
  <2>1. HeldBy(D \cup {i}, al, r) = HeldBy(D, al, r) + al[i][r]
    BY <1>4, HeldWith
  <2>2. HeldBy(D, al, r) \in Nat /\ al[i][r] \in Nat /\ av[r] \in Nat
    BY <1>4, HeldTyped DEF Matrices, Vector
  <2>3. HeldBy(t.finish \cap live, al, r) = HeldBy(D \cup {i}, al, r)
    BY <1>4, Zenon
  <2>4. t.work[r] = s.work[r] + al[i][r] /\ s.work[r] = av[r] + HeldBy(D, al, r)
    BY <1>2, <1>5
  <2>5. t.work[r] = av[r] + HeldBy(D \cup {i}, al, r)
    BY <2>1, <2>2, <2>4
  <2> QED BY <2>3, <2>5, Zenon
<1>8. t.count = Cardinality(t.finish \cap live)
  <2>1. Cardinality(D \cup {i}) = Cardinality(D) + 1
    BY <1>4, CountWithTask
  <2> QED BY <1>2, <1>3, <1>4, <2>1 DEF Good
<1>9. ASSUME NEW group \in SUBSET live, group \cap t.finish # {}
      PROVE  Served(group, av, al, nd)
  <2>1. CASE group \cap s.finish # {}
    BY <2>1 DEF Good
  <2>2. CASE group \cap s.finish = {}
    <3>1. i \in group
      BY <1>2, <1>9, <2>2
    <3>2. PICK rest : rest = live \ group
      OBVIOUS
    <3>3. rest \in SUBSET Pids /\ D \in SUBSET rest
      BY <1>3, <2>2, <3>2
    <3>4. ASSUME NEW r \in Resources PROVE nd[i][r] <= av[r] + HeldBy(rest, al, r)
      <4>1. HeldBy(D, al, r) <= HeldBy(rest, al, r)
        BY <3>3, HeldSplits
      <4>2. HeldBy(D, al, r) \in Nat /\ HeldBy(rest, al, r) \in Nat
        BY <1>4, <3>3, HeldTyped
      <4>3. av[r] \in Nat /\ nd[i][r] \in Nat /\ nd[i][r] <= av[r] + HeldBy(D, al, r)
        BY <1>4, <1>5 DEF Vector, Matrices
      <4> QED BY <4>1, <4>2, <4>3
    <3> QED BY <3>1, <3>2, <3>4 DEF Served
  <2> QED BY <2>1, <2>2
<1>10. Good(t, av, al, nd)
  BY <1>6, <1>7, <1>8, <1>9 DEF Good
<1> QED BY <1>1, <1>10

-----------------------------------------------------------------------------
(* The two loops are recursive functions on 0 .. MAX_TASKS; that they exist is by   *)
(* the least bound for which they would not.                                        *)

IsScan(scan, n, s, al, nd) ==
    scan = [i \in 0 .. n |-> IF i = 0 THEN s ELSE Visit(scan[i - 1], i - 1, al, nd)]

LEMMA ScanExists ==
    ASSUME NEW s, NEW al, NEW nd, NEW n \in Nat
    PROVE  \E scan : IsScan(scan, n, s, al, nd)
<1> DEFINE T == {m \in Nat : ~ \E scan : IsScan(scan, m, s, al, nd)}
<1> SUFFICES ASSUME T # {} PROVE FALSE
  OBVIOUS
<1>1. PICK m \in T : \A k \in T : m <= k
  <2>1. T \subseteq Nat
    OBVIOUS
  <2> HIDE DEF T
  <2> QED BY <2>1, LeastNumber
<1>2. CASE m = 0
  <2> DEFINE f == [i \in 0 .. 0 |-> s]
  <2>1. IsScan(f, 0, s, al, nd)
    BY DEF IsScan
  <2> QED BY <1>2, <2>1
<1>3. CASE m # 0
  <2>1. m - 1 \in Nat /\ ~(m <= m - 1)
    BY <1>3
  <2>2. PICK f : IsScan(f, m - 1, s, al, nd)
    BY <1>1, <2>1
  <2> DEFINE g == [i \in 0 .. m |-> IF i = m THEN Visit(f[m - 1], m - 1, al, nd) ELSE f[i]]
             h == [i \in 0 .. m |-> IF i = 0 THEN s ELSE Visit(g[i - 1], i - 1, al, nd)]
  <2>3. ASSUME NEW i \in 0 .. m PROVE g[i] = h[i]
    <3>1. CASE i = m
      <4>1. m - 1 \in 0 .. m /\ m - 1 # m
        BY <1>3
      <4>2. g[m - 1] = f[m - 1]
        BY <4>1
      <4> QED BY <1>3, <3>1, <4>2
    <3>2. CASE i # m
      <4>1. i \in 0 .. m - 1 /\ (i # 0 => i - 1 \in 0 .. m /\ i - 1 # m)
        BY <3>2, <1>3
      <4>2. f[i] = IF i = 0 THEN s ELSE Visit(f[i - 1], i - 1, al, nd)
        BY <2>2, <4>1 DEF IsScan
      <4>3. i # 0 => g[i - 1] = f[i - 1]
        BY <4>1
      <4>4. g[i] = f[i]
        BY <3>2
      <4>5. h[i] = IF i = 0 THEN s ELSE Visit(g[i - 1], i - 1, al, nd)
        OBVIOUS
      <4> HIDE DEF g, h
      <4> QED BY <4>2, <4>3, <4>4, <4>5
    <3> QED BY <3>1, <3>2
  <2>4. g = h
    BY <2>3
  <2>5. IsScan(g, m, s, al, nd)
    BY <2>4 DEF IsScan
  <2> QED BY <2>5
<1> QED BY <1>2, <1>3

LEMMA PassScans ==
    ASSUME NEW s, NEW al, NEW nd
    PROVE  \E scan : /\ scan[0] = s
                     /\ \A i \in Pids : scan[i + 1] = Visit(scan[i], i, al, nd)
                     /\ Pass(s, al, nd) = scan[MAX_TASKS]
<1> USE BankerAssumption
<1>1. PICK scan : scan = CHOOSE f : IsScan(f, MAX_TASKS, s, al, nd)
  OBVIOUS
<1>2. IsScan(scan, MAX_TASKS, s, al, nd)
  BY <1>1, ScanExists
<1>3. Pass(s, al, nd) = scan[MAX_TASKS]
  BY <1>1 DEF Pass, IsScan
<1>4. scan[0] = s
  BY <1>2 DEF IsScan
<1>5. ASSUME NEW i \in Pids PROVE scan[i + 1] = Visit(scan[i], i, al, nd)
  <2>1. i \in Nat /\ i + 1 \in 0 .. MAX_TASKS /\ i + 1 # 0 /\ (i + 1) - 1 = i
    BY DEF Pids
  <2>2. \A j \in 0 .. MAX_TASKS : scan[j] = IF j = 0 THEN s ELSE Visit(scan[j - 1], j - 1, al, nd)
    BY <1>2 DEF IsScan
  <2>3. scan[i + 1] = Visit(scan[(i + 1) - 1], (i + 1) - 1, al, nd)
    BY <2>1, <2>2
  <2> QED BY <2>1, <2>3
<1> QED BY <1>3, <1>4, <1>5

\* What is kept while one pass visits the slots below i: t is the state there.
OnPass(t, s, i, av, al, nd) ==
    /\ Good(t, av, al, nd)
    /\ s.finish \subseteq t.finish
    /\ \/ t = s /\ \A j \in Pids : j < i => ~Fits(s, j, nd)
       \/ t.finish # s.finish /\ \E j \in Pids : Fits(s, j, nd)

LEMMA PassProgress ==
    ASSUME live \in SUBSET Pids,
           NEW av \in Vector, NEW al \in Matrices, NEW nd \in Matrices,
           NEW s, Good(s, av, al, nd)
    PROVE  /\ Good(Pass(s, al, nd), av, al, nd)
           /\ s.finish \subseteq Pass(s, al, nd).finish
           /\ \/ Pass(s, al, nd) = s /\ Stuck(s, nd)
              \/ Pass(s, al, nd).finish # s.finish /\ ~Stuck(s, nd)
<1> USE BankerAssumption
<1>1. PICK scan : /\ scan[0] = s
                  /\ \A i \in Pids : scan[i + 1] = Visit(scan[i], i, al, nd)
                  /\ Pass(s, al, nd) = scan[MAX_TASKS]
  BY PassScans
<1> DEFINE T == {i \in 0 .. MAX_TASKS : ~OnPass(scan[i], s, i, av, al, nd)}
<1>2. T = {}
  <2> SUFFICES ASSUME T # {} PROVE FALSE
    OBVIOUS
  <2>1. PICK i \in T : \A j \in T : i <= j
    <3>1. T \subseteq Nat
      OBVIOUS
    <3> HIDE DEF T
    <3> QED BY <3>1, LeastNumber
  <2>2. CASE i = 0
    <3>1. OnPass(s, s, 0, av, al, nd)
      BY DEF OnPass, Pids
    <3> QED BY <1>1, <2>2, <3>1
  <2>3. CASE i # 0
    <3>1. PICK k : k = i - 1
      OBVIOUS
    <3>2. k \in Pids /\ i = k + 1 /\ k \in 0 .. MAX_TASKS /\ ~(i <= k)
      BY <2>3, <3>1 DEF Pids
    <3>3. PICK t, u : t = scan[k] /\ u = scan[i]
      OBVIOUS
    <3>4. OnPass(t, s, k, av, al, nd) /\ u = Visit(t, k, al, nd)
      BY <1>1, <2>1, <3>2, <3>3
    <3>5. Good(u, av, al, nd)
      BY <3>2, <3>4, VisitKeepsGood DEF OnPass
    <3>6. CASE Fits(t, k, nd)
      <4>1. u.finish = t.finish \cup {k} /\ k \notin t.finish /\ s.finish \subseteq t.finish
        BY <3>4, <3>6, VisitFacts DEF OnPass, Fits
      <4>2. u.finish # s.finish /\ s.finish \subseteq u.finish
        BY <4>1
      <4>3. \E j \in Pids : Fits(s, j, nd)
        BY <3>2, <3>4, <3>6 DEF OnPass
      <4>4. OnPass(u, s, i, av, al, nd)
        BY <3>5, <4>2, <4>3 DEF OnPass
      <4> QED BY <2>1, <3>3, <4>4
    <3>7. CASE ~Fits(t, k, nd)
      <4>1. u = t
        BY <3>4, <3>7, VisitFacts
      <4>2. \A j \in Pids : j < i => j < k \/ j = k
        BY <3>2 DEF Pids
      <4>3. OnPass(u, s, i, av, al, nd)
        BY <3>4, <3>7, <4>1, <4>2 DEF OnPass
      <4> QED BY <2>1, <3>3, <4>3
    <3> QED BY <3>6, <3>7
  <2> QED BY <2>2, <2>3
<1>3. OnPass(scan[MAX_TASKS], s, MAX_TASKS, av, al, nd)
  BY <1>2
<1>4. \A j \in Pids : j < MAX_TASKS
  BY DEF Pids
<1> HIDE DEF T
<1> QED BY <1>1, <1>3, <1>4 DEF OnPass, Stuck

-----------------------------------------------------------------------------

IsRounds(round, n, av, al, nd) ==
    round = [k \in 0 .. n |->
                IF k = 0 THEN [work |-> av, finish |-> Pids \ live, count |-> 0]
                ELSE IF round[k - 1].count < task_count
                     THEN Pass(round[k - 1], al, nd)
                     ELSE round[k - 1]]

LEMMA RoundsExist ==
    ASSUME NEW av, NEW al, NEW nd, NEW n \in Nat
    PROVE  \E round : IsRounds(round, n, av, al, nd)
<1> DEFINE T == {m \in Nat : ~ \E round : IsRounds(round, m, av, al, nd)}
           start == [work |-> av, finish |-> Pids \ live, count |-> 0]
           Turn(s) == IF s.count < task_count THEN Pass(s, al, nd) ELSE s
<1> SUFFICES ASSUME T # {} PROVE FALSE
  OBVIOUS
<1>1. PICK m \in T : \A k \in T : m <= k
  <2>1. T \subseteq Nat
    OBVIOUS
  <2> HIDE DEF T
  <2> QED BY <2>1, LeastNumber
<1>2. CASE m = 0
  <2> DEFINE f == [i \in 0 .. 0 |-> start]
  <2>1. IsRounds(f, 0, av, al, nd)
    BY DEF IsRounds
  <2> QED BY <1>2, <2>1
<1>3. CASE m # 0
  <2>1. m - 1 \in Nat /\ ~(m <= m - 1)
    BY <1>3
  <2>2. PICK f : IsRounds(f, m - 1, av, al, nd)
    BY <1>1, <2>1
  <2> DEFINE g == [i \in 0 .. m |-> IF i = m THEN Turn(f[m - 1]) ELSE f[i]]
             h == [i \in 0 .. m |-> IF i = 0 THEN start ELSE Turn(g[i - 1])]
  <2>3. ASSUME NEW i \in 0 .. m PROVE g[i] = h[i]
    <3>1. CASE i = m
      <4>1. m - 1 \in 0 .. m /\ m - 1 # m
        BY <1>3
      <4>2. g[m - 1] = f[m - 1]
        BY <4>1
      <4> HIDE DEF Turn, start
      <4> QED BY <1>3, <3>1, <4>2
    <3>2. CASE i # m
      <4>1. i \in 0 .. m - 1 /\ (i # 0 => i - 1 \in 0 .. m /\ i - 1 # m)
        BY <3>2, <1>3
      <4>2. f[i] = IF i = 0 THEN start ELSE Turn(f[i - 1])
        BY <2>2, <4>1 DEF IsRounds
      <4>3. i # 0 => g[i - 1] = f[i - 1]
        BY <4>1
      <4>4. g[i] = f[i]
        BY <3>2
      <4>5. h[i] = IF i = 0 THEN start ELSE Turn(g[i - 1])
        OBVIOUS
      <4> HIDE DEF g, h, Turn, start
      <4> QED BY <4>2, <4>3, <4>4, <4>5
    <3> QED BY <3>1, <3>2
  <2>4. g = h
    BY <2>3
  <2>5. IsRounds(h, m, av, al, nd)
    BY <2>4 DEF IsRounds
  <2> QED BY <2>5
<1> QED BY <1>2, <1>3

LEMMA RoundsFacts ==
    ASSUME NEW av, NEW al, NEW nd
    PROVE  \E round :
               /\ round[0] = [work |-> av, finish |-> Pids \ live, count |-> 0]
               /\ \A k \in Pids : round[k + 1] = IF round[k].count < task_count
                                                 THEN Pass(round[k], al, nd) ELSE round[k]
               /\ IsSafeState(av, al, nd) <=> round[MAX_TASKS].finish = Pids
<1> USE BankerAssumption
<1> DEFINE start == [work |-> av, finish |-> Pids \ live, count |-> 0]
           Turn(s) == IF s.count < task_count THEN Pass(s, al, nd) ELSE s
<1>1. PICK round : round = CHOOSE f : IsRounds(f, MAX_TASKS, av, al, nd)
  OBVIOUS
<1>2. IsRounds(round, MAX_TASKS, av, al, nd)
  BY <1>1, RoundsExist
<1>3. IsSafeState(av, al, nd) <=> round[MAX_TASKS].finish = Pids
  BY <1>1 DEF IsSafeState, IsRounds
<1>4. round[0] = start
  BY <1>2 DEF IsRounds
<1>5. ASSUME NEW k \in Pids PROVE round[k + 1] = Turn(round[k])
  <2>1. k \in Nat /\ k + 1 \in 0 .. MAX_TASKS /\ k + 1 # 0 /\ (k + 1) - 1 = k
    BY DEF Pids
  <2>2. \A j \in 0 .. MAX_TASKS : round[j] = IF j = 0 THEN start ELSE Turn(round[j - 1])
    BY <1>2 DEF IsRounds
  <2> HIDE DEF start, Turn
  <2>3. round[k + 1] = Turn(round[(k + 1) - 1])
    BY <2>1, <2>2
  <2> QED BY <2>1, <2>3
<1> QED BY <1>3, <1>4, <1>5

\* Each round that leaves a task unfinished which could finish makes progress, so
\* after k rounds the passes are stuck or k tasks have finished.
AfterRounds(s, k, av, al, nd) ==
    /\ Good(s, av, al, nd)
    /\ Stuck(s, nd) \/ k <= Cardinality(s.finish \cap live)

LEMMA AllFinished ==
    ASSUME NEW D \in SUBSET live, live \in SUBSET Pids,
           Cardinality(live) <= Cardinality(D)
    PROVE  D = live
<1>1. IsFiniteSet(live) /\ IsFiniteSet(D) /\ Cardinality(live) \in Nat /\ Cardinality(D) \in Nat
  BY PidSets
<1>2. D # live => Cardinality(D) < Cardinality(live)
  BY <1>1, FS_Subset
<1> QED BY <1>1, <1>2

LEMMA RoundProgress ==
    ASSUME live \in SUBSET Pids, CountIsLive,
           NEW av \in Vector, NEW al \in Matrices, NEW nd \in Matrices,
           NEW s, NEW k \in Pids, AfterRounds(s, k, av, al, nd),
           NEW t, t = IF s.count < task_count THEN Pass(s, al, nd) ELSE s
    PROVE  AfterRounds(t, k + 1, av, al, nd)
<1> USE BankerAssumption
<1>1. PICK D, E : D = s.finish \cap live /\ E = t.finish \cap live
  OBVIOUS
<1>2. /\ D \in SUBSET live /\ D \in SUBSET Pids /\ s.count = Cardinality(D)
      /\ IsFiniteSet(D) /\ Cardinality(D) \in Nat /\ k \in Nat
  <2>1. D \in SUBSET live /\ D \in SUBSET Pids /\ s.count = Cardinality(D)
    BY <1>1 DEF AfterRounds, Good
  <2> QED BY <2>1, PidSets DEF Pids
<1>3. CASE s.count < task_count
  <2>1. t = Pass(s, al, nd)
    BY <1>3
  <2>2. /\ Good(t, av, al, nd) /\ s.finish \subseteq t.finish
        /\ \/ t = s /\ Stuck(s, nd)
           \/ t.finish # s.finish /\ ~Stuck(s, nd)
    BY <2>1, PassProgress DEF AfterRounds
  <2>3. CASE t = s /\ Stuck(s, nd)
    BY <2>2, <2>3 DEF AfterRounds
  <2>4. CASE t.finish # s.finish /\ ~Stuck(s, nd)
    <3>1. /\ E \in SUBSET Pids /\ D \in SUBSET E /\ D # E
      BY <1>1, <2>2, <2>4 DEF Good, AfterRounds
    <3>2. IsFiniteSet(E) /\ Cardinality(E) \in Nat
      BY <3>1, PidSets
    <3>3. Cardinality(D) < Cardinality(E)
      <4>1. Cardinality(D) <= Cardinality(E) /\ (Cardinality(E) = Cardinality(D) => E = D)
        BY <3>1, <3>2, FS_Subset
      <4> QED BY <1>2, <3>1, <3>2, <4>1
    <3>4. k <= Cardinality(D)
      BY <1>1, <2>4 DEF AfterRounds
    <3>5. k + 1 <= Cardinality(E)
      BY <1>2, <3>2, <3>3, <3>4
    <3> QED BY <1>1, <2>2, <3>5 DEF AfterRounds
  <2> QED BY <2>2, <2>3, <2>4
<1>4. CASE ~(s.count < task_count)
  <2>1. t = s
    BY <1>4
  <2>2. Cardinality(live) <= Cardinality(D)
    <3>1. Cardinality(live) \in Nat
      BY PidSets
    <3> QED BY <1>2, <1>4, <3>1 DEF CountIsLive
  <2>3. D = live
    BY <1>2, <2>2, AllFinished
  <2>4. \A i \in Pids : i \in s.finish
    BY <1>1, <2>3 DEF AfterRounds, Good
  <2>5. Stuck(s, nd)
    BY <2>4 DEF Stuck, Fits
  <2> QED BY <2>1, <2>5 DEF AfterRounds
<1> QED BY <1>3, <1>4

LEMMA StartIsGood ==
    ASSUME live \in SUBSET Pids,
           NEW av \in Vector, NEW al \in Matrices, NEW nd \in Matrices,
           NEW s, s = [work |-> av, finish |-> Pids \ live, count |-> 0]
    PROVE  AfterRounds(s, 0, av, al, nd)
<1>1. s.work = av /\ s.finish = Pids \ live /\ s.count = 0
  OBVIOUS
<1>2. s.finish \cap live = {}
  BY <1>1
<1>3. Cardinality({}) = 0
  BY FS_EmptySet
<1>4. ASSUME NEW r \in Resources PROVE s.work[r] = av[r] + HeldBy(s.finish \cap live, al, r)
  <2>1. HeldBy({}, al, r) = 0
    BY HeldByRecursion
  <2>2. HeldBy(s.finish \cap live, al, r) = HeldBy({}, al, r)
    BY <1>2, Zenon
  <2>3. av[r] \in Nat
    BY DEF Vector
  <2> QED BY <1>1, <2>1, <2>2, <2>3
<1>5. \A group \in SUBSET live : group \cap s.finish = {}
  BY <1>1
<1>6. s.finish \in SUBSET Pids /\ Pids \ live \subseteq s.finish
  BY <1>1
<1>7. Cardinality(s.finish \cap live) = 0
  BY <1>2, <1>3
<1> QED BY <1>1, <1>4, <1>5, <1>6, <1>7 DEF AfterRounds, Good

LEMMA RoundsEndStuck ==
    ASSUME live \in SUBSET Pids, CountIsLive,
           NEW av \in Vector, NEW al \in Matrices, NEW nd \in Matrices
    PROVE  \E s : /\ Good(s, av, al, nd) /\ Stuck(s, nd)
                  /\ IsSafeState(av, al, nd) <=> s.finish = Pids
<1> USE BankerAssumption
<1>1. PICK round :
          /\ round[0] = [work |-> av, finish |-> Pids \ live, count |-> 0]
          /\ \A k \in Pids : round[k + 1] = IF round[k].count < task_count
                                            THEN Pass(round[k], al, nd) ELSE round[k]
          /\ IsSafeState(av, al, nd) <=> round[MAX_TASKS].finish = Pids
  BY RoundsFacts
<1> DEFINE T == {k \in 0 .. MAX_TASKS : ~AfterRounds(round[k], k, av, al, nd)}
<1>2. T = {}
  <2> SUFFICES ASSUME T # {} PROVE FALSE
    OBVIOUS
  <2>1. PICK i \in T : \A j \in T : i <= j
    <3>1. T \subseteq Nat
      OBVIOUS
    <3> HIDE DEF T
    <3> QED BY <3>1, LeastNumber
  <2>2. CASE i = 0
    <3>1. AfterRounds(round[0], 0, av, al, nd)
      BY <1>1, StartIsGood
    <3> QED BY <2>2, <3>1
  <2>3. CASE i # 0
    <3>1. PICK k : k = i - 1
      OBVIOUS
    <3>2. k \in Pids /\ i = k + 1 /\ k \in 0 .. MAX_TASKS /\ ~(i <= k)
      BY <2>3, <3>1 DEF Pids
    <3>3. PICK s, t : s = round[k] /\ t = round[i]
      OBVIOUS
    <3>4. AfterRounds(s, k, av, al, nd)
      BY <2>1, <3>2, <3>3
    <3>5. t = IF s.count < task_count THEN Pass(s, al, nd) ELSE s
      BY <1>1, <3>2, <3>3
    <3> HIDE DEF T
    <3>6. AfterRounds(t, k + 1, av, al, nd)
      BY <3>2, <3>4, <3>5, RoundProgress
    <3> QED BY <2>1, <3>2, <3>3, <3>6 DEF T
  <2> QED BY <2>2, <2>3
<1>3. PICK s : s = round[MAX_TASKS]
  OBVIOUS
<1>4. AfterRounds(s, MAX_TASKS, av, al, nd)
  BY <1>2, <1>3
<1>5. ASSUME MAX_TASKS <= Cardinality(s.finish \cap live) PROVE Stuck(s, nd)
  <2>1. PICK D : D = s.finish \cap live
    OBVIOUS
  <2>2. D \in SUBSET live /\ D \in SUBSET Pids
    BY <2>1
  <2>3. /\ Cardinality(D) \in Nat /\ Cardinality(live) \in Nat
        /\ Cardinality(live) <= MAX_TASKS /\ MAX_TASKS <= Cardinality(D)
    BY <1>5, <2>1, <2>2, PidSets
  <2>4. D = live
    BY <2>2, <2>3, AllFinished
  <2>5. \A i \in Pids : i \in s.finish
    BY <1>4, <2>1, <2>4 DEF AfterRounds, Good
  <2> QED BY <2>5 DEF Stuck, Fits
<1> HIDE DEF T
<1> QED BY <1>1, <1>3, <1>4, <1>5 DEF AfterRounds

\* is_safe_state() decides safety, on any matrices.
LEMMA SafeStateIsExact ==
    ASSUME live \in SUBSET Pids, CountIsLive,
           NEW av \in Vector, NEW al \in Matrices, NEW nd \in Matrices
    PROVE  IsSafeState(av, al, nd) <=> SafeByGroups(av, al, nd)
<1>1. PICK s : /\ Good(s, av, al, nd) /\ Stuck(s, nd)
               /\ IsSafeState(av, al, nd) <=> s.finish = Pids
  BY RoundsEndStuck
<1>2. ASSUME s.finish = Pids PROVE SafeByGroups(av, al, nd)
  <2>1. \A group \in SUBSET live : group # {} => group \cap s.finish # {}
    BY <1>2
  <2> QED BY <1>1, <2>1, SafeIff DEF Good
<1>3. ASSUME SafeByGroups(av, al, nd), s.finish # Pids PROVE FALSE
  <2>1. PICK G, D : G = live \ s.finish /\ D = s.finish \cap live
    OBVIOUS
  <2>2. G \in SUBSET live /\ G # {} /\ live \ G = D
    BY <1>1, <1>3, <2>1 DEF Good
  <2>3. PICK p \in G : \A r \in Resources : nd[p][r] <= av[r] + HeldBy(live \ G, al, r)
    BY <1>3, <2>2, SafeIff DEF Served
  <2>4. \A r \in Resources : HeldBy(live \ G, al, r) = HeldBy(D, al, r)
    BY <2>2, Zenon
  <2>5. \A r \in Resources : s.work[r] = av[r] + HeldBy(D, al, r)
    BY <1>1, <2>1 DEF Good
  <2>6. \A r \in Resources : nd[p][r] <= s.work[r]
    BY <2>3, <2>4, <2>5
  <2>7. p \in Pids /\ p \notin s.finish
    BY <2>1, <2>2
  <2> QED BY <1>1, <2>6, <2>7 DEF Stuck, Fits
<1> QED BY <1>1, <1>2, <1>3

\* On every trial allocation, is_safe_state() says "safe" exactly when no group of live
\* tasks is stuck: the greedy passes, stopped by the count, miss no order that would do.
THEOREM SafetyIsDecided == Spec => []IsSafeStateExact
<1>1. ASSUME IInv PROVE IsSafeStateExact
  <2> SUFFICES ASSUME NEW p \in live, NEW v \in Amounts, Consistent(p, v)
               PROVE  TrialIsSafe(p, v) <=>
                          SafeByGroups(TrialAvailable(v), TrialAllocation(p, v), TrialNeed(p, v))
    BY DEF IsSafeStateExact
  <2>1. \A r \in Resources : v[r] <= need[p][r] /\ v[r] <= available[r]
    BY DEF Consistent
  <2>2. /\ live \in SUBSET Pids /\ available \in Vector
        /\ allocation \in Matrices /\ need \in Matrices /\ CountIsLive
        /\ v \in Vector /\ p \in Pids
    BY <1>1, BankerAssumption DEF IInv, TypeOK, Vector, Matrices
  <2>3. PICK av : av = [r \in Resources |-> available[r] - v[r]]
    OBVIOUS
  <2>4. PICK row : row = [r \in Resources |-> allocation[p][r] + v[r]]
    OBVIOUS
  <2>5. PICK rest : rest = [r \in Resources |-> need[p][r] - v[r]]
    OBVIOUS
  <2>6. av \in Vector /\ row \in Vector /\ rest \in Vector
    BY <2>1, <2>2, <2>3, <2>4, <2>5 DEF Vector, Matrices
  <2>7. PICK al, nd : al = [allocation EXCEPT ![p] = row] /\ nd = [need EXCEPT ![p] = rest]
    OBVIOUS
  <2>8. al \in Matrices /\ nd \in Matrices
    BY <2>2, <2>6, <2>7 DEF Vector, Matrices
  <2>9. IsSafeState(av, al, nd) <=> SafeByGroups(av, al, nd)
    BY <2>2, <2>6, <2>8, SafeStateIsExact
  <2>10. /\ TrialAvailable(v) = av /\ TrialAllocation(p, v) = al /\ TrialNeed(p, v) = nd
    BY <2>2, <2>3, <2>4, <2>5, <2>7 DEF Matrices, TrialAvailable, TrialAllocation, TrialNeed
  <2> QED BY <2>9, <2>10 DEF TrialIsSafe
<1> QED BY InitIInv, NextIInv, <1>1, PTL DEF Spec

-----------------------------------------------------------------------------
(* Safety as an invariant.  A group of tasks whose demands fit has a member that    *)
(* could be satisfied if the group held everything that is taken.                   *)

LEMMA HeldNone ==
    ASSUME NEW S \in SUBSET Pids, NEW al \in Matrices, NEW r \in Resources,
           \A p \in S : al[p][r] = 0
    PROVE  HeldBy(S, al, r) = 0
<1> DEFINE F == {T \in SUBSET S : HeldBy(T, al, r) # 0}
<1> SUFFICES ASSUME F # {} PROVE FALSE
  OBVIOUS
<1>1. PICK T \in F : \A u \in SUBSET T : u # T => u \notin F
  <2>1. F \subseteq SUBSET Pids
    OBVIOUS
  <2> HIDE DEF F
  <2> QED BY <2>1, SmallestSet
<1>2. CASE T = {}
  BY <1>2, HeldByRecursion
<1>3. CASE T # {}
  <2>1. PICK p, u : p \in T /\ u = Without(T, p)
    BY <1>3
  <2>2. T \in SUBSET Pids /\ u \in SUBSET T /\ u # T /\ p \in S
    BY <2>1 DEF Without
  <2>3. HeldBy(u, al, r) = 0 /\ al[p][r] = 0
    BY <1>1, <2>2
  <2> HIDE DEF F
  <2>4. HeldBy(T, al, r) = al[p][r] + HeldBy(u, al, r)
    BY <2>1, <2>2, HeldWithout
  <2> QED BY <2>3, <2>4 DEF F
<1> QED BY <1>2, <1>3

LEMMA HeldChanged ==
    ASSUME NEW S \in SUBSET Pids, NEW al \in Matrices, NEW be \in Matrices, NEW r \in Resources,
           NEW p \in Pids, \A q \in Pids : q # p => be[q] = al[q]
    PROVE  /\ p \notin S => HeldBy(S, be, r) = HeldBy(S, al, r)
           /\ p \in S => HeldBy(S, be, r) + al[p][r] = HeldBy(S, al, r) + be[p][r]
<1>1. ASSUME p \notin S PROVE HeldBy(S, be, r) = HeldBy(S, al, r)
  <2>1. \A q \in S : be[q][r] = al[q][r]
    BY <1>1
  <2> QED BY <2>1, HeldSame
<1>2. ASSUME p \in S PROVE HeldBy(S, be, r) + al[p][r] = HeldBy(S, al, r) + be[p][r]
  <2>1. PICK u : u = Without(S, p)
    OBVIOUS
  <2>2. u \in SUBSET Pids /\ \A q \in u : be[q][r] = al[q][r]
    BY <2>1 DEF Without
  <2>3. HeldBy(u, be, r) = HeldBy(u, al, r)
    BY <2>2, HeldSame
  <2>4. HeldBy(S, al, r) = al[p][r] + HeldBy(u, al, r)
    BY <1>2, <2>1, HeldWithout
  <2>5. HeldBy(S, be, r) = be[p][r] + HeldBy(u, be, r)
    BY <1>2, <2>1, HeldWithout
  <2>6. al[p][r] \in Nat /\ be[p][r] \in Nat /\ HeldBy(u, al, r) \in Nat
    BY <2>2, HeldTyped DEF Matrices
  <2> QED BY <2>3, <2>4, <2>5, <2>6
<1> QED BY <1>1, <1>2

\* The prefix sums of Conserved are the sums over the slots.
LEMMA PrefixSums ==
    ASSUME NEW al \in Matrices, NEW r \in Resources,
           NEW held, held[0] = 0, \A i \in Pids : held[i + 1] = held[i] + al[i][r]
    PROVE  held[MAX_TASKS] = HeldBy(Pids, al, r)
<1> USE BankerAssumption
<1> DEFINE T == {i \in 0 .. MAX_TASKS : held[i] # HeldBy(0 .. i - 1, al, r)}
<1>1. T = {}
  <2> SUFFICES ASSUME T # {} PROVE FALSE
    OBVIOUS
  <2>1. PICK i \in T : \A j \in T : i <= j
    <3>1. T \subseteq Nat
      OBVIOUS
    <3> HIDE DEF T
    <3> QED BY <3>1, LeastNumber
  <2>2. CASE i = 0
    <3>1. 0 .. i - 1 = {}
      BY <2>2
    <3>2. HeldBy({}, al, r) = 0
      BY HeldByRecursion
    <3> QED BY <2>2, <3>1, <3>2
  <2>3. CASE i # 0
    <3>1. PICK k : k = i - 1
      OBVIOUS
    <3>2. k \in Pids /\ i = k + 1 /\ k \in 0 .. MAX_TASKS /\ ~(i <= k) /\ k \in Nat
      BY <2>3, <3>1 DEF Pids
    <3>3. PICK S : S = 0 .. k - 1
      OBVIOUS
    <3>4. S \in SUBSET Pids /\ k \in Pids \ S /\ 0 .. i - 1 = S \cup {k}
      BY <3>2, <3>3 DEF Pids
    <3>5. held[k] = HeldBy(S, al, r)
      BY <2>1, <3>2, <3>3
    <3>6. HeldBy(S \cup {k}, al, r) = HeldBy(S, al, r) + al[k][r]
      BY <3>4, HeldWith
    <3>7. held[i] = held[k] + al[k][r]
      BY <3>2
    <3>8. HeldBy(0 .. i - 1, al, r) = HeldBy(S \cup {k}, al, r)
      BY <3>4, Zenon
    <3> QED BY <2>1, <3>5, <3>6, <3>7, <3>8
  <2> QED BY <2>2, <2>3
<1>2. held[MAX_TASKS] = HeldBy(0 .. MAX_TASKS - 1, al, r)
  BY <1>1
<1> QED BY <1>2 DEF Pids

\* What is free and what the live tasks hold is the total.
Balanced == \A r \in Resources : available[r] + HeldBy(live, allocation, r) = Total[r]

LEMMA LiveHoldTheRest == IInv => Balanced
<1> SUFFICES ASSUME IInv, NEW r \in Resources
             PROVE  available[r] + HeldBy(live, allocation, r) = Total[r]
  BY DEF Balanced
<1>1. PICK al, D : al = allocation /\ D = Pids \ live
  OBVIOUS
<1>2. PICK L : L = live
  OBVIOUS
<1>3. al \in Matrices /\ L \in SUBSET Pids /\ D \in SUBSET Pids /\ D = Pids \ L
  BY <1>1, <1>2 DEF IInv, TypeOK, Matrices
<1>4. PICK held : IsHeld(held, Column(al, r), available[r], Total[r])
  BY <1>1, ConservedIff DEF IInv, TypeOK
<1>5. held[0] = 0 /\ \A i \in Pids : held[i + 1] = held[i] + al[i][r]
  BY <1>4 DEF IsHeld, Column
<1>6. available[r] + held[MAX_TASKS] = Total[r]
  BY <1>4 DEF IsHeld
<1>7. held[MAX_TASKS] = HeldBy(Pids, al, r)
  BY <1>3, <1>5, PrefixSums
<1>8. \A p \in D : al[p][r] = 0
  BY <1>1 DEF IInv, DeadHoldNothing, Zero
<1>9. HeldBy(D, al, r) = 0
  BY <1>3, <1>8, HeldNone
<1>10. HeldBy(Pids, al, r) = HeldBy(L, al, r) + HeldBy(Pids \ L, al, r)
  <2>1. Pids \in SUBSET Pids /\ L \in SUBSET Pids
    BY <1>3
  <2> QED BY <1>3, <2>1, HeldSplits
<1>11. HeldBy(Pids \ L, al, r) = HeldBy(D, al, r)
  BY <1>3, Zenon
<1>12. HeldBy(L, al, r) \in Nat
  BY <1>3, HeldTyped
<1>13. HeldBy(live, allocation, r) = HeldBy(L, al, r)
  BY <1>1, <1>2, Zenon
<1> QED BY <1>6, <1>7, <1>9, <1>10, <1>11, <1>12, <1>13

CanEnd(group, al, nd) ==
    \E p \in group : \A r \in Resources : nd[p][r] + HeldBy(group, al, r) <= Total[r]

LEMMA ServedIff ==
    ASSUME live \in SUBSET Pids, NEW av \in Vector, NEW al \in Matrices, NEW nd \in Matrices,
           \A r \in Resources : av[r] + HeldBy(live, al, r) = Total[r],
           NEW group \in SUBSET live
    PROVE  Served(group, av, al, nd) <=> CanEnd(group, al, nd)
<1>1. PICK rest : rest = live \ group
  OBVIOUS
<1>2. PICK L : L = live
  OBVIOUS
<1>3. rest \in SUBSET Pids /\ group \in SUBSET Pids /\ L \in SUBSET Pids /\ group \in SUBSET L
  BY <1>1, <1>2
<1>4. ASSUME NEW p \in group, NEW r \in Resources
      PROVE  nd[p][r] <= av[r] + HeldBy(live \ group, al, r)
                 <=> nd[p][r] + HeldBy(group, al, r) <= Total[r]
  <2>1. HeldBy(L, al, r) = HeldBy(group, al, r) + HeldBy(L \ group, al, r)
    BY <1>3, HeldSplits
  <2>2. HeldBy(L \ group, al, r) = HeldBy(rest, al, r) /\ HeldBy(live, al, r) = HeldBy(L, al, r)
        /\ HeldBy(live \ group, al, r) = HeldBy(rest, al, r)
    BY <1>1, <1>2, Zenon
  <2>3. HeldBy(group, al, r) \in Nat /\ HeldBy(rest, al, r) \in Nat
    BY <1>3, HeldTyped
  <2>4. p \in Pids /\ nd[p][r] \in Nat /\ av[r] \in Nat /\ Total[r] \in Nat
    BY <1>3, BankerAssumption DEF Matrices, Vector
  <2>5. av[r] + HeldBy(live, al, r) = Total[r]
    OBVIOUS
  <2> QED BY <2>1, <2>2, <2>3, <2>4, <2>5
<1> QED BY <1>4 DEF Served, CanEnd

\* The strengthening of "safe unless oversized" that every operation keeps.
GroupsGo ==
    \A group \in SUBSET live :
        group # {} /\ (\A p \in group : FitsTotal(max_demand[p]))
            => CanEnd(group, allocation, need)

TaskMatrices ==
    /\ live \in SUBSET Pids
    /\ available \in Vector
    /\ max_demand \in Matrices
    /\ allocation \in Matrices
    /\ need \in Matrices

LEMMA MatricesTyped == IInv => TaskMatrices
BY DEF IInv, TypeOK, TaskMatrices, Vector, Matrices

\* A created task joins a group behind the member that could already end.
LEMMA TaskCreateKeepsGroups ==
    ASSUME IInv, IInv', GroupsGo, NEW d \in Demands, TaskCreate(d)
    PROVE  GroupsGo'
<1> USE BankerAssumption
<1>1. PICK p \in Pids \ live :
          /\ live' = live \cup {p}
          /\ max_demand' = [max_demand EXCEPT ![p] = d]
          /\ allocation' = [allocation EXCEPT ![p] = Zero]
          /\ need' = [need EXCEPT ![p] = d]
  BY DEF TaskCreate
<1>2. PICK al, be, nd, ne : /\ al = allocation /\ be = allocation'
                            /\ nd = need /\ ne = need'
  OBVIOUS
<1>3. /\ live \in SUBSET Pids /\ al \in Matrices /\ nd \in Matrices /\ max_demand \in Matrices
      /\ d \in Vector
  BY <1>2, MatricesTyped DEF TaskMatrices, Vector
<1>4. be \in Matrices
  BY <1>1, <1>2, <1>3 DEF Matrices, Zero
<1>5. /\ \A q \in Pids : q # p => be[q] = al[q] /\ ne[q] = nd[q] /\ max_demand'[q] = max_demand[q]
      /\ \A r \in Resources : be[p][r] = 0
      /\ ne[p] = d /\ max_demand'[p] = d
  BY <1>1, <1>2, <1>3 DEF Matrices, Zero
<1>6. ASSUME NEW G \in SUBSET live', G # {}, \A q \in G : FitsTotal(max_demand'[q])
      PROVE  CanEnd(G, be, ne)
  <2>1. PICK H : H = Without(G, p)
    OBVIOUS
  <2>2. G \in SUBSET Pids /\ H \in SUBSET live /\ H \in SUBSET Pids /\ p \notin H
    BY <1>1, <1>3, <2>1 DEF Without
  <2>3. ASSUME NEW r \in Resources PROVE HeldBy(G, be, r) = HeldBy(H, al, r)
    <3>1. HeldBy(H, be, r) = HeldBy(H, al, r)
      BY <1>3, <1>4, <1>5, <2>2, HeldChanged
    <3>2. CASE p \in G
      <4>1. HeldBy(G, be, r) = be[p][r] + HeldBy(H, be, r)
        BY <1>4, <2>1, <2>2, <3>2, HeldWithout
      <4>2. HeldBy(H, be, r) \in Nat /\ be[p][r] = 0
        BY <1>4, <1>5, <2>2, HeldTyped
      <4> QED BY <3>1, <4>1, <4>2
    <3>3. CASE p \notin G
      <4>1. H = G
        BY <2>1, <3>3 DEF Without
      <4> QED BY <3>1, <4>1
    <3> QED BY <3>2, <3>3
  <2>4. CASE H = {}
    <3>1. p \in G
      BY <1>6, <2>1, <2>4 DEF Without
    <3>2. ASSUME NEW r \in Resources PROVE ne[p][r] + HeldBy(G, be, r) <= Total[r]
      <4>1. HeldBy(G, be, r) = 0
        BY <2>3, <2>4, HeldByRecursion
      <4>2. ne[p][r] = d[r] /\ d[r] <= Total[r] /\ d[r] \in Nat
        BY <1>3, <1>5, <1>6, <3>1 DEF FitsTotal, Vector
      <4> QED BY <4>1, <4>2
    <3> QED BY <3>1, <3>2 DEF CanEnd
  <2>5. CASE H # {}
    <3>1. \A q \in H : q # p /\ q \in Pids /\ q \in G
      BY <2>1, <2>2 DEF Without
    <3>2. \A q \in H : FitsTotal(max_demand[q])
      BY <1>5, <1>6, <3>1
    <3>3. CanEnd(H, al, nd)
      BY <1>2, <2>2, <2>5, <3>2 DEF GroupsGo
    <3>4. PICK q \in H : \A r \in Resources : nd[q][r] + HeldBy(H, al, r) <= Total[r]
      BY <3>3 DEF CanEnd
    <3>5. \A r \in Resources : ne[q][r] + HeldBy(G, be, r) <= Total[r]
      BY <1>5, <2>3, <3>1, <3>4
    <3> QED BY <3>1, <3>5 DEF CanEnd
  <2> QED BY <2>4, <2>5
<1> QED BY <1>2, <1>6 DEF GroupsGo

LEMMA TaskTerminateKeepsGroups ==
    ASSUME IInv, IInv', GroupsGo, NEW p \in Pids, TaskTerminate(p)
    PROVE  GroupsGo'
<1>1. PICK al, be, nd : al = allocation /\ be = allocation' /\ nd = need
  OBVIOUS
<1>2. /\ live \in SUBSET Pids /\ al \in Matrices /\ nd \in Matrices
      /\ live' = live \ {p} /\ max_demand' = max_demand /\ nd = need'
  BY <1>1, MatricesTyped DEF TaskMatrices, TaskTerminate
<1>3. be \in Matrices /\ \A q \in Pids : q # p => be[q] = al[q]
  BY <1>1, <1>2 DEF TaskTerminate, Matrices, Zero
<1>4. ASSUME NEW G \in SUBSET live', G # {}, \A q \in G : FitsTotal(max_demand'[q])
      PROVE  CanEnd(G, be, nd)
  <2>1. G \in SUBSET Pids /\ G \in SUBSET live /\ p \notin G
    BY <1>2
  <2>2. CanEnd(G, al, nd)
    BY <1>1, <1>2, <1>4, <2>1 DEF GroupsGo
  <2>3. \A r \in Resources : HeldBy(G, be, r) = HeldBy(G, al, r)
    BY <1>2, <1>3, <2>1, HeldChanged
  <2> QED BY <2>2, <2>3 DEF CanEnd
<1> QED BY <1>1, <1>2, <1>4 DEF GroupsGo

\* A grant needs no argument about groups: is_safe_state() has checked all of them.
LEMMA GrantKeepsGroups ==
    ASSUME IInv, IInv', GroupsGo, NEW p \in Pids, NEW v \in Amounts, Grant(p, v)
    PROVE  GroupsGo'
<1>1. PICK av, al, nd : av = available' /\ al = allocation' /\ nd = need'
  OBVIOUS
<1>2. TaskMatrices' /\ Balanced'
  BY MatricesTyped, LiveHoldTheRest, PTL
<1>3. live' = live /\ live \in SUBSET Pids /\ CountIsLive
  BY MatricesTyped DEF TaskMatrices, Grant, IInv
<1>4. av \in Vector /\ al \in Matrices /\ nd \in Matrices
  BY <1>1, <1>2 DEF TaskMatrices
<1>5. \A r \in Resources : av[r] + HeldBy(live, al, r) = Total[r]
  BY <1>1, <1>2, <1>3 DEF Balanced
<1>6. IsSafeState(av, al, nd)
  BY <1>1 DEF Grant, TrialIsSafe
<1>7. SafeByGroups(av, al, nd)
  BY <1>3, <1>4, <1>6, SafeStateIsExact
<1>8. \A G \in SUBSET live : G # {} => Served(G, av, al, nd)
  BY <1>7, SafeIff
<1>9. \A G \in SUBSET live : G # {} => CanEnd(G, al, nd)
  BY <1>3, <1>4, <1>5, <1>8, ServedIff
<1> QED BY <1>1, <1>3, <1>9 DEF GroupsGo

\* A task that gives back needs as much more as its group holds less.
LEMMA ReleaseKeepsGroups ==
    ASSUME IInv, IInv', GroupsGo, NEW p \in Pids, NEW v \in Amounts, ReleaseResources(p, v)
    PROVE  GroupsGo'
<1> USE BankerAssumption
<1>1. PICK al, be, nd, ne : /\ al = allocation /\ be = allocation'
                            /\ nd = need /\ ne = need'
  OBVIOUS
<1>2. TaskMatrices /\ TaskMatrices'
  BY MatricesTyped, PTL
<1>3. /\ live' = live /\ max_demand' = max_demand /\ live \in SUBSET Pids
      /\ al \in Matrices /\ be \in Matrices /\ nd \in Matrices /\ ne \in Matrices
  BY <1>1, <1>2 DEF TaskMatrices, ReleaseResources
<1>4. PICK back : back = Released(p, v)
  OBVIOUS
<1>5. back \in Vector
  BY <1>1, <1>3, <1>4 DEF Released, Matrices, Vector
<1>6. /\ be = [al EXCEPT ![p] = [r \in Resources |-> al[p][r] - back[r]]]
      /\ ne = [nd EXCEPT ![p] = [r \in Resources |-> nd[p][r] + back[r]]]
  BY <1>1, <1>3, <1>4 DEF ReleaseResources, Matrices
<1>7. /\ \A q \in Pids : q # p => be[q] = al[q] /\ ne[q] = nd[q]
      /\ \A r \in Resources : be[p][r] = al[p][r] - back[r] /\ ne[p][r] = nd[p][r] + back[r]
  BY <1>3, <1>6 DEF Matrices
<1>8. ASSUME NEW G \in SUBSET live, G # {}, \A q \in G : FitsTotal(max_demand[q])
      PROVE  CanEnd(G, be, ne)
  <2>1. G \in SUBSET Pids
    BY <1>3
  <2>2. PICK q \in G : \A r \in Resources : nd[q][r] + HeldBy(G, al, r) <= Total[r]
    BY <1>1, <1>8 DEF GroupsGo, CanEnd
  <2>3. ASSUME NEW r \in Resources PROVE ne[q][r] + HeldBy(G, be, r) <= Total[r]
    <3>1. /\ nd[q][r] + HeldBy(G, al, r) <= Total[r] /\ q \in Pids
          /\ nd[q][r] \in Nat /\ back[r] \in Nat /\ al[p][r] \in Nat /\ Total[r] \in Nat
          /\ HeldBy(G, al, r) \in Nat /\ HeldBy(G, be, r) \in Nat /\ be[p][r] \in Nat
      BY <1>3, <1>5, <2>1, <2>2, HeldTyped DEF Matrices, Vector
    <3>2. /\ p \notin G => HeldBy(G, be, r) = HeldBy(G, al, r)
          /\ p \in G => HeldBy(G, be, r) + al[p][r] = HeldBy(G, al, r) + be[p][r]
      BY <1>3, <1>7, <2>1, HeldChanged
    <3>3. be[p][r] = al[p][r] - back[r]
      BY <1>7
    <3>4. CASE q = p
      <4>1. ne[q][r] = nd[q][r] + back[r] /\ p \in G
        BY <1>7, <3>4
      <4> QED BY <3>1, <3>2, <3>3, <4>1
    <3>5. CASE q # p
      <4>1. ne[q][r] = nd[q][r]
        BY <1>7, <3>1, <3>5
      <4> QED BY <3>1, <3>2, <3>3, <4>1
    <3> QED BY <3>4, <3>5
  <2> QED BY <2>3 DEF CanEnd
<1> QED BY <1>1, <1>3, <1>8 DEF GroupsGo

SInv == IInv /\ GroupsGo

LEMMA InitSInv == Init => SInv
<1>1. Init => GroupsGo
  BY DEF Init, GroupsGo
<1> QED BY <1>1, InitIInv DEF SInv

LEMMA NextSInv == SInv /\ [Next]_vars => SInv'
<1> SUFFICES ASSUME SInv, [Next]_vars PROVE SInv'
  OBVIOUS
<1>1. IInv /\ IInv' /\ GroupsGo
  BY NextIInv DEF SInv
<1>2. ASSUME NEW d \in Demands, TaskCreate(d) PROVE GroupsGo'
  BY <1>1, <1>2, TaskCreateKeepsGroups
<1>3. ASSUME NEW p \in Pids, TaskTerminate(p) PROVE GroupsGo'
  BY <1>1, <1>3, TaskTerminateKeepsGroups
<1>6. ASSUME UNCHANGED vars PROVE GroupsGo'
  BY <1>1, <1>6 DEF vars, GroupsGo, SInv
<1>4. ASSUME NEW p \in Pids, NEW v \in Amounts, RequestResources(p, v) PROVE GroupsGo'
  <2>1. CASE Grant(p, v)
    BY <1>1, <2>1, GrantKeepsGroups
  <2>2. CASE RollBack(p, v)
    BY <1>1, <1>6, <2>2, RolledBack
  <2> QED BY <1>4, <2>1, <2>2 DEF RequestResources
<1>5. ASSUME NEW p \in Pids, NEW v \in Amounts, ReleaseResources(p, v) PROVE GroupsGo'
  BY <1>1, <1>5, ReleaseKeepsGroups
<1> QED BY <1>1, <1>2, <1>3, <1>4, <1>5, <1>6 DEF Next, SInv

LEMMA SafeIffGroups ==
    ASSUME IInv
    PROVE  SafeByGroups(available, allocation, need)
               <=> \A group \in SUBSET live : group # {} => CanEnd(group, allocation, need)
<1>1. PICK av, al, nd : av = available /\ al = allocation /\ nd = need
  OBVIOUS
<1>2. /\ live \in SUBSET Pids /\ av \in Vector /\ al \in Matrices /\ nd \in Matrices
      /\ \A r \in Resources : av[r] + HeldBy(live, al, r) = Total[r]
  BY <1>1, MatricesTyped, LiveHoldTheRest DEF TaskMatrices, Balanced
<1>3. \A group \in SUBSET live : Served(group, av, al, nd) <=> CanEnd(group, al, nd)
  BY <1>2, ServedIff
<1>4. SafeByGroups(av, al, nd) <=> \A group \in SUBSET live : group # {} => CanEnd(group, al, nd)
  BY <1>3, SafeIff
<1> QED BY <1>1, <1>4

\* Alone, a task that declared more than the system owns is a group nobody can help.
LEMMA OversizedIsStuck ==
    ASSUME IInv, NEW p \in live, CanEnd({p}, allocation, need)
    PROVE  FitsTotal(max_demand[p])
<1> SUFFICES ASSUME NEW r \in Resources PROVE max_demand[p][r] <= Total[r]
  BY DEF FitsTotal
<1>1. PICK al, S, none : al = allocation /\ S = {p} /\ none = Without({p}, p)
  OBVIOUS
<1>2. al \in Matrices /\ need \in Matrices /\ S \in SUBSET Pids /\ p \in S /\ p \in Pids
  BY <1>1, MatricesTyped DEF TaskMatrices
<1>3. none = Without(S, p)
  BY <1>1
<1>4. HeldBy(none, al, r) = 0
  <2>1. none = {}
    BY <1>1 DEF Without
  <2> QED BY <2>1, HeldByRecursion
<1>5. HeldBy(S, al, r) = al[p][r] + HeldBy(none, al, r)
  BY <1>2, <1>3, HeldWithout
<1>6. need[p][r] + HeldBy(S, al, r) <= Total[r]
  BY <1>1 DEF CanEnd
<1>7. al[p][r] + need[p][r] = max_demand[p][r]
  BY <1>1 DEF IInv, NeedIsTheRest
<1>8. al[p][r] \in Nat /\ need[p][r] \in Nat
  BY <1>2 DEF Matrices
<1> QED BY <1>4, <1>5, <1>6, <1>7, <1>8

\* In every reachable state the system is safe exactly while no live task declared more
\* than the system owns.
THEOREM SafetyIsKept == Spec => []SafeUnlessOversized
<1>1. ASSUME SInv PROVE SafeUnlessOversized
  <2>1. ASSUME \A p \in live : FitsTotal(max_demand[p])
        PROVE  SafeByGroups(available, allocation, need)
    <3>1. \A group \in SUBSET live : group # {} => CanEnd(group, allocation, need)
      BY <1>1, <2>1 DEF SInv, GroupsGo
    <3> QED BY <1>1, <3>1, SafeIffGroups DEF SInv
  <2>2. ASSUME SafeByGroups(available, allocation, need), NEW p \in live
        PROVE  FitsTotal(max_demand[p])
    <3>1. \A group \in SUBSET live : group # {} => CanEnd(group, allocation, need)
      BY <1>1, <2>2, SafeIffGroups DEF SInv
    <3>2. CanEnd({p}, allocation, need)
      BY <3>1
    <3> QED BY <1>1, <3>2, OversizedIsStuck DEF SInv
  <2> QED BY <2>1, <2>2 DEF SafeUnlessOversized
<1> QED BY InitSInv, NextSInv, <1>1, PTL DEF Spec

\* The deadlock that the Banker is there to avoid cannot happen: while the live tasks
\* declared no more than the system owns, one of them can be given all it still needs
\* from what is free, without waiting for another.
SomeoneCanEnd ==
    live # {} /\ (\A p \in live : FitsTotal(max_demand[p]))
        => \E p \in live : \A r \in Resources : need[p][r] <= available[r]

THEOREM NoDeadlock == Spec => []SomeoneCanEnd
<1>1. ASSUME SInv PROVE SomeoneCanEnd
  <2> SUFFICES ASSUME live # {}, \A p \in live : FitsTotal(max_demand[p])
               PROVE  \E p \in live : \A r \in Resources : need[p][r] <= available[r]
    BY DEF SomeoneCanEnd
  <2>1. PICK p \in live : \A r \in Resources :
            need[p][r] + HeldBy(live, allocation, r) <= Total[r]
    BY <1>1 DEF SInv, GroupsGo, CanEnd
  <2>2. TaskMatrices /\ Balanced
    BY <1>1, MatricesTyped, LiveHoldTheRest DEF SInv
  <2>3. ASSUME NEW r \in Resources PROVE need[p][r] <= available[r]
    <3>1. /\ need[p][r] + HeldBy(live, allocation, r) <= Total[r]
          /\ available[r] + HeldBy(live, allocation, r) = Total[r]
      BY <2>1, <2>2 DEF Balanced
    <3>2. need[p][r] \in Nat /\ available[r] \in Nat
      BY <2>2 DEF TaskMatrices, Vector, Matrices
    <3>3. HeldBy(live, allocation, r) \in Nat
      <4>1. PICK al, L : al = allocation /\ L = live
        OBVIOUS
      <4>2. al \in Matrices /\ L \in SUBSET Pids
        BY <2>2, <4>1 DEF TaskMatrices
      <4>3. HeldBy(L, al, r) \in Nat
        BY <4>2, HeldTyped
      <4> QED BY <4>1, <4>3
    <3> QED BY <3>1, <3>2, <3>3
  <2> QED BY <2>3
<1> QED BY InitSInv, NextSInv, <1>1, PTL DEF Spec

-----------------------------------------------------------------------------
(* The Banker implements the allocator.  What is left to show is that a state in    *)
(* which no group is stuck has an order in which all live tasks can end: it is      *)
(* built one task at a time, from the group of those that are not in it yet.        *)

Allocation == INSTANCE SafeAllocatorProofs WITH N <- MAX_TASKS

Orders == Allocator!Orders
FirstOf(ord, m) == {ord[j] : j \in 1 .. m}

LEMMA OrdersAre ==
    /\ Allocation!Orders = Orders
    /\ Orders = {ord \in [1 .. MAX_TASKS -> Pids] :
                    /\ \A i, j \in 1 .. MAX_TASKS : ord[i] = ord[j] => i = j
                    /\ \A p \in Pids : \E i \in 1 .. MAX_TASKS : ord[i] = p}
BY DEF Orders, Allocator!Orders, Allocation!Orders, Allocator!Pids, Allocation!Pids, Pids

\* The first m tasks of the order are live and can end one after the other.
Runs(ord, m, av, al, nd) ==
    \A i \in 1 .. m :
        /\ ord[i] \in live
        /\ \A r \in Resources : nd[ord[i]][r] <= av[r] + HeldBy(FirstOf(ord, i - 1), al, r)

LEMMA RunsLonger ==
    ASSUME live \in SUBSET Pids, NEW av, NEW al, NEW nd,
           \A group \in SUBSET live : group # {} => Served(group, av, al, nd),
           NEW ord \in Orders, NEW m \in 0 .. MAX_TASKS, Runs(ord, m, av, al, nd),
           FirstOf(ord, m) # live
    PROVE  /\ m < MAX_TASKS
           /\ \E ord2 \in Orders : Runs(ord2, m + 1, av, al, nd)
<1> USE BankerAssumption
<1>1. PICK G : G = live \ FirstOf(ord, m)
  OBVIOUS
<1>2. FirstOf(ord, m) \subseteq live
  BY DEF Runs, FirstOf
<1>3. G \in SUBSET live /\ G # {} /\ live \ G = FirstOf(ord, m)
  BY <1>1, <1>2
<1>4. PICK p \in G : \A r \in Resources : nd[p][r] <= av[r] + HeldBy(live \ G, al, r)
  BY <1>3 DEF Served
<1>5. PICK k \in 1 .. MAX_TASKS : ord[k] = p
  BY <1>3, OrdersAre
<1>6. k \in m + 1 .. MAX_TASKS /\ m < MAX_TASKS /\ m \in Nat
  <2>1. ~(k \in 1 .. m)
    BY <1>1, <1>5 DEF FirstOf
  <2> QED BY <2>1
<1>7. PICK ord2 : ord2 = Allocation!OrderWith(ord, m, k)
  OBVIOUS
<1>8. ord2 \in Orders
  BY <1>6, <1>7, Allocation!OrderWithIsOrder, OrdersAre
<1>9. /\ \A i \in 1 .. m : ord2[i] = ord[i]
      /\ ord2[m + 1] = p
  BY <1>5, <1>6, <1>7 DEF Allocation!OrderWith
<1>10. \A i \in 0 .. m : FirstOf(ord2, i) = FirstOf(ord, i)
  BY <1>6, <1>9 DEF FirstOf
<1>11. ASSUME NEW i \in 1 .. m + 1
       PROVE  /\ ord2[i] \in live
              /\ \A r \in Resources : nd[ord2[i]][r] <= av[r] + HeldBy(FirstOf(ord2, i - 1), al, r)
  <2>1. CASE i \in 1 .. m
    <3>1. i - 1 \in 0 .. m /\ ord2[i] = ord[i]
      BY <1>9, <2>1
    <3>2. FirstOf(ord2, i - 1) = FirstOf(ord, i - 1)
      BY <1>10, <3>1
    <3> QED BY <2>1, <3>1, <3>2 DEF Runs
  <2>2. CASE i = m + 1
    <3>1. i - 1 = m /\ ord2[i] = p /\ FirstOf(ord2, m) = live \ G /\ p \in live
      BY <1>3, <1>6, <1>9, <1>10, <2>2
    <3>2. \A r \in Resources : HeldBy(FirstOf(ord2, i - 1), al, r) = HeldBy(live \ G, al, r)
      BY <3>1, Zenon
    <3> QED BY <1>4, <3>1, <3>2
  <2> QED BY <1>6, <2>1, <2>2
<1>12. Runs(ord2, m + 1, av, al, nd)
  BY <1>11 DEF Runs
<1> QED BY <1>6, <1>8, <1>12

LEMMA AllRun ==
    ASSUME live \in SUBSET Pids, NEW av, NEW al, NEW nd,
           \A group \in SUBSET live : group # {} => Served(group, av, al, nd)
    PROVE  \E ord \in Orders, m \in 0 .. MAX_TASKS :
               Runs(ord, m, av, al, nd) /\ FirstOf(ord, m) = live
<1> USE BankerAssumption
<1> DEFINE T == {n \in 0 .. MAX_TASKS : \E ord \in Orders : Runs(ord, MAX_TASKS - n, av, al, nd)}
<1>1. MAX_TASKS \in T
  <2>1. PICK ord : ord = [i \in 1 .. MAX_TASKS |-> i - 1]
    OBVIOUS
  <2>2. ord \in Orders
    BY <2>1, Allocation!OrdersExist, OrdersAre
  <2>3. Runs(ord, 0, av, al, nd)
    BY DEF Runs
  <2> QED BY <2>2, <2>3
<1>2. PICK n \in T : \A k \in T : n <= k
  <2>1. T \subseteq Nat
    OBVIOUS
  <2> HIDE DEF T
  <2> QED BY <1>1, <2>1, LeastNumber
<1>3. PICK m : m = MAX_TASKS - n
  OBVIOUS
<1>4. m \in 0 .. MAX_TASKS /\ n = MAX_TASKS - m
  BY <1>3
<1>5. PICK ord \in Orders : Runs(ord, m, av, al, nd)
  BY <1>3
<1>6. ASSUME FirstOf(ord, m) # live PROVE FALSE
  <2>1. m < MAX_TASKS
    BY <1>4, <1>5, <1>6, RunsLonger
  <2>2. \E ord2 \in Orders : Runs(ord2, m + 1, av, al, nd)
    BY <1>4, <1>5, <1>6, RunsLonger
  <2>3. n - 1 \in 0 .. MAX_TASKS /\ MAX_TASKS - (n - 1) = m + 1 /\ ~(n <= n - 1)
    BY <1>3, <1>4, <2>1
  <2>4. n - 1 \in T
    BY <2>2, <2>3
  <2> QED BY <1>2, <2>3, <2>4
<1> QED BY <1>4, <1>5, <1>6

LEMMA OrderMakesSafe ==
    ASSUME live \in SUBSET Pids,
           NEW av \in Vector, NEW al \in Matrices, NEW nd \in Matrices,
           \A r \in Resources : av[r] + HeldBy(live, al, r) = Total[r],
           NEW ord \in Orders, NEW m \in 0 .. MAX_TASKS,
           Runs(ord, m, av, al, nd), FirstOf(ord, m) = live
    PROVE  Allocator!SafeFor(live, av, al, nd)
<1> USE BankerAssumption
<1>1. /\ ord \in [1 .. MAX_TASKS -> Pids] /\ m \in Nat
      /\ \A i, j \in 1 .. MAX_TASKS : ord[i] = ord[j] => i = j
  BY OrdersAre
<1>2. ASSUME NEW i \in 0 .. m PROVE FirstOf(ord, i) \in SUBSET Pids
  BY <1>1 DEF FirstOf
<1>3. ASSUME NEW r \in Resources PROVE Allocator!Suffices(ord, m, r, av, al, nd)
  <2> DEFINE work == [i \in 0 .. m |-> av[r] + HeldBy(FirstOf(ord, i), al, r)]
  <2>1. /\ av[r] \in Nat /\ Total[r] \in Nat
        /\ \A i \in 0 .. m : HeldBy(FirstOf(ord, i), al, r) \in Nat
    BY <1>2, HeldTyped DEF Vector
  <2>2. ASSUME NEW i \in 0 .. m, NEW j \in 0 .. m, i <= j
        PROVE  HeldBy(FirstOf(ord, i), al, r) <= HeldBy(FirstOf(ord, j), al, r)
    <3>1. PICK S, T : S = FirstOf(ord, i) /\ T = FirstOf(ord, j)
      OBVIOUS
    <3>2. S \in SUBSET T
      BY <2>2, <3>1 DEF FirstOf
    <3>3. T \in SUBSET Pids
      BY <1>2, <3>1
    <3>4. HeldBy(S, al, r) <= HeldBy(T, al, r)
      BY <3>2, <3>3, HeldSplits
    <3> QED BY <3>1, <3>4
  <2>3. HeldBy(FirstOf(ord, 0), al, r) = 0
    <3>1. FirstOf(ord, 0) = {}
      BY DEF FirstOf
    <3>2. HeldBy({}, al, r) = 0
      BY HeldByRecursion
    <3> QED BY <3>1, <3>2
  <2>4. av[r] + HeldBy(FirstOf(ord, m), al, r) = Total[r]
    OBVIOUS
  <2>5. ASSUME NEW i \in 1 .. m
        PROVE  /\ HeldBy(FirstOf(ord, i), al, r)
                      = HeldBy(FirstOf(ord, i - 1), al, r) + al[ord[i]][r]
               /\ nd[ord[i]][r] <= av[r] + HeldBy(FirstOf(ord, i - 1), al, r)
    <3>1. PICK S, p : S = FirstOf(ord, i - 1) /\ p = ord[i]
      OBVIOUS
    <3>2. p \in Pids \ S
      BY <1>1, <3>1 DEF FirstOf
    <3>3. S \in SUBSET Pids
      BY <1>2, <3>1
    <3>4. HeldBy(S \cup {p}, al, r) = HeldBy(S, al, r) + al[p][r]
      BY <3>2, <3>3, HeldWith
    <3>5. FirstOf(ord, i) = S \cup {p}
      BY <3>1 DEF FirstOf
    <3>6. HeldBy(FirstOf(ord, i), al, r) = HeldBy(S \cup {p}, al, r)
      BY <3>5, Zenon
    <3>7. nd[ord[i]][r] <= av[r] + HeldBy(FirstOf(ord, i - 1), al, r)
      BY DEF Runs
    <3> QED BY <3>1, <3>4, <3>6, <3>7
  <2>6. ASSUME NEW i \in 0 .. m PROVE work[i] \in 0 .. Total[r]
    <3>1. work[i] = av[r] + HeldBy(FirstOf(ord, i), al, r)
      OBVIOUS
    <3>2. HeldBy(FirstOf(ord, i), al, r) <= HeldBy(FirstOf(ord, m), al, r) /\ m \in 0 .. m
      BY <1>1, <2>2
    <3> HIDE DEF work
    <3> QED BY <2>1, <2>4, <3>1, <3>2
  <2>7. work \in [0 .. m -> 0 .. Total[r]]
    BY <2>6
  <2>8. work[0] = av[r] /\ work[m] = Total[r]
    BY <1>1, <2>1, <2>3, <2>4
  <2>9. ASSUME NEW i \in 0 .. m, NEW j \in 0 .. m, i <= j PROVE work[i] <= work[j]
    <3>1. /\ work[i] = av[r] + HeldBy(FirstOf(ord, i), al, r)
          /\ work[j] = av[r] + HeldBy(FirstOf(ord, j), al, r)
      OBVIOUS
    <3> HIDE DEF work
    <3> QED BY <2>1, <2>2, <2>9, <3>1
  <2>10. ASSUME NEW i \in 1 .. m
         PROVE  work[i] = work[i - 1] + al[ord[i]][r] /\ nd[ord[i]][r] <= work[i - 1]
    <3>1. i - 1 \in 0 .. m /\ i \in 0 .. m
      OBVIOUS
    <3>2. /\ work[i] = av[r] + HeldBy(FirstOf(ord, i), al, r)
          /\ work[i - 1] = av[r] + HeldBy(FirstOf(ord, i - 1), al, r)
      BY <3>1
    <3>3. ord[i] \in Pids
      BY <1>1
    <3>4. al[ord[i]][r] \in Nat
      BY <3>3 DEF Matrices
    <3> HIDE DEF work
    <3> QED BY <2>1, <2>5, <3>1, <3>2, <3>4
  <2> HIDE DEF work
  <2> QED BY <2>7, <2>8, <2>9, <2>10 DEF Allocator!Suffices
<1> QED BY <1>3 DEF Allocator!SafeFor, Orders, FirstOf

LEMMA GrantedIsSafe ==
    ASSUME live \in SUBSET Pids, CountIsLive,
           NEW av \in Vector, NEW al \in Matrices, NEW nd \in Matrices,
           \A r \in Resources : av[r] + HeldBy(live, al, r) = Total[r],
           IsSafeState(av, al, nd)
    PROVE  Allocator!SafeFor(live, av, al, nd)
<1>1. \A group \in SUBSET live : group # {} => Served(group, av, al, nd)
  BY SafeStateIsExact, SafeIff
<1>2. PICK ord \in Orders, m \in 0 .. MAX_TASKS :
          Runs(ord, m, av, al, nd) /\ FirstOf(ord, m) = live
  BY <1>1, AllRun
<1> QED BY <1>2, OrderMakesSafe

-----------------------------------------------------------------------------

LEMMA AllocatorInit == Init => Allocator!Init
BY DEF Init, Allocator!Init, Allocator!Zero, Zero, Allocator!Pids, Pids

LEMMA CreateImplements ==
    ASSUME IInv, NEW d \in Demands, TaskCreate(d)
    PROVE  Allocator!Next
<1>1. PICK p \in Pids \ live :
          /\ live' = live \cup {p}
          /\ allocation' = [allocation EXCEPT ![p] = Zero]
          /\ need' = [need EXCEPT ![p] = d]
  BY DEF TaskCreate
<1>2. allocation' = allocation
  <2>1. allocation[p] = Zero /\ allocation \in [Pids -> [Resources -> Nat]]
    BY DEF IInv, DeadHoldNothing, TypeOK
  <2> QED BY <1>1, <2>1
<1>3. Allocator!Create(p, d)
  BY <1>1, <1>2 DEF Allocator!Create, TaskCreate
<1> QED BY <1>3 DEF Allocator!Next, Allocator!Pids, Pids

LEMMA TerminateImplements ==
    ASSUME NEW p \in Pids, TaskTerminate(p)
    PROVE  Allocator!Next
<1>1. Allocator!End(p)
  BY DEF TaskTerminate, Allocator!End, Allocator!Zero, Zero
<1> QED BY <1>1 DEF Allocator!Next, Allocator!Pids, Pids

LEMMA PortionsAre ==
    ASSUME NEW v \in Vector, \A r \in Resources : v[r] <= Total[r]
    PROVE  v \in Allocator!Portions
<1>1. ASSUME NEW r \in Resources PROVE v[r] \in UNION {0 .. Total[q] : q \in Resources}
  <2>1. v[r] \in 0 .. Total[r]
    BY BankerAssumption DEF Vector
  <2> QED BY <2>1
<1>2. v \in [Resources -> UNION {0 .. Total[q] : q \in Resources}]
  BY <1>1 DEF Vector
<1> QED BY <1>2 DEF Allocator!Portions

LEMMA GrantImplements ==
    ASSUME IInv, IInv', NEW p \in Pids, NEW v \in Amounts, Grant(p, v)
    PROVE  Allocator!Next
<1> USE BankerAssumption
<1>1. PICK av, al, nd : av = available' /\ al = allocation' /\ nd = need'
  OBVIOUS
<1>2. TaskMatrices /\ TaskMatrices' /\ Balanced /\ Balanced'
  BY MatricesTyped, LiveHoldTheRest, PTL
<1>3. live' = live /\ live \in SUBSET Pids /\ CountIsLive
  BY <1>2 DEF TaskMatrices, Grant, IInv
<1>4. av \in Vector /\ al \in Matrices /\ nd \in Matrices
  BY <1>1, <1>2 DEF TaskMatrices
<1>5. \A r \in Resources : av[r] + HeldBy(live, al, r) = Total[r]
  BY <1>1, <1>2, <1>3 DEF Balanced
<1>6. IsSafeState(av, al, nd)
  BY <1>1 DEF Grant, TrialIsSafe
<1>7. Allocator!SafeFor(live, av, al, nd)
  BY <1>3, <1>4, <1>5, <1>6, GrantedIsSafe
<1>8. Allocator!Grant(p, v)
  BY <1>1, <1>7 DEF Allocator!Grant, Grant, Consistent, TrialAvailable, TrialAllocation, TrialNeed
<1>9. v \in Allocator!Portions
  <2>1. v \in Vector
    BY DEF Vector
  <2>2. ASSUME NEW r \in Resources PROVE v[r] <= Total[r]
    <3>1. PICK be, L : be = allocation /\ L = live
      OBVIOUS
    <3>2. HeldBy(L, be, r) \in Nat
      BY <1>2, <3>1, HeldTyped DEF TaskMatrices
    <3>3. available[r] + HeldBy(L, be, r) = Total[r] /\ available[r] \in Nat
      BY <1>2, <3>1 DEF Balanced, TaskMatrices, Vector
    <3>4. v[r] <= available[r] /\ v[r] \in Nat
      BY <2>1 DEF Grant, Consistent, Vector
    <3> QED BY <3>2, <3>3, <3>4
  <2> QED BY <2>1, <2>2, PortionsAre
<1> QED BY <1>8, <1>9 DEF Allocator!Next, Allocator!Pids, Pids

LEMMA ReleaseImplements ==
    ASSUME IInv, NEW p \in Pids, NEW v \in Amounts, ReleaseResources(p, v)
    PROVE  Allocator!Next
<1> USE BankerAssumption
<1>1. TaskMatrices /\ Balanced
  BY MatricesTyped, LiveHoldTheRest
<1>2. PICK back : back = Released(p, v)
  OBVIOUS
<1>3. /\ back \in Vector /\ \A r \in Resources : back[r] <= allocation[p][r]
      /\ p \in live
  BY <1>1, <1>2 DEF Released, Vector, TaskMatrices, Matrices, ReleaseResources
<1>4. Allocator!GiveBack(p, back)
  BY <1>2, <1>3 DEF Allocator!GiveBack, ReleaseResources
<1>5. back \in Allocator!Portions
  <2>1. ASSUME NEW r \in Resources PROVE back[r] <= Total[r]
    <3>1. PICK al, L, u : al = allocation /\ L = live /\ u = Without(L, p)
      OBVIOUS
    <3>2. al \in Matrices /\ L \in SUBSET Pids /\ u \in SUBSET Pids /\ p \in L
      BY <1>1, <1>3, <3>1 DEF TaskMatrices, Without
    <3>3. HeldBy(L, al, r) = al[p][r] + HeldBy(u, al, r)
      BY <3>1, <3>2, HeldWithout
    <3>4. HeldBy(u, al, r) \in Nat /\ al[p][r] \in Nat
      BY <3>2, HeldTyped DEF Matrices
    <3>5. available[r] + HeldBy(L, al, r) = Total[r] /\ available[r] \in Nat
      BY <1>1, <3>1 DEF Balanced, TaskMatrices, Vector
    <3>6. back[r] <= al[p][r] /\ back[r] \in Nat
      BY <1>3, <3>1 DEF Vector
    <3> QED BY <3>3, <3>4, <3>5, <3>6
  <2> QED BY <1>3, <2>1, PortionsAre
<1> QED BY <1>4, <1>5 DEF Allocator!Next, Allocator!Pids, Pids

\* The Banker implements the allocator that grants only into states from which all
\* live tasks can end: each call does what the allocator may do, and a grant that
\* is_safe_state() let through has an order in which everybody can be served.
THEOREM BankerAllocatesSafely == Spec => AllocatorSpec
<1>1. ASSUME IInv, IInv', [Next]_vars PROVE [Allocator!Next]_Allocator!vars
  <2>1. ASSUME NEW d \in Demands, TaskCreate(d) PROVE Allocator!Next
    BY <1>1, <2>1, CreateImplements
  <2>2. ASSUME NEW p \in Pids, TaskTerminate(p) PROVE Allocator!Next
    BY <2>2, TerminateImplements
  <2>3. ASSUME NEW p \in Pids, NEW v \in Amounts, RequestResources(p, v)
      PROVE  Allocator!Next \/ UNCHANGED vars
    BY <1>1, <2>3, GrantImplements, RolledBack DEF RequestResources
  <2>4. ASSUME NEW p \in Pids, NEW v \in Amounts, ReleaseResources(p, v) PROVE Allocator!Next
    BY <1>1, <2>4, ReleaseImplements
  <2>5. CASE UNCHANGED vars
    BY <2>5 DEF vars, Allocator!vars
  <2> QED BY <1>1, <2>1, <2>2, <2>3, <2>4, <2>5 DEF Next
<1> QED BY InitIInv, NextIInv, AllocatorInit, <1>1, PTL DEF Spec, AllocatorSpec, Allocator!Spec
=============================================================================

------------------------ MODULE SafeAllocatorProofs ------------------------
(***************************************************************************)
(* The allocator is safe for every number of tasks, every set of resources *)
(* and every totals and demands that fit them.                             *)
(*                                                                         *)
(* The invariant is Safe itself plus the types and "a slot without a task  *)
(* holds nothing".  Each operation carries a safe order over to the next   *)
(* state: a created task goes behind the live ones, an ended task behind   *)
(* the remaining ones, a task that gives back keeps its place; a grant     *)
(* brings its own order.                                                   *)
(***************************************************************************)
EXTENDS SafeAllocator, TLAPS

DeadHoldNothing == \A p \in Pids \ live : allocation[p] = Zero

IInv == TypeOK /\ DeadHoldNothing /\ Safe

\* A work vector for one resource, as Suffices asks for.
IsWork(work, ord, m, r, av, al, nd) ==
    /\ work \in [0 .. m -> 0 .. Total[r]]
    /\ work[0] = av[r]
    /\ work[m] = Total[r]
    /\ \A i, j \in 0 .. m : i <= j => work[i] <= work[j]
    /\ \A i \in 1 .. m : /\ work[i] = work[i - 1] + al[ord[i]][r]
                         /\ nd[ord[i]][r] <= work[i - 1]

LEMMA SufficesIff ==
    ASSUME NEW ord, NEW m, NEW r, NEW av, NEW al, NEW nd
    PROVE  Suffices(ord, m, r, av, al, nd)
               <=> \E work : IsWork(work, ord, m, r, av, al, nd)
BY DEF Suffices, IsWork

-----------------------------------------------------------------------------

\* The matrices once p has given back b.
Freed(av, b) == [r \in Resources |-> av[r] + b[r]]
HeldLess(al, p, b) == [al EXCEPT ![p] = [r \in Resources |-> @[r] - b[r]]]
NeedMore(nd, p, b) == [nd EXCEPT ![p] = [r \in Resources |-> @[r] + b[r]]]

\* A task that gives back keeps its place in the order.
LEMMA GiveBackWork ==
    ASSUME SafeAllocatorAssumption,
           NEW ord \in Orders, NEW m \in 0 .. N, NEW r \in Resources,
           NEW p \in {ord[i] : i \in 1 .. m}, NEW b \in [Resources -> Nat],
           NEW av \in [Resources -> Nat],
           NEW al \in [Pids -> [Resources -> Nat]],
           NEW nd \in [Pids -> [Resources -> Nat]],
           b[r] <= al[p][r],
           Suffices(ord, m, r, av, al, nd)
    PROVE  Suffices(ord, m, r, Freed(av, b), HeldLess(al, p, b), NeedMore(nd, p, b))
<1> USE DEF SafeAllocatorAssumption
<1> DEFINE av2 == Freed(av, b)
           al2 == HeldLess(al, p, b)
           nd2 == NeedMore(nd, p, b)
<1>1. PICK work : IsWork(work, ord, m, r, av, al, nd)
  BY SufficesIff
<1>2. PICK k \in 1 .. m : ord[k] = p
  OBVIOUS
<1>3. /\ ord \in [1 .. N -> Pids]
      /\ \A i, j \in 1 .. N : ord[i] = ord[j] => i = j
      /\ 1 .. m \subseteq 1 .. N
      /\ m \in Nat /\ Total[r] \in Nat /\ p \in Pids
      /\ b[r] \in Nat /\ al[p][r] \in Nat /\ nd[p][r] \in Nat
  <2>1. m \in Nat /\ 1 .. m \subseteq 1 .. N /\ Total[r] \in Nat /\ b[r] \in Nat
    OBVIOUS
  <2>2. ord \in [1 .. N -> Pids] /\ \A i, j \in 1 .. N : ord[i] = ord[j] => i = j
    BY DEF Orders
  <2>3. p \in Pids
    BY <1>2, <2>1, <2>2
  <2> QED BY <2>1, <2>2, <2>3
<1>nat. Total[r] \in Nat /\ b[r] \in Nat /\ al[p][r] \in Nat /\ nd[p][r] \in Nat
  BY <1>3
<1> DEFINE work2 == [i \in 0 .. m |-> IF i < k THEN work[i] + b[r] ELSE work[i]]
<1>4. \A i \in 0 .. m : work[i] \in 0 .. Total[r]
  BY <1>1 DEF IsWork
<1>work. \A i \in 0 .. m : work[i] \in Nat
  BY <1>4, <1>nat
<1>mono. \A i, j \in 0 .. m : i <= j => work[i] <= work[j]
  BY <1>1 DEF IsWork
<1>step. \A i \in 1 .. m : /\ work[i] = work[i - 1] + al[ord[i]][r]
                          /\ nd[ord[i]][r] <= work[i - 1]
  BY <1>1 DEF IsWork
<1>5. \A i \in 0 .. m : i < k => work[i] + al[p][r] <= work[k]
  <2> TAKE i \in 0 .. m
  <2> HAVE i < k
  <2>1. k - 1 \in 0 .. m /\ i <= k - 1
    BY <1>2
  <2>2. work[i] <= work[k - 1]
    BY <2>1, <1>mono
  <2>3. work[k] = work[k - 1] + al[p][r]
    BY <1>2, <1>step
  <2>4. work[i] \in Nat /\ work[k - 1] \in Nat
    BY <2>1, <1>work
  <2> HIDE DEF work2, av2, al2, nd2
  <2> QED BY <2>2, <2>3, <2>4, <1>nat
<1>6. IsWork(work2, ord, m, r, av2, al2, nd2)
  <2>1. work2 \in [0 .. m -> 0 .. Total[r]]
    <3> SUFFICES ASSUME NEW i \in 0 .. m PROVE work2[i] \in 0 .. Total[r]
      OBVIOUS
    <3>1. CASE i < k
      <4>1. work[i] + al[p][r] <= work[k] /\ work[k] \in 0 .. Total[r]
        BY <3>1, <1>2, <1>4, <1>5
      <4>2. work[i] \in Nat /\ b[r] <= al[p][r]
        BY <1>work
      <4>3. work[i] + b[r] \in 0 .. Total[r]
        <5> HIDE DEF work2, av2, al2, nd2
        <5> QED BY <4>1, <4>2, <1>nat
      <4> QED BY <3>1, <4>3
    <3>2. CASE ~(i < k)
      BY <3>2, <1>4
    <3> QED BY <3>1, <3>2
  <2>2. work2[0] = av2[r] /\ work2[m] = Total[r]
    BY <1>1, <1>2, <1>3 DEF IsWork, Freed
  <2>3. ASSUME NEW i \in 0 .. m, NEW j \in 0 .. m, i <= j
        PROVE  work2[i] <= work2[j]
    <3>1. work[i] <= work[j]
      BY <1>1, <2>3 DEF IsWork
    <3>2. CASE i < k /\ ~(j < k)
      <4>1. work[k] <= work[j] /\ work[i] + al[p][r] <= work[k]
        BY <1>1, <1>2, <1>3, <1>5, <3>2 DEF IsWork
      <4>2. work2[i] = work[i] + b[r] /\ work2[j] = work[j]
        BY <3>2
      <4>3. work[i] \in Nat /\ work[j] \in Nat /\ work[k] \in Nat
        BY <1>2, <1>work
      <4> HIDE DEF work2, av2, al2, nd2
      <4> QED BY <4>1, <4>2, <4>3, <1>nat
    <3>3. CASE (i < k) = (j < k)
      <4>1. \/ work2[i] = work[i] /\ work2[j] = work[j]
            \/ work2[i] = work[i] + b[r] /\ work2[j] = work[j] + b[r]
        BY <3>3
      <4>2. work[i] \in Nat /\ work[j] \in Nat
        BY <1>work
      <4> HIDE DEF work2, av2, al2, nd2
      <4> QED BY <3>1, <4>1, <4>2, <1>nat
    <3> QED BY <2>3, <3>2, <3>3, <1>2, <1>3
  <2>4. ASSUME NEW i \in 1 .. m
        PROVE  /\ work2[i] = work2[i - 1] + al2[ord[i]][r]
               /\ nd2[ord[i]][r] <= work2[i - 1]
    <3>1. /\ work[i] = work[i - 1] + al[ord[i]][r]
          /\ nd[ord[i]][r] <= work[i - 1]
          /\ i - 1 \in 0 .. m /\ i \in 0 .. m
      BY <1>step
    <3>2. CASE i = k
      <4>1. al2[ord[i]][r] = al[p][r] - b[r] /\ nd2[ord[i]][r] = nd[p][r] + b[r]
        BY <3>2, <1>2, <1>3 DEF HeldLess, NeedMore
      <4>2. work2[i] = work[i] /\ work2[i - 1] = work[i - 1] + b[r]
        BY <3>1, <3>2, <1>2, <1>3
      <4>3. ord[i] = p
        BY <3>2, <1>2
      <4>4. work[i] \in Nat /\ work[i - 1] \in Nat
        BY <3>1, <1>work
      <4>5. work[i] = work[i - 1] + al[p][r] /\ nd[p][r] <= work[i - 1]
        BY <3>1, <4>3
      <4> HIDE DEF work2, av2, al2, nd2
      <4> QED BY <4>1, <4>2, <4>4, <4>5, <1>nat
    <3>3. CASE i # k
      <4>1. ord[i] # p
        BY <3>3, <1>2, <1>3
      <4>2. ord[i] \in Pids
        BY <1>3
      <4>3. al2[ord[i]] = al[ord[i]] /\ nd2[ord[i]] = nd[ord[i]]
        BY <4>1, <4>2 DEF HeldLess, NeedMore
      <4>4. /\ work2[i] = IF i < k THEN work[i] + b[r] ELSE work[i]
            /\ work2[i - 1] = IF i < k THEN work[i - 1] + b[r] ELSE work[i - 1]
        BY <3>1, <3>3, <1>2, <1>3
      <4>5. al[ord[i]][r] \in Nat /\ nd[ord[i]][r] \in Nat
        BY <4>2
      <4>6. work[i] \in Nat /\ work[i - 1] \in Nat
        BY <3>1, <1>work
      <4>7. al2[ord[i]][r] = al[ord[i]][r] /\ nd2[ord[i]][r] = nd[ord[i]][r]
        BY <4>3
      <4> HIDE DEF work2, al2, nd2
      <4> QED BY <3>1, <4>4, <4>5, <4>6, <4>7
    <3> QED BY <3>2, <3>3
  <2> HIDE DEF work2, av2, al2, nd2
  <2> QED BY <2>1, <2>2, <2>3, <2>4 DEF IsWork
<1> QED BY <1>6, SufficesIff

-----------------------------------------------------------------------------

\* The order without the task at place k, which goes behind the remaining ones.
OrderWithout(ord, m, k) ==
    [i \in 1 .. N |-> IF k <= i /\ i < m THEN ord[i + 1]
                      ELSE IF i = m THEN ord[k] ELSE ord[i]]

LEMMA OrderWithoutIsOrder ==
    ASSUME SafeAllocatorAssumption,
           NEW ord \in Orders, NEW m \in 0 .. N, NEW k \in 1 .. m
    PROVE  /\ OrderWithout(ord, m, k) \in Orders
           /\ {OrderWithout(ord, m, k)[i] : i \in 1 .. m - 1}
                  = {ord[i] : i \in 1 .. m} \ {ord[k]}
<1> USE DEF SafeAllocatorAssumption
<1> DEFINE ord2 == OrderWithout(ord, m, k)
<1>1. /\ m \in Nat /\ k \in Nat /\ N \in Nat /\ m <= N /\ 1 <= k /\ k <= m
      /\ ord \in [1 .. N -> Pids]
      /\ \A i, j \in 1 .. N : ord[i] = ord[j] => i = j
      /\ \A p \in Pids : \E i \in 1 .. N : ord[i] = p
  BY DEF Orders
<1>2. /\ DOMAIN ord2 = 1 .. N
      /\ \A i \in 1 .. N : ord2[i] = IF k <= i /\ i < m THEN ord[i + 1]
                                     ELSE IF i = m THEN ord[k] ELSE ord[i]
  BY DEF OrderWithout
<1>3. ord2 \in [1 .. N -> Pids]
  <2>1. \A i \in 1 .. N : ord2[i] \in Pids
    BY <1>1, <1>2
  <2> QED BY <1>2, <2>1 DEF OrderWithout
<1>4. ASSUME NEW i \in 1 .. N, NEW j \in 1 .. N, ord2[i] = ord2[j]
      PROVE  i = j
  BY <1>1, <1>2, <1>4
<1>5. ASSUME NEW p \in Pids
      PROVE  \E i \in 1 .. N : ord2[i] = p
  <2>1. PICK j \in 1 .. N : ord[j] = p
    BY <1>1
  <2>2. CASE j = k
    BY <1>1, <1>2, <2>1, <2>2
  <2>3. CASE k < j /\ j <= m
    <3>1. j - 1 \in 1 .. N /\ k <= j - 1 /\ j - 1 < m /\ (j - 1) + 1 = j
      BY <1>1, <2>3
    <3> QED BY <1>2, <2>1, <3>1
  <2>4. CASE j < k \/ m < j
    BY <1>1, <1>2, <2>1, <2>4
  <2> QED BY <1>1, <2>2, <2>3, <2>4
<1>6. ord2 \in Orders
  BY <1>3, <1>4, <1>5 DEF Orders
<1>7. ASSUME NEW i \in 1 .. m - 1
      PROVE  ord2[i] \in {ord[j] : j \in 1 .. m} \ {ord[k]}
  <2>1. CASE i < k
    <3>1. i \in 1 .. N /\ i \in 1 .. m /\ i # k /\ k \in 1 .. N /\ i # m
      BY <1>1, <2>1
    <3> QED BY <1>1, <1>2, <2>1, <3>1
  <2>2. CASE k <= i
    <3>1. i \in 1 .. N /\ i + 1 \in 1 .. m /\ i + 1 \in 1 .. N /\ i + 1 # k /\ i < m /\ k \in 1 .. N
      BY <1>1, <2>2
    <3>2. ord2[i] = ord[i + 1]
      BY <1>2, <2>2, <3>1
    <3> QED BY <1>1, <3>1, <3>2
  <2> QED BY <1>1, <2>1, <2>2
<1>8. ASSUME NEW j \in 1 .. m, ord[j] # ord[k]
      PROVE  ord[j] \in {ord2[i] : i \in 1 .. m - 1}
  <2>1. CASE j < k
    BY <1>1, <1>2, <2>1
  <2>2. CASE k < j
    <3>1. j - 1 \in 1 .. m - 1 /\ j - 1 \in 1 .. N /\ k <= j - 1 /\ j - 1 < m /\ (j - 1) + 1 = j
      BY <1>1, <2>2
    <3> QED BY <1>2, <3>1
  <2> QED BY <1>1, <1>8, <2>1, <2>2
<1> QED BY <1>6, <1>7, <1>8

\* The end of the task at place k: what it held is free from the start.
LEMMA EndWork ==
    ASSUME SafeAllocatorAssumption,
           NEW ord \in Orders, NEW m \in 0 .. N, NEW k \in 1 .. m, NEW r \in Resources,
           NEW av \in [Resources -> Nat],
           NEW al \in [Pids -> [Resources -> Nat]],
           NEW nd \in [Pids -> [Resources -> Nat]],
           Suffices(ord, m, r, av, al, nd)
    PROVE  Suffices(OrderWithout(ord, m, k), m - 1, r,
                    [s \in Resources |-> av[s] + al[ord[k]][s]],
                    [al EXCEPT ![ord[k]] = Zero], nd)
<1> USE DEF SafeAllocatorAssumption
<1> DEFINE p == ord[k]
           h == al[p][r]
           ord2 == OrderWithout(ord, m, k)
           av2 == [s \in Resources |-> av[s] + al[p][s]]
           al2 == [al EXCEPT ![p] = Zero]
<1>1. PICK work : IsWork(work, ord, m, r, av, al, nd)
  BY SufficesIff
<1>2. /\ m \in Nat /\ k \in Nat /\ N \in Nat /\ m <= N /\ 1 <= k /\ k <= m
      /\ ord \in [1 .. N -> Pids]
      /\ \A i, j \in 1 .. N : ord[i] = ord[j] => i = j
  BY DEF Orders
<1>3. p \in Pids /\ h \in Nat /\ Total[r] \in Nat
  BY <1>2
<1>4. /\ \A i \in 0 .. m : work[i] \in 0 .. Total[r]
      /\ \A i \in 0 .. m : work[i] \in Nat
      /\ \A i, j \in 0 .. m : i <= j => work[i] <= work[j]
      /\ work[k] = work[k - 1] + h
      /\ work[0] = av[r] /\ work[m] = Total[r]
  BY <1>1, <1>3 DEF IsWork
<1>5. ASSUME NEW i \in 0 .. m, i < k
      PROVE  work[i] + h <= work[k]
  <2>1. work[i] <= work[k - 1] /\ work[i] \in Nat /\ work[k - 1] \in Nat
    BY <1>2, <1>4, <1>5
  <2> HIDE DEF h
  <2> QED BY <1>3, <1>4, <2>1
<1> DEFINE work2 == [i \in 0 .. m - 1 |-> IF i < k THEN work[i] + h ELSE work[i + 1]]
<1> HIDE DEF h
<1>6. work2 \in [0 .. m - 1 -> 0 .. Total[r]]
  <2> SUFFICES ASSUME NEW i \in 0 .. m - 1 PROVE work2[i] \in 0 .. Total[r]
    OBVIOUS
  <2>1. CASE i < k
    <3>1. work[i] + h <= work[k] /\ work[k] \in 0 .. Total[r] /\ work[i] \in Nat
      BY <1>2, <1>4, <1>5, <2>1
    <3>2. work[i] + h \in 0 .. Total[r]
      BY <1>3, <3>1
    <3> QED BY <2>1, <3>2
  <2>2. CASE ~(i < k)
    BY <1>2, <1>4, <2>2
  <2> QED BY <2>1, <2>2
<1>7. work2[0] = av2[r] /\ work2[m - 1] = Total[r]
  <2>1. work2[0] = work[0] + h
    BY <1>2
  <2>2. av2[r] = av[r] + h
    BY DEF h
  <2>3. CASE k = m
    <3>1. work2[m - 1] = work[m - 1] + h
      BY <1>2, <2>3
    <3> QED BY <1>4, <2>1, <2>2, <2>3, <3>1
  <2>4. CASE k < m
    <3>1. work2[m - 1] = work[(m - 1) + 1] /\ (m - 1) + 1 = m
      BY <1>2, <2>4
    <3> QED BY <1>4, <2>1, <2>2, <3>1
  <2> QED BY <1>2, <2>3, <2>4
<1>8. ASSUME NEW i \in 0 .. m - 1, NEW j \in 0 .. m - 1, i <= j
      PROVE  work2[i] <= work2[j]
  <2>1. /\ i \in 0 .. m /\ j \in 0 .. m /\ i + 1 \in 0 .. m /\ j + 1 \in 0 .. m
        /\ k \in 0 .. m
    BY <1>2
  <2>2. /\ work2[i] = IF i < k THEN work[i] + h ELSE work[i + 1]
        /\ work2[j] = IF j < k THEN work[j] + h ELSE work[j + 1]
    OBVIOUS
  <2> HIDE DEF work2
  <2>3. CASE j < k
    <3>1. work[i] <= work[j] /\ work[i] \in Nat /\ work[j] \in Nat /\ i < k
      BY <1>2, <1>4, <1>8, <2>1, <2>3
    <3> QED BY <1>3, <2>2, <2>3, <3>1
  <2>4. CASE i < k /\ k <= j
    <3>1. work[i] + h <= work[k] /\ work[k] <= work[j + 1]
      BY <1>2, <1>4, <1>5, <2>1, <2>4
    <3>2. work[i] \in Nat /\ work[k] \in Nat /\ work[j + 1] \in Nat /\ ~(j < k)
      BY <1>2, <1>4, <2>1, <2>4
    <3> QED BY <1>3, <2>2, <2>4, <3>1, <3>2
  <2>5. CASE k <= i
    <3>1. work[i + 1] <= work[j + 1] /\ ~(i < k) /\ ~(j < k)
      BY <1>2, <1>4, <1>8, <2>1, <2>5
    <3> QED BY <2>2, <3>1
  <2> QED BY <1>2, <1>8, <2>3, <2>4, <2>5
<1>9. ASSUME NEW i \in 1 .. m - 1
      PROVE  /\ work2[i] = work2[i - 1] + al2[ord2[i]][r]
             /\ nd[ord2[i]][r] <= work2[i - 1]
  <2>1. /\ i \in 1 .. N /\ i \in 1 .. m /\ i + 1 \in 1 .. m /\ i + 1 \in 1 .. N /\ k \in 1 .. N
        /\ i \in 0 .. m - 1 /\ i - 1 \in 0 .. m - 1 /\ i - 1 \in 0 .. m /\ (i - 1) + 1 = i
        /\ i \in Nat /\ i < m
    BY <1>2
  <2>2. /\ work2[i] = IF i < k THEN work[i] + h ELSE work[i + 1]
        /\ work2[i - 1] = IF i - 1 < k THEN work[i - 1] + h ELSE work[i]
    BY <2>1
  <2>3. ord2[i] = IF k <= i THEN ord[i + 1] ELSE ord[i]
    BY <2>1, <1>2 DEF OrderWithout
  <2> DEFINE t == ord2[i]
  <2>4. t \in Pids /\ t # p
    <3>1. k <= i => ord[i + 1] # ord[k]
      BY <1>2, <2>1
    <3>2. ~(k <= i) => ord[i] # ord[k]
      BY <1>2, <2>1
    <3> QED BY <1>2, <2>1, <2>3, <3>1, <3>2
  <2>5. al2[t][r] = al[t][r] /\ al[t][r] \in Nat /\ nd[t][r] \in Nat
    BY <2>4
  <2>6. /\ work[i] = work[i - 1] + al[ord[i]][r] /\ nd[ord[i]][r] <= work[i - 1]
        /\ work[i + 1] = work[(i + 1) - 1] + al[ord[i + 1]][r]
        /\ nd[ord[i + 1]][r] <= work[(i + 1) - 1]
        /\ (i + 1) - 1 = i
    BY <1>1, <2>1 DEF IsWork
  <2>7. work[i] \in Nat /\ work[i - 1] \in Nat /\ work[i + 1] \in Nat
    BY <1>4, <2>1
  <2>8. k = i => work[i] = work[i - 1] + h
    BY <1>4
  <2> HIDE DEF work2, al2, ord2
  <2>9. CASE i < k
    <3>1. t = ord[i] /\ i - 1 < k /\ ~(k <= i)
      BY <1>2, <2>1, <2>3, <2>9
    <3> QED BY <1>3, <2>2, <2>5, <2>6, <2>7, <2>9, <3>1
  <2>10. CASE i = k
    <3>1. t = ord[i + 1] /\ i - 1 < k /\ ~(i < k) /\ k <= i
      BY <1>2, <2>1, <2>3, <2>10
    <3> QED BY <1>3, <2>2, <2>5, <2>6, <2>7, <2>8, <2>10, <3>1
  <2>11. CASE k < i
    <3>1. t = ord[i + 1] /\ ~(i - 1 < k) /\ ~(i < k) /\ k <= i
      BY <1>2, <2>1, <2>3, <2>11
    <3> QED BY <2>2, <2>5, <2>6, <2>7, <3>1
  <2> QED BY <1>2, <2>1, <2>9, <2>10, <2>11
<1>10. IsWork(work2, ord2, m - 1, r, av2, al2, nd)
  <2> HIDE DEF work2, ord2, av2, al2
  <2> QED BY <1>6, <1>7, <1>8, <1>9 DEF IsWork
<1> QED BY <1>10, SufficesIff

-----------------------------------------------------------------------------

\* The order with the task at place k moved to place m + 1, right behind the live ones.
OrderWith(ord, m, k) ==
    [i \in 1 .. N |-> IF i = m + 1 THEN ord[k] ELSE IF i = k THEN ord[m + 1] ELSE ord[i]]

LEMMA OrderWithIsOrder ==
    ASSUME N \in Nat,
           NEW ord \in Orders, NEW m \in 0 .. N, NEW k \in m + 1 .. N
    PROVE  /\ OrderWith(ord, m, k) \in Orders
           /\ {OrderWith(ord, m, k)[i] : i \in 1 .. m + 1}
                  = {ord[i] : i \in 1 .. m} \cup {ord[k]}
<1> DEFINE ord2 == OrderWith(ord, m, k)
<1>1. /\ m \in Nat /\ k \in 1 .. N /\ N \in Nat /\ m + 1 \in 1 .. N /\ m < k
      /\ ord \in [1 .. N -> Pids]
      /\ \A i, j \in 1 .. N : ord[i] = ord[j] => i = j
      /\ \A p \in Pids : \E i \in 1 .. N : ord[i] = p
  BY DEF Orders
<1>2. /\ DOMAIN ord2 = 1 .. N
      /\ \A i \in 1 .. N : ord2[i] = IF i = m + 1 THEN ord[k]
                                     ELSE IF i = k THEN ord[m + 1] ELSE ord[i]
  BY DEF OrderWith
<1>3. ord2 \in [1 .. N -> Pids]
  <2>1. \A i \in 1 .. N : ord2[i] \in Pids
    BY <1>1, <1>2
  <2> QED BY <1>2, <2>1 DEF OrderWith
<1>4. ASSUME NEW i \in 1 .. N, NEW j \in 1 .. N, ord2[i] = ord2[j]
      PROVE  i = j
  BY <1>1, <1>2, <1>4
<1>5. ASSUME NEW p \in Pids
      PROVE  \E i \in 1 .. N : ord2[i] = p
  <2>1. PICK j \in 1 .. N : ord[j] = p
    BY <1>1
  <2> QED BY <1>1, <1>2, <2>1
<1>6. ord2 \in Orders
  BY <1>3, <1>4, <1>5 DEF Orders
<1>7. {ord2[i] : i \in 1 .. m + 1} = {ord[i] : i \in 1 .. m} \cup {ord[k]}
  <2>1. \A i \in 1 .. m : i \in 1 .. N /\ i # m + 1 /\ i # k /\ i \in 1 .. m + 1
    BY <1>1
  <2>2. \A i \in 1 .. m : ord2[i] = ord[i]
    BY <1>2, <2>1
  <2>3. ord2[m + 1] = ord[k] /\ m + 1 \in 1 .. m + 1
    BY <1>1, <1>2
  <2>4. \A i \in 1 .. m + 1 : i \in 1 .. m \/ i = m + 1
    BY <1>1
  <2> HIDE DEF ord2
  <2> QED BY <2>1, <2>2, <2>3, <2>4
<1> QED BY <1>6, <1>7

\* A new task, which holds nothing and declared no more than the total, can run last.
LEMMA CreateWork ==
    ASSUME SafeAllocatorAssumption,
           NEW ord \in Orders, NEW m \in 0 .. N, NEW k \in m + 1 .. N, NEW r \in Resources,
           NEW demand \in Demands,
           NEW av \in [Resources -> Nat],
           NEW al \in [Pids -> [Resources -> Nat]],
           NEW nd \in [Pids -> [Resources -> Nat]],
           al[ord[k]] = Zero,
           Suffices(ord, m, r, av, al, nd)
    PROVE  Suffices(OrderWith(ord, m, k), m + 1, r, av, al, [nd EXCEPT ![ord[k]] = demand])
<1> USE DEF SafeAllocatorAssumption
<1> DEFINE p == ord[k]
           ord2 == OrderWith(ord, m, k)
           nd2 == [nd EXCEPT ![p] = demand]
<1>1. PICK work : IsWork(work, ord, m, r, av, al, nd)
  BY SufficesIff
<1>2. /\ m \in Nat /\ k \in 1 .. N /\ N \in Nat /\ m + 1 \in 1 .. N /\ m < k
      /\ ord \in [1 .. N -> Pids]
      /\ \A i, j \in 1 .. N : ord[i] = ord[j] => i = j
  BY DEF Orders
<1>3. /\ p \in Pids /\ al[p][r] = 0 /\ Total[r] \in Nat
      /\ nd2[p][r] = demand[r] /\ demand[r] <= Total[r]
  <2>1. p \in Pids
    BY <1>2
  <2> QED BY <2>1 DEF Zero
<1>4. /\ \A i \in 0 .. m : work[i] \in 0 .. Total[r]
      /\ \A i, j \in 0 .. m : i <= j => work[i] <= work[j]
      /\ work[0] = av[r] /\ work[m] = Total[r]
  BY <1>1 DEF IsWork
<1> DEFINE work2 == [i \in 0 .. m + 1 |-> IF i <= m THEN work[i] ELSE Total[r]]
<1>5. work2 \in [0 .. m + 1 -> 0 .. Total[r]]
  BY <1>2, <1>3, <1>4
<1>6. work2[0] = av[r] /\ work2[m + 1] = Total[r]
  BY <1>2, <1>4
<1>7. ASSUME NEW i \in 0 .. m + 1, NEW j \in 0 .. m + 1, i <= j
      PROVE  work2[i] <= work2[j]
  <2>1. CASE j <= m
    BY <1>2, <1>4, <1>7, <2>1
  <2>2. CASE j = m + 1
    <3>1. work2[j] = Total[r] /\ work2[i] \in 0 .. Total[r]
      BY <1>2, <1>5, <1>6, <2>2
    <3> QED BY <1>3, <3>1
  <2> QED BY <1>2, <2>1, <2>2
<1>8. ASSUME NEW i \in 1 .. m + 1
      PROVE  /\ work2[i] = work2[i - 1] + al[ord2[i]][r]
             /\ nd2[ord2[i]][r] <= work2[i - 1]
  <2>1. CASE i = m + 1
    <3>1. work2[i] = Total[r] /\ work2[i - 1] = Total[r] /\ ord2[i] = p
      <4>1. i - 1 = m /\ i \in 1 .. N /\ m \in 0 .. m + 1 /\ ~(i <= m)
        BY <1>2, <2>1
      <4> QED BY <1>4, <2>1, <4>1 DEF OrderWith
    <3> HIDE DEF work2, ord2, nd2, p
    <3> QED BY <1>3, <3>1
  <2>2. CASE i \in 1 .. m
    <3>1. /\ i \in 1 .. N /\ i # m + 1 /\ i # k /\ i <= m /\ i - 1 <= m
          /\ i - 1 \in 0 .. m + 1 /\ k \in 1 .. N
      BY <1>2, <2>2
    <3>2. ord2[i] = ord[i] /\ ord[i] # p /\ ord[i] \in Pids
      BY <1>2, <3>1 DEF OrderWith
    <3>3. nd2[ord[i]] = nd[ord[i]] /\ work2[i] = work[i] /\ work2[i - 1] = work[i - 1]
      BY <3>1, <3>2
    <3>4. work[i] = work[i - 1] + al[ord[i]][r] /\ nd[ord[i]][r] <= work[i - 1]
      BY <1>1, <2>2 DEF IsWork
    <3> HIDE DEF work2, ord2, nd2
    <3> QED BY <3>2, <3>3, <3>4
  <2> QED BY <1>2, <2>1, <2>2
<1>9. IsWork(work2, ord2, m + 1, r, av, al, nd2)
  <2> HIDE DEF work2, ord2, nd2
  <2> QED BY <1>5, <1>6, <1>7, <1>8 DEF IsWork
<1> QED BY <1>9, SufficesIff

-----------------------------------------------------------------------------

LEMMA OrdersExist ==
    ASSUME N \in Nat
    PROVE  [i \in 1 .. N |-> i - 1] \in Orders
<1> DEFINE ord == [i \in 1 .. N |-> i - 1]
<1>1. ord \in [1 .. N -> Pids] /\ \A i, j \in 1 .. N : ord[i] = ord[j] => i = j
  BY DEF Pids
<1>2. \A p \in Pids : p + 1 \in 1 .. N /\ ord[p + 1] = p
  BY DEF Pids
<1> QED BY <1>1, <1>2 DEF Orders

LEMMA InitIInv ==
    ASSUME SafeAllocatorAssumption
    PROVE  Init => IInv
<1> USE DEF SafeAllocatorAssumption
<1> SUFFICES ASSUME Init PROVE IInv
  OBVIOUS
<1>1. TypeOK /\ DeadHoldNothing
  BY DEF Init, TypeOK, DeadHoldNothing, Zero
<1>2. Safe
  <2> DEFINE ord == [i \in 1 .. N |-> i - 1]
  <2>1. ord \in Orders
    BY OrdersExist
  <2>2. live = {ord[i] : i \in 1 .. 0}
    BY DEF Init
  <2>3. ASSUME NEW r \in Resources
        PROVE  Suffices(ord, 0, r, available, allocation, need)
    <3> DEFINE work == [i \in 0 .. 0 |-> Total[r]]
    <3>1. Total[r] \in Nat /\ available[r] = Total[r]
      BY DEF Init
    <3>2. IsWork(work, ord, 0, r, available, allocation, need)
      BY <3>1 DEF IsWork
    <3> QED BY <3>2, SufficesIff
  <2> HIDE DEF ord
  <2> QED BY <2>1, <2>2, <2>3 DEF Safe, SafeFor
<1> QED BY <1>1, <1>2 DEF IInv

LEMMA CreateKeepsIInv ==
    ASSUME SafeAllocatorAssumption,
           IInv, NEW p \in Pids, NEW d \in Demands, Create(p, d)
    PROVE  IInv'
<1> USE DEF SafeAllocatorAssumption
<1>1. TypeOK' /\ DeadHoldNothing'
  BY DEF IInv, TypeOK, DeadHoldNothing, Create
<1>2. PICK ord \in Orders, m \in 0 .. N :
          /\ live = {ord[i] : i \in 1 .. m}
          /\ \A r \in Resources : Suffices(ord, m, r, available, allocation, need)
  BY DEF IInv, Safe, SafeFor
<1>3. PICK k \in 1 .. N : ord[k] = p
  BY DEF Orders
<1>4. k \in m + 1 .. N /\ m + 1 \in 0 .. N
  <2>1. ~(k \in 1 .. m)
    BY <1>2, <1>3 DEF Create
  <2> QED BY <2>1
<1>5. /\ OrderWith(ord, m, k) \in Orders
      /\ live' = {OrderWith(ord, m, k)[i] : i \in 1 .. m + 1}
  <2>1. live' = {ord[i] : i \in 1 .. m} \cup {ord[k]}
    BY <1>2, <1>3 DEF Create
  <2> QED BY <1>4, <2>1, OrderWithIsOrder
<1>6. ASSUME NEW r \in Resources
      PROVE  Suffices(OrderWith(ord, m, k), m + 1, r, available', allocation', need')
  <2>1. allocation[ord[k]] = Zero
    BY <1>3 DEF IInv, DeadHoldNothing, Create
  <2>2. /\ available \in [Resources -> Nat]
        /\ allocation \in [Pids -> [Resources -> Nat]]
        /\ need \in [Pids -> [Resources -> Nat]]
    BY DEF IInv, TypeOK
  <2>3. /\ available' = available /\ allocation' = allocation
        /\ need' = [need EXCEPT ![ord[k]] = d]
    BY <1>3 DEF Create
  <2>4. Suffices(OrderWith(ord, m, k), m + 1, r, available, allocation,
                 [need EXCEPT ![ord[k]] = d])
    BY <1>2, <1>4, <2>1, <2>2, CreateWork
  <2> QED BY <2>3, <2>4
<1>7. Safe'
  BY <1>4, <1>5, <1>6 DEF Safe, SafeFor
<1> QED BY <1>1, <1>7 DEF IInv

LEMMA EndKeepsIInv ==
    ASSUME SafeAllocatorAssumption,
           IInv, NEW p \in Pids, End(p)
    PROVE  IInv'
<1> USE DEF SafeAllocatorAssumption
<1>1. TypeOK' /\ DeadHoldNothing'
  BY DEF IInv, TypeOK, DeadHoldNothing, End, Zero
<1>2. PICK ord \in Orders, m \in 0 .. N :
          /\ live = {ord[i] : i \in 1 .. m}
          /\ \A r \in Resources : Suffices(ord, m, r, available, allocation, need)
  BY DEF IInv, Safe, SafeFor
<1>3. PICK k \in 1 .. m : ord[k] = p
  BY <1>2 DEF End
<1>4. m - 1 \in 0 .. N
  BY <1>3
<1>5. /\ OrderWithout(ord, m, k) \in Orders
      /\ live' = {OrderWithout(ord, m, k)[i] : i \in 1 .. m - 1}
  <2>1. live' = {ord[i] : i \in 1 .. m} \ {ord[k]}
    BY <1>2, <1>3 DEF End
  <2> QED BY <2>1, OrderWithoutIsOrder
<1>6. ASSUME NEW r \in Resources
      PROVE  Suffices(OrderWithout(ord, m, k), m - 1, r, available', allocation', need')
  <2>1. /\ available \in [Resources -> Nat]
        /\ allocation \in [Pids -> [Resources -> Nat]]
        /\ need \in [Pids -> [Resources -> Nat]]
    BY DEF IInv, TypeOK
  <2>2. /\ available' = [s \in Resources |-> available[s] + allocation[ord[k]][s]]
        /\ allocation' = [allocation EXCEPT ![ord[k]] = Zero]
        /\ need' = need
    BY <1>3 DEF End
  <2>3. Suffices(OrderWithout(ord, m, k), m - 1, r,
                 [s \in Resources |-> available[s] + allocation[ord[k]][s]],
                 [allocation EXCEPT ![ord[k]] = Zero], need)
    BY <1>2, <2>1, EndWork
  <2> QED BY <2>2, <2>3
<1>7. Safe'
  BY <1>4, <1>5, <1>6 DEF Safe, SafeFor
<1> QED BY <1>1, <1>7 DEF IInv

LEMMA PortionsAreVectors ==
    ASSUME SafeAllocatorAssumption
    PROVE  Portions \subseteq [Resources -> Nat]
BY DEF Portions, SafeAllocatorAssumption

LEMMA GrantKeepsIInv ==
    ASSUME SafeAllocatorAssumption,
           IInv, NEW p \in Pids, NEW v \in Portions, Grant(p, v)
    PROVE  IInv'
<1>1. /\ \A r \in Resources : v[r] \in Nat /\ v[r] <= need[p][r] /\ v[r] <= available[r]
      /\ available \in [Resources -> Nat]
      /\ allocation \in [Pids -> [Resources -> Nat]]
      /\ need \in [Pids -> [Resources -> Nat]]
  BY PortionsAreVectors DEF IInv, TypeOK, Grant
<1>2. TypeOK'
  <2>1. available' \in [Resources -> Nat]
    BY <1>1 DEF Grant
  <2>2. allocation' \in [Pids -> [Resources -> Nat]]
    BY <1>1 DEF Grant
  <2>3. need' \in [Pids -> [Resources -> Nat]]
    <3>1. [r \in Resources |-> need[p][r] - v[r]] \in [Resources -> Nat]
      BY <1>1
    <3> QED BY <1>1, <3>1 DEF Grant
  <2> QED BY <2>1, <2>2, <2>3 DEF IInv, TypeOK, Grant
<1>3. DeadHoldNothing'
  BY <1>1 DEF IInv, DeadHoldNothing, Grant
<1>4. Safe'
  BY DEF Grant, Safe
<1> QED BY <1>2, <1>3, <1>4 DEF IInv

LEMMA GiveBackKeepsIInv ==
    ASSUME SafeAllocatorAssumption,
           IInv, NEW p \in Pids, NEW v \in Portions, GiveBack(p, v)
    PROVE  IInv'
<1> USE DEF SafeAllocatorAssumption
<1>1. /\ v \in [Resources -> Nat]
      /\ \A r \in Resources : v[r] \in Nat /\ v[r] <= allocation[p][r]
      /\ available \in [Resources -> Nat]
      /\ allocation \in [Pids -> [Resources -> Nat]]
      /\ need \in [Pids -> [Resources -> Nat]]
  BY PortionsAreVectors DEF IInv, TypeOK, GiveBack
<1>2. TypeOK'
  <2>1. available' \in [Resources -> Nat]
    BY <1>1 DEF GiveBack
  <2>2. allocation' \in [Pids -> [Resources -> Nat]]
    <3>1. [r \in Resources |-> allocation[p][r] - v[r]] \in [Resources -> Nat]
      BY <1>1
    <3> QED BY <1>1, <3>1 DEF GiveBack
  <2>3. need' \in [Pids -> [Resources -> Nat]]
    BY <1>1 DEF GiveBack
  <2> QED BY <2>1, <2>2, <2>3 DEF IInv, TypeOK, GiveBack
<1>3. DeadHoldNothing'
  BY <1>1 DEF IInv, DeadHoldNothing, GiveBack
<1>4. PICK ord \in Orders, m \in 0 .. N :
          /\ live = {ord[i] : i \in 1 .. m}
          /\ \A r \in Resources : Suffices(ord, m, r, available, allocation, need)
  BY DEF IInv, Safe, SafeFor
<1>5. ASSUME NEW r \in Resources
      PROVE  Suffices(ord, m, r, available', allocation', need')
  <2>1. p \in {ord[i] : i \in 1 .. m}
    BY <1>4 DEF GiveBack
  <2>2. v[r] <= allocation[p][r] /\ Suffices(ord, m, r, available, allocation, need)
    BY <1>1, <1>4
  <2>3. /\ available' = Freed(available, v)
        /\ allocation' = HeldLess(allocation, p, v)
        /\ need' = NeedMore(need, p, v)
    BY DEF GiveBack, Freed, HeldLess, NeedMore
  <2>4. Suffices(ord, m, r, Freed(available, v), HeldLess(allocation, p, v),
                 NeedMore(need, p, v))
    BY <1>1, <2>1, <2>2, GiveBackWork
  <2> QED BY <2>3, <2>4
<1>6. Safe'
  <2>1. live' = {ord[i] : i \in 1 .. m}
    BY <1>4 DEF GiveBack
  <2> QED BY <1>5, <2>1 DEF Safe, SafeFor
<1> QED BY <1>2, <1>3, <1>6 DEF IInv

LEMMA NextIInv ==
    ASSUME SafeAllocatorAssumption
    PROVE  IInv /\ [Next]_vars => IInv'
<1> SUFFICES ASSUME IInv, [Next]_vars PROVE IInv'
  OBVIOUS
<1>1. ASSUME NEW p \in Pids, NEW d \in Demands, Create(p, d) PROVE IInv'
  BY <1>1, CreateKeepsIInv
<1>2. ASSUME NEW p \in Pids, End(p) PROVE IInv'
  BY <1>2, EndKeepsIInv
<1>3. ASSUME NEW p \in Pids, NEW v \in Portions, Grant(p, v) PROVE IInv'
  BY <1>3, GrantKeepsIInv
<1>4. ASSUME NEW p \in Pids, NEW v \in Portions, GiveBack(p, v) PROVE IInv'
  BY <1>4, GiveBackKeepsIInv
<1>5. CASE UNCHANGED vars
  BY <1>5 DEF vars, IInv, TypeOK, DeadHoldNothing, Safe
<1> QED BY <1>1, <1>2, <1>3, <1>4, <1>5 DEF Next

\* Whatever sequence of creations, ends, grants and returns happens, the state stays
\* safe: request_resources() has only its own step to check, and neither
\* task_create(), task_terminate() nor release_resources() can undo safety.
THEOREM AlwaysSafe ==
    ASSUME SafeAllocatorAssumption
    PROVE  Spec => []Safe
<1>1. IInv => Safe
  BY DEF IInv
<1>2. Init => IInv
  BY InitIInv
<1>3. IInv /\ [Next]_vars => IInv'
  BY NextIInv
<1> QED BY <1>1, <1>2, <1>3, PTL DEF Spec

\* Deadlock is avoided: at all times some live task can be given all it still needs.
THEOREM DeadlockAvoided ==
    ASSUME SafeAllocatorAssumption
    PROVE  Spec => []SomeoneCanFinish
<1> USE DEF SafeAllocatorAssumption
<1>1. IInv => SomeoneCanFinish
  <2> SUFFICES ASSUME IInv, live # {}
               PROVE  \E p \in live : \A r \in Resources : need[p][r] <= available[r]
    BY DEF SomeoneCanFinish
  <2>1. PICK ord \in Orders, m \in 0 .. N :
            /\ live = {ord[i] : i \in 1 .. m}
            /\ \A r \in Resources : Suffices(ord, m, r, available, allocation, need)
    BY DEF IInv, Safe, SafeFor
  <2>2. 1 \in 1 .. m /\ ord[1] \in live
    <3>1. PICK i \in 1 .. m : TRUE
      BY <2>1
    <3>2. 1 \in 1 .. m
      BY <3>1
    <3> QED BY <2>1, <3>2
  <2>3. ASSUME NEW r \in Resources PROVE need[ord[1]][r] <= available[r]
    <3>1. PICK work : IsWork(work, ord, m, r, available, allocation, need)
      BY <2>1, SufficesIff
    <3>2. need[ord[1]][r] <= work[1 - 1] /\ work[0] = available[r]
      BY <2>2, <3>1 DEF IsWork
    <3> QED BY <3>2
  <2> QED BY <2>2, <2>3
<1>2. Init => IInv
  BY InitIInv
<1>3. IInv /\ [Next]_vars => IInv'
  BY NextIInv
<1> QED BY <1>1, <1>2, <1>3, PTL DEF Spec
=============================================================================

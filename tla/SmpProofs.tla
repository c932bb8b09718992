------------------------------ MODULE SmpProofs ------------------------------
(***************************************************************************)
(* The two clients of the spinlock, for any number of CPUs: the lock keeps *)
(* their calls apart.  The page allocator, for any number of pages and     *)
(* pids: a search that returns NULL has seen every page in use, and the    *)
(* calls take effect one at a time.  The disk scheduler, for any tracks    *)
(* and any length of the queue: a pass overlooks no request.               *)
(***************************************************************************)
EXTENDS PageAllocator, DiskScheduler, FiniteSetTheorems, SequenceTheorems, WellFoundedInduction, TLAPS

-----------------------------------------------------------------------------
(* The page allocator. *)


Labels == {"idle", "acquire", "spin", "search", "take", "check", "clear", "release"}

Typed ==
    /\ locked \in BOOLEAN
    /\ pc \in [CPUs -> Labels]
    /\ allocated \subseteq Pages
    /\ owner_pid \in [Pages -> Pids]
    /\ last_page_index \in Pages
    /\ call \in [CPUs -> [pid : Pids, page : 0 .. TOTAL_PAGES, i : -1 .. TOTAL_PAGES]]

\* The pages a search has passed over.
Passed(c) == {(last_page_index + k) % TOTAL_PAGES : k \in 0 .. call[c].i - 1}

\* What a CPU has read under the lock is still so.
KnownOf(c) ==
    /\ pc[c] \in Outside => call[c].i \in {-1, 0}
    /\ pc[c] \in {"search", "take"} => call[c].i >= 0 /\ Passed(c) \subseteq allocated
    /\ pc[c] = "take" => call[c].i < TOTAL_PAGES /\ Candidate(c) \notin allocated
    /\ pc[c] = "clear" => MayFree(c)

PInv == Typed /\ OneHolder /\ \A c \in CPUs : KnownOf(c)

-----------------------------------------------------------------------------

\* The remainder on the turns a search can make.
LEMMA ModOnce == \A n \in Nat \ {0} : \A x \in 0 .. n - 1 : x % n = x
  OBVIOUS

LEMMA ModTwice == \A n \in Nat \ {0} : \A x \in n .. 2 * n - 1 : x % n = x - n
  OBVIOUS

LEMMA ModBelow == \A n \in Nat \ {0} : \A x \in -n .. -1 : x % n = x + n
  OBVIOUS

LEMMA ModRange == \A n \in Nat \ {0} : \A x \in Int : x % n \in 0 .. n - 1
  OBVIOUS

\* A page is reached again by its distance from where a search starts.
LEMMA Reached ==
    ASSUME NEW n \in Nat \ {0}, NEW from \in 0 .. n - 1, NEW page \in 0 .. n - 1
    PROVE  /\ (page - from) % n \in 0 .. n - 1
           /\ (from + ((page - from) % n)) % n = page
  <1>1. CASE page >= from
    <2>1. page - from \in 0 .. n - 1
      BY <1>1
    <2>2. (page - from) % n = page - from
      BY <2>1, ModOnce
    <2>3. from + (page - from) = page
      OBVIOUS
    <2>4. page % n = page
      OBVIOUS
    <2> QED BY <2>1, <2>2, <2>3, <2>4
  <1>2. CASE page < from
    <2>1. page - from \in -n .. -1
      BY <1>2
    <2>2. (page - from) % n = page - from + n
      BY <2>1, ModBelow
    <2>3. page + n \in n .. 2 * n - 1 /\ from + (page - from + n) = page + n
      OBVIOUS
    <2>4. (page + n) % n = page
      BY <2>3
    <2>5. page - from + n \in 0 .. n - 1
      BY <1>2
    <2> QED BY <2>2, <2>3, <2>4, <2>5
  <1> QED BY <1>1, <1>2

\* The distance of the page that lies i pages on.
LEMMA Distanced ==
    ASSUME NEW n \in Nat \ {0}, NEW from \in 0 .. n - 1, NEW i \in 0 .. n - 1
    PROVE  (((from + i) % n) - from) % n = i
  <1>1. CASE from + i < n
    <2>1. from + i \in 0 .. n - 1
      BY <1>1
    <2>2. (from + i) % n = from + i /\ from + i - from = i
      BY <2>1, ModOnce
    <2>3. i % n = i
      OBVIOUS
    <2> QED BY <2>2, <2>3
  <1>2. CASE from + i >= n
    <2>1. from + i \in n .. 2 * n - 1
      BY <1>2
    <2>2. (from + i) % n = from + i - n /\ from + i - n - from = i - n
      BY <2>1, ModTwice
    <2>3. i - n \in -n .. -1 /\ i - n + n = i
      OBVIOUS
    <2>4. (i - n) % n = i
      BY <2>3
    <2> QED BY <2>2, <2>4
  <1> QED BY <1>1, <1>2

LEMMA CandidateIsPage ==
    ASSUME PageAssumption, Typed, NEW c \in CPUs, call[c].i \in 0 .. TOTAL_PAGES - 1
    PROVE  Candidate(c) \in Pages
  <1>1. last_page_index + call[c].i \in Int /\ TOTAL_PAGES \in Nat \ {0}
    BY DEF PageAssumption, Typed, Pages
  <1> QED BY <1>1, ModRange DEF Candidate, Pages

\* The distance of a page from last_page_index, and back.
LEMMA PageReached ==
    ASSUME PageAssumption, Typed, NEW page \in Pages
    PROVE  /\ (page - last_page_index) % TOTAL_PAGES \in 0 .. TOTAL_PAGES - 1
           /\ (last_page_index + ((page - last_page_index) % TOTAL_PAGES)) % TOTAL_PAGES = page
  <1>1. TOTAL_PAGES \in Nat \ {0} /\ last_page_index \in 0 .. TOTAL_PAGES - 1 /\ page \in 0 .. TOTAL_PAGES - 1
    BY DEF PageAssumption, Typed, Pages
  <1> QED BY <1>1, Reached

-----------------------------------------------------------------------------

LEMMA NoCallTyped ==
    ASSUME PageAssumption
    PROVE  NoCall \in [pid : Pids, page : 0 .. TOTAL_PAGES, i : -1 .. TOTAL_PAGES]
  BY DEF NoCall, PageAssumption

LEMMA InitInv == ASSUME PageAssumption PROVE SpinInit /\ PageInit => PInv
  <1> SUFFICES ASSUME SpinInit, PageInit PROVE PInv
    OBVIOUS
  <1>1. Typed
    <2>1. 0 \in Pages
      BY DEF PageAssumption, Pages
    <2>2. call \in [CPUs -> [pid : Pids, page : 0 .. TOTAL_PAGES, i : -1 .. TOTAL_PAGES]]
      BY NoCallTyped DEF PageInit
    <2>3. owner_pid \in [Pages -> Pids]
      BY DEF PageInit, PageAssumption
    <2> QED BY <2>1, <2>2, <2>3 DEF SpinInit, PageInit, Typed, Labels
  <1>2. OneHolder
    BY DEF SpinInit, OneHolder, Outside
  <1>3. ASSUME NEW c \in CPUs PROVE KnownOf(c)
    BY <1>3 DEF SpinInit, PageInit, NoCall, KnownOf, Outside
  <1> QED BY <1>1, <1>2, <1>3 DEF PInv

LEMMA StepKeeps ==
    ASSUME PageAssumption, PInv, [PageNext]_vars
    PROVE  PInv'
  <1> USE PageAssumption
  <1>0. Typed /\ OneHolder /\ \A d \in CPUs : KnownOf(d)
    BY DEF PInv
  <1>1. CASE UNCHANGED vars
    BY <1>0, <1>1 DEF PInv, vars, pageVars, Typed, OneHolder, KnownOf, Passed, Candidate, MayFree
  <1>2. ASSUME NEW c \in CPUs, NEW pid \in Pids, CallAllocate(c, pid)
        PROVE  PInv'
    <2>1. Typed'
      BY <1>0, <1>2 DEF CallAllocate, Typed, At, Go, NoCall, Labels
    <2>2. OneHolder'
      BY <1>0, <1>2 DEF CallAllocate, Typed, OneHolder, At, Go, Outside
    <2>3. ASSUME NEW d \in CPUs PROVE KnownOf(d)'
      BY <1>0, <1>2, <2>3 DEF CallAllocate, Typed, KnownOf, Passed, Candidate, MayFree, At, Go, NoCall, Outside
    <2> QED BY <2>1, <2>2, <2>3 DEF PInv
  <1>3. ASSUME NEW c \in CPUs, NEW pid \in Pids, NEW page \in 0 .. TOTAL_PAGES, CallFree(c, pid, page)
        PROVE  PInv'
    <2>1. Typed'
      <3>1. -1 \in -1 .. TOTAL_PAGES
        BY DEF PageAssumption
      <3>2. [pid |-> pid, page |-> page, i |-> -1]
              \in [pid : Pids, page : 0 .. TOTAL_PAGES, i : -1 .. TOTAL_PAGES]
        BY <3>1
      <3> QED BY <1>0, <1>3, <3>2 DEF CallFree, Typed, At, Go, Labels
    <2>2. OneHolder'
      BY <1>0, <1>3 DEF CallFree, Typed, OneHolder, At, Go, Outside
    <2>3. ASSUME NEW d \in CPUs PROVE KnownOf(d)'
      BY <1>0, <1>3, <2>3 DEF CallFree, Typed, KnownOf, Passed, Candidate, MayFree, At, Go, NoCall, Outside
    <2> QED BY <2>1, <2>2, <2>3 DEF PInv
  <1>4. ASSUME NEW c \in CPUs, Acquire(c) PROVE PInv'
    <2>1. Typed'
      BY <1>0, <1>4 DEF Acquire, TestAndSet, pageVars, Typed, At, Go, Labels
    <2>2. OneHolder'
      BY <1>0, <1>4 DEF Acquire, TestAndSet, Typed, OneHolder, At, Go, Outside
    <2>3. ASSUME NEW d \in CPUs PROVE KnownOf(d)'
      BY <1>0, <1>4, <2>3 DEF Acquire, TestAndSet, Frees, pageVars, Typed, KnownOf, Passed, Candidate, MayFree,
                              At, Go, Outside
    <2> QED BY <2>1, <2>2, <2>3 DEF PInv
  <1>5. ASSUME NEW c \in CPUs, Spin(c) PROVE PInv'
    <2>1. Typed'
      BY <1>0, <1>5 DEF Spin, SpinRead, pageVars, Typed, At, Go, Labels
    <2>2. OneHolder'
      BY <1>0, <1>5 DEF Spin, SpinRead, Typed, OneHolder, At, Go, Outside
    <2>3. ASSUME NEW d \in CPUs PROVE KnownOf(d)'
      BY <1>0, <1>5, <2>3 DEF Spin, SpinRead, pageVars, Typed, KnownOf, Passed, Candidate, MayFree, At, Go, Outside
    <2> QED BY <2>1, <2>2, <2>3 DEF PInv
  \* Inside the lock the other CPUs know nothing that could change.
  <1>6. ASSUME NEW c \in CPUs, pc[c] \notin Outside, NEW d \in CPUs, d # c PROVE pc[d] \in Outside
    BY <1>0, <1>6 DEF OneHolder
  <1>7. ASSUME NEW c \in CPUs, Search(c) PROVE PInv'
    <2>1. call[c].i \in 0 .. TOTAL_PAGES - 1 /\ Passed(c) \subseteq allocated /\ Candidate(c) \in Pages
      BY <1>0, <1>7, CandidateIsPage DEF Search, Typed, KnownOf, At, PageAssumption
    <2>2. Typed'
      BY <1>0, <1>7, <2>1 DEF Search, Typed, At, Go, Labels
    <2>3. OneHolder'
      BY <1>0, <1>7 DEF Search, Typed, OneHolder, At, Go, Outside
    <2>4. ASSUME NEW d \in CPUs, d # c PROVE KnownOf(d)'
      BY <1>0, <1>7, <1>6, <2>4 DEF Search, Typed, KnownOf, At, Go, Outside
    <2>5. KnownOf(c)'
      <3>1. CASE Candidate(c) \in allocated
        <4>1. Passed(c)' = Passed(c) \cup {Candidate(c)}
          BY <1>0, <1>7, <2>1, <3>1 DEF Search, Typed, Passed, Candidate, PageAssumption
        <4> QED BY <1>0, <1>7, <2>1, <3>1, <4>1 DEF Search, Typed, KnownOf, At, Outside
      <3>2. CASE Candidate(c) \notin allocated
        BY <1>0, <1>7, <2>1, <3>2 DEF Search, Typed, KnownOf, Passed, Candidate, At, Go, Outside
      <3> QED BY <3>1, <3>2
    <2> QED BY <2>2, <2>3, <2>4, <2>5 DEF PInv
  <1>8. ASSUME NEW c \in CPUs, Take(c) PROVE PInv'
    <2>1. call[c].i \in 0 .. TOTAL_PAGES - 1 /\ Candidate(c) \in Pages
      BY <1>0, <1>8, CandidateIsPage DEF Take, Typed, KnownOf, At, PageAssumption
    <2>2. (Candidate(c) + 1) % TOTAL_PAGES \in Pages
      <3>1. Candidate(c) + 1 \in Int /\ TOTAL_PAGES \in Nat \ {0}
        BY <2>1 DEF Pages, PageAssumption
      <3> QED BY <3>1, ModRange DEF Pages
    <2>3. Typed'
      BY <1>0, <1>8, <2>1, <2>2 DEF Take, Typed, At, Go, Labels
    <2>4. OneHolder'
      BY <1>0, <1>8 DEF Take, Typed, OneHolder, At, Go, Outside
    <2>5. ASSUME NEW d \in CPUs PROVE KnownOf(d)'
      BY <1>0, <1>8, <1>6, <2>5 DEF Take, Typed, KnownOf, At, Go, Outside
    <2> QED BY <2>3, <2>4, <2>5 DEF PInv
  <1>9. ASSUME NEW c \in CPUs, NotFound(c) PROVE PInv'
    <2>1. Typed'
      BY <1>0, <1>9 DEF NotFound, pageVars, Typed, At, Go, Labels
    <2>2. OneHolder'
      BY <1>0, <1>9 DEF NotFound, Typed, OneHolder, At, Go, Outside
    <2>3. ASSUME NEW d \in CPUs PROVE KnownOf(d)'
      BY <1>0, <1>9, <1>6, <2>3 DEF NotFound, pageVars, Typed, KnownOf, At, Go, Outside
    <2> QED BY <2>1, <2>2, <2>3 DEF PInv
  <1>10. ASSUME NEW c \in CPUs, Check(c) PROVE PInv'
    <2>1. Typed'
      BY <1>0, <1>10 DEF Check, pageVars, Typed, At, Go, Labels
    <2>2. OneHolder'
      BY <1>0, <1>10 DEF Check, Typed, OneHolder, At, Go, Outside
    <2>3. ASSUME NEW d \in CPUs PROVE KnownOf(d)'
      BY <1>0, <1>10, <1>6, <2>3 DEF Check, pageVars, Typed, KnownOf, MayFree, At, Go, Outside
    <2> QED BY <2>1, <2>2, <2>3 DEF PInv
  <1>11. ASSUME NEW c \in CPUs, Clear(c) PROVE PInv'
    <2>1. Typed'
      BY <1>0, <1>11 DEF Clear, Typed, At, Go, Labels, PageAssumption
    <2>2. OneHolder'
      BY <1>0, <1>11 DEF Clear, Typed, OneHolder, At, Go, Outside
    <2>3. ASSUME NEW d \in CPUs PROVE KnownOf(d)'
      BY <1>0, <1>11, <1>6, <2>3 DEF Clear, Typed, KnownOf, At, Go, Outside
    <2> QED BY <2>1, <2>2, <2>3 DEF PInv
  <1>12. ASSUME NEW c \in CPUs, Return(c) PROVE PInv'
    <2>1. Typed'
      BY <1>0, <1>12, NoCallTyped DEF Return, Release, Typed, At, Go, Labels
    <2>2. OneHolder'
      BY <1>0, <1>12 DEF Return, Release, Typed, OneHolder, At, Go, Outside
    <2>3. ASSUME NEW d \in CPUs PROVE KnownOf(d)'
      BY <1>0, <1>12, <1>6, <2>3 DEF Return, Release, Typed, KnownOf, At, Go, Outside, NoCall
    <2> QED BY <2>1, <2>2, <2>3 DEF PInv
  <1> QED
    BY <1>1, <1>2, <1>3, <1>4, <1>5, <1>7, <1>8, <1>9, <1>10, <1>11, <1>12 DEF PageNext, CpuStep

LEMMA InvHolds == ASSUME PageAssumption PROVE PageSpec => []PInv
  BY InitInv, StepKeeps, PTL DEF PageSpec

-----------------------------------------------------------------------------

\* At most one CPU is between the exchange that took mem_lock and its release, and the
\* flag is set exactly while one is (sync.c:8-20, around every call of the allocator).
THEOREM LockExcludes == ASSUME PageAssumption PROVE PageSpec => []OneHolder
  <1>1. PInv => OneHolder
    BY DEF PInv
  <1> QED BY <1>1, InvHolds, PTL

\* allocate_process_memory() returns NULL only when no page is free: the search around
\* the table from last_page_index sees every page, and none is freed behind it.
THEOREM FullWhenNull == ASSUME PageAssumption PROVE PageSpec => []NullMeansFull
  <1>1. PInv => NullMeansFull
    <2> SUFFICES ASSUME PInv, NEW c \in CPUs, At(c, "search"), call[c].i = TOTAL_PAGES,
                        NEW page \in Pages
                 PROVE  page \in allocated
      BY DEF NullMeansFull, PInv, Typed
    <2> DEFINE k == (page - last_page_index) % TOTAL_PAGES
    <2>1. k \in 0 .. call[c].i - 1 /\ (last_page_index + k) % TOTAL_PAGES = page
      BY PageReached DEF PInv
    <2>2. page \in Passed(c)
      BY <2>1 DEF Passed
    <2> QED BY <2>2 DEF PInv, KnownOf, At
  <1> QED BY <1>1, InvHolds, PTL

-----------------------------------------------------------------------------

LEMMA PoolInit == ASSUME PageAssumption PROVE SpinInit /\ PageInit => Pool!Init
  BY DEF PageInit, Pool!Init

LEMMA PoolStep ==
    ASSUME PageAssumption, PInv, [PageNext]_vars
    PROVE  [Pool!Next]_(Pool!vars)
  <1> USE PageAssumption DEF Pool!vars
  <1>0. Typed /\ \A d \in CPUs : KnownOf(d)
    BY DEF PInv
  \* Only taking a page and clearing one touch the pool.
  <1>1. CASE UNCHANGED <<allocated, owner_pid, last_page_index>>
    BY <1>1
  <1>2. ASSUME NEW c \in CPUs, Take(c) PROVE Pool!Next
    <2>0. PICK p, who : p = Candidate(c) /\ who = call[c].pid
      OBVIOUS
    <2>1. /\ call[c].i \in 0 .. TOTAL_PAGES - 1 /\ p \in Pages /\ p \notin allocated
          /\ Passed(c) \subseteq allocated /\ who \in Pids
      BY <1>0, <1>2, <2>0, CandidateIsPage DEF Take, Typed, KnownOf, At, PageAssumption
    <2>2. ASSUME NEW q \in Pool!Free PROVE Pool!Distance(p) <= Pool!Distance(q)
      <3> DEFINE k == (q - last_page_index) % TOTAL_PAGES
      <3>1. q \in Pages /\ q \notin allocated
        BY <2>2 DEF Pool!Free, Pool!Pages, Pages
      <3>2. k \in 0 .. TOTAL_PAGES - 1 /\ (last_page_index + k) % TOTAL_PAGES = q
        BY <1>0, <3>1, PageReached
      <3>3. ~(k < call[c].i)
        BY <2>1, <3>1, <3>2 DEF Passed
      <3>4. Pool!Distance(p) = call[c].i
        <4>1. TOTAL_PAGES \in Nat \ {0} /\ last_page_index \in 0 .. TOTAL_PAGES - 1
          BY <1>0 DEF Typed, Pages, PageAssumption
        <4> QED BY <2>0, <2>1, <4>1, Distanced DEF Pool!Distance, Candidate
      <3> QED BY <2>1, <3>2, <3>3, <3>4 DEF Pool!Distance, PageAssumption
    <2>3. Pool!Allocate(who, p)
      <3>1. p \in Pool!Free
        BY <2>1 DEF Pool!Free, Pool!Pages, Pages
      <3>2. allocated' = allocated \cup {p} /\ owner_pid' = [owner_pid EXCEPT ![p] = who]
            /\ last_page_index' = (p + 1) % TOTAL_PAGES
        BY <1>2, <2>0 DEF Take
      <3>3. [q \in allocated' |-> owner_pid'[q]]
              = [q \in allocated \cup {p} |-> IF q = p THEN who ELSE owner_pid[q]]
        BY <1>0, <2>1, <3>2 DEF Typed
      <3> QED BY <2>2, <3>1, <3>2, <3>3 DEF Pool!Allocate
    <2> QED BY <2>1, <2>3 DEF Pool!Next, Pool!Pages, Pages
  <1>3. ASSUME NEW c \in CPUs, Clear(c) PROVE Pool!Next
    <2>0. PICK p, who : p = call[c].page /\ who = call[c].pid
      OBVIOUS
    <2>1. /\ p \in Pages /\ p \in allocated /\ who \in Pids /\ owner_pid[p] \in {who, KERNEL}
      BY <1>0, <1>3, <2>0 DEF Clear, Typed, KnownOf, MayFree, At, Pages
    <2>2. allocated' = allocated \ {p} /\ owner_pid' = [owner_pid EXCEPT ![p] = KERNEL]
          /\ last_page_index' = last_page_index
      BY <1>3, <2>0 DEF Clear
    <2>3. [q \in allocated' |-> owner_pid'[q]] = [q \in allocated \ {p} |-> owner_pid[q]]
      BY <1>0, <2>1, <2>2 DEF Typed
    <2>4. Pool!GiveBack(who, p)
      BY <2>1, <2>2, <2>3 DEF Pool!GiveBack
    <2> QED BY <2>1, <2>4 DEF Pool!Next, Pool!Pages, Pages
  <1>4. \/ UNCHANGED <<allocated, owner_pid, last_page_index>>
        \/ \E c \in CPUs : Take(c) \/ Clear(c)
    BY DEF PageNext, CpuStep, vars, pageVars, CallAllocate, CallFree, Acquire, Spin, Search, NotFound, Check,
           Return
  <1> QED BY <1>1, <1>2, <1>3, <1>4

\* Under mem_lock every call of the allocator takes effect at one moment: a page is handed
\* out in turn from last_page_index, and taken back for its owner only or from the kernel.
THEOREM CallsAreAtomic == ASSUME PageAssumption PROVE PageSpec => PoolSpec
  BY PoolInit, PoolStep, InvHolds, PTL DEF PageSpec, PoolSpec, Pool!Spec

-----------------------------------------------------------------------------
(* The disk scheduler. *)

DiskLabels == {"idle", "acquire", "spin", "enqueue", "begin", "round", "release"}
Jobs == [serves : BOOLEAN, head : Int, completed : SUBSET Nat, count : Nat]

DiskTyped ==
    /\ locked \in BOOLEAN
    /\ pc \in [CPUs -> DiskLabels]
    /\ request_queue \in Seq(Int)
    /\ job \in [CPUs -> Jobs]

Waiting(c) == Requests \ job[c].completed

AllFar(c) == \A i \in Waiting(c) : Seek(c, i) >= FAR

\* Each iteration of a pass has served one request, until those left were out of reach.
PassOf(c) ==
    /\ pc[c] \in Outside \cup {"enqueue", "begin"} => job[c].completed = {} /\ job[c].count = 0
    /\ pc[c] = "round" => /\ job[c].completed \subseteq Requests
                          /\ Cardinality(job[c].completed) = job[c].count \/ AllFar(c)

DInv == DiskTyped /\ OneHolder /\ \A c \in CPUs : PassOf(c)

Less == {p \in Nat \X Nat : p[1] < p[2]}

LEMMA LeastNumber ==
    ASSUME NEW T, T \subseteq Nat, T # {}
    PROVE  \E x \in T : \A y \in T : x <= y
<1>1. IsWellFoundedOn(Less, Nat)
  <2>1. OpToRel(<, Nat) = Less
    BY DEF OpToRel, Less
  <2> QED BY <2>1, NatLessThanWellFounded
<1>2. PICK x \in T : \A y \in T : ~(<<y, x>> \in Less)
  BY <1>1, WFMin
<1>3. \A y \in T : <<y, x>> \in Nat \X Nat /\ x \in Nat /\ y \in Nat
  OBVIOUS
<1>4. \A y \in T : ~(y < x)
  BY <1>2, <1>3 DEF Less
<1> QED BY <1>3, <1>4

LEMMA NoJobTyped == NoJob \in Jobs
BY DEF NoJob, Jobs

LEMMA RequestsFinite ==
    ASSUME DiskTyped
    PROVE  /\ Len(request_queue) \in Nat /\ Requests \subseteq Nat
           /\ IsFiniteSet(Requests) /\ Cardinality(Requests) = Len(request_queue)
           /\ \A i \in Requests : request_queue[i] \in Int
<1>1. Len(request_queue) \in Nat /\ DOMAIN request_queue = 1 .. Len(request_queue)
  BY DEF DiskTyped
<1>2. IsFiniteSet(Requests) /\ Cardinality(Requests) = Len(request_queue)
  <2>1. PICK n \in Nat : n = Len(request_queue)
    BY <1>1
  <2>2. 1 \in Int /\ n \in Int
    BY <2>1
  <2>3. IsFiniteSet(1 .. n) /\ Cardinality(1 .. n) = IF 1 > n THEN 0 ELSE n - 1 + 1
    BY <2>2, FS_Interval
  <2> QED BY <2>1, <2>3 DEF Requests
<1>3. ASSUME NEW i \in Requests PROVE request_queue[i] \in Int
  <2>1. request_queue \in Seq(Int) /\ i \in 1 .. Len(request_queue)
    BY DEF DiskTyped, Requests
  <2> QED BY <2>1, ElementOfSeq
<1> QED BY <1>1, <1>2, <1>3 DEF Requests

LEMMA SeekTyped ==
    ASSUME DiskTyped, NEW c \in CPUs, NEW i \in Requests
    PROVE  Seek(c, i) \in Nat
<1>1. job[c].head \in Int /\ request_queue[i] \in Int
  BY RequestsFinite DEF DiskTyped, Jobs
<1> QED BY <1>1 DEF Seek, abs_diff

\* While one is in reach there is a next one.
LEMMA NextExists ==
    ASSUME DiskAssumption, DiskTyped, NEW c \in CPUs, ~ AllFar(c)
    PROVE  \E i \in Requests : NextRequest(c, i)
<1> DEFINE Reach == {j \in Waiting(c) : Seek(c, j) < FAR}
<1>1. Requests \subseteq Nat /\ \A i \in Requests : Seek(c, i) \in Nat
  BY RequestsFinite, SeekTyped
<1>2. Reach # {}
  BY <1>1 DEF AllFar, Waiting, DiskAssumption
<1>3. PICK d \in {Seek(c, j) : j \in Reach} : \A e \in {Seek(c, j) : j \in Reach} : d <= e
  <2>1. {Seek(c, j) : j \in Reach} \subseteq Nat /\ {Seek(c, j) : j \in Reach} # {}
    BY <1>1, <1>2 DEF Waiting
  <2> QED BY <2>1, LeastNumber
<1>4. PICK i \in {j \in Reach : Seek(c, j) = d} : \A k \in {j \in Reach : Seek(c, j) = d} : i <= k
  <2>1. {j \in Reach : Seek(c, j) = d} \subseteq Nat /\ {j \in Reach : Seek(c, j) = d} # {}
    BY <1>1, <1>3 DEF Waiting
  <2> QED BY <2>1, LeastNumber
<1>5. i \in Reach /\ Seek(c, i) = d
  BY <1>4
<1>6. ASSUME NEW j \in Reach
      PROVE  Seek(c, i) < Seek(c, j) \/ (Seek(c, i) = Seek(c, j) /\ i <= j)
  <2>1. d <= Seek(c, j) /\ Seek(c, j) \in Nat /\ d \in Nat
    BY <1>1, <1>3, <1>5 DEF Waiting
  <2>2. CASE Seek(c, j) = d
    BY <1>4, <1>5, <2>2
  <2> QED BY <1>5, <2>1, <2>2
<1> QED BY <1>5, <1>6 DEF NextRequest, Waiting

\* The head goes to the nearest: none lies on the way.
LEMMA NoneOnTheWay ==
    ASSUME DiskAssumption, DiskTyped, NEW c \in CPUs, NEW i \in Requests, NextRequest(c, i),
           NEW j \in Waiting(c)
    PROVE  /\ ~(job[c].head < request_queue[j] /\ request_queue[j] < request_queue[i])
           /\ ~(request_queue[i] < request_queue[j] /\ request_queue[j] < job[c].head)
<1>1. job[c].head \in Int /\ request_queue[i] \in Int /\ request_queue[j] \in Int
  BY RequestsFinite DEF DiskTyped, Jobs, Waiting
<1>2. Seek(c, i) < FAR /\ FAR \in Nat
  BY DEF NextRequest, DiskAssumption
<1>3. Seek(c, j) < FAR => Seek(c, i) <= Seek(c, j)
  <2>1. Seek(c, i) \in Nat /\ Seek(c, j) \in Nat
    BY SeekTyped DEF Waiting
  <2> QED BY <2>1 DEF NextRequest, Waiting
<1> QED BY <1>1, <1>2, <1>3 DEF Seek, abs_diff

-----------------------------------------------------------------------------

LEMMA DiskInitInv == DiskAssumption => (SpinInit /\ DiskInit => DInv)
<1> SUFFICES ASSUME DiskAssumption, SpinInit, DiskInit PROVE DInv
  OBVIOUS
<1>1. <<>> \in Seq(Int)
  OBVIOUS
<1>2. DiskTyped
  BY <1>1, NoJobTyped DEF SpinInit, DiskInit, DiskTyped, DiskLabels
<1>3. OneHolder
  BY DEF SpinInit, OneHolder, Outside
<1>4. ASSUME NEW c \in CPUs PROVE PassOf(c)
  BY <1>4 DEF SpinInit, DiskInit, NoJob, PassOf, Outside
<1> QED BY <1>2, <1>3, <1>4 DEF DInv

\* What another CPU knows is not touched by a step that leaves the queue alone.
LEMMA OthersKeep ==
    ASSUME NEW d \in CPUs, PassOf(d), pc'[d] = pc[d], job'[d] = job[d], request_queue' = request_queue
    PROVE  PassOf(d)'
BY DEF PassOf, AllFar, Waiting, Requests, Seek

LEMMA DiskStepKeeps ==
    ASSUME DiskAssumption, DInv, [DiskNext]_<<locked, pc, diskVars>>
    PROVE  DInv'
<1>0. DiskTyped /\ OneHolder /\ \A d \in CPUs : PassOf(d)
  BY DEF DInv
<1>1. CASE UNCHANGED <<locked, pc, diskVars>>
  <2>1. DiskTyped' /\ OneHolder'
    BY <1>0, <1>1 DEF diskVars, DiskTyped, OneHolder
  <2> QED BY <1>0, <1>1, <2>1, OthersKeep DEF diskVars, DInv
<1>2. ASSUME NEW c \in CPUs, NEW track \in Tracks, NEW serves \in BOOLEAN, CallDisk(c, track, serves)
      PROVE  DInv'
  <2>1. [NoJob EXCEPT !.head = track, !.serves = serves] \in Jobs
    BY NoJobTyped DEF Jobs, DiskAssumption
  <2>2. DiskTyped'
    BY <1>0, <1>2, <2>1 DEF CallDisk, DiskTyped, At, Go, DiskLabels
  <2>3. OneHolder'
    BY <1>0, <1>2 DEF CallDisk, DiskTyped, OneHolder, At, Go, Outside
  <2>4. ASSUME NEW d \in CPUs, d # c PROVE PassOf(d)'
    BY <1>0, <1>2, <2>4, OthersKeep DEF CallDisk, DiskTyped, Go
  <2>5. PassOf(c)'
    BY <1>0, <1>2 DEF CallDisk, DiskTyped, PassOf, Go, NoJob
  <2> QED BY <2>2, <2>3, <2>4, <2>5 DEF DInv
<1>3. ASSUME NEW c \in CPUs, DiskAcquire(c) PROVE DInv'
  <2>1. DiskTyped'
    BY <1>0, <1>3 DEF DiskAcquire, TestAndSet, diskVars, DiskTyped, At, Go, DiskLabels
  <2>2. OneHolder'
    BY <1>0, <1>3 DEF DiskAcquire, TestAndSet, DiskTyped, OneHolder, At, Go, Outside
  <2>3. ASSUME NEW d \in CPUs, d # c PROVE PassOf(d)'
    BY <1>0, <1>3, <2>3, OthersKeep DEF DiskAcquire, TestAndSet, diskVars, DiskTyped, Go
  <2>4. PassOf(c)'
    BY <1>0, <1>3 DEF DiskAcquire, TestAndSet, diskVars, DiskTyped, PassOf, At, Go, Outside
  <2> QED BY <2>1, <2>2, <2>3, <2>4 DEF DInv
<1>4. ASSUME NEW c \in CPUs, DiskSpin(c) PROVE DInv'
  <2>1. DiskTyped'
    BY <1>0, <1>4 DEF DiskSpin, SpinRead, diskVars, DiskTyped, At, Go, DiskLabels
  <2>2. OneHolder'
    BY <1>0, <1>4 DEF DiskSpin, SpinRead, DiskTyped, OneHolder, At, Go, Outside
  <2>3. ASSUME NEW d \in CPUs, d # c PROVE PassOf(d)'
    BY <1>0, <1>4, <2>3, OthersKeep DEF DiskSpin, SpinRead, diskVars, DiskTyped, Go
  <2>4. PassOf(c)'
    BY <1>0, <1>4 DEF DiskSpin, SpinRead, diskVars, DiskTyped, PassOf, At, Go, Outside
  <2> QED BY <2>1, <2>2, <2>3, <2>4 DEF DInv
\* Inside the lock the other CPUs are in no pass.
<1>5. ASSUME NEW c \in CPUs, pc[c] \notin Outside, NEW d \in CPUs, d # c
      PROVE  pc[d] \in Outside
  BY <1>0, <1>5 DEF OneHolder
<1>6. ASSUME NEW c \in CPUs, SubmitRefused(c) \/ Submit(c) PROVE DInv'
  <2>1. job[c].head \in Int
    BY <1>0 DEF DiskTyped, Jobs
  <2>2. Append(request_queue, job[c].head) \in Seq(Int)
    BY <1>0, <2>1 DEF DiskTyped
  <2>3. DiskTyped'
    BY <1>0, <1>6, <2>2 DEF SubmitRefused, Submit, diskVars, DiskTyped, At, Go, DiskLabels
  <2>4. OneHolder'
    BY <1>0, <1>6 DEF SubmitRefused, Submit, DiskTyped, OneHolder, At, Go, Outside
  <2>5. ASSUME NEW d \in CPUs, d # c PROVE PassOf(d)'
    <3>1. pc[d] \in Outside /\ pc'[d] = pc[d] /\ job'[d] = job[d]
      BY <1>0, <1>5, <1>6, <2>5 DEF SubmitRefused, Submit, diskVars, DiskTyped, At, Go, Outside
    <3> QED BY <1>0, <3>1 DEF PassOf, Outside
  <2>6. PassOf(c)'
    BY <1>0, <1>6 DEF SubmitRefused, Submit, DiskTyped, PassOf, Go, Outside
  <2> QED BY <2>3, <2>4, <2>5, <2>6 DEF DInv
<1>7. ASSUME NEW c \in CPUs, Begin(c) PROVE DInv'
  <2>1. DiskTyped'
    BY <1>0, <1>7 DEF Begin, diskVars, DiskTyped, At, Go, DiskLabels
  <2>2. OneHolder'
    BY <1>0, <1>7 DEF Begin, DiskTyped, OneHolder, At, Go, Outside
  <2>3. ASSUME NEW d \in CPUs, d # c PROVE PassOf(d)'
    BY <1>0, <1>7, <2>3, OthersKeep DEF Begin, diskVars, DiskTyped, Go
  <2>4. PassOf(c)'
    <3>1. job'[c] = job[c] /\ job[c].completed = {} /\ job[c].count = 0
      BY <1>0, <1>7 DEF Begin, diskVars, At, PassOf
    <3>2. pc'[c] \in {"release", "round"}
      BY <1>0, <1>7 DEF Begin, Go, DiskTyped
    <3>3. Cardinality({}) = 0
      BY FS_EmptySet
    <3> QED BY <3>1, <3>2, <3>3 DEF PassOf, Outside
  <2> QED BY <2>1, <2>2, <2>3, <2>4 DEF DInv
<1>8. ASSUME NEW c \in CPUs, Serve(c) PROVE DInv'
  <2>1. PICK i \in Requests :
          /\ NextRequest(c, i)
          /\ job' = [job EXCEPT ![c] = [job[c] EXCEPT !.completed = @ \cup {i},
                                                      !.head = request_queue[i],
                                                      !.count = @ + 1]]
    BY <1>8 DEF Serve
  <2>2. UNCHANGED <<locked, pc, request_queue>> /\ pc[c] = "round"
    BY <1>8 DEF Serve, At
  <2>3. PICK old \in Jobs : old = job[c]
    BY <1>0 DEF DiskTyped
  <2>4. PICK new : new = [old EXCEPT !.completed = @ \cup {i}, !.head = request_queue[i], !.count = @ + 1]
    OBVIOUS
  <2>5. request_queue[i] \in Int /\ i \in Nat
    BY <1>0, RequestsFinite
  <2>6. /\ new \in Jobs
        /\ new.completed = old.completed \cup {i} /\ new.count = old.count + 1
        /\ new.head = request_queue[i]
    <3>1. old.completed \cup {i} \in SUBSET Nat /\ old.count + 1 \in Nat
      BY <2>5 DEF Jobs
    <3>2. new = [serves |-> old.serves, head |-> request_queue[i],
                 completed |-> old.completed \cup {i}, count |-> old.count + 1]
      BY <2>4 DEF Jobs
    <3> QED BY <2>5, <3>1, <3>2 DEF Jobs
  <2>7. job' = [job EXCEPT ![c] = new] /\ job'[c] = new
    <3>1. job' = [job EXCEPT ![c] = new]
      BY <2>1, <2>3, <2>4
    <3> QED BY <1>0, <3>1 DEF DiskTyped
  <2>8. DiskTyped' /\ OneHolder'
    BY <1>0, <2>2, <2>6, <2>7 DEF DiskTyped, OneHolder
  <2>9. ASSUME NEW d \in CPUs, d # c PROVE PassOf(d)'
    BY <1>0, <2>2, <2>7, <2>9, OthersKeep DEF DiskTyped
  <2>10. i \in Waiting(c) /\ ~ AllFar(c)
    <3>1. Seek(c, i) \in Nat
      BY <1>0, SeekTyped
    <3>2. i \in Waiting(c) /\ Seek(c, i) < FAR
      BY <2>1 DEF NextRequest, Waiting
    <3> QED BY <3>1, <3>2 DEF AllFar, DiskAssumption
  <2>11. /\ old.completed \subseteq Requests /\ i \notin old.completed
         /\ Cardinality(old.completed) = old.count
    BY <1>0, <2>2, <2>3, <2>10 DEF PassOf, Waiting
  <2>12. Cardinality(new.completed) = new.count
    <3>1. IsFiniteSet(old.completed)
      BY <1>0, <2>11, RequestsFinite, FS_Subset
    <3> QED BY <2>6, <2>11, <3>1, FS_AddElement
  <2>13. PassOf(c)'
    <3>1. pc'[c] = "round" /\ Requests' = Requests
      BY <2>2 DEF Requests
    <3> QED BY <2>6, <2>7, <2>11, <2>12, <3>1 DEF PassOf, Outside
  <2> QED BY <2>8, <2>9, <2>13 DEF DInv
<1>9. ASSUME NEW c \in CPUs, ServeNone(c) PROVE DInv'
  <2>1. UNCHANGED <<locked, pc, request_queue>> /\ pc[c] = "round"
    BY <1>9 DEF ServeNone, At
  <2>2. PICK old \in Jobs : old = job[c]
    BY <1>0 DEF DiskTyped
  <2>3. PICK new : new = [old EXCEPT !.count = @ + 1]
    OBVIOUS
  <2>4. /\ new \in Jobs
        /\ new.completed = old.completed /\ new.head = old.head
    BY <2>2, <2>3 DEF Jobs
  <2>5. job' = [job EXCEPT ![c] = new] /\ job'[c] = new
    BY <1>0, <1>9, <2>2, <2>3 DEF ServeNone, DiskTyped
  <2>6. DiskTyped' /\ OneHolder'
    BY <1>0, <2>1, <2>4, <2>5 DEF DiskTyped, OneHolder
  <2>7. ASSUME NEW d \in CPUs, d # c PROVE PassOf(d)'
    BY <1>0, <2>1, <2>5, <2>7, OthersKeep DEF DiskTyped
  <2>8. AllFar(c)
    BY <1>0, <1>9, NextExists DEF ServeNone
  <2>9. AllFar(c)'
    BY <2>1, <2>2, <2>4, <2>5, <2>8 DEF AllFar, Waiting, Requests, Seek
  <2>10. PassOf(c)'
    BY <1>0, <2>1, <2>2, <2>4, <2>5, <2>9 DEF PassOf, Outside, Requests
  <2> QED BY <2>6, <2>7, <2>10 DEF DInv
<1>10. ASSUME NEW c \in CPUs, ClearQueue(c) PROVE DInv'
  <2>1. <<>> \in Seq(Int)
    OBVIOUS
  <2>2. DiskTyped'
    BY <1>0, <1>10, <2>1 DEF ClearQueue, DiskTyped, At, Go, DiskLabels
  <2>3. OneHolder'
    BY <1>0, <1>10 DEF ClearQueue, DiskTyped, OneHolder, At, Go, Outside
  <2>4. ASSUME NEW d \in CPUs, d # c PROVE PassOf(d)'
    <3>1. pc[d] \in Outside /\ pc'[d] = pc[d] /\ job'[d] = job[d]
      BY <1>0, <1>5, <1>10, <2>4 DEF ClearQueue, DiskTyped, At, Go, Outside
    <3> QED BY <1>0, <3>1 DEF PassOf, Outside
  <2>5. PassOf(c)'
    BY <1>0, <1>10 DEF ClearQueue, DiskTyped, PassOf, Go, Outside
  <2> QED BY <2>2, <2>3, <2>4, <2>5 DEF DInv
<1>11. ASSUME NEW c \in CPUs, DiskReturn(c) PROVE DInv'
  <2>1. DiskTyped'
    BY <1>0, <1>11, NoJobTyped DEF DiskReturn, Release, DiskTyped, At, Go, DiskLabels
  <2>2. OneHolder'
    BY <1>0, <1>11 DEF DiskReturn, Release, DiskTyped, OneHolder, At, Go, Outside
  <2>3. ASSUME NEW d \in CPUs, d # c PROVE PassOf(d)'
    BY <1>0, <1>11, <2>3, OthersKeep DEF DiskReturn, Release, DiskTyped, Go
  <2>4. PassOf(c)'
    BY <1>0, <1>11 DEF DiskReturn, Release, DiskTyped, PassOf, Go, NoJob
  <2> QED BY <2>1, <2>2, <2>3, <2>4 DEF DInv
<1> QED
  BY <1>1, <1>2, <1>3, <1>4, <1>6, <1>7, <1>8, <1>9, <1>10, <1>11 DEF DiskNext, DiskStep

LEMMA DiskInvHolds == ASSUME DiskAssumption PROVE DiskSpec => []DInv
<1>1. SpinInit /\ DiskInit => DInv
  BY DiskInitInv
<1>2. DInv /\ [DiskNext]_<<locked, pc, diskVars>> => DInv'
  BY DiskStepKeeps
<1> QED BY <1>1, <1>2, PTL DEF DiskSpec

-----------------------------------------------------------------------------

\* What a step may do to a pass that is under way.
Overlooks(c) ==
    \E i \in Waiting(c) :
        \/ request_queue' # request_queue /\ Seek(c, i) < FAR
        \/ job[c].head < request_queue[i] /\ request_queue[i] < job'[c].head
        \/ job'[c].head < request_queue[i] /\ request_queue[i] < job[c].head

\* Where neither the head nor the queue moves nothing is overlooked.
LEMMA AtRest ==
    ASSUME DiskTyped, NEW c \in CPUs, job'[c].head = job[c].head, request_queue' = request_queue
    PROVE  ~ Overlooks(c)
<1>1. job[c].head \in Int /\ \A i \in Waiting(c) : request_queue[i] \in Int
  BY RequestsFinite DEF DiskTyped, Jobs, Waiting
<1> QED BY <1>1 DEF Overlooks

LEMMA StepOverlooksNone ==
    ASSUME DiskAssumption, DInv, [DiskNext]_<<locked, pc, diskVars>>, NEW c \in CPUs, pc[c] = "round"
    PROVE  ~ Overlooks(c)
<1>0. DiskTyped /\ OneHolder /\ PassOf(c)
  BY DEF DInv
<1>1. CASE UNCHANGED <<locked, pc, diskVars>>
  BY <1>0, <1>1, AtRest DEF diskVars
<1>2. ASSUME NEW d \in CPUs, NEW track \in Tracks, NEW serves \in BOOLEAN, CallDisk(d, track, serves)
      PROVE  ~ Overlooks(c)
  <2>1. job'[c] = job[c] /\ request_queue' = request_queue
    BY <1>0, <1>2 DEF CallDisk, At, DiskTyped
  <2> QED BY <1>0, <2>1, AtRest
<1>3. ASSUME NEW d \in CPUs, d # c, DiskStep(d) PROVE ~ Overlooks(c)
  <2>1. pc[d] \in Outside
    BY <1>0, <1>3 DEF OneHolder, Outside
  <2>2. DiskAcquire(d) \/ DiskSpin(d)
    BY <1>3, <2>1 DEF DiskStep, SubmitRefused, Submit, Begin, Serve, ServeNone, ClearQueue, DiskReturn,
                      Release, At, Outside
  <2>3. job'[c] = job[c] /\ request_queue' = request_queue
    BY <2>2 DEF DiskAcquire, DiskSpin, diskVars
  <2> QED BY <1>0, <2>3, AtRest
<1>4. CASE DiskStep(c)
  <2>1. Serve(c) \/ ServeNone(c) \/ ClearQueue(c)
    BY <1>4 DEF DiskStep, DiskAcquire, TestAndSet, DiskSpin, SpinRead, SubmitRefused, Submit, Begin,
                DiskReturn, Release, At
  <2>2. CASE Serve(c)
    <3>1. PICK i \in Requests :
            /\ NextRequest(c, i)
            /\ job' = [job EXCEPT ![c] = [job[c] EXCEPT !.completed = @ \cup {i},
                                                        !.head = request_queue[i],
                                                        !.count = @ + 1]]
      BY <2>2 DEF Serve
    <3>2. job'[c].head = request_queue[i] /\ request_queue' = request_queue
      BY <1>0, <2>2, <3>1 DEF Serve, DiskTyped, Jobs
    <3> QED BY <1>0, <3>1, <3>2, NoneOnTheWay DEF Overlooks
  <2>3. CASE ServeNone(c)
    <3>1. job'[c].head = job[c].head /\ request_queue' = request_queue
      BY <1>0, <2>3 DEF ServeNone, DiskTyped, Jobs
    <3> QED BY <1>0, <3>1, AtRest
  <2>4. CASE ClearQueue(c)
    <3>1. job'[c] = job[c] /\ job[c].count >= Len(request_queue)
      <4>1. job[c].count \in Nat /\ Len(request_queue) \in Nat
        BY <1>0, RequestsFinite DEF DiskTyped, Jobs
      <4> QED BY <2>4, <4>1 DEF ClearQueue, IterationsLeft
    <3>2. job[c].completed \subseteq Requests /\ (Cardinality(job[c].completed) = job[c].count \/ AllFar(c))
      BY <1>0 DEF PassOf
    <3>3. AllFar(c)
      <4>1. CASE Cardinality(job[c].completed) = job[c].count
        <5>1. Cardinality(job[c].completed) <= Len(request_queue)
          BY <1>0, <3>2, RequestsFinite, FS_Subset
        <5>2. Cardinality(job[c].completed) = Cardinality(Requests)
          <6>1. Cardinality(Requests) = Len(request_queue) /\ Len(request_queue) \in Nat
            BY <1>0, RequestsFinite
          <6>2. job[c].count \in Nat
            BY <1>0 DEF DiskTyped, Jobs
          <6> QED BY <3>1, <4>1, <5>1, <6>1, <6>2
        <5>3. job[c].completed = Requests
          BY <1>0, <3>2, <5>2, RequestsFinite, FS_Subset
        <5> QED BY <5>3 DEF AllFar, Waiting
      <4> QED BY <3>2, <4>1
    <3>4. \A i \in Waiting(c) : ~(Seek(c, i) < FAR)
      BY <1>0, <3>3, SeekTyped DEF AllFar, Waiting, DiskAssumption
    <3>5. job[c].head \in Int /\ \A i \in Waiting(c) : request_queue[i] \in Int
      BY <1>0, RequestsFinite DEF DiskTyped, Jobs, Waiting
    <3> QED BY <3>1, <3>4, <3>5 DEF Overlooks
  <2> QED BY <2>1, <2>2, <2>3, <2>4
<1> QED BY <1>1, <1>2, <1>3, <1>4 DEF DiskNext

\* A pass serves the nearest request first, so that the head passes over none that waits,
\* and clears the queue only when all were served or are out of reach.
THEOREM PassServesAll == ASSUME DiskAssumption PROVE DiskSpec => PassOverlooksNone
<1> DEFINE Looks == \A c \in CPUs : At(c, "round") =>
          \A i \in Requests \ job[c].completed :
              LET from == job[c].head
                  to == job'[c].head
              IN /\ request_queue' # request_queue => Seek(c, i) >= FAR
                 /\ ~(from < request_queue[i] /\ request_queue[i] < to)
                 /\ ~(to < request_queue[i] /\ request_queue[i] < from)
<1>1. ASSUME DInv, [DiskNext]_<<locked, pc, diskVars>> PROVE [Looks]_<<request_queue, pc, job>>
  <2>1. ASSUME NEW c \in CPUs, At(c, "round"), NEW i \in Waiting(c)
        PROVE  LET from == job[c].head
                   to == job'[c].head
               IN /\ request_queue' # request_queue => Seek(c, i) >= FAR
                  /\ ~(from < request_queue[i] /\ request_queue[i] < to)
                  /\ ~(to < request_queue[i] /\ request_queue[i] < from)
    <3>1. ~ Overlooks(c)
      BY <1>1, <2>1, StepOverlooksNone DEF At
    <3>2. Seek(c, i) \in Nat /\ FAR \in Nat
      BY <1>1, SeekTyped DEF DInv, Waiting, DiskAssumption
    <3> QED BY <2>1, <3>1, <3>2 DEF Overlooks
  <2> QED BY <2>1 DEF Waiting
<1>2. DInv /\ [DiskNext]_<<locked, pc, diskVars>> => [Looks]_<<request_queue, pc, job>>
  BY <1>1
<1> QED BY <1>2, DiskInvHolds, PTL DEF DiskSpec, PassOverlooksNone

\* disk_lock keeps the calls apart: one CPU at a time reads or changes the queue.
THEOREM DiskLockExcludes == ASSUME DiskAssumption PROVE DiskSpec => []OneHolder
<1>1. DInv => OneHolder
  BY DEF DInv
<1> QED BY <1>1, DiskInvHolds, PTL
=============================================================================

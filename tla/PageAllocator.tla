--------------------------- MODULE PageAllocator ---------------------------
(***************************************************************************)
(* The page allocator of src/memory_management.c, called by several CPUs   *)
(* under mem_lock.  Each read and each write of the page table is a step.  *)
(*                                                                         *)
(* Calls that return before the lock (more than a page asked for, a        *)
(* pointer that is not the start of a page) change nothing.                *)
(***************************************************************************)
EXTENDS Spinlock

CONSTANTS
    TOTAL_PAGES,
    KERNEL,         \* the pid -1
    Pids            \* pids that callers give, KERNEL among them

ASSUME PageAssumption ==
    /\ TOTAL_PAGES \in Nat \ {0}
    /\ KERNEL \in Pids

Pages == 0 .. TOTAL_PAGES - 1

VARIABLES
    allocated,      \* {i : page_table[i].allocated}
    owner_pid,      \* page_table[].owner_pid
    last_page_index,
    call            \* per CPU: the arguments of its call, and i of the search

pageVars == <<allocated, owner_pid, last_page_index, call>>
vars == <<locked, pc, pageVars>>

NoCall == [pid |-> KERNEL, page |-> 0, i |-> 0]

PageInit ==
    /\ allocated = {}
    /\ owner_pid = [p \in Pages |-> KERNEL]
    /\ last_page_index = 0
    /\ call = [c \in CPUs |-> NoCall]

-----------------------------------------------------------------------------

(* A definition marked "bug:" is a variant a slip in the code would give; the runs *)
(* put it in the place of the definition after it to show that a property notices. *)

\* idx
Candidate(c) == (last_page_index + call[c].i) % TOTAL_PAGES

\* allocate_process_memory(pid, size)
CallAllocate(c, pid) ==
    /\ At(c, "idle")
    /\ call' = [call EXCEPT ![c] = [NoCall EXCEPT !.pid = pid]]
    /\ Go(c, "acquire")
    /\ UNCHANGED <<locked, allocated, owner_pid, last_page_index>>

\* free_process_memory(pid, ptr), ptr the start of a page of the pool or behind it.
CallFree(c, pid, page) ==
    /\ At(c, "idle")
    /\ call' = [call EXCEPT ![c] = [pid |-> pid, page |-> page, i |-> -1]]
    /\ Go(c, "acquire")
    /\ UNCHANGED <<locked, allocated, owner_pid, last_page_index>>

\* i is -1 throughout a free.
Frees(c) == call[c].i = -1

Acquire(c) ==
    /\ TestAndSet(c, IF Frees(c) THEN "check" ELSE "search")
    /\ UNCHANGED pageVars

Spin(c) == SpinRead(c) /\ UNCHANGED pageVars

\* One iteration of the search.
Search(c) ==
    /\ At(c, "search")
    /\ call[c].i < TOTAL_PAGES
    /\ IF Candidate(c) \in allocated
       THEN call' = [call EXCEPT ![c].i = @ + 1] /\ UNCHANGED pc
       ELSE Go(c, "take") /\ UNCHANGED call
    /\ UNCHANGED <<locked, allocated, owner_pid, last_page_index>>

\* bug: the next search starts at the page just taken.
TakeStays(c) ==
    /\ At(c, "take")
    /\ allocated' = allocated \cup {Candidate(c)}
    /\ owner_pid' = [owner_pid EXCEPT ![Candidate(c)] = call[c].pid]
    /\ last_page_index' = Candidate(c)
    /\ Go(c, "release")
    /\ UNCHANGED <<locked, call>>
Take(c) ==
    /\ At(c, "take")
    /\ allocated' = allocated \cup {Candidate(c)}
    /\ owner_pid' = [owner_pid EXCEPT ![Candidate(c)] = call[c].pid]
    /\ last_page_index' = (Candidate(c) + 1) % TOTAL_PAGES
    /\ Go(c, "release")
    /\ UNCHANGED <<locked, call>>

\* The search that returns NULL.
NotFound(c) ==
    /\ At(c, "search")
    /\ call[c].i = TOTAL_PAGES
    /\ Go(c, "release")
    /\ UNCHANGED <<locked, pageVars>>

MayFree(c) ==
    /\ call[c].page < TOTAL_PAGES
    /\ call[c].page \in allocated
    /\ owner_pid[call[c].page] \in {call[c].pid, KERNEL}

Check(c) ==
    /\ At(c, "check")
    /\ Go(c, IF MayFree(c) THEN "clear" ELSE "release")
    /\ UNCHANGED <<locked, pageVars>>

Clear(c) ==
    /\ At(c, "clear")
    /\ allocated' = allocated \ {call[c].page}
    /\ owner_pid' = [owner_pid EXCEPT ![call[c].page] = KERNEL]
    /\ Go(c, "release")
    /\ UNCHANGED <<locked, last_page_index, call>>

Return(c) ==
    /\ Release(c)
    /\ call' = [call EXCEPT ![c] = NoCall]
    /\ UNCHANGED <<allocated, owner_pid, last_page_index>>

CpuStep(c) ==
    Acquire(c) \/ Spin(c) \/ Search(c) \/ Take(c) \/ NotFound(c) \/ Check(c) \/ Clear(c) \/ Return(c)

PageNext ==
    \E c \in CPUs :
        \/ \E pid \in Pids : CallAllocate(c, pid) \/ \E page \in 0 .. TOTAL_PAGES : CallFree(c, pid, page)
        \/ CpuStep(c)

PageSpec == SpinInit /\ PageInit /\ [][PageNext]_vars

-----------------------------------------------------------------------------

\* allocate_process_memory() returns NULL only when every page is in use: the search
\* that wraps around skips none, and none is freed behind its back.
NullMeansFull ==
    \A c \in CPUs : At(c, "search") /\ call[c].i = TOTAL_PAGES => allocated = Pages

\* Calls of several CPUs take effect one at a time, each at one moment.
Pool == INSTANCE PagePool WITH
    owners <- [p \in allocated |-> owner_pid[p]],
    turn <- last_page_index
PoolSpec == Pool!Spec
=============================================================================

# A verification model of SkyNetOS

TLA+ modules of the SkyNetOS kernel (`src/`), the TLC runs that check them on small
instances, and theorems that the TLAPS proof system checks for every instance.
Paths such as `scheduler.c:74` are below `src/src/`.

## 1. The system

SkyNetOS is a single-user teaching kernel. It boots into protected mode, asks for
a password, and runs a shell. "Tasks" are entries of a table: no code runs for them, they are
accounted for. There is one thread of control: the shell. While it waits for a key
(`read_char()`, `io.c:265`) it polls the keyboard controller and calls `system_tick()` every
500000 polls. No interrupt is enabled, so every call of a kernel function runs to its end
before the next begins; what interleaves is *calls*: shell commands of the user and ticks.
The page allocator and the disk scheduler are written for more: they take spinlocks, and are modelled
with two CPUs inside them.

| Component | State | Operations | What makes it correct |
|---|---|---|---|
| MLFQ scheduler, `scheduler.c` | `tasks[]`, `task_count`, `current_pid`, `queues[3][]`, `queue_counts[]` | `task_create`, `task_terminate`, `schedule`, `task_yield`, `priority_boost`, `system_tick`, `task_block`, `task_unblock`, `task_set_work` | every live task is in one place; the best level runs; tasks complete; the counter counts |
| Banker, `scheduler.c` | `available_resources[]`, and per task `max_demand`, `allocation`, `need` | `request_resources` (with `is_safe_state` and rollback), `release_resources`, part of create and terminate | resources are conserved; a grant leaves a safe state; the safety test is exact |
| IPC and threads, `scheduler.c` | per task `mailbox[5]`, `msg_count`, `thread_count` | `ipc_send`, `ipc_receive`, `thread_create`, part of create | no message lost, overwritten, repeated or delivered to the slot's next owner; oldest first |
| Mutex, `sync.c` | `owner_pid`, ring of waiters | `mutex_init`, `mutex_lock`, `mutex_unlock` | one owner; FIFO hand-over; no waiter lost; waiters do not run |
| Spinlock, `sync.c` | a flag | acquire, release | mutual exclusion; always given back |
| Page allocator, `memory_management.c` | `page_table[]`, `last_page_index` | allocate, free | a page has one owner; next fit finds any free page |
| Heap, `memory_management.c` | list of blocks | `malloc`, `free` | blocks tile the heap; allocated blocks never overlap; neighbours coalesce |
| File system, `file_system.c` | root directory, files on the heap | create, write, read, delete | a map by name; no leak or double free; failure leaves a consistent table |
| Disk scheduler, `disk_scheduler.c` | request queue | submit, process | each accepted request served once, nearest first |
| Shell, `shell.c` | none of its own | commands | calls the others |
| Screen, keyboard, mouse, `io.c` | cursor, shift flag, mouse packet | `print*`, `read_char`, `read_line`, `input_poll` | the screen shows the line; the decoder resynchronises; shift is the key |
| GUI, `gui.c` | windows, z-order, focus, its own shift flag, terminal buffer and input | create, raise, drag, close, key input | the windows are a stack with the focus in front; the terminal shows what was printed |
| Passwords, `security.c`, `sha3.c` | the sponge's state | `sha3_256`, `authenticate_user` | SHA-3 as the standard has it; the one password is accepted |
| Kernel start, `kernel.c` | none | boot, login, `err_handler` | `err_handler` halts |

How they interact: the shell calls everything; `read_char()` calls `system_tick()`;
the mailbox calls take a mutex of the receiving task; `mutex_lock()` and `mutex_unlock()` call
`task_block()`, `task_yield()` and `task_unblock()`; `task_create()` and `task_terminate()` reset
and reclaim the state that Banker, mailbox and scheduler keep in the same task control
block; the file system allocates on the heap and calls `err_handler()`, which never returns;
the shell and the desktop call each other (`gui` from the shell, every shell command from the desktop's
terminal), and with `edit` both read the keyboard and the mouse through one port.

What is hard: calls that leave stale state for a later call (a killed task's queue entry, a reused
slot); counters kept apart from what they count (`task_count`, `msg_count`, `queue_counts`);
the order in which tasks are queued, dispatched, demoted and boosted; liveness (completion,
mutex waiters); half-done calls (rollback of a trial allocation, partial release, a second allocation that fails);
two CPUs around a lock; two readers of one port; limits (queue arrays, ring of 16, mailbox of 5).
`PROJECT.json` lists each hazard at its line.

## 2. The modules

```
TaskLifecycle   SafeAllocator   BoundedMailbox   FifoLock    what is promised
     ^               ^               ^               ^         (refined by)
  Kernel          Banker          Mailbox          Mutex     what the code does
     | EXTENDS                       | EXTENDS       | EXTENDS
     |  ^----------------------------+               |
  Scheduler <----------------------------------------+

PagePool        Extents   FileMap        WindowStack   Keccak
     ^              ^        ^                ^           ^
PageAllocator     Heap <- FileSystem       Windows      Sha3     Terminal, Console,
     |                                                           MouseDecoder, Keyboard
  Spinlock <- DiskScheduler
```

A module `MC...` gives constants their values for TLC, puts modules together, and bounds what would not end; a module `...Proofs` holds theorems. A definition marked `bug:` is the
mutant of the one after it.

**Scheduler** is all of the MLFQ. Per task: `state`, `priority_level`, `remaining_quantum`,
`remaining_work`; and `queues` (sequences: an array with its count), `current_pid`, `task_count`. `Dispatch` is
`schedule()`: it runs whatever pid heads the first queue that is not empty, without looking at
its state; with all queues empty it changes nothing. `Yield` is `task_yield()` and contains the dispatch
that ends it. `system_tick()` is `TickIdle`, `TickCompletes` and
`TickCharges`. Two abstractions: a quantum at or below 0 is 0 (the code only tests `<= 0`), and a write past
a queue's array (`Overrun`) ends the model's claims (`AfterOverrun` stutters).

**Kernel** keeps only the calls the running kernel makes: `SimLoad` (`sim-load &`: `task_create()`, then
`task_set_work()` with one of `Loads`), `Kill`, and the polled `SystemTick`. `UnkilledNext` is the kernel before
the first kill. **TaskLifecycle** is what a task goes through: waiting,
running, gone; at most one runs.

**Banker** is the resource side of the same task control blocks. `IsSafeState` computes what
`is_safe_state()` computes, pass by pass in table order, with the loop bound `task_count` that the code uses.
`RequestResources` is one call: consistency checks, trial allocation, test, and then `Grant`, which keeps the trial, or
`RollBack`, which undoes it field by field; that the undone matrices are the old ones is for `Conserved` and
`SafeAllocator` to say. A request that fails the consistency checks changes nothing. `Released` skips the resources of which too much
is given back. Amounts are naturals. **SafeAllocator** promises that grants only lead into safe
states, and defines "safe" by the existence of an order in which the tasks can end. `IsSafeStateExact` compares
the code's passes with a definition that has no order in it: no group of live tasks is stuck (`SafeByGroups`, with `HeldBy`, the sum
of what a set of tasks holds). Terminated tasks do not run again in this module.

**Mailbox** is mailbox, message count and thread count, composed with Kernel: `StartTask` is `sim-load &` with the `Reset` in
`task_create()`, and every other call of the kernel (`OtherCall`: kills and ticks) leaves all three alone. So a task that `kill` ended and
that `schedule()` or `task_yield()` makes live again finds the mail and the threads it had when it was killed.
A text is a value, and `Cut` maps it to what fits in a slot (`MAX_MSG_LENGTH - 1` characters).
`arrived`, the order in which messages came, is a history variable. **BoundedMailbox** is a bag of limited size per
live task - by text, how often it is unread - and a bounded number of threads. A new task finds the bag empty; `Reopen` lets tasks that ended come
back with what they had, if they were started once.

**Mutex** composes `mutex_t` with Scheduler. `LockOwned` is the whole waiting branch: enter the ring
if there is room, `task_block()`, `task_yield()`; the yield makes the task READY again and
queues it, so its net effect is a yield. `UnlockToWaiter` hands over to the head of the
ring. **FifoLock** is a lock with a queue. The tasks are clients of the model's own: they ask when they neither own nor
wait, and release what they own, with any calls of the scheduler between. The code has no such client: its only callers, `ipc_send()` and
`ipc_receive()`, lock and unlock within one call, for the one `current_pid`. The module says what `mutex_t` gives to tasks that run.

**Spinlock** is the test-and-set lock between CPUs: a program counter per CPU, the exchange, the loop that
reads until the lock looks free, the release. **PageAllocator** and **DiskScheduler** are the two clients. In
PageAllocator every read and write of the table is a step of its own: the calls of two CPUs interleave wherever the lock lets them;
**PagePool** is the allocator whose calls take one moment each. In DiskScheduler one iteration of the
shortest-seek-first pass is a step; the queue cannot change under it.

**Heap** is the list of blocks, named by their addresses: first fit, the split, the release, and
`free()`'s coalescing walk with one iteration per step and its cursor `curr`. The model takes the fitting block of
lowest address for the first in the list; `ListInOrder` shows that these are the same. **Extents** is what is promised of the memory handed
out. **FileSystem** sits on top: a call is a list of steps, `todo`, one heap call each, so that the failure of a
heap call falls between two changes of the directory. `err_handler()` halts: after `panic` only `Halted` is possible. `files[]`
is appended to without a test, and nothing is claimed after that overrun. **FileMap** is a map from names to kinds and
sizes.

**Windows** is the window part of the event loop: press, drag, release, close, exit button, and "gui &" typed into
the desktop's own terminal, which starts an event loop inside the loop. **WindowStack** is the open
windows with the relation of lying over one another. **Terminal** is the desktop's terminal buffer with its three places of scrolling; `OnPaper` is the reference: where
each character would be on paper without end. **Console** is the text screen with `login()`'s and the shell's prompts and line
editing. **MouseDecoder** and **Keyboard** are the two devices that share a port: packets of three bytes with bytes
lost to `read_char()` (a packet puts the decoder in step if its deltas have bit 3 clear, as at rest; a delta of -1 has it set), and two `shift_held` variables of which each misses what the other reader got.

**Sha3** is `sha3_256()` step by step on 64-bit lanes (a lane is the set of its 1 bits), called by
`authenticate_user()` or directly. `ROTL64()` by 65 is undefined in C; `build` is a choice, fixed per behaviour,
between what builds make of it: the count masked, or the shifts folded to 0. **Keccak** is FIPS 202 on bits, with the round constants
from the standard's shift register and the offsets from its walk; `FreeLanes` names the lanes of which
rho may make anything, and `OffsetSlip` and `ConstantSlip` say by how much the code's rotations and round constants differ.

## 3. The runs

| Run | Instance | What it shows |
|---|---|---|
| `scheduler_api` | 2 tasks, quanta 1, 2, 1, loads of 2 and 6; either every call in every order or the kernel's calls, kills included | types; a READY task is in a queue; "table full" is never said with a free slot; a task sinks one level at a time, by expiry, with a fresh quantum; under the kernel's calls no live task is lost and at most one runs |
| `kernel_unkilled` | 3 tasks of 2 or 6 units | each live task in one place, best level runs, TaskLifecycle implemented, every task completes once no more are started |
| `banker` | 3 tasks, 2 resources of 2 and 1 units, demands below, at and above the totals | `is_safe_state()` agrees with a definition by groups of tasks on every trial allocation; resources conserved, by a rolled back request too; unsafe exactly while an oversized task lives; SafeAllocator implemented |
| `mailbox` | 2 tasks of 2 units, quanta of 1, 3 slots, 2 threads | the count agrees with the slots; BoundedMailbox implemented: nothing lost, overwritten or repeated across slot reuse, nor while a killed task is away |
| `mutex` | 3 tasks, ring of 3 | waiters in order, none dropped, each served; tasks in one place; FifoLock implemented |
| `files` | 3 names, sizes 0 and 3, a heap of 20 bytes with headers of 2, 2 files at most | blocks tile the heap and coalesce; nothing leaks; memory is refused only when there is none; data fit their blocks; Extents and FileMap implemented |
| `smp` | 2 CPUs; 3 pages, the kernel and one process; or a disk queue of 3 on tracks 0, 2, 3, 9 with a reach of 6 | one holder; the lock is always given back; NULL means full; PagePool implemented; a pass overlooks no request |
| `desktop` | 3 windows on 3 by 3 cells, 2 nested loops; terminal of 3 by 3; screen of 2 by 3; messages of 0, 6, 135 and 136 bytes at the real rate | WindowStack implemented; drags end with the button; the terminal shows the last rows and the input line; the screen shows the line typed; decoder and shift recover; sha3_256 is the sponge but for the five stated table entries; the login accepts the one password |
| `sha3_standard` | the same messages | *violated*: the hash is not SHA-3 |
| `kill_revives` | 2 tasks | *violated*: a killed task runs again |
| `mailbox_order` | 2 tasks | *violated*: a newer message is received before an older one |
| `mutex_waiters_run` | 3 tasks | *violated*: a waiter is not BLOCKED |

Bounds. Two tasks show every stale entry of one task against another, three show
round robin, overtaking and waiting behind a waiter; the slots of the table are
interchangeable except for their order. Quanta of 1 or 2 and 6 units of work take a task through all three levels and
around the lowest one. `MaxDeficit` in MCScheduler and MCKernel bounds how far kills of tasks that run again drive
`task_count` below zero; a deficit of 1 already has a slot that is occupied and not counted. In MCMailbox it is 0, which a kill, a revival and a
second kill already reach. Three mailbox slots give a
freed slot below, between and above occupied ones. MCMailbox gives mail and threads to one task per behaviour (`addressee`), whichever, while the other
lives and dies beside it, and stops at a task's second queue entry and before a queue's overrun (`Crowded`). A ring of 3 with 3 tasks has the code's
relation (ring of 16, 16 tasks): one owner, and as many waiters as the ring holds. Two resources of
different totals tell "every resource fits" from "some resource fits".
A heap of 20 has room for two files with their data, with free blocks between, before and behind held ones, splits that fit exactly and that fit by one byte, and
runs out in the middle of each call that allocates; two files of three names
give deletes in front of and behind another file, names found and not found, and the overrun.
Three pages with two CPUs wrap the search from every start, with a page freed behind and ahead of it. Tracks 0, 2, 3, 9 with
a reach of 6 stand for tracks apart and for the 999999 of the code: 9 is out of reach of 0, 2 and 3, and these of it.
Three windows that overlap in pairs have one below, between and above; cells stand for the areas the code
tells apart (title bar, close button, rest). Screens of three columns wrap in every
row and scroll within a line; `MaxPrinted` (20) bounds what a terminal gets between two `clear`s, six rows of three and more. Messages of 135 and 136 bytes are
the two sides of the padding's edge. No part of MCDesktop, and neither client of Spinlock in MCSmp, shares state with another, so a behaviour works one of them
(`part`, `device`).

Deadlock is checked in every run. `Mailbox`, `Banker`, `Mutex`, `Spinlock` and the desktop's parts never stop; the kernel always
can tick; a halted machine stutters (`Halted`).

Fairness. `TickFairness` is weak fairness of `system_tick()`: the shell is in `read_char()` whenever it is
not in a command, and ticks for as long as no key is down; a user who types
without pause would stop the ticks, and is excluded. `WorkCompletes` also asks that at some point no further task is started: with ever new tasks
on the upper levels nothing in the code lets a sunk task run. `MutexSpec` adds strong fairness of `GiveUp`: a task that owns the mutex and runs again and
again releases it at last. The model's clients are such tasks by assumption; the code's two callers unlock on every path. `SmpSpec` is weakly fair for each CPU's
step: a CPU goes on with the call it is in. It does not promise a waiting CPU the lock - the spinlock does not either - only that
the lock is free again (`LockReleased`).

## 4. What is proved

Each theorem holds for all values of the constants that satisfy the assumptions named. All but `EachTaskOnce` and its like need a
stronger invariant than the property; what it adds is the interesting part.

`SchedulerProofs` (all table sizes, quanta and work; the calls of `scheduler.h` in any order):

- `TypesKept`, `ReadyTasksFound`, `FullOnlyWhenFull` and `SinksByExpiry` are properties of run `scheduler_api`.
  `UpperQuantumKept` goes beyond the runs: a live task above the lowest level always has ticks left, and never more than its
  level grants.
- The invariant `IInv` is stronger in two places, both because a terminated task that still has a queue entry or is still
  `current_pid` becomes live again when it is dispatched or yields: the bound on the quantum covers those tasks too
  (`KnownInLevel`), and `task_count` is at most the number of live tasks (`Covered`) - equality fails after such a revival.
- What a step does to the set of queue entries is stated once (`OfAppend`, `OfTail`, `OfConcat`, `Enqueued`, `Dispatched`);
  `DispatchKeeps` and `YieldKeepsIInv` then serve every call that ends in `schedule()`.
- The last part is about callers that kill nobody. `SInv` adds `Settled`: a queue holds no pid twice, and only READY tasks of its level;
  who is live and not running has an entry; `current_pid` is RUNNING. Dispatch, yield and the ticks keep it.
- Assumption: `SchedulerAssumption` (a table of at least one slot, quanta of at least one tick, work of at least one unit).

`SchedulerProofs`, the callers (also `KernelAssumption` on the loads, `MutexAssumption`: a ring of at least one place):

- The kernel, kills included: `NoTaskLost` and `OneTaskRuns`, `KernelSpec => []LiveIsPlaced` and `[]RunningIsCurrent`; in the words of the run
  `KernelCallerLosesNone` and `KernelCallerRunsOne`. `KInv` adds the two to `IInv`. They rest on where the kernel dispatches: from
  an idle tick, or from a yield that put the running task back (`IdleDispatchKeeps`). A caller that calls `schedule()` while a task
  runs breaks both, which is why they are no properties of Scheduler itself.
- The kernel before its first kill, on `SInv`: `EachTaskOnce` is `PlacedOnce`, `BestLevelIsServed` is `BestLevelRuns`, and
  `LifecycleKept` the refinement of TaskLifecycle. A kill breaks `Settled`: the entry stays behind its task.
- The mutex: `MutexIsFifo` is the refinement of FifoLock, `LockingLosesNoTask` is `OnePlace`. `MInv` is `SInv` and two facts
  about the waiters: no task waits twice or while it owns, and nobody waits for a free mutex. The ring is reasoned about
  once, as arithmetic modulo its size (`RingIndex`, `Pushed`, `Popped`); the rest is about sequences.
- `RingHoldsEveryWaiter` is `NoWaiterDropped`, under the hypothesis `MAX_TASKS <= MAX_BLOCKED_QUEUE`. Both are 16 (`scheduler.h:9`,
  `sync.h:16`). A ring of 16 holds 15, and that is enough: the owner does not wait.

`SafeAllocatorProofs` (all numbers of tasks and resources, totals, and demands that fit them):

- `AlwaysSafe`: `Spec => []Safe`; `DeadlockAvoided`: `Spec => []SomeoneCanFinish`. They are about the abstract allocator.
- `Safe` alone is not inductive: a created task needs a slot that holds nothing, or its order would
  not end with everything returned. `IInv` adds the types and `DeadHoldNothing`. Each operation carries the order of the state before over:
  a created task goes last (`CreateWork`), an ended one is moved behind the live ones, which
  shifts the work of those between (`EndWork`), a task that gives back keeps its place while work before it grows
  (`GiveBackWork`); a grant brings its own order. `OrderWith` and `OrderWithout` are the new orders.
- Assumption: `SafeAllocatorAssumption` (declared demands fit the totals).

`BankerProofs` (all tables, resources, totals, demands and amounts, oversized demands included; `BankerAssumption`):

- The bookkeeping of `scheduler.c:15-162`: `ResourcesConserved` is the run's `Conserved`; `Typed`, `LiveTasksCounted` and `DemandsKept` are the
  rest. The invariant adds `DeadHoldNothing`, without which `task_create()`, which zeroes
  `allocation` without giving anything back, would not conserve. All four operations are instances of one lemma,
  `ExchangeConserves`: what one slot holds may change as long as what is free changes against it. `RolledBack` shows that the rollback restores all three matrices. The safety test plays no part here.
- `SafetyIsDecided` is `IsSafeStateExact`. The loops of `is_safe_state()` have the invariant `Good`: work is what is free and what the finished
  tasks hold, and every group of live tasks that contains a finished one has a member that can be served before the rest. A pass that finds
  nobody leaves a stuck group, and `task_count` passes are enough because a pass that is not the last finishes somebody.
- `SafetyIsKept` is `SafeUnlessOversized`. "Safe" is not inductive while oversized tasks live; `GroupsGo`, which says it of the groups without
  them, is. `NoDeadlock` follows: while all demands fit, some task can be given all it needs.
- `BankerAllocatesSafely` is `AllocatorSpec`: from "no group is stuck" an order is built greedily, the next task from those left.

`MailboxProofs` (any tasks, slots, texts and thread limits; `MailboxAssumption`):

- Also `SchedulerAssumption` and `KernelAssumption`, as Mailbox is composed with the kernel, kills included.
- `MailInv` is the kernel's `KInv`, the types and `CountIsValidSlots`, and two facts more. One is for the tasks that come back: whatever
  is live, in a queue or `current_pid` was created once (`Named`, `Created`), so what a revival makes live is a task that `Reopen` may bring back.
- `CountIsTrue` is `CountIsValidSlots`, `MailboxIsBag` the refinement of BoundedMailbox. Both come down to what
  filling or emptying one slot does to the slots that hold a text (`FillFilled`, `EmptyFilled`). A full bag has to be
  a full mailbox, so the other fact, `Agree`, keeps the number of messages in the bag equal to the number of filled slots, one message at a time.

`SmpProofs` (any number of CPUs; `PageAssumption`: at least one page, the kernel is one of the pids; `DiskAssumption` on the types):

- `LockExcludes`, `FullWhenNull` and `CallsAreAtomic` are `OneHolder`, `NullMeansFull` and `PoolSpec` of run `smp`. The last is a refinement:
  although each access to the table is a step, the allocator implements PagePool.
- `PInv` adds to `OneHolder` what a CPU has read under the lock and relies on (`KnownOf`): the pages its search has passed
  over are still taken, the page it is about to take is still free, the page it is about to clear may still be cleared. No step of another
  CPU can disturb that, as every other CPU is outside the lock.
- `Reached` and `Distanced` are the arithmetic of the search around the table. By the first a search of
  `TOTAL_PAGES` steps has seen every page; by both the page taken is the free page nearest to `last_page_index`.
- `PassServesAll` is `PassOverlooksNone` for the disk, with `DiskLockExcludes`. `PassOf` is the invariant of the loop over `count`: each iteration so far has
  served a request, or all that are left are out of reach. So the loop, which counts iterations and not served requests, may clear the queue.

`FileSystemProofs`, the heap (any heap, header and slack, and all files, names and sizes):

- `HeapStaysTiled` and `HandsOutExtents` are `HeapTiled` and `ExtentsSpec` of run `files`. They are stated of FileSystem's calls, failures of
  the heap included, but use little of them: `StepFits` shows that each step of a call is one `malloc()` of some size, one `free()` of some address, an iteration
  of the loop, or nothing for the heap (`HeapStep`). Freeing an address that is no block, or one already free, would not break them.
- `HInv` adds to the tiling the types and `JoinedBehind`: no two neighbours behind the cursor of the coalescing loop are both free.
  A join keeps the cursor where it is and its block free, so the block in front of it is still held.
- `NextOne` and `NextIsBehind` are what the tiling gives every step: the next block starts where one ends. `CutKeeps` and `MergeKeeps`
  are the split and the join; each also says what becomes of the held blocks (`HeldBecomes`), from which the refinement follows.
- Assumptions: `HeapAssumption` (the heap holds at least a header), `FileSystemAssumption` (sizes are naturals).

`FileSystemProofs`, the files:

- `FilesLeakNothing`, `DataIsAsLongAsItSays`, `OutOfMemoryOnlyWhenFull` and `FilesAreAMap` are `NothingLeaks`, `SizesFit`, `OutOfMemoryIsReal` and the
  refinement of FileMap.
- A call is several steps, so the invariant `FsInv` names the phases in which a call can be between two of them (`InPhase`): at rest, filling a new directory, undoing
  a failed creation, writing, deleting, and so on. Each says which held blocks the directory does not lead to yet or any more, and which file's size is not to be
  trusted yet. Every step goes from a phase to a phase; at rest there are none of either.
- `OutOfMemoryIsReal` counts both allocations of `create_directory()`: when the second fails, the first is given back, and then there must be no room
  for the two. The first may have been handed a block up to `SLACK` (8) bytes too large, so a directory of 8 bytes or less could have been placed
  otherwise; hence `DirectoryAssumption` (`NoFitAfterNode`). The code's is hundreds of bytes.

`DesktopProofs` (any sizes of screen, window and tab; the assumptions of Windows, Console and Terminal):

- `DecoderRealigns` is `QuietPacketRealigns`: `MInv` follows what the decoder can have made of each byte of a packet with no bit 3 set but the first byte's.
  `ShiftIsRead` is `ShiftIsHeld`; `KInv` adds that two keys down are a chord, which the property excepts.
- `DragHoldsTheWindow` is `DragIsHeld`: `WInv` adds the types, so that a raise is a rearrangement of the windows and the index that is dragged stays one.
- `WindowsAreAStack`: Windows implements WindowStack (`StackSpec`). `StackInv` adds that `z_order` is a permutation, closed
  windows included, that every window lies on the desktop, and that what has the keyboard is open and last in `z_order`.
  `RaisedOrder`: `raise_window()` puts one window over all others and keeps their order. `HitIsReachable`: what `window_at()` finds is
  uncovered at the cursor. The windows of `gui` must lie on the desktop when created, which `WindowsAssumption` says and `shell.c:208` does.
- `LineIsEchoed` is `EchoMatchesLine`: `CInv` adds that nothing stands behind the cursor, whoever printed. `PrintedTo` is what one
  character does to any screen, the roll included, and the proof of erasing goes back over it.
- `TerminalShowsTail` is `ShowsTail`: the reference writes on paper without end (`IsPaper`); `TInv` says that the buffer
  holds its last rows, each character once and no other (`Holds`), with the cursor where the writing stopped and nothing written behind it (`Seen`). Between the places in
  `gui_term_putchar()` that scroll, the buffer may be a row behind (`InStep`). `PutShows` is one character, `TextShows` a text. `InputLineIsDrawn` is `InputLineShown`.
- `TerminalAssumption` asks for a window of at least 46 pixels: less has no room for a row and the input line, and `InputLineShown` is false. The
  code's terminal has 340.

`Sha3Proofs` (usernames, passwords and messages that are any sequences of bytes, `Sha3Assumption`; both builds of `ROTL64()`; the rate is the
code's 136, as the code's tables and the layout of its blocks are no parameters either):

- `HashIsSponge` is `SpongeSpec`: `sha3_256()` implements Keccak, step by step, with the differences that `OffsetSlip` and `ConstantSlip` state
  and the lane (3, 4) free, whose rotation C leaves undefined. `HInv` (`HashInvariant`) says at every
  step what of the message is left, that the last block is in exactly when nothing is, and which round is on, so that the
  block of the code is the block of FIPS 202 cut out of the whole padded message (`BlocksOf`, `PaddedByte`, `BlockBits`): also where the two
  marks of the padding fall in one byte and where they need a block of their own.
- The tables are compared with how the standard defines them, not with another table. `WalkTurns` follows the standard's walk over the lanes
  and `RhoPiLanes` finds `keccakf_piln` and `keccakf_rotc` on it. The round constants come out of a shift register: `RegisterExists`
  says that it is a function, `SevenShifts` does seven shifts at a time, and `RndcIsRC` reads off every entry, in three of them with
  the bits of `ConstantSlip` flipped.
- Theta needs that the exclusive or of five lanes has a bit where an odd number of them has it (`Parity`); the standard states it by counting.
- The login needs more than the refinement: two digests taken at different times must agree. `IsRun` is a run of `sha3_256()` on one
  message as a function of its steps, `Gives` the digest at its end, and `OneDigest` says that a message has one in a given build. `LInv`
  (`LoginInvariant`) says that the digests so far are those of the messages asked for, first and second; it rests on the state being cleared at each call.
- `RightLogin`: the administrator's name and password are always accepted, in either build. `LoginIsExact`: nothing else is, as long as no
  other password that can be typed has the same digest (`NoCollision`). That hypothesis cannot be dropped: with all sequences of bytes as passwords
  some share a digest, since there are fewer digests. Run `desktop`, where it holds, checks `LoginExact` without it.

Induction. The library's induction theorems cannot be used here, as they take an operator as a parameter. That every nonempty set of naturals has a least
element (`LeastNumber`, from `WFMin`), and every nonempty set of finite sets a smallest (`SmallestSet`), needs none: a counterexample is taken least, and
the step refutes it. So sums, folds, and recursive functions such as the passes of `is_safe_state()` and the paper are within reach.

Only model-checked: liveness (`WorkCompletes`, `WaiterServed`, `LockReleased`), and that the passwords of run `desktop` have different
digests, which only computing them shows (`LoginExact` without `NoCollision`).

## 5. Where the code and its documents disagree

Each with a run:

- `kill` does not stop a task that is queued or running (`scheduler.c:74` leaves it in
  its queue or in `current_pid`; `User_Guide.md:91`).
- `ipc_receive()` is not oldest-first (`scheduler.c:294`; `scheduler.h:133`).
- A mutex waiter is not blocked (`sync.c:49`; `changes.md:7`).
- `sha3_256()` is not SHA-3 (`sha3.h:8`): the rotations in `sha3.c:25` are 44 and 65 where the standard has 41 and 56, and of the round
  constants the third has bit 31 in place of bit 63 and the fourth and seventh lack bit 63 (`sha3.c:12-14`). Nothing else differs: `SpongeSpec` holds with exactly these
  differences (`OffsetSlip`, `ConstantSlip`) and the undefined rotation by 65 left open. Logins
  work all the same (`LoginExact`), as both digests come from the same code.

Seen on the way, without a run of their own. Kills and new tasks between two ticks queue a pid
more often than the queue has places, so `PlacedOnce` is claimed before the first kill only. A
task killed while queued and restarted in its slot is revived out of work by its second entry, and
then never ends. Nothing calls `priority_boost()`, which `OS_Documentation.md:18` describes as periodic; it would
leave the running task where it is. `task_yield()` refills the quantum only when it demotes, so on the lowest level a
task yields at every tick from its second turn on. A `schedule()` after a `task_yield()`, as in `tests/test_scheduler.c:55`, drops the task the yield
dispatched. Spinlocks "without starvation" (`changes.md:6`): a test-and-set lock has no queue, and one CPU can lose every
exchange. A page of the kernel (owner -1) is freed for any pid that asks (`memory_management.c:73`; `OS_Documentation.md:8`). A disk request 999999
tracks or more from the head is dropped without being served. After `gui &` inside the desktop the mouse stays
off in the outer loop. A tab in the desktop's terminal leaves NUL cells, at which the drawing of a row
ends. A line of exactly `max_len - 1` characters returns without its newline, which then answers the next prompt.

## 6. Not modelled, and why

`string.c` is stateless; the modules that use it compare and copy values. `vga.c`, drawing and
fonts are output. The boot code runs once, in order, and is the modules' `Init`. `PureDOOM.h` is third-party code, and is 48602 of the 51897 lines of the
sources: the map can cover little of the whole, and covers most of the rest. `doom_port.c` adapts its input and output. Of `io.c` the key maps, the table
of UTF-8 replacements in `print()` and `print_int()` are left out, of `security.c` `sanitize_input()`, which has no caller, of `shell.c` the
parsing of command lines and the commands that only print. The content of files is left out, their sizes are kept. Calls with a pid out of range or of a terminated task return without
effect and are stutters.

A task killed while it owns or waits for a mutex blocks those behind it for ever; no code undoes that, and Mutex has no kills. The Banker is not composed with kills of
queued tasks, after which `task_count` no longer counts the live tasks. What the code does after an
array is overrun (a queue, `files[]`) is undefined, and nothing is claimed of it.

## 7. Plan

Done: every module of section 2, and the proofs of section 4. Left, in this order:

1. Compositions: Banker with the kernel's kills, where a revived task is not counted by the loop of `is_safe_state()`; Mutex with
   kills of owners and waiters.

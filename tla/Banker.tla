------------------------------- MODULE Banker -------------------------------
(***************************************************************************)
(* Resource management of src/scheduler.c: the Available, Max, Allocation  *)
(* and Need matrices, request_resources() with its trial allocation,       *)
(* is_safe_state() as the code computes it, and what task_create() and     *)
(* task_terminate() do to the matrices.                                    *)
(*                                                                         *)
(* Terminated tasks do not run again in this module (Kernel shows when the *)
(* scheduler breaks that), so task_count is the number of live tasks.      *)
(***************************************************************************)
EXTENDS Integers, FiniteSetsExt

CONSTANTS
    MAX_TASKS,
    Resources,
    Total,      \* available_resources[] at start
    Demands,    \* max_resources[] arguments of task_create()
    Amounts     \* request[] and release[] arguments

Pids == 0 .. MAX_TASKS - 1

ASSUME BankerAssumption ==
    /\ MAX_TASKS \in Nat
    /\ Total \in [Resources -> Nat]
    /\ Demands \subseteq [Resources -> Nat]
    /\ Amounts \subseteq [Resources -> Nat]

VARIABLES
    live,        \* {p : tasks[p].state != TASK_TERMINATED}
    available,   \* available_resources
    max_demand, allocation, need,
    task_count

vars == <<live, available, max_demand, allocation, need, task_count>>

Zero == [r \in Resources |-> 0]

-----------------------------------------------------------------------------
(* is_safe_state(), on the matrices av, al and nd. *)
(* A definition marked "bug:" is a variant a slip in the code would give; the runs *)
(* put it in the place of the definition after it to show that a property notices. *)

\* bug: what a finished task held is not added to work.
VisitKeepsWork(s, i, al, nd) ==
    IF i \notin s.finish /\ \A r \in Resources : nd[i][r] <= s.work[r]
    THEN [s EXCEPT !.finish = @ \cup {i}, !.count = @ + 1]
    ELSE s
\* The body of the inner loop: task i finishes if its need can be met.
Visit(s, i, al, nd) ==
    IF i \notin s.finish /\ \A r \in Resources : nd[i][r] <= s.work[r]
    THEN [work   |-> [r \in Resources |-> s.work[r] + al[i][r]],
          finish |-> s.finish \cup {i},
          count  |-> s.count + 1]
    ELSE s

\* One pass over the task table.
Pass(s, al, nd) ==
    LET scan[i \in 0 .. MAX_TASKS] ==
            IF i = 0 THEN s ELSE Visit(scan[i - 1], i - 1, al, nd)
    IN scan[MAX_TASKS]

\* The passes: a pass that finds nobody changes nothing, so MAX_TASKS rounds reach
\* the state in which the while loop ends.
IsSafeState(av, al, nd) ==
    LET round[k \in 0 .. MAX_TASKS] ==
            IF k = 0 THEN [work |-> av, finish |-> Pids \ live, count |-> 0]
            ELSE IF round[k - 1].count < task_count
                 THEN Pass(round[k - 1], al, nd)
                 ELSE round[k - 1]
    IN round[MAX_TASKS].finish = Pids

-----------------------------------------------------------------------------

Init ==
    /\ live = {}
    /\ available = Total
    /\ max_demand = [p \in Pids |-> Zero]
    /\ allocation = [p \in Pids |-> Zero]
    /\ need = [p \in Pids |-> Zero]
    /\ task_count = 0

TaskCreate(demand) ==
    /\ task_count < MAX_TASKS
    /\ \E p \in Pids \ live :
       /\ \A lower \in 0 .. p - 1 : lower \in live
       /\ live' = live \cup {p}
       /\ max_demand' = [max_demand EXCEPT ![p] = demand]
       /\ allocation' = [allocation EXCEPT ![p] = Zero]
       /\ need' = [need EXCEPT ![p] = demand]
    /\ task_count' = task_count + 1
    /\ UNCHANGED available

TaskTerminate(p) ==
    /\ p \in live
    /\ available' = [r \in Resources |-> available[r] + allocation[p][r]]
    /\ allocation' = [allocation EXCEPT ![p] = Zero]
    /\ live' = live \ {p}
    /\ task_count' = task_count - 1
    /\ UNCHANGED <<max_demand, need>>

\* The consistency checks of request_resources().
Consistent(p, request) ==
    /\ p \in live
    /\ \A r \in Resources : request[r] <= need[p][r] /\ request[r] <= available[r]

\* The trial allocation.
TrialAvailable(request) == [r \in Resources |-> available[r] - request[r]]
TrialAllocation(p, request) ==
    [allocation EXCEPT ![p] = [r \in Resources |-> @[r] + request[r]]]
TrialNeed(p, request) == [need EXCEPT ![p] = [r \in Resources |-> @[r] - request[r]]]
TrialIsSafe(p, request) ==
    IsSafeState(TrialAvailable(request), TrialAllocation(p, request), TrialNeed(p, request))

\* bug: the trial allocation is kept without the safety check.
GrantUnchecked(p, request) ==
    /\ Consistent(p, request)
    /\ available' = TrialAvailable(request)
    /\ allocation' = TrialAllocation(p, request)
    /\ need' = TrialNeed(p, request)
    /\ UNCHANGED <<live, max_demand, task_count>>
Grant(p, request) ==
    /\ Consistent(p, request)
    /\ TrialIsSafe(p, request)
    /\ available' = TrialAvailable(request)
    /\ allocation' = TrialAllocation(p, request)
    /\ need' = TrialNeed(p, request)
    /\ UNCHANGED <<live, max_demand, task_count>>

\* bug: what the trial took is not put back.
RollBackKeeping(p, request) ==
    /\ Consistent(p, request)
    /\ ~TrialIsSafe(p, request)
    /\ available' = TrialAvailable(request)
    /\ allocation' = [TrialAllocation(p, request) EXCEPT
                         ![p] = [r \in Resources |-> @[r] - request[r]]]
    /\ need' = [TrialNeed(p, request) EXCEPT ![p] = [r \in Resources |-> @[r] + request[r]]]
    /\ UNCHANGED <<live, max_demand, task_count>>
RollBack(p, request) ==
    /\ Consistent(p, request)
    /\ ~TrialIsSafe(p, request)
    /\ available' = [r \in Resources |-> TrialAvailable(request)[r] + request[r]]
    /\ allocation' = [TrialAllocation(p, request) EXCEPT
                         ![p] = [r \in Resources |-> @[r] - request[r]]]
    /\ need' = [TrialNeed(p, request) EXCEPT ![p] = [r \in Resources |-> @[r] + request[r]]]
    /\ UNCHANGED <<live, max_demand, task_count>>

\* The trial allocation, kept when it is safe and rolled back when it is not.
RequestResources(p, request) == Grant(p, request) \/ RollBack(p, request)

\* A resource of which more is released than is held is skipped, the others are not.
Released(p, release) ==
    [r \in Resources |-> IF release[r] > allocation[p][r] THEN 0 ELSE release[r]]

ReleaseResources(p, release) ==
    /\ p \in live
    /\ LET back == Released(p, release)
       IN /\ available' = [r \in Resources |-> available[r] + back[r]]
          /\ allocation' = [allocation EXCEPT ![p] = [r \in Resources |-> @[r] - back[r]]]
          /\ need' = [need EXCEPT ![p] = [r \in Resources |-> @[r] + back[r]]]
    /\ UNCHANGED <<live, max_demand, task_count>>

Next ==
    \/ \E d \in Demands : TaskCreate(d)
    \/ \E p \in Pids : TaskTerminate(p)
    \/ \E p \in Pids, v \in Amounts : RequestResources(p, v) \/ ReleaseResources(p, v)

Spec == Init /\ [][Next]_vars

-----------------------------------------------------------------------------

TypeOK ==
    /\ live \subseteq Pids
    /\ available \in [Resources -> Nat]
    /\ max_demand \in [Pids -> [Resources -> Nat]]
    /\ allocation \in [Pids -> [Resources -> Nat]]
    /\ need \in [Pids -> [Resources -> Nat]]
    /\ task_count \in 0 .. MAX_TASKS

\* No unit of a resource appears or disappears: what is free and what the tasks
\* hold, summed over the slots (held[i]: held by the slots below i), is the total.
\* Grant, rollback, partial release, termination and slot reuse must all balance.
Conserved ==
    \A r \in Resources : \E held \in [0 .. MAX_TASKS -> 0 .. Total[r]] :
        /\ held[0] = 0
        /\ \A i \in Pids : held[i + 1] = held[i] + allocation[i][r]
        /\ \A i, j \in 0 .. MAX_TASKS : i <= j => held[i] <= held[j]
        /\ available[r] + held[MAX_TASKS] = Total[r]

\* task_count, which ends the loop of is_safe_state(), is the number of live tasks.
CountIsLive == task_count = Cardinality(live)

\* A live task holds and needs, together, what it declared: it can never be granted
\* more than its maximum demand.
NeedIsTheRest ==
    \A p \in live : \A r \in Resources :
        allocation[p][r] + need[p][r] = max_demand[p][r]

-----------------------------------------------------------------------------
(* The reference definition of a safe state, which is_safe_state() is compared with. *)

\* What the tasks of a group hold of r, together.
HeldBy(group, al, r) == MapThenSumSet(LAMBDA q : al[q][r], group)

\* No group of live tasks is stuck: once all tasks outside the group have ended,
\* one of the group can be given what it needs.
SafeByGroups(av, al, nd) ==
    \A group \in (SUBSET live) \ {{}} : \E p \in group : \A r \in Resources :
        nd[p][r] <= av[r] + HeldBy(live \ group, al, r)

\* is_safe_state() decides safety: on every trial allocation request_resources() can
\* reach, granted or rolled back, its greedy passes say "safe" exactly when no group
\* of tasks is stuck.  A pass order, an early end of the loop or a stale work vector
\* must not make it wrong.
IsSafeStateExact ==
    \A p \in live, v \in Amounts : Consistent(p, v) =>
        (TrialIsSafe(p, v)
            <=> SafeByGroups(TrialAvailable(v), TrialAllocation(p, v), TrialNeed(p, v)))

FitsTotal(v) == \A r \in Resources : v[r] <= Total[r]

\* The system is safe exactly while no live task declared more than the system owns:
\* the grants, releases and terminations never lose safety, a task that can never be
\* satisfied suspends all grants, and its end restores safety.
SafeUnlessOversized ==
    SafeByGroups(available, allocation, need)
        <=> \A p \in live : FitsTotal(max_demand[p])

\* The Banker implements the allocator that grants only into safe states.
Allocator == INSTANCE SafeAllocator WITH N <- MAX_TASKS
AllocatorSpec == Allocator!Spec
=============================================================================

--------------------------- MODULE DiskScheduler ---------------------------
(***************************************************************************)
(* src/disk_scheduler.c: requests queued by submit_disk_request() and      *)
(* served by process_disk_requests(), shortest seek first, by several CPUs *)
(* under disk_lock.  One iteration of the loop over count is a step: it    *)
(* reads the queue, which changes only under the same lock.                *)
(***************************************************************************)
EXTENDS Spinlock, Sequences

CONSTANTS
    MAX_DISK_REQUESTS,
    Tracks,
    FAR         \* the first min_dist, 999999: a seek as long is never chosen

ASSUME DiskAssumption ==
    /\ MAX_DISK_REQUESTS \in Nat
    /\ Tracks \subseteq Int
    /\ FAR \in Nat

VARIABLES
    request_queue,  \* queue_size is its length
    job             \* per CPU: its request, or the locals of process_disk_requests()

diskVars == <<request_queue, job>>

\* head is the track to submit, or where the head is; completed the indices served.
NoJob == [serves |-> FALSE, head |-> 0, completed |-> {}, count |-> 0]

DiskInit ==
    /\ request_queue = <<>>
    /\ job = [c \in CPUs |-> NoJob]

Requests == 1 .. Len(request_queue)

abs_diff(a, b) == IF a > b THEN a - b ELSE b - a

Seek(c, i) == abs_diff(job[c].head, request_queue[i])

-----------------------------------------------------------------------------
(* A definition marked "bug:" is a variant a slip in the code would give; the runs *)
(* put it in the place of the definition after it to show that a property notices. *)

\* submit_disk_request(track), or process_disk_requests(track)
CallDisk(c, track, serves) ==
    /\ At(c, "idle")
    /\ job' = [job EXCEPT ![c] = [NoJob EXCEPT !.head = track, !.serves = serves]]
    /\ Go(c, "acquire")
    /\ UNCHANGED <<locked, request_queue>>

DiskAcquire(c) ==
    /\ TestAndSet(c, IF job[c].serves THEN "begin" ELSE "enqueue")
    /\ UNCHANGED diskVars

DiskSpin(c) == SpinRead(c) /\ UNCHANGED diskVars

QueueFull == Len(request_queue) >= MAX_DISK_REQUESTS

SubmitRefused(c) ==
    /\ At(c, "enqueue")
    /\ QueueFull
    /\ Go(c, "release")
    /\ UNCHANGED <<locked, diskVars>>

Submit(c) ==
    /\ At(c, "enqueue")
    /\ ~QueueFull
    /\ request_queue' = Append(request_queue, job[c].head)
    /\ Go(c, "release")
    /\ UNCHANGED <<locked, job>>

Begin(c) ==
    /\ At(c, "begin")
    /\ Go(c, IF request_queue = <<>> THEN "release" ELSE "round")
    /\ UNCHANGED <<locked, diskVars>>

\* next_idx: the nearest, and the first of several as near.
NextRequest(c, i) ==
    LET open == {j \in Requests \ job[c].completed : Seek(c, j) < FAR}
    IN /\ i \in open
       /\ \A j \in open : \/ Seek(c, i) < Seek(c, j)
                          \/ Seek(c, i) = Seek(c, j) /\ i <= j

\* bug: the last iteration is left out.
IterationsLeftButOne(c) == job[c].count + 1 < Len(request_queue)
IterationsLeft(c) == job[c].count < Len(request_queue)

\* One iteration that moves the head.
Serve(c) ==
    /\ At(c, "round")
    /\ IterationsLeft(c)
    /\ \E i \in Requests :
          /\ NextRequest(c, i)
          /\ job' = [job EXCEPT ![c] = [job[c] EXCEPT !.completed = @ \cup {i},
                                                      !.head = request_queue[i],
                                                      !.count = @ + 1]]
    /\ UNCHANGED <<locked, pc, request_queue>>

\* One iteration in which next_idx stays -1.
ServeNone(c) ==
    /\ At(c, "round")
    /\ IterationsLeft(c)
    /\ ~ \E i \in Requests : NextRequest(c, i)
    /\ job' = [job EXCEPT ![c].count = @ + 1]
    /\ UNCHANGED <<locked, pc, request_queue>>

ClearQueue(c) ==
    /\ At(c, "round")
    /\ ~IterationsLeft(c)
    /\ request_queue' = <<>>
    /\ Go(c, "release")
    /\ UNCHANGED <<locked, job>>

DiskReturn(c) ==
    /\ Release(c)
    /\ job' = [job EXCEPT ![c] = NoJob]
    /\ UNCHANGED request_queue

DiskStep(c) ==
    \/ DiskAcquire(c) \/ DiskSpin(c)
    \/ SubmitRefused(c) \/ Submit(c)
    \/ Begin(c) \/ Serve(c) \/ ServeNone(c) \/ ClearQueue(c)
    \/ DiskReturn(c)

DiskNext ==
    \E c \in CPUs :
        \/ \E track \in Tracks, serves \in BOOLEAN : CallDisk(c, track, serves)
        \/ DiskStep(c)

DiskSpec == SpinInit /\ DiskInit /\ [][DiskNext]_<<locked, pc, diskVars>>

-----------------------------------------------------------------------------

\* A pass overlooks no request: the head never goes past a waiting one to a farther one,
\* and the queue is emptied only when each was served, or is out of reach of where the
\* head stopped.  None that another CPU submits meanwhile is cleared with them.
PassOverlooksNone ==
    [][\A c \in CPUs : At(c, "round") =>
          \A i \in Requests \ job[c].completed :
              LET from == job[c].head
                  to == job'[c].head
              IN /\ request_queue' # request_queue => Seek(c, i) >= FAR
                 /\ ~(from < request_queue[i] /\ request_queue[i] < to)
                 /\ ~(to < request_queue[i] /\ request_queue[i] < from)]_<<request_queue, pc, job>>
=============================================================================

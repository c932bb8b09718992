-------------------------------- MODULE Heap --------------------------------
(***************************************************************************)
(* malloc() and free() of src/memory_management.c: a list of blocks in one *)
(* array.  A block is its header followed by size bytes; it is named by    *)
(* the address of its header, and free_list is address 0.                  *)
(*                                                                         *)
(* Both calls hold heap_lock from their first access to their last.  The   *)
(* coalescing loop of free() is one step per iteration; curr is its        *)
(* cursor, and no other call is made while it is in the list.              *)
(***************************************************************************)
EXTENDS Integers

CONSTANTS
    HEAP_MAX_SIZE,
    HEADER,         \* sizeof(block_t)
    SLACK           \* what a split must leave beyond a header, 8 in the code

ASSUME HeapAssumption ==
    /\ HEADER \in Nat \ {0}
    /\ SLACK \in Nat
    /\ HEAP_MAX_SIZE \in Nat
    /\ HEAP_MAX_SIZE >= HEADER

NULL == -1

VARIABLES
    blocks,     \* by address: [size, free, next]
    curr        \* curr of the loop in free(), NULL outside of it

heapVars == <<blocks, curr>>

Headers == DOMAIN blocks
Held == {a \in Headers : ~blocks[a].free}
Idle == curr = NULL

End(a) == a + HEADER + blocks[a].size

HeapInit ==
    /\ blocks = [a \in {0} |-> [size |-> HEAP_MAX_SIZE - HEADER, free |-> TRUE, next |-> NULL]]
    /\ curr = NULL

-----------------------------------------------------------------------------
(* A definition marked "bug:" is a variant a slip in the code would give; the runs *)
(* put it in the place of the definition after it to show that a property notices. *)

\* bug: the header counts as room.
FittingLoose(n) == {a \in Headers : blocks[a].free /\ blocks[a].size + HEADER >= n}
Fitting(n) == {a \in Headers : blocks[a].free /\ blocks[a].size >= n}

\* malloc() takes the first that fits; the list runs through the heap in order of
\* address (ListInOrder).
FirstFit(n, a) == a \in Fitting(n) /\ \A b \in Fitting(n) : a <= b

Splits(a, n) == blocks[a].size > n + HEADER + SLACK

\* bug: the rest is entered, but the block keeps its size.
CutWhole(a, n) ==
    LET rest == a + HEADER + n
    IN [b \in Headers \cup {rest} |->
          CASE b = a    -> [blocks[a] EXCEPT !.free = FALSE, !.next = rest]
            [] b = rest -> [size |-> blocks[a].size - n - HEADER, free |-> TRUE,
                            next |-> blocks[a].next]
            [] OTHER    -> blocks[b]]
\* The block a cut after n bytes; the rest becomes a free block behind it.
Cut(a, n) ==
    LET rest == a + HEADER + n
    IN [b \in Headers \cup {rest} |->
          CASE b = a    -> [size |-> n, free |-> FALSE, next |-> rest]
            [] b = rest -> [size |-> blocks[a].size - n - HEADER, free |-> TRUE,
                            next |-> blocks[a].next]
            [] OTHER    -> blocks[b]]

Whole(a) == [blocks EXCEPT ![a].free = FALSE]

\* malloc(n) that returns the memory behind the header a.
Malloc(n, a) ==
    /\ Idle
    /\ FirstFit(n, a)
    /\ blocks' = IF Splits(a, n) THEN Cut(a, n) ELSE Whole(a)
    /\ UNCHANGED curr

\* malloc(n) that returns NULL.
MallocFails(n) == Idle /\ Fitting(n) = {} /\ UNCHANGED heapVars

\* free() of the memory behind the header a, up to the loop.
Free(a) ==
    /\ Idle
    /\ blocks' = [blocks EXCEPT ![a].free = TRUE]
    /\ curr' = 0

Joins(a) == blocks[a].next # NULL /\ blocks[a].free /\ blocks[blocks[a].next].free

\* bug: the cursor moves on after a join as well.
MergeAndAdvance ==
    /\ ~Idle
    /\ Joins(curr)
    /\ LET behind == blocks[curr].next
       IN /\ blocks' = [b \in Headers \ {behind} |->
                          IF b = curr
                          THEN [size |-> blocks[curr].size + HEADER + blocks[behind].size,
                                free |-> TRUE,
                                next |-> blocks[behind].next]
                          ELSE blocks[b]]
          /\ curr' = blocks[behind].next

\* One iteration that joins curr with the block behind it; curr stays.
Merge ==
    /\ ~Idle
    /\ Joins(curr)
    /\ LET behind == blocks[curr].next
       IN blocks' = [b \in Headers \ {behind} |->
                       IF b = curr
                       THEN [size |-> blocks[curr].size + HEADER + blocks[behind].size,
                             free |-> TRUE,
                             next |-> blocks[behind].next]
                       ELSE blocks[b]]
    /\ UNCHANGED curr

\* One iteration that moves on.
Advance ==
    /\ ~Idle
    /\ ~Joins(curr)
    /\ curr' = blocks[curr].next
    /\ UNCHANGED blocks

Coalesce == Merge \/ Advance

-----------------------------------------------------------------------------

\* The blocks tile the heap in the order of the list: each ends where the next one
\* starts, the last at the end of the heap, through every split and every join.
ListInOrder ==
    /\ 0 \in Headers
    /\ \A a \in Headers :
          /\ a >= 0 /\ blocks[a].size >= 0 /\ End(a) <= HEAP_MAX_SIZE
          /\ blocks[a].next = IF End(a) = HEAP_MAX_SIZE THEN NULL ELSE End(a)
          /\ End(a) < HEAP_MAX_SIZE => End(a) \in Headers
          /\ \A b \in Headers : a < b => End(a) <= b

\* Between calls no two neighbours are free: one pass of the loop joins every run of
\* free blocks, whichever block was freed, so no memory is lost to fragments.
NoFreeNeighbours == Idle => \A a \in Headers : ~Joins(a)

\* The list is the heap, cut into as few blocks as its held memory allows: no byte is
\* lost or in two blocks, and free neighbours are joined.
HeapTiled == ListInOrder /\ NoFreeNeighbours
=============================================================================

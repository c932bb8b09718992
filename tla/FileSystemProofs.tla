--------------------------- MODULE FileSystemProofs ---------------------------
(***************************************************************************)
(* For any names, any sizes and any heap.  The first half is about the     *)
(* heap: the blocks tile it, no two neighbours stay free, and what is      *)
(* handed out stays in place, apart from all the rest (HInv).  The second  *)
(* is about the files: they hold exactly the memory they lead to, the      *)
(* system halts for want of memory only when there is none, and it behaves *)
(* as a map from names (FileMap).                                          *)
(*                                                                         *)
(* A call is not atomic, so the second invariant names its phases: what is *)
(* held and which sizes fit between two of its heap calls (AtRest, FsInv). *)
(***************************************************************************)
EXTENDS FileSystem, SequenceTheorems, WellFoundedInduction, TLAPS

-----------------------------------------------------------------------------
(* The heap. *)

HeapTyped ==
    /\ blocks = [a \in Headers |-> blocks[a]]
    /\ \A a \in Headers : blocks[a] \in [size : Nat, free : BOOLEAN, next : Int]
    /\ Headers \subseteq Nat
    /\ curr \in Headers \cup {NULL}

\* The loop of free() leaves no free neighbours behind its cursor.
JoinedBehind == \A a \in Headers : Idle \/ a < curr => ~Joins(a)

HInv == HeapTyped /\ ListInOrder /\ JoinedBehind

\* What is held after a step, the old of it in its place.
HeldBecomes(S) == Held' = S /\ \A b \in Held : End(b)' = End(b)

-----------------------------------------------------------------------------

\* A block with another one behind it: the next one starts where it ends.
LEMMA NextOne ==
    ASSUME HeapAssumption, HeapTyped, ListInOrder,
           NEW a \in Headers, NEW b \in Headers, a < b
    PROVE  End(a) \in Headers /\ blocks[a].next = End(a) /\ a < End(a) /\ End(a) <= b
  <1>1. a \in Nat /\ b \in Nat /\ blocks[a].size \in Nat /\ blocks[b].size \in Nat
    BY DEF HeapTyped
  <1>2. End(a) <= b /\ End(b) <= HEAP_MAX_SIZE /\ End(a) \in Nat /\ End(b) \in Nat /\ a < End(a) /\ b < End(b)
    BY <1>1 DEF ListInOrder, End, HeapAssumption
  <1>3. End(a) < HEAP_MAX_SIZE
    BY <1>1, <1>2 DEF HeapAssumption
  <1> QED BY <1>2, <1>3 DEF ListInOrder

\* A block whose next is set has its neighbour there.
LEMMA NextIsBehind ==
    ASSUME HeapAssumption, HeapTyped, ListInOrder, NEW a \in Headers, blocks[a].next # NULL
    PROVE  blocks[a].next = End(a) /\ End(a) \in Headers /\ a < End(a)
  <1>1. a \in Nat /\ blocks[a].size \in Nat /\ End(a) \in Nat /\ a < End(a)
    BY DEF HeapTyped, End, HeapAssumption
  <1>2. End(a) # HEAP_MAX_SIZE /\ End(a) <= HEAP_MAX_SIZE /\ blocks[a].next = End(a)
    BY DEF ListInOrder
  <1>3. End(a) < HEAP_MAX_SIZE
    BY <1>1, <1>2 DEF HeapAssumption
  <1> QED BY <1>1, <1>2, <1>3 DEF ListInOrder

\* Marking a block free or held moves nothing.
LEMMA MarkKeeps ==
    ASSUME HeapAssumption, HeapTyped, ListInOrder, NEW a, NEW f \in BOOLEAN,
           blocks' = [blocks EXCEPT ![a].free = f]
    PROVE  /\ ListInOrder' /\ Headers' = Headers
           /\ blocks' = [b \in Headers' |-> blocks'[b]]
           /\ \A b \in Headers : /\ blocks'[b] \in [size : Nat, free : BOOLEAN, next : Int]
                                 /\ blocks'[b].size = blocks[b].size /\ blocks'[b].next = blocks[b].next
                                 /\ b # a => blocks'[b] = blocks[b]
                                 /\ b = a => blocks'[b].free = f
  <1>1. Headers' = Headers /\ blocks' = [b \in Headers |-> IF b = a THEN [blocks[b] EXCEPT !.free = f] ELSE blocks[b]]
    BY DEF HeapTyped, Headers
  <1>2. ASSUME NEW b \in Headers
        PROVE  /\ blocks'[b] \in [size : Nat, free : BOOLEAN, next : Int]
               /\ blocks'[b].size = blocks[b].size /\ blocks'[b].next = blocks[b].next
               /\ b # a => blocks'[b] = blocks[b]
               /\ b = a => blocks'[b].free = f
    <2>1. blocks[b] \in [size : Nat, free : BOOLEAN, next : Int]
      BY <1>2 DEF HeapTyped
    <2>2. CASE b = a
      <3>1. blocks'[b] = [blocks[b] EXCEPT !.free = f]
        BY <1>1, <1>2, <2>2
      <3> QED BY <2>1, <2>2, <3>1
    <2>3. CASE b # a
      BY <1>1, <1>2, <2>1, <2>3
    <2> QED BY <2>2, <2>3
  <1>3. ListInOrder'
    BY <1>1, <1>2 DEF ListInOrder, End
  <1>4. blocks' = [b \in Headers' |-> blocks'[b]]
    BY <1>1
  <1> QED BY <1>1, <1>2, <1>3, <1>4

LEMMA HeapStarts == ASSUME HeapAssumption PROVE HeapInit => HInv
  <1> SUFFICES ASSUME HeapInit PROVE HInv
    OBVIOUS
  <1>1. /\ Headers = {0}
        /\ blocks[0] = [size |-> HEAP_MAX_SIZE - HEADER, free |-> TRUE, next |-> NULL]
        /\ blocks = [a \in Headers |-> blocks[a]]
        /\ curr = NULL
    BY DEF HeapInit, Headers
  <1>2. HEAP_MAX_SIZE - HEADER \in Nat /\ NULL \in Int /\ HEADER \in Nat
    BY DEF HeapAssumption, NULL
  <1>3. HeapTyped
    <2>1. blocks[0] \in [size : Nat, free : BOOLEAN, next : Int]
      BY <1>1, <1>2
    <2>2. \A a \in Headers : blocks[a] \in [size : Nat, free : BOOLEAN, next : Int]
      BY <1>1, <2>1
    <2>3. Headers \subseteq Nat /\ curr \in Headers \cup {NULL}
      BY <1>1
    <2>4. blocks = [a \in Headers |-> blocks[a]]
      BY <1>1
    <2> QED BY <2>2, <2>3, <2>4 DEF HeapTyped
  <1>4. End(0) = HEAP_MAX_SIZE
    BY <1>1 DEF End, HeapAssumption
  <1>5. ListInOrder
    BY <1>1, <1>2, <1>4 DEF ListInOrder, HeapAssumption
  <1> QED BY <1>1, <1>3, <1>5 DEF JoinedBehind, Joins, HInv

LEMMA FreeKeeps ==
    ASSUME HeapAssumption, HInv, NEW a, Free(a)
    PROVE  HInv' /\ HeldBecomes(Held \ {a})
  <1>1. /\ ListInOrder' /\ Headers' = Headers /\ blocks' = [b \in Headers' |-> blocks'[b]]
        /\ \A b \in Headers : /\ blocks'[b] \in [size : Nat, free : BOOLEAN, next : Int]
                              /\ blocks'[b].size = blocks[b].size
                              /\ b # a => blocks'[b] = blocks[b]
                              /\ b = a => blocks'[b].free = TRUE
    BY MarkKeeps DEF HInv, Free
  <1>2. HeapTyped'
    BY <1>1 DEF HeapTyped, HInv, Free, ListInOrder
  <1>3. JoinedBehind'
    BY <1>1 DEF JoinedBehind, Free, Idle, NULL, HInv, HeapTyped
  <1>4. HeldBecomes(Held \ {a})
    BY <1>1 DEF HeldBecomes, Held, End
  <1> QED BY <1>1, <1>2, <1>3, <1>4 DEF HInv

-----------------------------------------------------------------------------

\* malloc() without a split.
LEMMA WholeKeeps ==
    ASSUME HeapAssumption, HInv, NEW a \in Headers, Idle, blocks' = Whole(a), UNCHANGED curr
    PROVE  HInv' /\ HeldBecomes(Held \cup {a})
  <1>1. /\ ListInOrder' /\ Headers' = Headers /\ blocks' = [b \in Headers' |-> blocks'[b]]
        /\ \A b \in Headers : /\ blocks'[b] \in [size : Nat, free : BOOLEAN, next : Int]
                              /\ blocks'[b].size = blocks[b].size /\ blocks'[b].next = blocks[b].next
                              /\ b # a => blocks'[b] = blocks[b]
                              /\ b = a => blocks'[b].free = FALSE
    BY MarkKeeps DEF HInv, Whole
  <1>2. HeapTyped'
    BY <1>1 DEF HeapTyped, HInv
  <1>3. JoinedBehind'
    <2> SUFFICES ASSUME NEW b \in Headers, Joins(b)' PROVE FALSE
      BY <1>1 DEF JoinedBehind
    <2>1. blocks[b].next # NULL /\ blocks'[b].free /\ blocks'[blocks[b].next].free
      BY <1>1 DEF Joins
    <2>2. blocks[b].next \in Headers
      BY <2>1, NextIsBehind DEF HInv
    <2>3. blocks[b].free /\ blocks[blocks[b].next].free
      BY <1>1, <2>1, <2>2
    <2> QED BY <2>1, <2>3 DEF HInv, JoinedBehind, Joins
  <1>4. HeldBecomes(Held \cup {a})
    BY <1>1 DEF HeldBecomes, Held, End
  <1> QED BY <1>1, <1>2, <1>3, <1>4 DEF HInv

\* malloc() with a split.
LEMMA CutKeeps ==
    ASSUME HeapAssumption, HInv, NEW n \in Nat, NEW a \in Headers, Idle, blocks[a].free,
           Splits(a, n), blocks' = Cut(a, n), UNCHANGED curr
    PROVE  HInv' /\ HeldBecomes(Held \cup {a})
  <1> DEFINE rest == a + HEADER + n
  <1>0. /\ a \in Nat /\ blocks[a].size \in Nat /\ blocks[a].next \in Int /\ HEADER \in Nat \ {0} /\ SLACK \in Nat
        /\ HEAP_MAX_SIZE \in Nat
    BY DEF HeapAssumption, HInv, HeapTyped
  <1>1. /\ rest \in Nat /\ a < rest /\ rest + HEADER < End(a) /\ End(a) \in Nat /\ End(a) <= HEAP_MAX_SIZE
        /\ blocks[a].size - n - HEADER \in Nat
    BY <1>0 DEF Splits, End, HInv, ListInOrder
  \* No header lies inside the block.
  <1>2. ASSUME NEW b \in Headers PROVE b <= a \/ b >= End(a)
    BY <1>0, <1>2, NextOne DEF HInv, HeapTyped
  <1>3. rest \notin Headers
    BY <1>0, <1>1, <1>2
  <1>4. /\ Headers' = Headers \cup {rest}
        /\ blocks'[a] = [size |-> n, free |-> FALSE, next |-> rest]
        /\ blocks'[rest] = [size |-> blocks[a].size - n - HEADER, free |-> TRUE, next |-> blocks[a].next]
        /\ \A b \in Headers : b # a => blocks'[b] = blocks[b]
        /\ blocks' = [b \in Headers' |-> blocks'[b]]
    <2> HIDE DEF rest
    <2>1. blocks' = [b \in Headers \cup {rest} |->
                       CASE b = a    -> [size |-> n, free |-> FALSE, next |-> rest]
                         [] b = rest -> [size |-> blocks[a].size - n - HEADER, free |-> TRUE,
                                         next |-> blocks[a].next]
                         [] OTHER    -> blocks[b]]
      BY DEF Cut, rest
    <2>2. a # rest
      BY <1>0, <1>1
    <2>3. Headers' = Headers \cup {rest}
      BY <2>1 DEF Headers
    <2>4. blocks'[a] = [size |-> n, free |-> FALSE, next |-> rest]
      BY <2>1, <2>2
    <2>5. blocks'[rest] = [size |-> blocks[a].size - n - HEADER, free |-> TRUE, next |-> blocks[a].next]
      BY <2>1, <2>2
    <2>6. ASSUME NEW b \in Headers, b # a PROVE blocks'[b] = blocks[b]
      BY <1>3, <2>1, <2>6
    <2>7. blocks' = [b \in Headers' |-> blocks'[b]]
      BY <2>1, <2>3
    <2> QED BY <2>3, <2>4, <2>5, <2>6, <2>7
  <1>5. /\ End(a)' = rest /\ End(rest)' = End(a)
        /\ \A b \in Headers : b # a => End(b)' = End(b)
    BY <1>0, <1>1, <1>4 DEF End
  <1> HIDE DEF rest
  <1>6. HeapTyped'
    <2>1. Headers' \subseteq Nat /\ curr' \in Headers' \cup {NULL}
      BY <1>1, <1>4 DEF HInv, HeapTyped
    <2>2. ASSUME NEW b \in Headers' PROVE blocks'[b] \in [size : Nat, free : BOOLEAN, next : Int]
      <3>1. CASE b = a
        <4>1. [size |-> n, free |-> FALSE, next |-> rest] \in [size : Nat, free : BOOLEAN, next : Int]
          BY <1>1
        <4> QED BY <1>4, <3>1, <4>1
      <3>2. CASE b = rest
        <4>1. [size |-> blocks[a].size - n - HEADER, free |-> TRUE, next |-> blocks[a].next]
                \in [size : Nat, free : BOOLEAN, next : Int]
          BY <1>0, <1>1
        <4> QED BY <1>4, <3>2, <4>1
      <3>3. CASE b \in Headers /\ b # a
        BY <1>4, <3>3 DEF HInv, HeapTyped
      <3> QED BY <1>4, <3>1, <3>2, <3>3
    <2> QED BY <1>4, <2>1, <2>2 DEF HeapTyped
  <1>7. ListInOrder'
    <2>1. 0 \in Headers'
      BY <1>4 DEF HInv, ListInOrder
    <2>2. ASSUME NEW b \in Headers'
          PROVE  /\ b >= 0 /\ blocks'[b].size >= 0 /\ End(b)' <= HEAP_MAX_SIZE
                 /\ blocks'[b].next = IF End(b)' = HEAP_MAX_SIZE THEN NULL ELSE End(b)'
                 /\ End(b)' < HEAP_MAX_SIZE => End(b)' \in Headers'
      <3>1. CASE b = a
        BY <1>0, <1>1, <1>4, <1>5, <3>1
      <3>2. CASE b = rest
        BY <1>0, <1>1, <1>4, <1>5, <3>2 DEF HInv, ListInOrder
      <3>3. CASE b \in Headers /\ b # a
        BY <1>4, <1>5, <3>3 DEF HInv, ListInOrder
      <3> QED BY <1>4, <2>2, <3>1, <3>2, <3>3
    <2>3. ASSUME NEW b \in Headers', NEW d \in Headers', b < d PROVE End(b)' <= d
      <3>0. b \in Nat /\ d \in Nat
        BY <1>4, <1>1 DEF HInv, HeapTyped
      <3>1. CASE b = a
        BY <1>0, <1>1, <1>2, <1>4, <1>5, <2>3, <3>0, <3>1
      <3>2. CASE b = rest
        BY <1>0, <1>1, <1>2, <1>4, <1>5, <2>3, <3>0, <3>2
      <3>3. CASE b \in Headers /\ b # a
        <4>1. CASE d \in Headers
          BY <1>5, <2>3, <3>3, <4>1 DEF HInv, ListInOrder
        <4>2. CASE d = rest
          <5>1. b < a
            BY <1>0, <1>1, <1>2, <2>3, <3>0, <3>3, <4>2
          <5>2. End(b) <= a
            BY <3>3, <5>1 DEF HInv, ListInOrder
          <5>3. End(b) \in Int
            BY <3>0, <3>3, <1>0 DEF End, HInv, HeapTyped
          <5> QED BY <1>0, <1>1, <1>5, <3>3, <4>2, <5>2, <5>3
        <4> QED BY <1>4, <4>1, <4>2
      <3> QED BY <1>4, <3>1, <3>2, <3>3
    <2> QED BY <2>1, <2>2, <2>3 DEF ListInOrder
  <1>8. JoinedBehind'
    <2> SUFFICES ASSUME NEW b \in Headers', Joins(b)' PROVE FALSE
      BY DEF JoinedBehind
    <2>1. blocks'[b].next # NULL /\ blocks'[b].free /\ blocks'[blocks'[b].next].free
      BY DEF Joins
    <2>2. b # a
      BY <1>4, <2>1
    \* The block behind a was not free, as a was.
    <2>3. CASE b = rest
      <3>1. blocks[a].next # NULL
        BY <1>4, <2>1, <2>3
      <3>2. blocks[a].next \in Headers /\ blocks[a].next # a
        BY <1>0, <3>1, NextIsBehind DEF HInv
      <3>3. blocks[blocks[a].next].free
        BY <1>4, <2>1, <2>3, <3>2
      <3> QED BY <3>1, <3>3 DEF HInv, JoinedBehind, Joins
    <2>4. CASE b \in Headers /\ b # rest
      <3>1. blocks'[b] = blocks[b]
        BY <1>4, <2>2, <2>4
      <3>2. blocks[b].next \in Headers
        BY <2>1, <2>4, <3>1, NextIsBehind DEF HInv
      <3>3. blocks[b].next # a
        BY <1>4, <2>1, <3>1
      <3> QED BY <1>4, <2>1, <2>4, <3>1, <3>2, <3>3 DEF HInv, JoinedBehind, Joins
    <2> QED BY <1>4, <2>3, <2>4
  <1>9. HeldBecomes(Held \cup {a})
    BY <1>3, <1>4, <1>5 DEF HeldBecomes, Held
  <1> QED BY <1>6, <1>7, <1>8, <1>9 DEF HInv

LEMMA MallocKeeps ==
    ASSUME HeapAssumption, HInv, NEW n \in Nat, NEW a, Malloc(n, a)
    PROVE  HInv' /\ HeldBecomes(Held \cup {a})
  <1>1. a \in Headers /\ blocks[a].free /\ Idle /\ UNCHANGED curr
    BY DEF Malloc, FirstFit, Fitting
  <1>2. CASE Splits(a, n)
    BY <1>1, <1>2, CutKeeps DEF Malloc
  <1>3. CASE ~Splits(a, n)
    BY <1>1, <1>3, WholeKeeps DEF Malloc
  <1> QED BY <1>2, <1>3

-----------------------------------------------------------------------------

\* One join: curr takes over the block behind it.
LEMMA MergeKeeps == ASSUME HeapAssumption, HInv, Merge PROVE HInv' /\ HeldBecomes(Held)
  <1> DEFINE behind == blocks[curr].next
             joined == [size |-> blocks[curr].size + HEADER + blocks[behind].size,
                        free |-> TRUE, next |-> blocks[behind].next]
  <1>0. /\ curr \in Headers /\ curr' = curr /\ ~Idle /\ blocks[curr].free /\ behind # NULL
        /\ blocks[behind].free
    BY DEF Merge, HInv, HeapTyped, Idle, Joins
  <1>1. behind = End(curr) /\ behind \in Headers /\ curr < behind
    BY <1>0, NextIsBehind DEF HInv
  <1>2. /\ HEADER \in Nat \ {0} /\ curr \in Nat /\ behind \in Nat
        /\ blocks[curr].size \in Nat /\ blocks[behind].size \in Nat /\ blocks[behind].next \in Int
    BY <1>0, <1>1 DEF HInv, HeapTyped, HeapAssumption
  <1>3. blocks' = [b \in Headers \ {behind} |-> IF b = curr THEN joined ELSE blocks[b]]
    BY DEF Merge
  <1>4. joined \in [size : Nat, free : BOOLEAN, next : Int]
    BY <1>2
  <1>5. curr + HEADER + joined.size = End(behind) /\ joined.next = blocks[behind].next /\ joined.free
    BY <1>1, <1>2 DEF End
  <1> HIDE DEF behind, joined
  <1>6. /\ Headers' = Headers \ {behind}
        /\ blocks'[curr] = joined
        /\ \A b \in Headers \ {curr, behind} : blocks'[b] = blocks[b]
        /\ blocks' = [b \in Headers' |-> blocks'[b]]
    <2>1. Headers' = Headers \ {behind}
      BY <1>3 DEF Headers
    <2>2. blocks'[curr] = joined
      BY <1>0, <1>1, <1>2, <1>3
    <2>3. ASSUME NEW b \in Headers \ {curr, behind} PROVE blocks'[b] = blocks[b]
      BY <1>3, <2>3
    <2>4. blocks' = [b \in Headers' |-> blocks'[b]]
      BY <1>3, <2>1
    <2> QED BY <2>1, <2>2, <2>3, <2>4
  <1>7. /\ \A b \in Headers : b = curr => End(b)' = End(behind)
        /\ \A b \in Headers \ {curr, behind} : End(b)' = End(b)
    BY <1>0, <1>5, <1>6 DEF End
  <1>8. HeapTyped'
    <2>1. Headers' \subseteq Nat /\ curr' \in Headers' \cup {NULL}
      BY <1>0, <1>1, <1>2, <1>6 DEF HInv, HeapTyped
    <2>2. ASSUME NEW b \in Headers' PROVE blocks'[b] \in [size : Nat, free : BOOLEAN, next : Int]
      BY <1>4, <1>6, <2>2 DEF HInv, HeapTyped
    <2> QED BY <1>6, <2>1, <2>2 DEF HeapTyped
  \* Only curr ends where the block behind it starts.
  <1>9. ASSUME NEW b \in Headers, End(b) = behind PROVE b = curr
    <2>0. b \in Nat
      BY <1>9 DEF HInv, HeapTyped
    <2>1. CASE b < curr
      BY <1>0, <1>1, <1>2, <1>9, <2>1, NextOne DEF HInv
    <2>2. CASE curr < b
      <3>1. End(curr) <= b
        BY <1>0, <1>9, <2>2, NextOne DEF HInv
      <3>2. b < End(b)
        <4>1. blocks[b].size \in Nat
          BY <1>9 DEF HInv, HeapTyped
        <4> QED BY <1>2, <2>0, <4>1 DEF End
      <3> QED BY <1>1, <1>2, <1>9, <2>0, <3>1, <3>2
    <2> QED BY <1>2, <2>0, <2>1, <2>2
  <1>10. ListInOrder'
    <2>1. 0 \in Headers'
      BY <1>1, <1>2, <1>6 DEF HInv, ListInOrder
    <2>2. ASSUME NEW b \in Headers'
          PROVE  /\ b >= 0 /\ blocks'[b].size >= 0 /\ End(b)' <= HEAP_MAX_SIZE
                 /\ blocks'[b].next = IF End(b)' = HEAP_MAX_SIZE THEN NULL ELSE End(b)'
                 /\ End(b)' < HEAP_MAX_SIZE => End(b)' \in Headers'
      <3>0. blocks'[b].size \in Nat /\ b \in Nat
        BY <1>8, <2>2 DEF HeapTyped
      <3>1. CASE b = curr
        <4>1. End(behind) # behind
          BY <1>2 DEF End
        <4>2. /\ End(behind) <= HEAP_MAX_SIZE
              /\ blocks[behind].next = IF End(behind) = HEAP_MAX_SIZE THEN NULL ELSE End(behind)
              /\ End(behind) < HEAP_MAX_SIZE => End(behind) \in Headers
          BY <1>1 DEF HInv, ListInOrder
        <4>3. blocks'[b].next = blocks[behind].next /\ End(b)' = End(behind)
          BY <1>0, <1>5, <1>6, <1>7, <3>1
        <4> QED BY <1>6, <3>0, <4>1, <4>2, <4>3
      <3>2. CASE b # curr
        BY <1>6, <1>7, <1>9, <2>2, <3>0, <3>2 DEF HInv, ListInOrder
      <3> QED BY <3>1, <3>2
    <2>3. ASSUME NEW b \in Headers', NEW d \in Headers', b < d PROVE End(b)' <= d
      <3>1. CASE b = curr
        <4>1. d \in Nat /\ d # behind /\ behind <= d
          <5>1. d \in Headers /\ d # behind
            BY <1>6, <2>3
          <5> QED BY <1>0, <1>1, <2>3, <3>1, <5>1, NextOne DEF HInv, HeapTyped
        <4>2. behind < d
          BY <1>2, <4>1
        <4>3. End(behind) <= d
          BY <1>1, <1>6, <4>2 DEF HInv, ListInOrder
        <4>4. End(b)' = End(behind)
          BY <1>0, <1>7, <3>1
        <4> QED BY <4>3, <4>4
      <3>2. CASE b # curr
        BY <1>6, <1>7, <2>3, <3>2 DEF HInv, ListInOrder
      <3> QED BY <3>1, <3>2
    <2> QED BY <2>1, <2>2, <2>3 DEF ListInOrder
  <1>11. JoinedBehind'
    <2> SUFFICES ASSUME NEW b \in Headers', Idle' \/ b < curr, Joins(b)' PROVE FALSE
      BY <1>0 DEF JoinedBehind
    <2>0. b \in Headers /\ b \in Nat /\ b < curr /\ b # curr /\ b # behind
      BY <1>0, <1>2, <1>6 DEF Idle, HInv, HeapTyped
    <2>1. blocks'[b] = blocks[b]
      BY <1>6, <2>0
    <2>2. blocks[b].next # NULL /\ blocks[b].free /\ blocks'[blocks[b].next].free
      BY <2>1 DEF Joins
    <2>3. blocks[b].next = End(b) /\ End(b) \in Headers /\ End(b) # behind
      BY <1>9, <2>0, <2>2, NextIsBehind DEF HInv
    <2>4. blocks[blocks[b].next].free
      BY <1>0, <1>6, <2>2, <2>3
    <2> QED BY <2>0, <2>2, <2>4 DEF HInv, JoinedBehind, Joins
  <1>12. HeldBecomes(Held)
    BY <1>0, <1>5, <1>6, <1>7 DEF HeldBecomes, Held, behind
  <1> QED BY <1>8, <1>10, <1>11, <1>12 DEF HInv

\* One move of the cursor.
LEMMA AdvanceKeeps == ASSUME HeapAssumption, HInv, Advance PROVE HInv' /\ HeldBecomes(Held)
  <1>0. curr \in Headers /\ ~Joins(curr) /\ blocks' = blocks /\ curr' = blocks[curr].next /\ ~Idle
    BY DEF Advance, HInv, HeapTyped, Idle
  <1>1. curr' = NULL \/ (curr' = End(curr) /\ End(curr) \in Headers)
    BY <1>0, NextIsBehind DEF HInv
  <1>2. HeapTyped' /\ ListInOrder'
    BY <1>0, <1>1 DEF HInv, HeapTyped, ListInOrder, Headers, End
  <1>3. JoinedBehind'
    <2> SUFFICES ASSUME NEW b \in Headers, Idle' \/ b < curr' PROVE ~Joins(b)
      BY <1>0 DEF JoinedBehind, Joins, Headers
    <2>1. b \in Nat /\ curr \in Nat
      BY <1>0 DEF HInv, HeapTyped
    <2>2. CASE b < curr
      BY <2>2 DEF HInv, JoinedBehind
    <2>3. CASE b = curr
      BY <1>0, <2>3
    <2>4. CASE curr < b
      <3>1. End(curr) \in Headers /\ blocks[curr].next = End(curr) /\ curr < End(curr) /\ End(curr) <= b
        BY <1>0, <2>4, NextOne DEF HInv
      <3>2. End(curr) \in Nat /\ End(curr) # NULL
        BY <3>1 DEF HInv, HeapTyped, NULL
      <3> QED BY <1>0, <2>1, <3>1, <3>2 DEF Idle
    <2> QED BY <2>1, <2>2, <2>3, <2>4
  <1>4. HeldBecomes(Held)
    BY <1>0 DEF HeldBecomes, Held, Headers, End
  <1> QED BY <1>2, <1>3, <1>4 DEF HInv

\* Every step that the heap can take.
HeapStep ==
    \/ \E n \in Nat, a \in Headers : Malloc(n, a)
    \/ \E a \in Int : Free(a)
    \/ Coalesce
    \/ UNCHANGED heapVars

LEMMA HeapStepKeeps == ASSUME HeapAssumption, HInv, HeapStep PROVE HInv'
  <1>1. CASE UNCHANGED heapVars
    BY <1>1 DEF heapVars, HInv, HeapTyped, ListInOrder, JoinedBehind, Headers, End, Idle, Joins
  <1>2. CASE Coalesce
    BY <1>2, MergeKeeps, AdvanceKeeps DEF Coalesce
  <1> QED BY <1>1, <1>2, MallocKeeps, FreeKeeps DEF HeapStep

-----------------------------------------------------------------------------

Files == [at : Int, name : Names, dir : BOOLEAN, size : Nat, data : Int]

\* The steps of a call, when so many files are in the directory.
StepsWith(count) ==
    ({"free"} \X Int) \cup ({"fill"} \X Int \X Nat \X Names) \cup ({"subdir"} \X Int \X Names)
    \cup ({"unlink"} \X (1 .. count) \X Names) \cup ({"panic"} \X {"ERR_OUT_OF_MEMORY"} \X Names)

FsTyped ==
    /\ files \in Seq(Files)
    /\ todo \in Seq(StepsWith(Len(files)))

\* What a call asks of the heap is a step of the heap, whatever it frees.
LEMMA Asked ==
    ASSUME FileSystemAssumption, HInv
    PROVE  /\ \A n \in Sizes \cup {FILE_SIZE, DIRECTORY_SIZE}, a \in Headers : Malloc(n, a) => HeapStep
           /\ \A n \in Nat, a \in Headers : Malloc(n, a) => HeapStep
           /\ \A n \in Nat : MallocFails(n) => HeapStep
           /\ MallocFails(FILE_SIZE) => HeapStep
           /\ MallocFails(DIRECTORY_SIZE) => HeapStep
           /\ \A a \in Int : Free(a) => HeapStep
           /\ UNCHANGED <<blocks, curr>> => HeapStep
           /\ Headers \subseteq Int
           /\ NULL \in Int
  BY DEF FileSystemAssumption, HeapStep, MallocFails, heapVars, HInv, HeapTyped, NULL

LEMMA NewFileFits ==
    ASSUME FileSystemAssumption, HInv, FsTyped, NEW name \in Names,
           NEW rest \in Seq(StepsWith(0)), NewFile(name, rest)
    PROVE  FsTyped' /\ HeapStep
  <1>1. CASE OutOfMemory(FILE_SIZE) /\ UNCHANGED files
    <2>1. HeapStep
      BY <1>1, Asked DEF OutOfMemory
    <2> QED BY <1>1, <2>1 DEF FsTyped, OutOfMemory
  <1>2. ASSUME NEW a \in Headers, Malloc(FILE_SIZE, a), files' = Append(files, Entry(a, name)), todo' = rest
        PROVE  FsTyped' /\ HeapStep
    <2>1. HeapStep
      BY <1>2, Asked
    <2>2. Entry(a, name) \in Files
      BY Asked DEF Entry, Files
    <2>3. files' \in Seq(Files)
      BY <1>2, <2>2 DEF FsTyped
    <2>4. todo' \in Seq(StepsWith(Len(files')))
      <3>1. StepsWith(0) \subseteq StepsWith(Len(files'))
        BY DEF StepsWith
      <3> QED BY <1>2, <3>1
    <2> QED BY <2>1, <2>3, <2>4 DEF FsTyped
  <1> QED BY <1>1, <1>2 DEF NewFile

\* A call that only notes its steps, or panics at once.
LEMMA NotedFits ==
    ASSUME FileSystemAssumption, HInv, FsTyped, UNCHANGED <<blocks, curr, files>>,
           todo' = todo \/ todo' \in Seq(StepsWith(Len(files)))
    PROVE  FsTyped' /\ HeapStep
  BY Asked DEF FsTyped

LEMMA WriteFits ==
    ASSUME FileSystemAssumption, HInv, FsTyped, NEW name \in Names, NEW n \in Nat, WriteFile(name, n)
    PROVE  FsTyped' /\ HeapStep
  <1>1. ASSUME NEW i \in FindFile(name) PROVE WriteSteps(i, n, name) \in Seq(StepsWith(Len(files)))
    <2>1. i \in 1 .. Len(files) /\ files[i] \in Files
      BY <1>1 DEF FindFile, FilesCalled, FsTyped
    <2>2. <<"free", files[i].data>> \in StepsWith(Len(files)) /\ <<"fill", i, n, name>> \in StepsWith(Len(files))
      BY <2>1 DEF StepsWith, Files
    <2> QED BY <2>2 DEF WriteSteps
  <1>2. UNCHANGED <<blocks, curr, files>> /\ (todo' = todo \/ todo' \in Seq(StepsWith(Len(files))))
    BY <1>1 DEF WriteFile, PanicIn
  <1> QED BY <1>2, NotedFits

LEMMA DeleteFits ==
    ASSUME FileSystemAssumption, HInv, FsTyped, NEW name \in Names, DeleteFile(name) \/ DeleteDirectory(name)
    PROVE  FsTyped' /\ HeapStep
  <1>1. ASSUME NEW i \in FindFile(name) PROVE DeleteSteps(i, name) \in Seq(StepsWith(Len(files)))
    <2>1. i \in 1 .. Len(files) /\ files[i] \in Files
      BY <1>1 DEF FindFile, FilesCalled, FsTyped
    <2>2. /\ <<"free", files[i].data>> \in StepsWith(Len(files)) /\ <<"free", files[i].at>> \in StepsWith(Len(files))
          /\ <<"unlink", i, name>> \in StepsWith(Len(files))
      BY <2>1 DEF StepsWith, Files
    <2> QED BY <2>2 DEF DeleteSteps
  <1>2. UNCHANGED <<blocks, curr, files>> /\ (todo' = todo \/ todo' \in Seq(StepsWith(Len(files))))
    BY <1>1 DEF DeleteFile, DeleteDirectory, PanicIn
  <1> QED BY <1>2, NotedFits

LEMMA CallFits ==
    ASSUME FileSystemAssumption, HInv, FsTyped, Call
    PROVE  FsTyped' /\ HeapStep
  <1>0. PICK name \in Names :
          \/ CreateFile(name) \/ CreateDirectory(name)
          \/ \E n \in Sizes : WriteFile(name, n) \/ Edit(name, n)
          \/ DeleteFile(name) \/ DeleteDirectory(name)
    BY DEF Call
  <1>1. Sizes \subseteq Nat
    BY DEF FileSystemAssumption
  <1>2. ASSUME NEW code, PanicIn(code) PROVE FsTyped' /\ HeapStep
    BY <1>2, NotedFits DEF PanicIn
  <1>3. CASE CreateFile(name)
    <2>1. <<>> \in Seq(StepsWith(0))
      OBVIOUS
    <2> QED BY <1>2, <1>3, <2>1, NewFileFits DEF CreateFile
  <1>4. CASE CreateDirectory(name)
    <2>1. CASE OutOfMemory(FILE_SIZE) /\ UNCHANGED files
      <3>1. HeapStep
        BY <2>1, Asked DEF OutOfMemory
      <3> QED BY <2>1, <3>1 DEF FsTyped, OutOfMemory
    <2>2. ASSUME NEW a \in Headers, Malloc(FILE_SIZE, a), todo' = <<<<"subdir", a, name>>>>, files' = files
          PROVE  FsTyped' /\ HeapStep
      <3>1. <<"subdir", a, name>> \in StepsWith(Len(files))
        BY Asked DEF StepsWith
      <3>2. HeapStep
        BY <2>2, Asked
      <3> QED BY <2>2, <3>1, <3>2 DEF FsTyped
    <2> QED BY <1>2, <1>4, <2>1, <2>2 DEF CreateDirectory
  <1>5. ASSUME NEW n \in Sizes, Edit(name, n) PROVE FsTyped' /\ HeapStep
    <2>1. <<<<"fill", Len(files) + 1, n, name>>>> \in Seq(StepsWith(0))
      <3>1. <<"fill", Len(files) + 1, n, name>> \in StepsWith(0)
        BY <1>1 DEF StepsWith, FsTyped
      <3> QED BY <3>1
    <2> QED BY <1>1, <1>5, <2>1, NewFileFits, WriteFits DEF Edit
  <1> QED BY <1>0, <1>1, <1>3, <1>4, <1>5, WriteFits, DeleteFits

\* Setting one field of one entry; nothing happens beyond the end.
LEMMA SetData ==
    ASSUME NEW s \in Seq(Files), NEW i, NEW d \in Int
    PROVE  [s EXCEPT ![i].data = d] \in Seq(Files)
  <1>1. CASE i \in 1 .. Len(s)
    <2>1. s[i] \in Files
      BY <1>1
    <2>2. [s[i] EXCEPT !.data = d] \in Files
      BY <2>1 DEF Files
    <2>3. [s EXCEPT ![i] = [s[i] EXCEPT !.data = d]] \in Seq(Files)
      BY <1>1, <2>2, ExceptSeq
    <2> QED BY <2>3
  <1>2. CASE i \notin 1 .. Len(s)
    <2>1. [s EXCEPT ![i].data = d] = s
      BY <1>2
    <2> QED BY <2>1
  <1> QED BY <1>1, <1>2

LEMMA SetSize ==
    ASSUME NEW s \in Seq(Files), NEW i, NEW n \in Nat
    PROVE  [s EXCEPT ![i].size = n] \in Seq(Files)
  <1>1. CASE i \in 1 .. Len(s)
    <2>1. s[i] \in Files
      BY <1>1
    <2>2. [s[i] EXCEPT !.size = n] \in Files
      BY <2>1 DEF Files
    <2>3. [s EXCEPT ![i] = [s[i] EXCEPT !.size = n]] \in Seq(Files)
      BY <1>1, <2>2, ExceptSeq
    <2> QED BY <2>3
  <1>2. CASE i \notin 1 .. Len(s)
    <2>1. [s EXCEPT ![i].size = n] = s
      BY <1>2
    <2> QED BY <2>1
  <1> QED BY <1>1, <1>2

LEMMA WorkFits ==
    ASSUME FileSystemAssumption, HInv, FsTyped, Work
    PROVE  FsTyped' /\ HeapStep
  <1>0. ASSUME todo # <<>> PROVE Head(todo) \in StepsWith(Len(files)) /\ Tail(todo) \in Seq(StepsWith(Len(files)))
    BY <1>0 DEF FsTyped
  <1>1. CASE FreeStep
    <2>1. todo # <<>> /\ Head(todo)[1] = "free" /\ files' = files /\ todo' = Tail(todo)
      BY <1>1 DEF FreeStep, Steps
    <2>2. Head(todo)[2] \in Int
      BY <1>0, <2>1 DEF StepsWith
    <2>3. HeapStep
      BY <1>1, <2>2, Asked DEF FreeStep, heapVars
    <2> QED BY <1>0, <2>1, <2>3 DEF FsTyped
  <1>2. CASE Fill
    <2> DEFINE i == Head(todo)[2]  n == Head(todo)[3]
    <2>0. n \in Nat
      BY <1>0, <1>2 DEF Fill, Steps, StepsWith
    <2>1. ASSUME NEW a \in Headers, Malloc(n, a), files' = [files EXCEPT ![i].data = a, ![i].size = n], todo' = <<>>
          PROVE  FsTyped' /\ HeapStep
      <3>1. HeapStep
        BY <2>0, <2>1, Asked
      <3>2. files' \in Seq(Files)
        <4> HIDE DEF i, n
        <4> DEFINE g == [files EXCEPT ![i].data = a]
        <4>1. g \in Seq(Files)
          BY Asked, SetData DEF FsTyped
        <4>2. files' = [g EXCEPT ![i].size = n]
          BY <2>1
        <4> HIDE DEF g
        <4>3. n \in Nat
          BY <2>0
        <4> QED BY <4>1, <4>2, <4>3, SetSize
      <3> QED BY <2>1, <3>1, <3>2 DEF FsTyped
    <2>2. CASE OutOfMemory(n) /\ files' = [files EXCEPT ![i].data = NULL]
      <3>1. HeapStep
        BY <2>0, <2>2, Asked DEF OutOfMemory
      <3>2. files' \in Seq(Files)
        <4> HIDE DEF i
        <4> QED BY <2>2, Asked, SetData DEF FsTyped
      <3> QED BY <2>2, <3>1, <3>2 DEF FsTyped, OutOfMemory
    <2> QED BY <1>2, <2>1, <2>2 DEF Fill
  <1>3. CASE MakeSubdir
    <2> DEFINE node == Head(todo)[2]  name == Head(todo)[3]
    <2>0. node \in Int /\ name \in Names
      BY <1>0, <1>3 DEF MakeSubdir, Steps, StepsWith
    <2>1. ASSUME NEW a \in Headers, Malloc(DIRECTORY_SIZE, a), todo' = <<>>,
                 files' = Append(files, [Entry(node, name) EXCEPT !.dir = TRUE, !.data = a, !.size = DIRECTORY_SIZE])
          PROVE  FsTyped' /\ HeapStep
      <3>1. HeapStep
        BY <2>1, Asked
      <3>2. [Entry(node, name) EXCEPT !.dir = TRUE, !.data = a, !.size = DIRECTORY_SIZE] \in Files
        <4> HIDE DEF node, name
        <4>1. [Entry(node, name) EXCEPT !.dir = TRUE] \in Files
          BY <2>0, Asked DEF Entry, Files
        <4>2. [[Entry(node, name) EXCEPT !.dir = TRUE] EXCEPT !.data = a] \in Files
          BY <4>1, Asked DEF Files
        <4>3. DIRECTORY_SIZE \in Nat
          BY DEF FileSystemAssumption
        <4> QED BY <4>2, <4>3 DEF Files
      <3> QED BY <2>1, <3>1, <3>2 DEF FsTyped
    <2>2. CASE SubdirFails(node, name)
      <3>1. <<"free", node>> \in StepsWith(Len(files)) /\ <<"panic", "ERR_OUT_OF_MEMORY", name>> \in StepsWith(Len(files))
        <4> HIDE DEF node, name
        <4> QED BY <2>0 DEF StepsWith
      <3>2. HeapStep
        BY <2>2, Asked DEF SubdirFails
      <3> QED BY <2>2, <3>1, <3>2 DEF SubdirFails, FsTyped
    <2> QED BY <1>3, <2>1, <2>2 DEF MakeSubdir
  <1>4. CASE Unlink
    <2> DEFINE i == Head(todo)[2]
    <2>1. i \in 1 .. Len(files) /\ files' = RemoveAt(files, i) /\ todo' = <<>> /\ UNCHANGED <<blocks, curr>>
      BY <1>0, <1>4 DEF Unlink, Unlinked, Steps, StepsWith
    <2> HIDE DEF i
    <2>2. SubSeq(files, 1, i - 1) \in Seq(Files) /\ SubSeq(files, i + 1, Len(files)) \in Seq(Files)
      BY <2>1 DEF FsTyped
    <2>3. files' \in Seq(Files)
      BY <2>1, <2>2 DEF RemoveAt
    <2> QED BY <2>1, <2>3, Asked DEF FsTyped
  <1>5. CASE PanicStep
    BY <1>5, Asked DEF PanicStep, FsTyped
  <1>6. CASE CoalesceStep
    BY <1>6 DEF CoalesceStep, HeapStep, fsVars, FsTyped
  <1> QED BY <1>1, <1>2, <1>3, <1>4, <1>5, <1>6 DEF Work

LEMMA StepFits ==
    ASSUME FileSystemAssumption, HInv, FsTyped, [Next]_vars
    PROVE  FsTyped' /\ HeapStep
  <1>1. CASE UNCHANGED vars
    BY <1>1, Asked DEF vars, FsTyped
  <1> QED BY <1>1, CallFits, WorkFits DEF Next, Halted

LEMMA FsStarts == ASSUME HeapAssumption PROVE Init => HInv /\ FsTyped
  BY HeapStarts DEF Init, FsTyped

LEMMA FsInvHolds == ASSUME HeapAssumption, FileSystemAssumption PROVE Spec => [](HInv /\ FsTyped)
  <1>1. HInv /\ FsTyped /\ [Next]_vars => (HInv /\ FsTyped)'
    BY StepFits, HeapStepKeeps
  <1> QED BY <1>1, FsStarts, PTL DEF Spec

\* Under every call of the file system, failures of the heap included, the list of blocks is
\* the heap without a gap or an overlap, and between calls no two neighbours are free
\* (memory_management.c:104-144).
THEOREM HeapStaysTiled == ASSUME HeapAssumption, FileSystemAssumption PROVE Spec => []HeapTiled
  <1>1. HInv => HeapTiled
    BY DEF HInv, HeapTiled, NoFreeNeighbours, JoinedBehind
  <1> QED BY <1>1, FsInvHolds, PTL

-----------------------------------------------------------------------------

\* The extents of what is held, as Extents sees them.
HeldExtents == {[from |-> a + HEADER, to |-> End(a)] : a \in Held}

LEMMA StartsEmpty == HeapInit => Extent!Init
  BY DEF HeapInit, Extent!Init, Held, Headers

\* malloc() obtains one extent, apart from all others.
LEMMA Obtains ==
    ASSUME HeapAssumption, HInv, NEW n \in Nat, NEW a \in Headers, Malloc(n, a)
    PROVE  Extent!Next
  <1>1. HInv' /\ HeldBecomes(Held \cup {a}) /\ a \notin Held /\ a \in Held'
    BY MallocKeeps DEF Malloc, FirstFit, Fitting, Held, HeldBecomes
  <1>2. PICK new : new = [from |-> a + HEADER, to |-> End(a)']
    OBVIOUS
  <1>3. HeldExtents' = HeldExtents \cup {new}
    BY <1>1, <1>2 DEF HeldExtents, HeldBecomes
  <1>4. Held \subseteq Nat /\ Held' \subseteq Nat /\ Held' \subseteq Headers' /\ HEADER \in Nat \ {0}
        /\ HEAP_MAX_SIZE \in Nat
    BY <1>1 DEF HInv, HeapTyped, Held, HeapAssumption
  <1>5. ASSUME NEW b \in Held' PROVE blocks'[b].size \in Nat /\ End(b)' = b + HEADER + blocks'[b].size
    BY <1>1, <1>4, <1>5 DEF HInv, HeapTyped, End
  <1>6. new \notin HeldExtents
    <2> SUFFICES ASSUME NEW b \in Held, new = [from |-> b + HEADER, to |-> End(b)] PROVE FALSE
      BY DEF HeldExtents
    <2>1. b + HEADER = a + HEADER
      BY <1>2
    <2> QED BY <1>1, <1>4, <2>1
  <1>7. new.from \in HEADER .. HEAP_MAX_SIZE /\ new.to \in new.from .. HEAP_MAX_SIZE
    BY <1>1, <1>2, <1>4, <1>5 DEF HInv, ListInOrder
  <1>8. ASSUME NEW e \in HeldExtents PROVE Extent!Apart(new, e)
    <2>1. PICK b \in Held : e = [from |-> b + HEADER, to |-> End(b)]
      BY <1>8 DEF HeldExtents
    <2>2. b # a /\ b \in Held' /\ b \in Nat /\ a \in Nat /\ End(b)' = End(b)
      BY <1>1, <1>4 DEF HeldBecomes
    <2>3. End(a)' <= b \/ End(b) <= a
      BY <1>1, <1>4, <2>2 DEF HInv, ListInOrder
    <2>4. End(a)' \in Nat /\ End(b) \in Nat
      BY <1>1, <1>4, <1>5, <2>2
    <2>5. new.to = End(a)' /\ new.from = a + HEADER /\ e.to = End(b) /\ e.from = b + HEADER
      BY <1>2, <2>1
    <2> QED BY <1>4, <2>2, <2>3, <2>4, <2>5 DEF Extent!Apart
  <1> QED BY <1>3, <1>6, <1>7, <1>8 DEF HeldExtents, Extent!Next, Extent!Obtain

\* free() gives back one extent, or nothing.
LEMMA GivesBack ==
    ASSUME HeapAssumption, HInv, NEW a \in Int, Free(a)
    PROVE  [Extent!Next]_HeldExtents
  <1>1. HeldBecomes(Held \ {a})
    BY FreeKeeps
  <1>2. CASE a \in Held
    <2>1. PICK e : e = [from |-> a + HEADER, to |-> End(a)]
      OBVIOUS
    <2>2. Held \subseteq Nat /\ HEADER \in Nat
      BY DEF HInv, HeapTyped, Held, HeapAssumption
    <2>3. HeldExtents' = HeldExtents \ {e}
      BY <1>1, <1>2, <2>1, <2>2 DEF HeldExtents, HeldBecomes
    <2>4. e \in HeldExtents
      BY <1>2, <2>1 DEF HeldExtents
    <2>5. Extent!GiveBack(e)
      BY <2>3 DEF HeldExtents, Extent!GiveBack
    <2>6. Extent!Next
      BY <2>4, <2>5 DEF HeldExtents, Extent!Next
    <2> QED BY <2>6
  <1>3. CASE a \notin Held
    BY <1>1, <1>3 DEF HeldExtents, HeldBecomes
  <1> QED BY <1>2, <1>3

LEMMA ExtentStep ==
    ASSUME HeapAssumption, HInv, HeapStep
    PROVE  [Extent!Next]_HeldExtents
  <1>1. CASE UNCHANGED heapVars
    BY <1>1 DEF heapVars, HeldExtents, Held, Headers, End
  <1>2. CASE Coalesce
    <2>1. HeldBecomes(Held)
      BY <1>2, MergeKeeps, AdvanceKeeps DEF Coalesce
    <2> QED BY <2>1 DEF HeldBecomes, HeldExtents
  <1> QED BY <1>1, <1>2, Obtains, GivesBack DEF HeapStep

\* What malloc() hands out lies in the heap, apart from all other memory in use and its
\* headers, and stays in place until free() gets it, through every split and join.
THEOREM HandsOutExtents == ASSUME HeapAssumption, FileSystemAssumption PROVE Spec => ExtentsSpec
  <1>1. Init => Extent!Init
    BY StartsEmpty DEF Init
  <1>2. HInv /\ FsTyped /\ [Next]_vars =>
          [Extent!Next]_{[from |-> a + HEADER, to |-> End(a)] : a \in Held}
    BY StepFits, ExtentStep DEF HeldExtents
  <1> QED BY <1>1, <1>2, FsInvHolds, PTL DEF Spec, ExtentsSpec, Extent!Spec


-----------------------------------------------------------------------------
(* The heap seen from any address. *)

Less == {p \in Nat \X Nat : p[1] < p[2]}

LEMMA LeastNumber ==
    ASSUME NEW T, T \subseteq Nat, T # {}
    PROVE  \E x \in T : \A y \in T : x <= y
<1>1. IsWellFoundedOn(Less, Nat)
  <2>1. OpToRel(<, Nat) = Less
    BY DEF OpToRel, Less
  <2> QED BY <2>1, NatLessThanWellFounded
<1>2. PICK x \in T : \A y \in T : ~(<<y, x>> \in Less)
  BY <1>1, WFMin
<1>3. \A y \in T : <<y, x>> \in Nat \X Nat /\ x \in Nat /\ y \in Nat
  OBVIOUS
<1>4. \A y \in T : ~(y < x)
  BY <1>2, <1>3 DEF Less
<1> QED BY <1>3, <1>4

\* Every address of the heap is in a block: the last one that starts at or before it.
LEMMA BlockAt ==
    ASSUME HeapAssumption, HInv, NEW x \in Nat, x < HEAP_MAX_SIZE
    PROVE  \E b \in Headers : b <= x /\ x < End(b)
<1>1. HEAP_MAX_SIZE \in Nat /\ HEADER \in Nat \ {0} /\ Headers \subseteq Nat /\ 0 \in Headers
  BY DEF HeapAssumption, HInv, HeapTyped, ListInOrder
<1> DEFINE Before == {x - b : b \in {h \in Headers : h <= x}}
<1>2. Before \subseteq Nat /\ Before # {}
  <2>1. x - 0 \in Before
    BY <1>1
  <2>2. \A b \in Headers : b <= x => x - b \in Nat
    BY <1>1
  <2> QED BY <2>1, <2>2
<1>3. PICK d \in Before : \A e \in Before : d <= e
  BY <1>2, LeastNumber
<1>4. PICK b \in Headers : b <= x /\ d = x - b
  BY <1>3
<1>5. \A h \in Headers : h <= x => h <= b
  <2> SUFFICES ASSUME NEW h \in Headers, h <= x PROVE h <= b
    OBVIOUS
  <2>1. x - b <= x - h
    BY <1>3, <1>4
  <2> QED BY <1>1, <2>1
<1>6. x < End(b)
  <2>1. /\ End(b) \in Nat /\ b < End(b)
        /\ End(b) < HEAP_MAX_SIZE => End(b) \in Headers
    BY <1>1 DEF HInv, HeapTyped, ListInOrder, End
  <2> QED BY <1>1, <1>5, <2>1
<1> QED BY <1>4, <1>6

\* A block that is free and not the last has a held one behind it, between calls.
LEMMA HeldBehind ==
    ASSUME HeapAssumption, HInv, Idle, NEW b \in Headers, End(b) < HEAP_MAX_SIZE
    PROVE  End(b) \in Headers /\ (blocks[b].free => ~blocks[End(b)].free)
<1>1. End(b) \in Headers /\ blocks[b].next = End(b)
  BY DEF HInv, ListInOrder
<1>2. End(b) # NULL
  BY <1>1 DEF HInv, HeapTyped, NULL
<1>3. ~Joins(b)
  BY DEF HInv, JoinedBehind
<1> QED BY <1>1, <1>2, <1>3 DEF Joins

\* What a block of the list is made of.
LEMMA BlockTyped ==
    ASSUME HeapAssumption, HInv, NEW b \in Headers
    PROVE  /\ b \in Nat /\ blocks[b].size \in Nat /\ blocks[b].free \in BOOLEAN
           /\ End(b) \in Nat /\ End(b) = b + HEADER + blocks[b].size
           /\ b < End(b) /\ End(b) <= HEAP_MAX_SIZE
           /\ HEADER \in Nat \ {0} /\ HEAP_MAX_SIZE \in Nat /\ SLACK \in Nat
<1>1. HEADER \in Nat \ {0} /\ HEAP_MAX_SIZE \in Nat /\ SLACK \in Nat
  BY DEF HeapAssumption
<1>2. b \in Nat /\ blocks[b].size \in Nat /\ blocks[b].free \in BOOLEAN
  BY DEF HInv, HeapTyped
<1>3. End(b) <= HEAP_MAX_SIZE
  BY DEF HInv, ListInOrder
<1>4. End(b) = b + HEADER + blocks[b].size
  BY DEF End
<1> QED BY <1>1, <1>2, <1>3, <1>4

\* No stretch of n bytes and a header is clear of the held blocks, but counted out.
Full(n, but) ==
    \A x \in 0 .. HEAP_MAX_SIZE - HEADER - n :
        \E h \in Held \ but : h < x + HEADER + n /\ x < End(h)

\* malloc(n) fails between calls only when there is no room for n anywhere.
LEMMA NoFitIsFull ==
    ASSUME HeapAssumption, HInv, Idle, NEW n \in Nat, Fitting(n) = {}
    PROVE  Full(n, {})
<1> SUFFICES ASSUME NEW x \in 0 .. HEAP_MAX_SIZE - HEADER - n
             PROVE  \E h \in Held : h < x + HEADER + n /\ x < End(h)
  BY DEF Full
<1>1. HEAP_MAX_SIZE \in Nat /\ HEADER \in Nat \ {0}
  BY DEF HeapAssumption
<1>2. x \in Nat /\ x + HEADER + n <= HEAP_MAX_SIZE /\ x < HEAP_MAX_SIZE
  BY <1>1
<1>3. PICK b \in Headers : b <= x /\ x < End(b)
  BY <1>2, BlockAt
<1>4. CASE ~blocks[b].free
  <2>1. b \in Held /\ b < x + HEADER + n
    BY <1>1, <1>3, <1>4, BlockTyped DEF Held
  <2> QED BY <1>3, <2>1
<1>5. CASE blocks[b].free
  <2>1. blocks[b].size < n
    BY <1>5, BlockTyped DEF Fitting
  <2>2. End(b) < x + HEADER + n /\ End(b) < HEAP_MAX_SIZE
    BY <1>1, <1>2, <1>3, <2>1, BlockTyped
  <2>3. End(b) \in Held
    BY <1>5, <2>2, HeldBehind DEF Held
  <2>4. x < End(End(b))
    <3>1. PICK c \in Headers : c = End(b)
      BY <2>3 DEF Held
    <3>2. x < End(c)
      BY <1>2, <1>3, <3>1, BlockTyped
    <3> QED BY <3>1, <3>2
  <2> QED BY <2>2, <2>3, <2>4
<1> QED BY <1>4, <1>5

\* The block a as malloc(FILE_SIZE) returned it: the one before it is held, and so is
\* the one behind it, unless a was cut to size.
JustTaken(a) ==
    /\ blocks[a].size <= FILE_SIZE + HEADER + SLACK
    /\ \A b \in Headers : End(b) = a => ~blocks[b].free
    /\ End(a) \in Headers /\ blocks[End(a)].free => blocks[a].size = FILE_SIZE

NodeAndDirectory == FILE_SIZE + HEADER + DIRECTORY_SIZE

\* When the directory_t does not fit, there is no room for it and the file_t that was
\* just taken, wherever the heap is cut.
LEMMA NoFitAfterNode ==
    ASSUME HeapAssumption, HInv, Idle, FILE_SIZE \in Nat, DIRECTORY_SIZE \in Nat,
           DirectoryAssumption, NEW a \in Held, JustTaken(a), Fitting(DIRECTORY_SIZE) = {}
    PROVE  Full(NodeAndDirectory, {a})
<1> DEFINE n == FILE_SIZE + HEADER + DIRECTORY_SIZE
<1> SUFFICES ASSUME NEW x \in 0 .. HEAP_MAX_SIZE - HEADER - n
             PROVE  \E h \in Held \ {a} : h < x + HEADER + n /\ x < End(h)
  BY DEF Full, NodeAndDirectory
<1>1. HEAP_MAX_SIZE \in Nat /\ HEADER \in Nat \ {0} /\ SLACK \in Nat /\ a \in Headers
  BY DEF HeapAssumption, Held
<1>2. x \in Nat /\ x + HEADER + n <= HEAP_MAX_SIZE /\ x < HEAP_MAX_SIZE /\ n \in Nat
  BY <1>1
<1>3. PICK b \in Headers : b <= x /\ x < End(b)
  BY <1>2, BlockAt
<1>4. \A h \in Headers : blocks[h].free => blocks[h].size < DIRECTORY_SIZE
  BY BlockTyped DEF Fitting
\* A held block behind b that starts in the stretch will do.
<1>5. ASSUME NEW h \in Headers, ~blocks[h].free, h # a, x < h, h < x + HEADER + n
      PROVE  \E k \in Held \ {a} : k < x + HEADER + n /\ x < End(k)
  <2>1. h \in Held \ {a}
    BY <1>5 DEF Held
  <2>2. x < End(h)
    BY <1>2, <1>5, BlockTyped
  <2> QED BY <1>5, <2>1, <2>2
<1>6. CASE ~blocks[b].free /\ b # a
  <2>1. b \in Held \ {a} /\ b < x + HEADER + n
    BY <1>1, <1>2, <1>3, <1>6, BlockTyped DEF Held
  <2> QED BY <1>3, <2>1
<1>7. CASE blocks[b].free
  <2>1. blocks[b].size < DIRECTORY_SIZE
    BY <1>4, <1>7
  <2>2. End(b) < x + HEADER + n
    BY <1>1, <1>2, <1>3, <2>1, BlockTyped
  <2>3. End(b) \in Headers /\ ~blocks[End(b)].free
    BY <1>2, <1>7, <2>2, HeldBehind, BlockTyped
  <2>4. End(b) # a
    BY <1>7 DEF JustTaken
  <2>5. PICK c : c = End(b)
    OBVIOUS
  <2> QED BY <1>3, <1>5, <2>2, <2>3, <2>4, <2>5
<1>8. CASE b = a
  <2>1. /\ blocks[a].size \in Nat /\ a \in Nat /\ End(a) = a + HEADER + blocks[a].size
        /\ blocks[a].size <= FILE_SIZE + HEADER + SLACK
    BY <1>1, BlockTyped DEF JustTaken
  <2>2. End(a) < x + HEADER + n
    BY <1>1, <1>2, <1>3, <1>8, <2>1
  <2>3. PICK c : c = End(a)
    OBVIOUS
  <2>4. c \in Headers /\ x < c /\ c < x + HEADER + n /\ a < c
    BY <1>1, <1>2, <1>3, <1>8, <2>2, <2>3, HeldBehind, BlockTyped
  <2>5. CASE ~blocks[c].free
    BY <1>1, <1>5, <2>1, <2>4, <2>5, BlockTyped
  <2>6. CASE blocks[c].free
    <3>1. blocks[a].size = FILE_SIZE /\ blocks[c].size < DIRECTORY_SIZE
      BY <1>4, <2>3, <2>4, <2>6 DEF JustTaken
    <3>2. /\ c = a + HEADER + FILE_SIZE /\ End(c) = c + HEADER + blocks[c].size
          /\ blocks[c].size \in Nat
      BY <2>1, <2>3, <2>4, <3>1, BlockTyped
    <3>3. End(c) < x + HEADER + n
      BY <1>1, <1>2, <1>3, <1>8, <2>1, <3>1, <3>2
    <3>4. PICK d : d = End(c)
      OBVIOUS
    <3>5. d \in Headers /\ ~blocks[d].free
      BY <1>2, <2>4, <2>6, <3>3, <3>4, HeldBehind, BlockTyped
    <3>6. c < d
      BY <2>4, <3>4, BlockTyped
    <3>7. x < d /\ d # a
      BY <1>2, <2>1, <2>4, <3>5, <3>6, BlockTyped
    <3> QED BY <1>5, <3>3, <3>4, <3>5, <3>7
  <2> QED BY <2>4, <2>5, <2>6, BlockTyped
<1> QED BY <1>3, <1>6, <1>7, <1>8, BlockTyped

\* What malloc() and free() leave of the blocks in use.
LEMMA Obtained ==
    ASSUME HeapAssumption, HInv, NEW n \in Nat, NEW a, Malloc(n, a)
    PROVE  /\ HInv' /\ Idle /\ Idle'
           /\ a \in Headers /\ a \in Nat /\ a # NULL /\ a \notin Held
           /\ Held' = Held \cup {a} /\ Held \subseteq Nat
           /\ blocks'[a].size >= n
<1>1. /\ a \in Headers /\ blocks[a].free /\ blocks[a].size >= n /\ Idle /\ Idle'
      /\ HInv' /\ HeldBecomes(Held \cup {a})
  BY MallocKeeps DEF Malloc, FirstFit, Fitting, Idle
<1>2. a \in Nat /\ a # NULL /\ a \notin Held /\ HEADER \in Nat
  BY <1>1, BlockTyped DEF NULL, Held
<1>3. Held \subseteq Nat /\ Held' \subseteq Headers' /\ Held \subseteq Headers
  BY BlockTyped DEF Held
<1>4. blocks'[a].size >= n
  <2>1. CASE Splits(a, n)
    <3>1. PICK rest : rest = a + HEADER + n
      OBVIOUS
    <3>2. blocks' = [b \in Headers \cup {rest} |->
                       CASE b = a    -> [size |-> n, free |-> FALSE, next |-> rest]
                         [] b = rest -> [size |-> blocks[a].size - n - HEADER, free |-> TRUE,
                                         next |-> blocks[a].next]
                         [] OTHER    -> blocks[b]]
      BY <2>1, <3>1 DEF Malloc, Cut
    <3>3. a # rest
      BY <1>1, <3>1, BlockTyped
    <3>4. blocks'[a] = [size |-> n, free |-> FALSE, next |-> rest]
      BY <1>1, <3>2, <3>3
    <3> QED BY <3>4
  <2>2. CASE ~Splits(a, n)
    <3>1. blocks' = [blocks EXCEPT ![a].free = FALSE]
      BY <2>2 DEF Malloc, Whole
    <3>2. blocks'[a].size = blocks[a].size
      BY <1>1, <3>1, MarkKeeps DEF HInv
    <3> QED BY <1>1, <3>2
  <2> QED BY <2>1, <2>2
<1> QED BY <1>1, <1>2, <1>3, <1>4 DEF HeldBecomes

SameBlocks == \A b \in Held \cap Held' : End(b)' = End(b) /\ blocks'[b].size = blocks[b].size

\* A block that stays held stays as it is.
LEMMA Kept ==
    ASSUME HeapAssumption, HInv, HInv', \A b \in Held : End(b)' = End(b)
    PROVE  SameBlocks
<1> SUFFICES ASSUME NEW b \in Held, b \in Held'
             PROVE  End(b)' = End(b) /\ blocks'[b].size = blocks[b].size
  BY DEF SameBlocks
<1>1. End(b)' = End(b) /\ b \in Headers /\ b \in Headers' /\ HEADER \in Nat
  BY DEF Held, HeapAssumption
<1>2. b \in Nat /\ blocks[b].size \in Nat /\ End(b) = b + HEADER + blocks[b].size
  BY <1>1, BlockTyped
<1>3. blocks'[b].size \in Nat /\ End(b)' = b + HEADER + blocks'[b].size
  BY <1>1 DEF HInv, HeapTyped, End
<1> QED BY <1>1, <1>2, <1>3

LEMMA StepKeepsBlocks ==
    ASSUME HeapAssumption, HInv, HeapStep
    PROVE  SameBlocks
<1>1. HInv'
  BY HeapStepKeeps
<1>2. CASE UNCHANGED heapVars
  BY <1>2 DEF heapVars, SameBlocks, End
<1>3. ASSUME NEW n \in Nat, NEW a \in Headers, Malloc(n, a) PROVE \A b \in Held : End(b)' = End(b)
  BY <1>3, MallocKeeps DEF HeldBecomes
<1>4. ASSUME NEW a \in Int, Free(a) PROVE \A b \in Held : End(b)' = End(b)
  BY <1>4, FreeKeeps DEF HeldBecomes
<1>5. Coalesce => \A b \in Held : End(b)' = End(b)
  BY MergeKeeps, AdvanceKeeps DEF Coalesce, HeldBecomes
<1> QED BY <1>1, <1>2, <1>3, <1>4, <1>5, Kept DEF HeapStep

LEMMA TakenJust ==
    ASSUME HeapAssumption, HInv, FILE_SIZE \in Nat, NEW a, Malloc(FILE_SIZE, a)
    PROVE  JustTaken(a)'
<1>1. /\ a \in Headers /\ blocks[a].free /\ Idle
  BY DEF Malloc, FirstFit, Fitting
<1>2. ASSUME NEW b \in Headers, End(b) = a PROVE ~blocks[b].free
  <2>1. End(b) < HEAP_MAX_SIZE
    BY <1>1, <1>2, BlockTyped
  <2> QED BY <1>1, <1>2, <2>1, HeldBehind
<1>3. CASE Splits(a, FILE_SIZE)
  <2>1. PICK rest : rest = a + HEADER + FILE_SIZE
    OBVIOUS
  <2>2. blocks' = [b \in Headers \cup {rest} |->
                     CASE b = a    -> [size |-> FILE_SIZE, free |-> FALSE, next |-> rest]
                       [] b = rest -> [size |-> blocks[a].size - FILE_SIZE - HEADER, free |-> TRUE,
                                       next |-> blocks[a].next]
                       [] OTHER    -> blocks[b]]
    BY <1>3, <2>1 DEF Malloc, Cut
  <2>3. a < rest /\ a # rest /\ rest \in Nat
    BY <1>1, <2>1, BlockTyped
  <2>4. Headers' = Headers \cup {rest}
    BY <2>2 DEF Headers
  <2>5. blocks'[a] = [size |-> FILE_SIZE, free |-> FALSE, next |-> rest]
    BY <1>1, <2>2, <2>3
  <2>6. blocks'[a].size <= FILE_SIZE + HEADER + SLACK /\ blocks'[a].size = FILE_SIZE
    BY <1>1, <2>5, BlockTyped
  <2>7. ASSUME NEW b \in Headers', End(b)' = a PROVE ~blocks'[b].free
    <3>1. CASE b = a
      BY <2>5, <3>1
    <3>2. CASE b = rest
      <4>1. HInv'
        BY MallocKeeps
      <4>2. blocks'[b].size \in Nat /\ HEADER \in Nat
        BY <2>7, <4>1 DEF HInv, HeapTyped, HeapAssumption
      <4> QED BY <1>1, <2>3, <2>7, <3>2, <4>2, BlockTyped DEF End
    <3>3. CASE b \in Headers /\ b # a /\ b # rest
      <4>1. blocks'[b] = blocks[b]
        BY <2>2, <3>3
      <4> QED BY <1>2, <2>7, <3>3, <4>1 DEF End
    <3> QED BY <2>4, <2>7, <3>1, <3>2, <3>3
  <2> QED BY <2>6, <2>7 DEF JustTaken
<1>4. CASE ~Splits(a, FILE_SIZE)
  <2>1. blocks' = [blocks EXCEPT ![a].free = FALSE]
    BY <1>4 DEF Malloc, Whole
  <2>2. /\ Headers' = Headers
        /\ \A b \in Headers : /\ blocks'[b].size = blocks[b].size
                              /\ b # a => blocks'[b] = blocks[b]
                              /\ b = a => blocks'[b].free = FALSE
    BY <2>1, MarkKeeps DEF HInv
  <2>3. blocks'[a].size <= FILE_SIZE + HEADER + SLACK
    BY <1>1, <1>4, <2>2, BlockTyped DEF Splits
  <2>4. \A b \in Headers : End(b)' = End(b)
    BY <2>2 DEF End
  <2>5. \A b \in Headers' : End(b)' = a => ~blocks'[b].free
    BY <1>2, <2>2, <2>4
  <2>6. ASSUME End(a)' \in Headers', blocks'[End(a)'].free PROVE FALSE
    <3>1. PICK c \in Headers : c = End(a)
      BY <1>1, <2>2, <2>4, <2>6
    <3>2. blocks'[c].free /\ c # a
      BY <1>1, <2>4, <2>6, <3>1, BlockTyped
    <3>3. blocks[c].free /\ End(a) < HEAP_MAX_SIZE
      BY <1>1, <2>2, <3>1, <3>2, BlockTyped
    <3> QED BY <1>1, <3>1, <3>3, HeldBehind
  <2> QED BY <2>3, <2>5, <2>6 DEF JustTaken
<1> QED BY <1>3, <1>4

\* What is full stays so while what counts is held.
LEMMA FullStays ==
    ASSUME SameBlocks, NEW n, NEW but, NEW left, Held \ but \subseteq Held' \ left, Full(n, but)
    PROVE  Full(n, left)'
<1> SUFFICES ASSUME NEW x \in 0 .. HEAP_MAX_SIZE - HEADER - n
             PROVE  \E h \in Held' \ left : h < x + HEADER + n /\ x < End(h)'
  BY DEF Full
<1>1. PICK h \in Held \ but : h < x + HEADER + n /\ x < End(h)
  BY DEF Full
<1> QED BY <1>1 DEF SameBlocks

-----------------------------------------------------------------------------
(* The entries of the root directory and the memory they lead to. *)

Pieces(fs) == {fs[i].at : i \in 1 .. Len(fs)} \cup ({fs[i].data : i \in 1 .. Len(fs)} \ {NULL})

\* No two entries share memory or a name.
Apart(fs) ==
    /\ \A i \in 1 .. Len(fs) : fs[i].at # NULL
    /\ \A i, j \in 1 .. Len(fs) : fs[i].at # fs[j].data
    /\ \A i, j \in 1 .. Len(fs) : i # j =>
          /\ fs[i].at # fs[j].at
          /\ fs[i].data = fs[j].data => fs[i].data = NULL
          /\ fs[i].name # fs[j].name

LEMMA InPieces ==
    ASSUME NEW fs, Apart(fs)
    PROVE  /\ NULL \notin Pieces(fs)
           /\ \A i \in 1 .. Len(fs) :
                 /\ fs[i].at \in Pieces(fs)
                 /\ fs[i].data # NULL => fs[i].data \in Pieces(fs)
  BY DEF Pieces, Apart

LEMMA AppendPieces ==
    ASSUME NEW fs \in Seq(Files), NEW e \in Files, Apart(fs),
           e.at \notin Pieces(fs), e.at # NULL, e.at # e.data, e.data \notin Pieces(fs),
           \A i \in 1 .. Len(fs) : fs[i].name # e.name
    PROVE  /\ Apart(Append(fs, e))
           /\ Pieces(Append(fs, e)) = Pieces(fs) \cup {e.at} \cup ({e.data} \ {NULL})
<1>1. PICK t : t = Append(fs, e)
  OBVIOUS
<1>2. /\ Len(fs) \in Nat /\ Len(t) = Len(fs) + 1
      /\ t[Len(fs) + 1] = e
      /\ \A i \in 1 .. Len(fs) : t[i] = fs[i]
  BY <1>1
<1>3. 1 .. Len(t) = (1 .. Len(fs)) \cup {Len(fs) + 1} /\ Len(fs) + 1 \notin 1 .. Len(fs)
  BY <1>2
<1>4. PICK I, k : I = 1 .. Len(fs) /\ k = Len(fs) + 1
  OBVIOUS
<1>5. 1 .. Len(t) = I \cup {k} /\ k \notin I /\ t[k] = e /\ \A i \in I : t[i] = fs[i]
  BY <1>2, <1>3, <1>4
<1>6. Pieces(t) = Pieces(fs) \cup {e.at} \cup ({e.data} \ {NULL})
  BY <1>4, <1>5 DEF Pieces
<1>7. Apart(t)
  <2>1. \A i \in I : /\ fs[i].at # e.at /\ fs[i].at # e.data /\ fs[i].name # e.name
                     /\ fs[i].data # e.at
                     /\ fs[i].data = e.data => e.data = NULL
    BY <1>4, InPieces
  <2>2. \A i \in I \cup {k} : t[i].at # NULL
    BY <1>4, <1>5 DEF Apart
  <2>3. \A i, j \in I \cup {k} : t[i].at # t[j].data
    BY <1>4, <1>5, <2>1 DEF Apart
  <2>4. \A i, j \in I \cup {k} : i # j => t[i].at # t[j].at /\ t[i].name # t[j].name
    BY <1>4, <1>5, <2>1 DEF Apart
  <2>5. \A i, j \in I \cup {k} : i # j /\ t[i].data = t[j].data => t[i].data = NULL
    BY <1>4, <1>5, <2>1 DEF Apart
  <2> QED BY <1>5, <2>2, <2>3, <2>4, <2>5 DEF Apart
<1> QED BY <1>1, <1>6, <1>7

LEMMA RemoveElements ==
    ASSUME NEW fs \in Seq(Files), NEW k \in 1 .. Len(fs)
    PROVE  /\ RemoveAt(fs, k) \in Seq(Files)
           /\ Len(RemoveAt(fs, k)) = Len(fs) - 1
           /\ \A j \in 1 .. Len(fs) - 1 :
                 RemoveAt(fs, k)[j] = IF j < k THEN fs[j] ELSE fs[j + 1]
<1>1. PICK l, r : l = SubSeq(fs, 1, k - 1) /\ r = SubSeq(fs, k + 1, Len(fs))
  OBVIOUS
<1>2. /\ l \in Seq(Files) /\ Len(l) = k - 1
      /\ \A j \in 1 .. k - 1 : l[j] = fs[j]
  BY <1>1
<1>3. /\ r \in Seq(Files) /\ Len(r) = Len(fs) - k
      /\ \A j \in 1 .. Len(fs) - k : r[j] = fs[k + j]
  BY <1>1
<1>4. RemoveAt(fs, k) = l \o r
  BY <1>1 DEF RemoveAt
<1>5. Len(fs) \in Nat /\ k \in Nat
  OBVIOUS
<1>6. l \o r \in Seq(Files) /\ Len(l \o r) = Len(fs) - 1
  <2>1. l \in Seq(Files) /\ r \in Seq(Files)
    BY <1>2, <1>3
  <2>2. l \o r \in Seq(Files) /\ Len(l \o r) = Len(l) + Len(r)
    BY <2>1, ConcatProperties
  <2> QED BY <1>2, <1>3, <1>5, <2>2
<1>7. ASSUME NEW j \in 1 .. Len(fs) - 1
      PROVE  (l \o r)[j] = IF j < k THEN fs[j] ELSE fs[j + 1]
  <2>1. CASE j < k
    <3>1. (l \o r)[j] = l[j]
      BY <1>2, <1>3, <1>5, <2>1
    <3> QED BY <1>2, <1>5, <2>1, <3>1
  <2>2. CASE ~(j < k)
    <3>1. (l \o r)[j] = r[j - Len(l)]
      BY <1>2, <1>3, <1>5, <2>2
    <3>2. j - Len(l) \in 1 .. Len(fs) - k /\ k + (j - Len(l)) = j + 1
      BY <1>2, <1>5, <2>2
    <3> QED BY <1>3, <2>2, <3>1, <3>2
  <2> QED BY <2>1, <2>2
<1> QED BY <1>4, <1>6, <1>7

\* Where the entry at j of the longer list went, and the other way round.
LEMMA RemovePlaces ==
    ASSUME NEW fs \in Seq(Files), NEW k \in 1 .. Len(fs), NEW t, t = RemoveAt(fs, k)
    PROVE  \E from \in [1 .. Len(t) -> (1 .. Len(fs)) \ {k}] :
               /\ \A j \in 1 .. Len(t) : t[j] = fs[from[j]]
               /\ \A i, j \in 1 .. Len(t) : i # j => from[i] # from[j]
               /\ \A i \in (1 .. Len(fs)) \ {k} : \E j \in 1 .. Len(t) : from[j] = i
<1>1. PICK from : from = [j \in 1 .. Len(t) |-> IF j < k THEN j ELSE j + 1]
  OBVIOUS
<1>2. Len(t) = Len(fs) - 1 /\ Len(fs) \in Nat /\ k \in Nat
  BY RemoveElements
<1>3. \A j \in 1 .. Len(t) : from[j] = IF j < k THEN j ELSE j + 1
  BY <1>1
<1>4. from \in [1 .. Len(t) -> (1 .. Len(fs)) \ {k}]
  BY <1>1, <1>2
<1>5. ASSUME NEW j \in 1 .. Len(t) PROVE t[j] = fs[from[j]]
  <2>1. j \in 1 .. Len(fs) - 1
    BY <1>2
  <2>2. t[j] = IF j < k THEN fs[j] ELSE fs[j + 1]
    BY <2>1, RemoveElements
  <2> QED BY <1>3, <2>2
<1>6. \A i, j \in 1 .. Len(t) : i # j => from[i] # from[j]
  BY <1>2, <1>3
<1>7. ASSUME NEW i \in (1 .. Len(fs)) \ {k} PROVE \E j \in 1 .. Len(t) : from[j] = i
  <2>1. CASE i < k
    BY <1>2, <1>3, <2>1
  <2>2. CASE i > k
    <3>1. i - 1 \in 1 .. Len(t) /\ ~(i - 1 < k) /\ i - 1 + 1 = i
      BY <1>2, <2>2
    <3> QED BY <1>3, <3>1
  <2> QED BY <1>2, <2>1, <2>2
<1> QED BY <1>4, <1>5, <1>6, <1>7

LEMMA RemovePieces ==
    ASSUME NEW fs \in Seq(Files), NEW k \in 1 .. Len(fs), Apart(fs), NEW t, t = RemoveAt(fs, k)
    PROVE  /\ Apart(t)
           /\ Pieces(t) = Pieces(fs) \ {fs[k].at, fs[k].data}
<1>1. PICK from \in [1 .. Len(t) -> (1 .. Len(fs)) \ {k}] :
               /\ \A j \in 1 .. Len(t) : t[j] = fs[from[j]]
               /\ \A i, j \in 1 .. Len(t) : i # j => from[i] # from[j]
               /\ \A i \in (1 .. Len(fs)) \ {k} : \E j \in 1 .. Len(t) : from[j] = i
  BY RemovePlaces
<1>2. PICK I, J : I = 1 .. Len(fs) /\ J = 1 .. Len(t)
  OBVIOUS
<1>3. \A j \in J : from[j] \in I /\ from[j] # k /\ t[j] = fs[from[j]]
  BY <1>1, <1>2
<1>4. Apart(t)
  <2>1. \A i \in J : t[i].at # NULL
    BY <1>2, <1>3 DEF Apart
  <2>2. \A i, j \in J : t[i].at # t[j].data
    BY <1>2, <1>3 DEF Apart
  <2>3. \A i, j \in J : i # j =>
            /\ fs[from[i]].at # fs[from[j]].at
            /\ fs[from[i]].data = fs[from[j]].data => fs[from[i]].data = NULL
            /\ fs[from[i]].name # fs[from[j]].name
    BY <1>1, <1>2, <1>3 DEF Apart
  <2>4. \A i, j \in J : i # j =>
            /\ t[i].at # t[j].at
            /\ t[i].data = t[j].data => t[i].data = NULL
            /\ t[i].name # t[j].name
    BY <1>3, <2>3
  <2> QED BY <1>2, <2>1, <2>2, <2>4 DEF Apart
<1>5. ASSUME NEW p \in Pieces(t) PROVE p \in Pieces(fs) \ {fs[k].at, fs[k].data}
  <2>1. PICK j \in J : p = t[j].at \/ (p = t[j].data /\ p # NULL)
    BY <1>2, <1>5 DEF Pieces
  <2>2. PICK i \in I : i = from[j] /\ i # k /\ t[j] = fs[i]
    BY <1>3
  <2> QED BY <1>2, <2>1, <2>2 DEF Apart, Pieces
<1>6. ASSUME NEW p \in Pieces(fs), p \notin {fs[k].at, fs[k].data} PROVE p \in Pieces(t)
  <2>1. PICK i \in I : p = fs[i].at \/ (p = fs[i].data /\ p # NULL)
    BY <1>2, <1>6 DEF Pieces
  <2>2. i # k
    BY <1>6, <2>1
  <2>3. PICK j \in J : from[j] = i
    BY <1>1, <1>2, <2>2
  <2> QED BY <1>2, <1>3, <2>1, <2>3 DEF Pieces
<1> QED BY <1>4, <1>5, <1>6

\* The entry k with other data.
LEMMA SetElements ==
    ASSUME NEW fs \in Seq(Files), NEW k \in 1 .. Len(fs), NEW d, NEW n,
           NEW t, t = [fs EXCEPT ![k].data = d, ![k].size = n] \/ t = [fs EXCEPT ![k].data = d]
    PROVE  /\ Len(t) = Len(fs)
           /\ t[k].data = d /\ t[k].at = fs[k].at /\ t[k].name = fs[k].name
           /\ t[k].dir = fs[k].dir
           /\ t = [fs EXCEPT ![k].data = d, ![k].size = n] => t[k].size = n
           /\ \A j \in (1 .. Len(fs)) \ {k} : t[j] = fs[j]
<1>1. fs = [j \in 1 .. Len(fs) |-> fs[j]] /\ Len(fs) \in Nat /\ fs[k] \in Files
  OBVIOUS
<1>2. CASE t = [fs EXCEPT ![k].data = d] /\ t # [fs EXCEPT ![k].data = d, ![k].size = n]
  <2>1. t = [j \in 1 .. Len(fs) |-> IF j = k THEN [fs[k] EXCEPT !.data = d] ELSE fs[j]]
    BY <1>1, <1>2
  <2>2. Len(t) = Len(fs) /\ t[k] = [fs[k] EXCEPT !.data = d]
    BY <1>1, <2>1
  <2> QED BY <1>1, <2>1, <2>2 DEF Files
<1>3. CASE t = [fs EXCEPT ![k].data = d, ![k].size = n]
  <2>1. t = [j \in 1 .. Len(fs) |-> IF j = k THEN [[fs[k] EXCEPT !.data = d] EXCEPT !.size = n]
                                    ELSE fs[j]]
    BY <1>1, <1>3
  <2>2. Len(t) = Len(fs) /\ t[k] = [[fs[k] EXCEPT !.data = d] EXCEPT !.size = n]
    BY <1>1, <2>1
  <2> QED BY <1>1, <2>1, <2>2 DEF Files
<1> QED BY <1>2, <1>3

LEMMA SetPieces ==
    ASSUME NEW fs \in Seq(Files), NEW k \in 1 .. Len(fs), Apart(fs), NEW d, NEW t,
           Len(t) = Len(fs), t[k].data = d, t[k].at = fs[k].at, t[k].name = fs[k].name,
           \A j \in (1 .. Len(fs)) \ {k} : t[j] = fs[j],
           d \notin Pieces(fs) \ {fs[k].data}
    PROVE  /\ Apart(t)
           /\ Pieces(t) = (Pieces(fs) \ {fs[k].data}) \cup ({d} \ {NULL})
<1>1. PICK I : I = 1 .. Len(fs) /\ I = 1 .. Len(t) /\ k \in I
  OBVIOUS
<1>2. \A i \in I : /\ t[i].at = fs[i].at /\ t[i].name = fs[i].name
                   /\ i # k => t[i].data = fs[i].data
  BY <1>1
<1>3. \A i \in I : fs[i].at # d /\ (i # k => (fs[i].data = d => d = NULL))
  BY <1>1 DEF Pieces, Apart
<1>4. Apart(t)
  <2>1. \A i \in I : t[i].at # NULL
    BY <1>1, <1>2 DEF Apart
  <2>2. \A i, j \in I : t[i].at # t[j].data
    BY <1>1, <1>2, <1>3 DEF Apart
  <2>3. \A i, j \in I : i # j => t[i].at # t[j].at /\ t[i].name # t[j].name
    BY <1>1, <1>2 DEF Apart
  <2>4. \A i, j \in I : i # j /\ t[i].data = t[j].data => t[i].data = NULL
    BY <1>1, <1>2, <1>3 DEF Apart
  <2> QED BY <1>1, <2>1, <2>2, <2>3, <2>4 DEF Apart
<1>5. ASSUME NEW p \in Pieces(t) PROVE p \in (Pieces(fs) \ {fs[k].data}) \cup ({d} \ {NULL})
  <2>1. PICK i \in I : p = t[i].at \/ (p = t[i].data /\ p # NULL)
    BY <1>1, <1>5 DEF Pieces
  <2> QED BY <1>1, <1>2, <2>1 DEF Pieces, Apart
<1>6. ASSUME NEW p \in (Pieces(fs) \ {fs[k].data}) \cup ({d} \ {NULL}) PROVE p \in Pieces(t)
  <2>1. CASE p = d /\ p # NULL
    BY <1>1, <2>1 DEF Pieces
  <2>2. CASE p \in Pieces(fs) /\ p # fs[k].data
    <3>1. PICK i \in I : p = fs[i].at \/ (p = fs[i].data /\ p # NULL)
      BY <1>1, <2>2 DEF Pieces
    <3> QED BY <1>1, <1>2, <2>2, <3>1 DEF Pieces
  <2> QED BY <1>6, <2>1, <2>2
<1> QED BY <1>4, <1>5, <1>6
-----------------------------------------------------------------------------
(* What the calls leave in the heap, step by step. *)

SizeFits(e) == IF e.data = NULL THEN e.size = 0 ELSE blocks[e.data].size >= e.size
SizesFitBut(skip) == \A i \in (1 .. Len(files)) \ skip : SizeFits(files[i])

\* The heap holds what the entries lead to and extra, except what is gone.
Holds(extra, gone) == Held = (Pieces(files) \cup extra) \ gone

Undo(name) == <<"panic", "ERR_OUT_OF_MEMORY", name>>

AtRest ==
    /\ todo = <<>> /\ Holds({}, {})
    /\ panic = Running => SizesFitBut({})

\* create_directory() has its file_t, and then either goes on or takes it back.
MakingDirectory ==
    \E a \in Held, name \in Names :
        /\ todo = <<<<"subdir", a, name>>>>
        /\ Idle /\ JustTaken(a) /\ a \notin Pieces(files) /\ Holds({a}, {})
        /\ FilesCalled(name) = {} /\ SizesFitBut({})
Undoing ==
    \E a \in Held, name \in Names :
        /\ todo = <<<<"free", a>>, Undo(name)>>
        /\ a \notin Pieces(files) /\ Holds({a}, {})
        /\ Full(NodeAndDirectory, {a})
Undone ==
    \E name \in Names :
        /\ todo = <<Undo(name)>>
        /\ Holds({}, {}) /\ Full(NodeAndDirectory, {})

\* write_file() has the old data to free, and then has none.
Writing ==
    \E i \in 1 .. Len(files), n \in Sizes :
        /\ todo = <<<<"free", files[i].data>>, <<"fill", i, n, files[i].name>>>>
        /\ Holds({}, {}) /\ SizesFitBut({i})
Filling ==
    \E i \in 1 .. Len(files), n \in Sizes :
        /\ todo = <<<<"fill", i, n, files[i].name>>>>
        /\ Holds({}, {files[i].data}) /\ SizesFitBut({i})

\* delete_file() after none, one and both of its calls of free().
Deleting ==
    \E i \in 1 .. Len(files) :
        /\ todo = <<<<"free", files[i].data>>, <<"free", files[i].at>>,
                    <<"unlink", i, files[i].name>>>>
        /\ Holds({}, {}) /\ SizesFitBut({i})
Deleted ==
    \E i \in 1 .. Len(files) :
        /\ todo = <<<<"free", files[i].at>>, <<"unlink", i, files[i].name>>>>
        /\ Holds({}, {files[i].data}) /\ SizesFitBut({i})
Unlinking ==
    \E i \in 1 .. Len(files) :
        /\ todo = <<<<"unlink", i, files[i].name>>>>
        /\ Holds({}, {files[i].data, files[i].at}) /\ SizesFitBut({i})

InPhase ==
    \/ AtRest \/ MakingDirectory \/ Undoing \/ Undone
    \/ Writing \/ Filling \/ Deleting \/ Deleted \/ Unlinking

FsInv ==
    /\ Apart(files)
    /\ panic # Running => todo = <<>>
    /\ panic.code = "ERR_OUT_OF_MEMORY" => Full(panic.bytes, {})
    /\ InPhase

AllInv == HInv /\ FsTyped /\ FsInv

LEMMA Lists ==
    ASSUME NEW x, NEW y, NEW z
    PROVE  /\ Head(<<x>>) = x /\ Tail(<<x>>) = <<>> /\ <<x>> # <<>> /\ Last(<<x>>) = x
           /\ Head(<<x, y>>) = x /\ Tail(<<x, y>>) = <<y>> /\ <<x, y>> # <<>> /\ Last(<<x, y>>) = y
           /\ Head(<<x, y, z>>) = x /\ Tail(<<x, y, z>>) = <<y, z>> /\ <<x, y, z>> # <<>>
           /\ Last(<<x, y, z>>) = z
  BY DEF Last

\* Which phase it is shows in the first step of todo.
LEMMA PhaseOf ==
    ASSUME InPhase
    PROVE  /\ todo = <<>> => AtRest
           /\ Steps("subdir") => MakingDirectory
           /\ Steps("free") => Undoing \/ Writing \/ Deleting \/ Deleted
           /\ Steps("fill") => Filling
           /\ Steps("unlink") => Unlinking
           /\ Steps("panic") => Undone
<1>1. AtRest => todo = <<>>
  BY DEF AtRest
<1>2. MakingDirectory => Head(todo)[1] = "subdir" /\ todo # <<>>
  BY Lists DEF MakingDirectory
<1>3. Undoing => Head(todo)[1] = "free" /\ todo # <<>>
  BY Lists DEF Undoing
<1>4. Undone => Head(todo)[1] = "panic" /\ todo # <<>>
  BY Lists DEF Undone, Undo
<1>5. Writing => Head(todo)[1] = "free" /\ todo # <<>>
  BY Lists DEF Writing
<1>6. Filling => Head(todo)[1] = "fill" /\ todo # <<>>
  BY Lists DEF Filling
<1>7. Deleting => Head(todo)[1] = "free" /\ todo # <<>>
  BY Lists DEF Deleting
<1>8. Deleted => Head(todo)[1] = "free" /\ todo # <<>>
  BY Lists DEF Deleted
<1>9. Unlinking => Head(todo)[1] = "unlink" /\ todo # <<>>
  BY Lists DEF Unlinking
<1> QED
  BY <1>1, <1>2, <1>3, <1>4, <1>5, <1>6, <1>7, <1>8, <1>9 DEF InPhase, Steps
\* The sizes of the entries still fit when no entry's data goes.
LEMMA FitsStay ==
    ASSUME SameBlocks, files' = files, NEW skip, SizesFitBut(skip),
           \A i \in (1 .. Len(files)) \ skip : files[i].data = NULL \/ files[i].data \in Held \cap Held'
    PROVE  SizesFitBut(skip)'
  BY DEF SizesFitBut, SizeFits, SameBlocks

\* Nothing of FsInv but the phase depends on what a free() does.
LEMMA Freed ==
    ASSUME HeapAssumption, FileSystemAssumption, AllInv, FreeStep
    PROVE  /\ UNCHANGED <<files, panic>> /\ todo' = Tail(todo) /\ Apart(files)' /\ SameBlocks
           /\ panic = Running
           /\ Head(todo)[2] = NULL => Held' = Held
           /\ Head(todo)[2] # NULL => Held' = Held \ {Head(todo)[2]}
           /\ InPhase' => FsInv'
<1>1. UNCHANGED <<files, panic>> /\ todo' = Tail(todo) /\ panic = Running
  BY DEF FreeStep, Steps, Alive
<1>2. Head(todo)[2] = NULL => UNCHANGED heapVars
  BY DEF FreeStep
<1>3. Head(todo)[2] # NULL => Free(Head(todo)[2])
  BY DEF FreeStep
<1>4. Head(todo)[2] \in Int
  <2>1. Head(todo) \in StepsWith(Len(files)) /\ Head(todo)[1] = "free"
    BY DEF AllInv, FsTyped, FreeStep, Steps
  <2> QED BY <2>1 DEF StepsWith
<1>5. PICK p \in Int : p = Head(todo)[2]
  BY <1>4
<1>6. HeapStep
  BY <1>2, <1>3, <1>5 DEF HeapStep
<1>7. SameBlocks
  BY <1>6, StepKeepsBlocks DEF AllInv
<1>8. Head(todo)[2] = NULL => Held' = Held
  BY <1>2 DEF heapVars, Held, Headers
<1>9. Head(todo)[2] # NULL => Held' = Held \ {Head(todo)[2]}
  BY <1>3, <1>5, FreeKeeps DEF AllInv, HeldBecomes
<1>10. Apart(files)'
  BY <1>1 DEF AllInv, FsInv, Apart
<1>11. InPhase' => FsInv'
  BY <1>1, <1>10 DEF FsInv, Running
<1> QED BY <1>1, <1>7, <1>8, <1>9, <1>10, <1>11

LEMMA FreeKeepsFs ==
    ASSUME HeapAssumption, FileSystemAssumption, AllInv, FreeStep
    PROVE  FsInv'
<1>0. /\ Apart(files) /\ files' = files /\ todo' = Tail(todo) /\ SameBlocks
      /\ panic' = Running /\ Held \subseteq Nat /\ NULL \notin Nat
  BY Freed, BlockTyped DEF AllInv, FsInv, Held, NULL
<1>1. PICK fs : fs = files /\ fs = files' /\ Apart(fs)
  BY <1>0
<1>2. Undoing \/ Writing \/ Deleting \/ Deleted
  BY PhaseOf DEF AllInv, FsInv, FreeStep
<1>3. CASE Undoing
  <2>1. PICK a \in Held, name \in Names :
          /\ todo = <<<<"free", a>>, Undo(name)>>
          /\ a \notin Pieces(files) /\ Holds({a}, {})
          /\ Full(NodeAndDirectory, {a})
    BY <1>3 DEF Undoing
  <2>2. Head(todo)[2] = a /\ a # NULL /\ todo' = <<Undo(name)>>
    BY <1>0, <2>1, Lists
  <2>3. Held' = Held \ {a}
    BY <2>2, Freed
  <2>4. Full(NodeAndDirectory, {})'
    BY <1>0, <2>1, <2>3, FullStays DEF NodeAndDirectory
  <2>5. Holds({}, {})'
    BY <1>1, <2>1, <2>3 DEF Holds
  <2>6. Undone'
    BY <2>2, <2>4, <2>5 DEF Undone, Undo
  <2> QED BY <2>6, Freed DEF InPhase
<1>4. CASE Writing
  <2>1. PICK i \in 1 .. Len(files), n \in Sizes :
          /\ todo = <<<<"free", files[i].data>>, <<"fill", i, n, files[i].name>>>>
          /\ Holds({}, {}) /\ SizesFitBut({i})
    BY <1>4 DEF Writing
  <2>2. Head(todo)[2] = files[i].data /\ todo' = <<<<"fill", i, n, files[i].name>>>>
    BY <1>0, <2>1, Lists
  <2>3. Held' = Held \ {files[i].data} /\ Held = Pieces(files)
    BY <1>0, <2>1, <2>2, Freed DEF Holds
  <2>4. Holds({}, {files[i].data})'
    BY <1>1, <2>3 DEF Holds
  <2>5. SizesFitBut({i})'
    <3>1. ASSUME NEW j \in (1 .. Len(files)) \ {i}
          PROVE  files[j].data = NULL \/ files[j].data \in Held \cap Held'
      BY <1>1, <2>3, InPieces DEF Apart
    <3> QED BY <1>0, <2>1, <3>1, FitsStay
  <2>6. Filling'
    BY <1>0, <2>2, <2>4, <2>5 DEF Filling
  <2> QED BY <2>6, Freed DEF InPhase
<1>5. CASE Deleting
  <2>1. PICK i \in 1 .. Len(files) :
          /\ todo = <<<<"free", files[i].data>>, <<"free", files[i].at>>,
                      <<"unlink", i, files[i].name>>>>
          /\ Holds({}, {}) /\ SizesFitBut({i})
    BY <1>5 DEF Deleting
  <2>2. /\ Head(todo)[2] = files[i].data
        /\ todo' = <<<<"free", files[i].at>>, <<"unlink", i, files[i].name>>>>
    BY <1>0, <2>1, Lists
  <2>3. Held' = Held \ {files[i].data} /\ Held = Pieces(files)
    BY <1>0, <2>1, <2>2, Freed DEF Holds
  <2>4. Holds({}, {files[i].data})'
    BY <1>1, <2>3 DEF Holds
  <2>5. SizesFitBut({i})'
    <3>1. ASSUME NEW j \in (1 .. Len(files)) \ {i}
          PROVE  files[j].data = NULL \/ files[j].data \in Held \cap Held'
      BY <1>1, <2>3, InPieces DEF Apart
    <3> QED BY <1>0, <2>1, <3>1, FitsStay
  <2>6. Deleted'
    BY <1>0, <2>2, <2>4, <2>5 DEF Deleted
  <2> QED BY <2>6, Freed DEF InPhase
<1>6. CASE Deleted
  <2>1. PICK i \in 1 .. Len(files) :
          /\ todo = <<<<"free", files[i].at>>, <<"unlink", i, files[i].name>>>>
          /\ Holds({}, {files[i].data}) /\ SizesFitBut({i})
    BY <1>6 DEF Deleted
  <2>2. /\ Head(todo)[2] = files[i].at /\ files[i].at # NULL
        /\ todo' = <<<<"unlink", i, files[i].name>>>>
    BY <1>0, <2>1, Lists DEF Apart
  <2>3. Held' = Held \ {files[i].at} /\ Held = Pieces(files) \ {files[i].data}
    BY <1>0, <2>1, <2>2, Freed DEF Holds
  <2>4. Holds({}, {files[i].data, files[i].at})'
    BY <1>1, <2>3 DEF Holds
  <2>5. SizesFitBut({i})'
    <3>1. ASSUME NEW j \in (1 .. Len(files)) \ {i}
          PROVE  files[j].data = NULL \/ files[j].data \in Held \cap Held'
      BY <1>1, <2>3, InPieces DEF Apart
    <3> QED BY <1>0, <2>1, <3>1, FitsStay
  <2>6. Unlinking'
    BY <1>0, <2>2, <2>4, <2>5 DEF Unlinking
  <2> QED BY <2>6, Freed DEF InPhase
<1> QED BY <1>2, <1>3, <1>4, <1>5, <1>6
LEMMA StutterKeepsFs == ASSUME FsInv, UNCHANGED vars PROVE FsInv'
<1>1. UNCHANGED <<blocks, curr, files, todo, panic>>
  BY DEF vars
<1>2. Held' = Held /\ Headers' = Headers /\ (Idle <=> Idle')
  BY <1>1 DEF Held, Headers, Idle
<1>3. /\ (AtRest => AtRest')
      /\ (MakingDirectory => MakingDirectory')
      /\ (Undoing => Undoing')
      /\ (Undone => Undone')
  BY <1>1, <1>2 DEF AtRest, MakingDirectory, Undoing, Undone, Holds, SizesFitBut, SizeFits, Full,
      JustTaken, End, Undo, FilesCalled
<1>4. /\ (Writing => Writing')
      /\ (Filling => Filling')
      /\ (Deleting => Deleting')
      /\ (Deleted => Deleted')
      /\ (Unlinking => Unlinking')
  BY <1>1, <1>2 DEF Writing, Filling, Deleting, Deleted, Unlinking, Holds, SizesFitBut, SizeFits
<1>5. (panic.code = "ERR_OUT_OF_MEMORY" => Full(panic.bytes, {}))'
  BY <1>1, <1>2 DEF FsInv, Full, End
<1>6. InPhase'
  BY <1>3, <1>4 DEF FsInv, InPhase
<1> QED BY <1>1, <1>5, <1>6 DEF FsInv, Apart

\* The loop of free() joins free blocks: what is held stays.
LEMMA CoalesceKeepsFs ==
    ASSUME HeapAssumption, FileSystemAssumption, AllInv, CoalesceStep
    PROVE  FsInv'
<1>1. UNCHANGED <<files, todo, panic>> /\ panic = Running /\ ~Idle
  BY DEF CoalesceStep, fsVars, Alive, Coalesce, Merge, Advance
<1>2. Held' = Held
  BY MergeKeeps, AdvanceKeeps DEF AllInv, CoalesceStep, Coalesce, HeldBecomes
<1>3. SameBlocks
  BY StepKeepsBlocks DEF AllInv, CoalesceStep, HeapStep
<1>4. \A e \in Files : e.data = NULL \/ e.data \in Held => (SizeFits(e) => SizeFits(e)')
  BY <1>2, <1>3 DEF SizeFits, SameBlocks
<1>5. ~MakingDirectory
  BY <1>1 DEF MakingDirectory
<1>6. Undoing => Undoing'
  <2> SUFFICES ASSUME NEW a \in Held, NEW name \in Names,
                      todo = <<<<"free", a>>, Undo(name)>>,
                      a \notin Pieces(files), Holds({a}, {}), Full(NodeAndDirectory, {a})
               PROVE  Undoing'
    BY DEF Undoing
  <2>1. Full(NodeAndDirectory, {a})'
    BY <1>2, <1>3, FullStays DEF NodeAndDirectory
  <2> QED BY <1>1, <1>2, <2>1 DEF Undoing, Holds, Undo
<1>7. Undone => Undone'
  <2> SUFFICES ASSUME NEW name \in Names, todo = <<Undo(name)>>, Holds({}, {}),
                      Full(NodeAndDirectory, {})
               PROVE  Undone'
    BY DEF Undone
  <2>1. Full(NodeAndDirectory, {})'
    BY <1>2, <1>3, FullStays DEF NodeAndDirectory
  <2> QED BY <1>1, <1>2, <2>1 DEF Undone, Holds, Undo
<1>8. ASSUME NEW i \in 1 .. Len(files), SizesFitBut({i}),
             Holds({}, {}) \/ Holds({}, {files[i].data}) \/ Holds({}, {files[i].data, files[i].at})
      PROVE  SizesFitBut({i})'
  <2>1. Apart(files)
    BY DEF AllInv, FsInv
  <2>2. ASSUME NEW j \in (1 .. Len(files)) \ {i}
        PROVE  files[j].data = NULL \/ files[j].data \in Held \cap Held'
    BY <1>2, <1>8, <2>1, InPieces DEF Apart, Holds
  <2> QED BY <1>1, <1>3, <1>8, <2>2, FitsStay
<1>9. AtRest => AtRest'
  <2> SUFFICES ASSUME todo = <<>>, Holds({}, {}), SizesFitBut({})
               PROVE  AtRest'
    BY <1>1 DEF AtRest
  <2>1. Apart(files)
    BY DEF AllInv, FsInv
  <2>2. ASSUME NEW j \in (1 .. Len(files)) \ {}
        PROVE  files[j].data = NULL \/ files[j].data \in Held \cap Held'
    BY <1>2, <2>1, InPieces DEF Holds
  <2>3. SizesFitBut({})'
    BY <1>1, <1>3, <2>2, FitsStay
  <2> QED BY <1>1, <1>2, <2>3 DEF AtRest, Holds
<1>10. /\ (Writing => Writing')
       /\ (Filling => Filling')
       /\ (Deleting => Deleting')
       /\ (Deleted => Deleted')
       /\ (Unlinking => Unlinking')
  <2>1. \A i \in 1 .. Len(files) :
          /\ Holds({}, {}) => Holds({}, {})'
          /\ Holds({}, {files[i].data}) => Holds({}, {files[i].data})'
          /\ Holds({}, {files[i].data, files[i].at}) => Holds({}, {files[i].data, files[i].at})'
    BY <1>1, <1>2 DEF Holds
  <2>2. Writing => Writing'
    BY <1>1, <1>8, <2>1 DEF Writing
  <2>3. Filling => Filling'
    BY <1>1, <1>8, <2>1 DEF Filling
  <2>4. Deleting => Deleting'
    BY <1>1, <1>8, <2>1 DEF Deleting
  <2>5. Deleted => Deleted'
    BY <1>1, <1>8, <2>1 DEF Deleted
  <2>6. Unlinking => Unlinking'
    BY <1>1, <1>8, <2>1 DEF Unlinking
  <2> QED BY <2>2, <2>3, <2>4, <2>5, <2>6
<1>11. InPhase'
  BY <1>5, <1>6, <1>7, <1>9, <1>10 DEF AllInv, FsInv, InPhase
<1>12. Apart(files)' /\ (panic.code = "ERR_OUT_OF_MEMORY" => Full(panic.bytes, {}))'
  BY <1>1 DEF AllInv, FsInv, Apart, Running
<1> QED BY <1>1, <1>11, <1>12 DEF FsInv

\* A call of malloc() that fails ends in err_handler(), with nothing taken.
LEMMA OutOfMemoryKeepsFs ==
    ASSUME HeapAssumption, AllInv, NEW n \in Nat, OutOfMemory(n), Apart(files'), Held = Pieces(files')
    PROVE  FsInv'
<1>1. /\ UNCHANGED <<blocks, curr>> /\ todo' = <<>>
      /\ panic' = [code |-> "ERR_OUT_OF_MEMORY", bytes |-> n] /\ Idle /\ Fitting(n) = {}
  BY DEF OutOfMemory, MallocFails, heapVars, Panic
<1>2. Held' = Held /\ \A a \in Held : End(a)' = End(a)
  BY <1>1 DEF Held, Headers, End
<1>3. Full(n, {})
  BY <1>1, NoFitIsFull DEF AllInv
<1>4. Full(panic.bytes, {})'
  BY <1>1, <1>2, <1>3 DEF Full
<1>5. panic' # Running
  BY <1>1 DEF Running
<1>6. Holds({}, {})'
  BY <1>2 DEF Holds
<1>7. AtRest'
  BY <1>1, <1>5, <1>6 DEF AtRest, Running
<1>8. Apart(files)'
  OBVIOUS
<1> QED BY <1>1, <1>4, <1>7, <1>8 DEF FsInv, InPhase
LEMMA PanicStepKeepsFs ==
    ASSUME HeapAssumption, FileSystemAssumption, AllInv, PanicStep
    PROVE  FsInv'
<1>1. PICK name \in Names : todo = <<Undo(name)>> /\ Holds({}, {}) /\ Full(NodeAndDirectory, {})
  BY PhaseOf DEF AllInv, FsInv, PanicStep, Undone
<1>2. /\ panic' = [code |-> "ERR_OUT_OF_MEMORY", bytes |-> NodeAndDirectory]
      /\ todo' = <<>> /\ UNCHANGED <<blocks, curr, files>>
  BY <1>1, Lists DEF PanicStep, Panic, Undo, NodeAndDirectory
<1>3. Held' = Held /\ \A a \in Held : End(a)' = End(a)
  BY <1>2 DEF Held, Headers, End
<1>4. Full(panic.bytes, {})'
  BY <1>1, <1>2, <1>3 DEF Full
<1>5. panic' # Running
  BY <1>2 DEF Running
<1>6. AtRest'
  BY <1>1, <1>2, <1>3, <1>5 DEF AtRest, Holds, Running
<1>7. Apart(files)'
  BY <1>2 DEF AllInv, FsInv, Apart
<1> QED BY <1>2, <1>4, <1>6, <1>7 DEF FsInv, InPhase

LEMMA UnlinkKeepsFs ==
    ASSUME HeapAssumption, FileSystemAssumption, AllInv, Unlink
    PROVE  FsInv'
<1>1. PICK i \in 1 .. Len(files) :
        /\ todo = <<<<"unlink", i, files[i].name>>>>
        /\ Holds({}, {files[i].data, files[i].at}) /\ SizesFitBut({i})
  BY PhaseOf DEF AllInv, FsInv, Unlink, Unlinking
<1>2. /\ files' = RemoveAt(files, i) /\ todo' = <<>> /\ UNCHANGED <<blocks, curr, panic>>
      /\ panic = Running
  BY <1>1, Lists DEF Unlink, Unlinked, Steps, Alive
<1>3. PICK fs, t : fs = files /\ t = files'
  OBVIOUS
<1>4. fs \in Seq(Files) /\ i \in 1 .. Len(fs) /\ t = RemoveAt(fs, i) /\ Apart(fs)
  BY <1>1, <1>2, <1>3 DEF AllInv, FsTyped, FsInv
<1>5. Apart(t) /\ Pieces(t) = Pieces(fs) \ {fs[i].at, fs[i].data}
  BY <1>4, RemovePieces
<1>6. Held' = Held
  BY <1>2 DEF Held, Headers
<1>7. Holds({}, {})'
  BY <1>1, <1>3, <1>5, <1>6 DEF Holds
<1>8. SizesFitBut({})'
  <2>1. PICK from \in [1 .. Len(t) -> (1 .. Len(fs)) \ {i}] :
          \A j \in 1 .. Len(t) : t[j] = fs[from[j]]
    BY <1>4, RemovePlaces
  <2>2. \A j \in 1 .. Len(t) : SizeFits(t[j])
    BY <1>1, <1>3, <2>1 DEF SizesFitBut
  <2> QED BY <1>2, <1>3, <2>2 DEF SizesFitBut, SizeFits
<1>9. AtRest'
  BY <1>2, <1>7, <1>8 DEF AtRest
<1>10. Apart(files)' /\ (panic.code = "ERR_OUT_OF_MEMORY" => Full(panic.bytes, {}))'
  BY <1>2, <1>3, <1>5 DEF Running
<1> QED BY <1>2, <1>9, <1>10 DEF FsInv, InPhase

LEMMA FillKeepsFs ==
    ASSUME HeapAssumption, FileSystemAssumption, AllInv, Fill
    PROVE  FsInv'
<1>1. PICK i \in 1 .. Len(files), n \in Sizes :
        /\ todo = <<<<"fill", i, n, files[i].name>>>>
        /\ Holds({}, {files[i].data}) /\ SizesFitBut({i})
  BY PhaseOf DEF AllInv, FsInv, Fill, Filling
<1>2. /\ panic = Running /\ n \in Nat
      /\ \/ \E a \in Headers : /\ Malloc(n, a)
                               /\ files' = [files EXCEPT ![i].data = a, ![i].size = n]
                               /\ todo' = <<>>
                               /\ UNCHANGED panic
         \/ OutOfMemory(n) /\ files' = [files EXCEPT ![i].data = NULL]
  <2>1. PICK k, m : k = Head(todo)[2] /\ m = Head(todo)[3]
    OBVIOUS
  <2>2. k = i /\ m = n
    BY <1>1, <2>1, Lists
  <2>3. \/ \E a \in Headers : /\ Malloc(m, a)
                              /\ files' = [files EXCEPT ![k].data = a, ![k].size = m]
                              /\ todo' = <<>>
                              /\ UNCHANGED panic
        \/ OutOfMemory(m) /\ files' = [files EXCEPT ![k].data = NULL]
    BY <2>1 DEF Fill
  <2>4. panic = Running /\ n \in Nat
    BY DEF Fill, Steps, Alive, FileSystemAssumption
  <2> QED BY <2>2, <2>3, <2>4
<1>3. PICK fs, t : fs = files /\ t = files'
  OBVIOUS
<1>4. fs \in Seq(Files) /\ i \in 1 .. Len(fs) /\ Apart(fs)
  BY <1>1, <1>3 DEF AllInv, FsTyped, FsInv
<1>5. NULL \notin Pieces(fs)
  BY <1>4, InPieces
<1>6. Held = Pieces(fs) \ {fs[i].data}
  BY <1>1, <1>3 DEF Holds
<1>7. ASSUME NEW a \in Headers, Malloc(n, a), t = [fs EXCEPT ![i].data = a, ![i].size = n],
             todo' = <<>>, UNCHANGED panic
      PROVE  FsInv'
  <2>1. /\ a \in Nat /\ a # NULL /\ a \notin Held /\ Held' = Held \cup {a}
        /\ blocks'[a].size >= n
    BY <1>2, <1>7, Obtained DEF AllInv
  <2>2. SameBlocks
    BY <1>2, <1>7, StepKeepsBlocks DEF AllInv, HeapStep
  <2>3. /\ Len(t) = Len(fs) /\ t[i].data = a /\ t[i].at = fs[i].at /\ t[i].name = fs[i].name
        /\ t[i].size = n /\ \A j \in (1 .. Len(fs)) \ {i} : t[j] = fs[j]
    BY <1>4, <1>7, SetElements
  <2>4. a \notin Pieces(fs) \ {fs[i].data}
    BY <1>6, <2>1
  <2>5. Apart(t) /\ Pieces(t) = (Pieces(fs) \ {fs[i].data}) \cup ({a} \ {NULL})
    BY <1>4, <2>3, <2>4, SetPieces
  <2>6. Holds({}, {})'
    BY <1>3, <1>6, <2>1, <2>5 DEF Holds
  <2>7. SizesFitBut({})'
    <3>1. ASSUME NEW j \in 1 .. Len(t) PROVE SizeFits(t[j])'
      <4>1. CASE j = i
        BY <2>1, <2>3, <4>1 DEF SizeFits
      <4>2. CASE j # i
        <5>1. t[j] = fs[j] /\ SizeFits(fs[j])
          BY <1>1, <1>3, <2>3, <4>2 DEF SizesFitBut
        <5>2. fs[j].data = NULL \/ fs[j].data \in Held \cap Held'
          BY <1>4, <1>6, <2>1, <2>3, <4>2, InPieces DEF Apart
        <5> QED BY <2>2, <5>1, <5>2 DEF SizeFits, SameBlocks
      <4> QED BY <4>1, <4>2
    <3> QED BY <1>3, <3>1 DEF SizesFitBut, SizeFits
  <2>8. AtRest'
    BY <1>7, <2>6, <2>7 DEF AtRest
  <2>9. Apart(files)' /\ (panic.code = "ERR_OUT_OF_MEMORY" => Full(panic.bytes, {}))'
    BY <1>2, <1>3, <1>7, <2>5 DEF Running
  <2> QED BY <1>7, <2>8, <2>9 DEF FsInv, InPhase
<1>8. CASE OutOfMemory(n) /\ t = [fs EXCEPT ![i].data = NULL]
  <2>1. /\ Len(t) = Len(fs) /\ t[i].data = NULL /\ t[i].at = fs[i].at /\ t[i].name = fs[i].name
        /\ \A j \in (1 .. Len(fs)) \ {i} : t[j] = fs[j]
    <3>1. ASSUME NEW d, d = NULL PROVE t = [fs EXCEPT ![i].data = d]
      BY <1>8, <3>1
    <3> QED BY <1>4, <1>8, SetElements
  <2>2. Apart(t) /\ Pieces(t) = (Pieces(fs) \ {fs[i].data}) \cup ({NULL} \ {NULL})
    BY <1>4, <1>5, <2>1, SetPieces
  <2> QED BY <1>2, <1>3, <1>6, <1>8, <2>2, OutOfMemoryKeepsFs
<1> QED BY <1>2, <1>3, <1>7, <1>8
\* find_file_index() finds a file whenever one has the name.
LEMMA FindsOne ==
    ASSUME FsTyped, NEW name
    PROVE  Exists(name) <=> FilesCalled(name) # {}
<1>1. FilesCalled(name) \subseteq Nat
  BY DEF FilesCalled, FsTyped
<1>2. FilesCalled(name) # {} => \E i \in FilesCalled(name) : \A j \in FilesCalled(name) : i <= j
  BY <1>1, LeastNumber
<1> QED BY <1>2 DEF Exists, FindFile

LEMMA RestsWhenReady ==
    ASSUME AllInv, Ready
    PROVE  /\ todo = <<>> /\ panic = Running /\ Idle
           /\ Held = Pieces(files) /\ SizesFitBut({}) /\ Apart(files) /\ files \in Seq(Files)
           /\ NULL \notin Pieces(files)
  BY PhaseOf, InPieces DEF AllInv, FsInv, FsTyped, Ready, Alive, AtRest, Holds

\* malloc() between calls, with a file or without it: what was there is not touched.
LEMMA Grown ==
    ASSUME HeapAssumption, FileSystemAssumption, AllInv, NEW n \in Nat, NEW a \in Headers, Malloc(n, a)
    PROVE  /\ a \in Nat /\ a # NULL /\ a \notin Held /\ Held' = Held \cup {a} /\ SameBlocks /\ Idle'
           /\ blocks'[a].size >= n
  BY Obtained, StepKeepsBlocks DEF AllInv, HeapStep

\* An entry e goes to the end of files[], its memory already held.
LEMMA Entered ==
    ASSUME SameBlocks, Apart(files), files \in Seq(Files), Pieces(files) \subseteq Held,
           Held \subseteq Held', SizesFitBut({}), NEW e \in Files, files' = Append(files, e),
           e.at \notin Pieces(files), e.at # NULL, e.at # e.data, e.data \notin Pieces(files),
           FilesCalled(e.name) = {}, SizeFits(e)'
    PROVE  /\ Apart(files') /\ Pieces(files') = Pieces(files) \cup {e.at} \cup ({e.data} \ {NULL})
           /\ SizesFitBut({})'
           /\ Len(files') = Len(files) + 1 /\ files'[Len(files) + 1] = e
<1>1. PICK fs, t : fs = files /\ t = files'
  OBVIOUS
<1>2. \A i \in 1 .. Len(fs) : fs[i].name # e.name
  BY <1>1 DEF FilesCalled
<1>3. Apart(t) /\ Pieces(t) = Pieces(fs) \cup {e.at} \cup ({e.data} \ {NULL})
  BY <1>1, <1>2, AppendPieces
<1>4. /\ Len(fs) \in Nat /\ Len(t) = Len(fs) + 1 /\ t[Len(fs) + 1] = e
      /\ \A j \in 1 .. Len(fs) : t[j] = fs[j]
  BY <1>1
<1>5. ASSUME NEW j \in 1 .. Len(t) PROVE SizeFits(t[j])'
  <2>1. CASE j = Len(fs) + 1
    BY <1>4, <2>1 DEF SizeFits
  <2>2. CASE j \in 1 .. Len(fs)
    <3>1. t[j] = fs[j] /\ SizeFits(fs[j])
      BY <1>1, <1>4, <2>2 DEF SizesFitBut
    <3>2. fs[j].data = NULL \/ fs[j].data \in Held \cap Held'
      BY <1>1, <2>2, InPieces
    <3> QED BY <3>1, <3>2 DEF SizeFits, SameBlocks
  <2> QED BY <1>4, <2>1, <2>2
<1>6. SizesFitBut({})'
  BY <1>1, <1>5 DEF SizesFitBut, SizeFits
<1> QED BY <1>1, <1>3, <1>4, <1>6

LEMMA NewFileKeepsFs ==
    ASSUME HeapAssumption, FileSystemAssumption, AllInv, Ready, NEW name \in Names, ~Exists(name),
           NEW rest, rest = <<>> \/ \E n \in Sizes : rest = <<<<"fill", Len(files) + 1, n, name>>>>,
           NewFile(name, rest)
    PROVE  FsInv'
<1>1. /\ panic = Running /\ Held = Pieces(files) /\ SizesFitBut({}) /\ Apart(files)
      /\ files \in Seq(Files) /\ FILE_SIZE \in Nat /\ NULL \notin Pieces(files)
  BY RestsWhenReady DEF FileSystemAssumption
<1>2. CASE OutOfMemory(FILE_SIZE) /\ UNCHANGED files
  <2>1. Apart(files') /\ Held = Pieces(files')
    BY <1>1, <1>2
  <2> QED BY <1>1, <1>2, <2>1, OutOfMemoryKeepsFs
<1>3. ASSUME NEW a \in Headers, Malloc(FILE_SIZE, a), files' = Append(files, Entry(a, name)),
             todo' = rest, UNCHANGED panic
      PROVE  FsInv'
  <2>1. a \in Nat /\ a # NULL /\ a \notin Held /\ Held' = Held \cup {a} /\ SameBlocks
    BY <1>1, <1>3, Grown
  <2>2. PICK e : e = Entry(a, name)
    OBVIOUS
  <2>3. /\ e \in Files /\ e.at = a /\ e.data = NULL /\ e.name = name /\ e.size = 0
    BY <2>1, <2>2 DEF Entry, Files, NULL
  <2>4. FilesCalled(e.name) = {} /\ SizeFits(e)'
    BY <2>3, FindsOne DEF SizeFits, AllInv
  <2>5. /\ Apart(files') /\ Pieces(files') = Pieces(files) \cup {e.at} \cup ({e.data} \ {NULL})
        /\ SizesFitBut({})'
        /\ Len(files') = Len(files) + 1 /\ files'[Len(files) + 1] = e
    BY <1>1, <1>3, <2>1, <2>2, <2>3, <2>4, Entered
  <2>6. Held' = Pieces(files') /\ NULL \notin Pieces(files')
    BY <1>1, <2>1, <2>3, <2>5
  <2>7. CASE rest = <<>>
    <3>1. AtRest'
      BY <1>3, <2>5, <2>6, <2>7 DEF AtRest, Holds
    <3> QED BY <1>1, <1>3, <2>5, <3>1 DEF FsInv, InPhase, Running
  <2>8. ASSUME NEW n \in Sizes, rest = <<<<"fill", Len(files) + 1, n, name>>>>
        PROVE  FsInv'
    <3>1. PICK i : i = Len(files) + 1
      OBVIOUS
    <3>2. /\ i \in 1 .. Len(files') /\ files'[i].name = name /\ files'[i].data = NULL
          /\ todo' = <<<<"fill", i, n, files'[i].name>>>>
      BY <1>1, <1>3, <2>3, <2>5, <2>8, <3>1
    <3>3. Holds({}, {files[i].data})'
      BY <2>6, <3>2 DEF Holds
    <3>4. SizesFitBut({i})'
      BY <2>5 DEF SizesFitBut
    <3>5. Filling'
      BY <3>2, <3>3, <3>4 DEF Filling
    <3> QED BY <1>1, <1>3, <2>5, <3>5 DEF FsInv, InPhase, Running
  <2> QED BY <2>7, <2>8
<1> QED BY <1>2, <1>3 DEF NewFile

LEMMA CreateDirectoryKeepsFs ==
    ASSUME HeapAssumption, FileSystemAssumption, AllInv, Ready, NEW name \in Names, ~Exists(name),
           CreateDirectory(name)
    PROVE  FsInv'
<1>1. /\ panic = Running /\ Held = Pieces(files) /\ SizesFitBut({}) /\ Apart(files)
      /\ files \in Seq(Files) /\ FILE_SIZE \in Nat /\ NULL \notin Pieces(files)
  BY RestsWhenReady DEF FileSystemAssumption
<1>2. CASE OutOfMemory(FILE_SIZE) /\ UNCHANGED files
  <2>1. Apart(files') /\ Held = Pieces(files')
    BY <1>1, <1>2
  <2> QED BY <1>1, <1>2, <2>1, OutOfMemoryKeepsFs
<1>3. ASSUME NEW a \in Headers, Malloc(FILE_SIZE, a), todo' = <<<<"subdir", a, name>>>>,
             UNCHANGED <<files, panic>>
      PROVE  FsInv'
  <2>1. a \in Nat /\ a # NULL /\ a \notin Held /\ Held' = Held \cup {a} /\ SameBlocks /\ Idle'
    BY <1>1, <1>3, Grown
  <2>2. JustTaken(a)'
    BY <1>1, <1>3, TakenJust DEF AllInv
  <2>3. FilesCalled(name)' = {}
    BY <1>3, FindsOne DEF FilesCalled, AllInv
  <2>4. SizesFitBut({})'
    BY <1>1, <1>3, <2>1, InPieces, FitsStay
  <2>5. Holds({a}, {})' /\ a \notin Pieces(files')
    BY <1>1, <1>3, <2>1 DEF Holds
  <2>6. MakingDirectory'
    BY <1>3, <2>1, <2>2, <2>3, <2>4, <2>5 DEF MakingDirectory
  <2>7. Apart(files)' /\ (panic.code = "ERR_OUT_OF_MEMORY" => Full(panic.bytes, {}))'
    BY <1>1, <1>3 DEF Running
  <2> QED BY <1>1, <1>3, <2>6, <2>7 DEF FsInv, InPhase
<1> QED BY <1>2, <1>3 DEF CreateDirectory

LEMMA SubdirKeepsFs ==
    ASSUME HeapAssumption, FileSystemAssumption, DirectoryAssumption, AllInv, MakeSubdir
    PROVE  FsInv'
<1>1. PICK node \in Held, name \in Names :
        /\ todo = <<<<"subdir", node, name>>>>
        /\ Idle /\ JustTaken(node) /\ node \notin Pieces(files) /\ Holds({node}, {})
        /\ FilesCalled(name) = {} /\ SizesFitBut({})
  BY PhaseOf DEF AllInv, FsInv, MakeSubdir, MakingDirectory
<1>2. PICK k, m : k = Head(todo)[2] /\ m = Head(todo)[3]
  OBVIOUS
<1>3. k = node /\ m = name
  BY <1>1, <1>2, Lists
<1>4. \/ \E a \in Headers :
           /\ Malloc(DIRECTORY_SIZE, a)
           /\ files' = Append(files, [Entry(node, name) EXCEPT
                            !.dir = TRUE, !.data = a, !.size = DIRECTORY_SIZE])
           /\ todo' = <<>>
           /\ UNCHANGED panic
      \/ SubdirFails(node, name)
  <2>1. \/ \E a \in Headers :
             /\ Malloc(DIRECTORY_SIZE, a)
             /\ files' = Append(files, [Entry(k, m) EXCEPT
                              !.dir = TRUE, !.data = a, !.size = DIRECTORY_SIZE])
             /\ todo' = <<>>
             /\ UNCHANGED panic
        \/ SubdirFails(k, m)
    BY <1>2 DEF MakeSubdir
  <2> QED BY <1>3, <2>1
<1>5. /\ panic = Running /\ Held = Pieces(files) \cup {node} /\ Apart(files) /\ files \in Seq(Files)
      /\ DIRECTORY_SIZE \in Nat /\ FILE_SIZE \in Nat /\ NULL \notin Pieces(files)
      /\ node \in Nat /\ node # NULL
  <2>1. /\ panic = Running /\ Apart(files) /\ files \in Seq(Files)
        /\ DIRECTORY_SIZE \in Nat /\ FILE_SIZE \in Nat
    BY DEF AllInv, FsInv, FsTyped, MakeSubdir, Steps, Alive, FileSystemAssumption
  <2>2. NULL \notin Pieces(files)
    BY <2>1, InPieces
  <2>3. Held = Pieces(files) \cup {node}
    BY <1>1 DEF Holds
  <2>4. node \in Nat /\ node # NULL
    BY <1>1, BlockTyped DEF AllInv, Held, NULL
  <2> QED BY <2>1, <2>2, <2>3, <2>4
<1>6. ASSUME NEW a \in Headers, Malloc(DIRECTORY_SIZE, a), todo' = <<>>, UNCHANGED panic,
             NEW e, e = [Entry(node, name) EXCEPT !.dir = TRUE, !.data = a, !.size = DIRECTORY_SIZE],
             files' = Append(files, e)
      PROVE  FsInv'
  <2>1. /\ a \in Nat /\ a # NULL /\ a \notin Held /\ Held' = Held \cup {a} /\ SameBlocks
        /\ blocks'[a].size >= DIRECTORY_SIZE
    BY <1>5, <1>6, Grown
  <2>2. e = [at |-> node, name |-> name, dir |-> TRUE, size |-> DIRECTORY_SIZE, data |-> a]
    BY <1>6 DEF Entry
  <2>3. /\ e \in Files /\ e.at = node /\ e.data = a /\ e.name = name /\ e.size = DIRECTORY_SIZE
    BY <1>5, <2>1, <2>2 DEF Files
  <2>4. FilesCalled(e.name) = {} /\ SizeFits(e)'
    BY <1>1, <2>1, <2>3 DEF SizeFits
  <2>5. /\ Apart(files') /\ Pieces(files') = Pieces(files) \cup {e.at} \cup ({e.data} \ {NULL})
        /\ SizesFitBut({})'
    BY <1>1, <1>5, <1>6, <2>1, <2>3, <2>4, Entered
  <2>6. Held' = Pieces(files')
    BY <1>5, <2>1, <2>3, <2>5
  <2>7. AtRest'
    BY <1>6, <2>5, <2>6 DEF AtRest, Holds
  <2> QED BY <1>5, <1>6, <2>5, <2>7 DEF FsInv, InPhase, Running
<1>7. CASE SubdirFails(node, name)
  <2>1. /\ UNCHANGED <<blocks, curr, files, panic>> /\ Fitting(DIRECTORY_SIZE) = {}
        /\ todo' = <<<<"free", node>>, Undo(name)>>
    BY <1>7 DEF SubdirFails, MallocFails, heapVars, Undo
  <2>2. Held' = Held /\ \A b \in Held : End(b)' = End(b)
    BY <2>1 DEF Held, Headers, End
  <2>3. Full(NodeAndDirectory, {node})
    BY <1>1, <1>5, <2>1, NoFitAfterNode DEF AllInv
  <2>4. Full(NodeAndDirectory, {node})'
    BY <2>2, <2>3 DEF Full, NodeAndDirectory
  <2>5. Undoing'
    BY <1>1, <2>1, <2>2, <2>4 DEF Undoing, Holds, Undo
  <2>6. Apart(files)' /\ (panic.code = "ERR_OUT_OF_MEMORY" => Full(panic.bytes, {}))'
    BY <1>5, <2>1 DEF Running
  <2> QED BY <1>5, <2>1, <2>5, <2>6 DEF FsInv, InPhase
<1> QED BY <1>4, <1>6, <1>7
\* A call that notes its steps, or halts at once, leaves the heap and the files alone.
LEMMA NotedKeepsFs ==
    ASSUME FileSystemAssumption, AllInv, Ready, UNCHANGED <<blocks, curr, files>>
    PROVE  /\ Held' = Held /\ SizesFitBut({})' /\ Apart(files)' /\ Holds({}, {})'
           /\ \A code : Panic(code, 0) /\ code # "ERR_OUT_OF_MEMORY" /\ todo' = todo => FsInv'
           /\ UNCHANGED panic => ~(panic' # Running) /\ panic'.code # "ERR_OUT_OF_MEMORY"
<1>1. /\ todo = <<>> /\ panic = Running /\ Held = Pieces(files) /\ SizesFitBut({}) /\ Apart(files)
  BY RestsWhenReady
<1>2. Held' = Held /\ Apart(files)'
  BY <1>1 DEF Held, Headers
<1>3. Holds({}, {})' /\ SizesFitBut({})'
  BY <1>1, <1>2 DEF Holds, SizesFitBut, SizeFits
<1>4. ASSUME NEW code, Panic(code, 0), code # "ERR_OUT_OF_MEMORY", todo' = todo PROVE FsInv'
  <2>1. AtRest'
    BY <1>1, <1>3, <1>4 DEF AtRest
  <2> QED BY <1>1, <1>2, <1>4, <2>1 DEF FsInv, InPhase, Panic
<1> QED BY <1>1, <1>2, <1>3, <1>4 DEF Running

LEMMA WriteKeepsFs ==
    ASSUME HeapAssumption, FileSystemAssumption, AllInv, Ready, NEW name \in Names, NEW n \in Sizes,
           WriteFile(name, n)
    PROVE  FsInv'
<1>1. CASE PanicIn("ERR_FILE_NOT_FOUND")
  BY <1>1, NotedKeepsFs DEF PanicIn
<1>2. ASSUME NEW i \in FindFile(name), todo' = WriteSteps(i, n, name),
             UNCHANGED <<blocks, curr, files, panic>>
      PROVE  FsInv'
  <2>1. i \in 1 .. Len(files) /\ files[i].name = name
    BY DEF FindFile, FilesCalled
  <2>2. Holds({}, {})' /\ SizesFitBut({})' /\ Apart(files)' /\ panic' = Running
    BY <1>2, NotedKeepsFs
  <2>3. SizesFitBut({i})'
    BY <2>2 DEF SizesFitBut
  <2>4. Writing'
    BY <1>2, <2>1, <2>2, <2>3 DEF Writing, WriteSteps
  <2> QED BY <2>2, <2>4 DEF FsInv, InPhase, Running
<1> QED BY <1>1, <1>2 DEF WriteFile

LEMMA DeleteKeepsFs ==
    ASSUME HeapAssumption, FileSystemAssumption, AllInv, Ready, NEW name \in Names,
           DeleteFile(name) \/ DeleteDirectory(name)
    PROVE  FsInv'
<1>1. CASE PanicIn("ERR_FILE_NOT_FOUND")
  BY <1>1, NotedKeepsFs DEF PanicIn
<1>2. ASSUME NEW i \in FindFile(name), todo' = DeleteSteps(i, name),
             UNCHANGED <<blocks, curr, files, panic>>
      PROVE  FsInv'
  <2>1. i \in 1 .. Len(files) /\ files[i].name = name
    BY DEF FindFile, FilesCalled
  <2>2. Holds({}, {})' /\ SizesFitBut({})' /\ Apart(files)' /\ panic' = Running
    BY <1>2, NotedKeepsFs
  <2>3. SizesFitBut({i})'
    BY <2>2 DEF SizesFitBut
  <2>4. Deleting'
    BY <1>2, <2>1, <2>2, <2>3 DEF Deleting, DeleteSteps
  <2> QED BY <2>2, <2>4 DEF FsInv, InPhase, Running
<1> QED BY <1>1, <1>2 DEF DeleteFile, DeleteDirectory

LEMMA CallKeepsFs ==
    ASSUME HeapAssumption, FileSystemAssumption, AllInv, Call
    PROVE  FsInv'
<1>1. PICK name \in Names :
        \/ CreateFile(name) \/ CreateDirectory(name)
        \/ \E n \in Sizes : WriteFile(name, n) \/ Edit(name, n)
        \/ DeleteFile(name) \/ DeleteDirectory(name)
  BY DEF Call
<1>2. Ready
  BY <1>1 DEF CreateFile, CreateDirectory, WriteFile, Edit, DeleteFile, DeleteDirectory
<1>3. CASE PanicIn("ERR_FILE_EXISTS")
  BY <1>2, <1>3, NotedKeepsFs DEF PanicIn
<1>4. CASE CreateFile(name)
  BY <1>2, <1>3, <1>4, NewFileKeepsFs DEF CreateFile
<1>5. CASE CreateDirectory(name)
  BY <1>2, <1>3, <1>5, CreateDirectoryKeepsFs DEF CreateDirectory
<1>6. ASSUME NEW n \in Sizes, Edit(name, n) PROVE FsInv'
  <2>1. CASE ~Exists(name) /\ NewFile(name, <<<<"fill", Len(files) + 1, n, name>>>>)
    BY <1>2, <2>1, NewFileKeepsFs
  <2> QED BY <1>2, <1>6, <2>1, WriteKeepsFs DEF Edit
<1> QED BY <1>1, <1>2, <1>4, <1>5, <1>6, WriteKeepsFs, DeleteKeepsFs

LEMMA FsStartsAtRest == ASSUME HeapAssumption PROVE Init => AllInv
<1> SUFFICES ASSUME Init PROVE FsInv
  BY FsStarts DEF AllInv
<1>1. files = <<>> /\ todo = <<>> /\ panic = Running /\ Held = {}
  BY DEF Init, HeapInit, Held, Headers
<1>2. 1 .. Len(files) = {}
  BY <1>1
<1>3. Pieces(files) = {} /\ SizesFitBut({}) /\ Apart(files)
  BY <1>2 DEF Pieces, SizesFitBut, Apart
<1> QED BY <1>1, <1>3 DEF FsInv, InPhase, AtRest, Holds, Running

LEMMA AllInvHolds ==
    ASSUME HeapAssumption, FileSystemAssumption, DirectoryAssumption
    PROVE  Spec => []AllInv
<1>1. ASSUME AllInv, [Next]_vars PROVE AllInv'
  <2>1. HInv' /\ FsTyped'
    BY <1>1, StepFits, HeapStepKeeps DEF AllInv
  <2>2. FsInv'
    <3>1. CASE UNCHANGED vars
      BY <1>1, <3>1, StutterKeepsFs DEF AllInv
    <3>2. CASE Call
      BY <1>1, <3>2, CallKeepsFs
    <3>3. CASE Work
      BY <1>1, <3>3, FreeKeepsFs, FillKeepsFs, SubdirKeepsFs, UnlinkKeepsFs, PanicStepKeepsFs,
         CoalesceKeepsFs DEF Work
    <3> QED BY <1>1, <3>1, <3>2, <3>3 DEF Next, Halted
  <2> QED BY <2>1, <2>2 DEF AllInv
<1>2. AllInv /\ [Next]_vars => AllInv'
  BY <1>1
<1> QED BY <1>2, FsStartsAtRest, PTL DEF Spec

-----------------------------------------------------------------------------

\* After every call, the failed ones included, the memory that malloc() counts as handed out is
\* the memory the root directory leads to: create, write and delete leak nothing and free
\* nothing twice (file_system.c:29-176).
THEOREM FilesLeakNothing ==
    ASSUME HeapAssumption, FileSystemAssumption, DirectoryAssumption
    PROVE  Spec => []NothingLeaks
<1>1. ASSUME AllInv, Idle, todo = <<>>
      PROVE  /\ Held = InUse[1] \cup InUse[2]
             /\ InUse[1] \cap InUse[2] = {}
             /\ \A i, j \in 1 .. Len(files) : i # j =>
                   /\ files[i].at # files[j].at
                   /\ files[i].data = files[j].data => files[i].data = NULL
  <2>1. Held = Pieces(files) /\ Apart(files)
    BY <1>1, PhaseOf DEF AllInv, FsInv, AtRest, Holds
  <2>2. InUse[1] = {files[i].at : i \in 1 .. Len(files)}
    BY DEF InUse
  <2>3. InUse[2] = {files[i].data : i \in 1 .. Len(files)} \ {NULL}
    BY DEF InUse
  <2>4. Held = InUse[1] \cup InUse[2]
    BY <2>1, <2>2, <2>3 DEF Pieces
  <2>5. InUse[1] \cap InUse[2] = {}
    BY <2>1, <2>2, <2>3 DEF Apart
  <2> QED BY <2>1, <2>4, <2>5 DEF Apart
<1>2. AllInv => NothingLeaks
  BY <1>1 DEF NothingLeaks
<1> QED BY <1>2, AllInvHolds, PTL

\* Whatever was written, moved and deleted before, the data of each file is a block in use that
\* is as long as the size the file gives (file_system.c:90-105).
THEOREM DataIsAsLongAsItSays ==
    ASSUME HeapAssumption, FileSystemAssumption, DirectoryAssumption
    PROVE  Spec => []SizesFit
<1>1. ASSUME AllInv, Ready PROVE SizesFit
  <2>1. Held = Pieces(files) /\ SizesFitBut({}) /\ Apart(files)
    BY <1>1, RestsWhenReady
  <2>2. \A i \in 1 .. Len(files) : files[i].data # NULL => files[i].data \in Held
    BY <2>1, InPieces
  <2> QED BY <2>1, <2>2 DEF SizesFit, SizesFitBut, SizeFits
<1>2. AllInv => SizesFit
  BY <1>1 DEF SizesFit
<1> QED BY <1>2, AllInvHolds, PTL

\* The machine halts for want of memory only when no stretch of the heap that the call needs is
\* free, the file_t and the directory_t of a directory counted together
\* (memory_management.c:104-144, file_system.c:55-88).
THEOREM OutOfMemoryOnlyWhenFull ==
    ASSUME HeapAssumption, FileSystemAssumption, DirectoryAssumption
    PROVE  Spec => []OutOfMemoryIsReal
<1>1. AllInv => OutOfMemoryIsReal
  BY DEF AllInv, FsInv, OutOfMemoryIsReal, Full
<1> QED BY <1>1, AllInvHolds, PTL
-----------------------------------------------------------------------------
(* The map from names that FileMap sees. *)

NamesOf(fs) == {fs[i].name : i \in 1 .. Len(fs)}
Shows(e) == [dir |-> e.dir, size |-> e.size]

\* What FileMap makes of a map: v put at the name, and the name taken out.
With(m, name, v) == [n \in DOMAIN m \cup {name} |-> IF n = name THEN v ELSE m[n]]
Without(m, name) == [n \in DOMAIN m \ {name} |-> m[n]]

\* No name is there twice, so the entry of a name is the one that has it.
LEMMA EntryAt ==
    ASSUME NEW fs, Apart(fs)
    PROVE  /\ EntriesOf(fs) = [n \in NamesOf(fs) |-> EntriesOf(fs)[n]]
           /\ DOMAIN EntriesOf(fs) = NamesOf(fs)
           /\ \A i \in 1 .. Len(fs) : EntriesOf(fs)[fs[i].name] = Shows(fs[i])
<1>1. /\ EntriesOf(fs) = [n \in NamesOf(fs) |-> EntriesOf(fs)[n]]
      /\ DOMAIN EntriesOf(fs) = NamesOf(fs)
  BY DEF EntriesOf, NamesOf
<1>2. ASSUME NEW i \in 1 .. Len(fs) PROVE EntriesOf(fs)[fs[i].name] = Shows(fs[i])
  <2>1. PICK j : j = CHOOSE k \in 1 .. Len(fs) : fs[k].name = fs[i].name
    OBVIOUS
  <2>2. j \in 1 .. Len(fs) /\ fs[j].name = fs[i].name
    BY <2>1
  <2>3. j = i
    BY <2>2 DEF Apart
  <2>4. EntriesOf(fs)[fs[i].name] = [dir |-> fs[j].dir, size |-> fs[j].size]
    BY <2>1 DEF EntriesOf
  <2> QED BY <2>3, <2>4 DEF Shows
<1> QED BY <1>1, <1>2

LEMMA AppendMap ==
    ASSUME NEW fs \in Seq(Files), NEW e \in Files, NEW t, t = Append(fs, e), Apart(fs), Apart(t)
    PROVE  /\ e.name \notin DOMAIN EntriesOf(fs)
           /\ EntriesOf(t) = With(EntriesOf(fs), e.name, Shows(e))
<1>1. /\ Len(fs) \in Nat /\ Len(t) = Len(fs) + 1 /\ t[Len(fs) + 1] = e
      /\ \A i \in 1 .. Len(fs) : t[i] = fs[i]
  OBVIOUS
<1>2. PICK I, k : I = 1 .. Len(fs) /\ k = Len(fs) + 1
  OBVIOUS
<1>3. 1 .. Len(t) = I \cup {k} /\ k \notin I /\ t[k] = e /\ \A i \in I : t[i] = fs[i]
  BY <1>1, <1>2
<1>4. NamesOf(t) = NamesOf(fs) \cup {e.name} /\ e.name \notin NamesOf(fs)
  BY <1>2, <1>3 DEF NamesOf, Apart
<1>5. EntriesOf(t)[e.name] = Shows(e)
  <2>1. k \in 1 .. Len(t)
    BY <1>3
  <2>2. EntriesOf(t)[t[k].name] = Shows(t[k])
    BY <2>1, EntryAt
  <2> QED BY <1>3, <2>2
<1>6. ASSUME NEW n \in NamesOf(fs) PROVE EntriesOf(t)[n] = EntriesOf(fs)[n] /\ n # e.name
  <2>1. PICK i \in I : n = fs[i].name
    BY <1>2 DEF NamesOf
  <2>2. EntriesOf(fs)[n] = Shows(fs[i])
    BY <1>2, <2>1, EntryAt
  <2>3. EntriesOf(t)[n] = Shows(t[i])
    BY <1>3, <2>1, EntryAt
  <2> QED BY <1>3, <1>4, <2>2, <2>3
<1>7. /\ EntriesOf(t) = [n \in NamesOf(t) |-> EntriesOf(t)[n]]
      /\ DOMAIN EntriesOf(fs) = NamesOf(fs)
  BY EntryAt
<1> QED BY <1>4, <1>5, <1>6, <1>7 DEF With

\* The entry k changed in its data or its size.
LEMMA SetMap ==
    ASSUME NEW fs, NEW k \in 1 .. Len(fs), NEW t, Apart(fs), Apart(t),
           Len(t) = Len(fs), t[k].name = fs[k].name, t[k].dir = fs[k].dir,
           \A j \in (1 .. Len(fs)) \ {k} : t[j] = fs[j]
    PROVE  /\ fs[k].name \in DOMAIN EntriesOf(fs)
           /\ EntriesOf(t) = With(EntriesOf(fs), fs[k].name,
                                  [EntriesOf(fs)[fs[k].name] EXCEPT !.size = t[k].size])
           /\ t[k].size = fs[k].size => EntriesOf(t) = EntriesOf(fs)
<1>1. PICK I : I = 1 .. Len(fs) /\ I = 1 .. Len(t) /\ k \in I
  OBVIOUS
<1>2. \A i \in I : t[i].name = fs[i].name /\ (i # k => t[i] = fs[i])
  BY <1>1
<1>3. NamesOf(t) = NamesOf(fs) /\ fs[k].name \in NamesOf(fs)
  BY <1>1, <1>2 DEF NamesOf
<1>4. EntriesOf(t)[fs[k].name] = [EntriesOf(fs)[fs[k].name] EXCEPT !.size = t[k].size]
  <2>1. EntriesOf(t)[fs[k].name] = Shows(t[k])
    BY <1>1, <1>2, EntryAt
  <2>2. EntriesOf(fs)[fs[k].name] = Shows(fs[k])
    BY <1>1, EntryAt
  <2>3. Shows(t[k]) = [Shows(fs[k]) EXCEPT !.size = t[k].size]
    BY DEF Shows
  <2> QED BY <2>1, <2>2, <2>3
<1>5. ASSUME NEW n \in NamesOf(fs), n # fs[k].name PROVE EntriesOf(t)[n] = EntriesOf(fs)[n]
  <2>1. PICK i \in I : n = fs[i].name /\ i # k
    BY <1>1, <1>5 DEF NamesOf
  <2>2. EntriesOf(fs)[n] = Shows(fs[i])
    BY <1>1, <2>1, EntryAt
  <2>3. EntriesOf(t)[n] = Shows(t[i])
    BY <1>1, <1>2, <2>1, EntryAt
  <2> QED BY <1>2, <2>1, <2>2, <2>3
<1>6. /\ EntriesOf(t) = [n \in NamesOf(t) |-> EntriesOf(t)[n]]
      /\ EntriesOf(fs) = [n \in NamesOf(fs) |-> EntriesOf(fs)[n]]
      /\ DOMAIN EntriesOf(fs) = NamesOf(fs)
  BY EntryAt
<1>7. EntriesOf(t) = With(EntriesOf(fs), fs[k].name,
                         [EntriesOf(fs)[fs[k].name] EXCEPT !.size = t[k].size])
  <2>1. PICK v : v = [EntriesOf(fs)[fs[k].name] EXCEPT !.size = t[k].size]
    OBVIOUS
  <2>2. EntriesOf(t) = With(EntriesOf(fs), fs[k].name, v)
    BY <1>3, <1>4, <1>5, <1>6, <2>1 DEF With
  <2> QED BY <2>1, <2>2
<1>8. ASSUME t[k].size = fs[k].size PROVE EntriesOf(t) = EntriesOf(fs)
  <2>1. EntriesOf(t)[fs[k].name] = Shows(t[k]) /\ EntriesOf(fs)[fs[k].name] = Shows(fs[k])
    BY <1>1, <1>2, EntryAt
  <2>2. \A n \in NamesOf(fs) : EntriesOf(t)[n] = EntriesOf(fs)[n]
    BY <1>5, <1>8, <2>1 DEF Shows
  <2> QED BY <1>3, <1>6, <2>2
<1> QED BY <1>3, <1>6, <1>7, <1>8

LEMMA RemoveMap ==
    ASSUME NEW fs \in Seq(Files), NEW k \in 1 .. Len(fs), NEW t, t = RemoveAt(fs, k), Apart(fs)
    PROVE  /\ fs[k].name \in DOMAIN EntriesOf(fs)
           /\ EntriesOf(t) = Without(EntriesOf(fs), fs[k].name)
<1>1. PICK from \in [1 .. Len(t) -> (1 .. Len(fs)) \ {k}] :
               /\ \A j \in 1 .. Len(t) : t[j] = fs[from[j]]
               /\ \A i, j \in 1 .. Len(t) : i # j => from[i] # from[j]
               /\ \A i \in (1 .. Len(fs)) \ {k} : \E j \in 1 .. Len(t) : from[j] = i
  BY RemovePlaces
<1>2. Apart(t)
  BY RemovePieces
<1>3. PICK I, J : I = 1 .. Len(fs) /\ J = 1 .. Len(t) /\ k \in I
  OBVIOUS
<1>4. \A j \in J : from[j] \in I /\ from[j] # k /\ t[j] = fs[from[j]]
  BY <1>1, <1>3
<1>5. \A i \in I : i # k => fs[i].name # fs[k].name /\ \E j \in J : from[j] = i
  BY <1>1, <1>3 DEF Apart
<1>6. NamesOf(t) = NamesOf(fs) \ {fs[k].name} /\ fs[k].name \in NamesOf(fs)
  <2>1. NamesOf(t) = {t[j].name : j \in J} /\ NamesOf(fs) = {fs[i].name : i \in I}
    BY <1>3 DEF NamesOf
  <2>2. \A n \in NamesOf(t) : n \in NamesOf(fs) /\ n # fs[k].name
    BY <1>4, <1>5, <2>1
  <2>3. ASSUME NEW n \in NamesOf(fs), n # fs[k].name PROVE n \in NamesOf(t)
    <3>1. PICK i \in I : n = fs[i].name /\ i # k
      BY <2>1, <2>3
    <3>2. PICK j \in J : from[j] = i
      BY <1>5, <3>1
    <3> QED BY <1>4, <2>1, <3>1, <3>2
  <2> QED BY <1>3, <2>1, <2>2, <2>3
<1>7. ASSUME NEW n \in NamesOf(t) PROVE EntriesOf(t)[n] = EntriesOf(fs)[n]
  <2>1. PICK j \in J : n = t[j].name
    BY <1>3 DEF NamesOf
  <2>2. EntriesOf(t)[n] = Shows(t[j])
    BY <1>2, <1>3, <2>1, EntryAt
  <2>3. PICK i \in I : i = from[j] /\ t[j] = fs[i]
    BY <1>4
  <2>4. EntriesOf(fs)[n] = Shows(fs[i])
    BY <1>3, <2>1, <2>3, EntryAt
  <2> QED BY <2>2, <2>3, <2>4
<1>8. /\ EntriesOf(t) = [n \in NamesOf(t) |-> EntriesOf(t)[n]]
      /\ DOMAIN EntriesOf(fs) = NamesOf(fs)
  BY <1>2, EntryAt
<1> QED BY <1>6, <1>7, <1>8 DEF Without
\* What is pending shows in the last step.
LEMMA PendingIs ==
    ASSUME NEW s, s # <<>>, NEW x, x = Last(s)
    PROVE  /\ x[1] = "fill" => PendingOf(s) = <<"write", x[4]>>
           /\ x[1] = "unlink" => PendingOf(s) = <<"delete", x[3]>>
           /\ x[1] \in {"subdir", "panic"} => PendingOf(s) = <<"mkdir", x[3]>>
  BY DEF PendingOf

\* The steps of FileMap, from what the file system did.
LEMMA MapHalts ==
    ASSUME panic = Running, panic' # Running, EntriesOf(files') = EntriesOf(files),
           PendingOf(todo') = <<>>
    PROVE  Map!Next
<1>1. Map!Halt
  BY DEF Map!Halt
<1> QED BY <1>1 DEF Map!Next

LEMMA MapBegins ==
    ASSUME panic = Running, panic' = Running, NEW name \in Names,
           NEW op \in {"mkdir", "write", "delete"},
           PendingOf(todo) = <<>>, PendingOf(todo') = <<op, name>>,
           EntriesOf(files') = EntriesOf(files) \/ (op = "write" /\ Map!Create(name))
    PROVE  Map!Next
<1>1. Map!Begin(op, name)
  BY DEF Map!Begin
<1>2. UNCHANGED (panic # Running)
  OBVIOUS
<1> QED BY <1>1, <1>2 DEF Map!Next

LEMMA MapFinishes ==
    ASSUME panic = Running, panic' = Running, NEW name, PendingOf(todo') = <<>>,
           \/ PendingOf(todo) = <<"mkdir", name>> /\ Map!MakeDirectory(name)
           \/ PendingOf(todo) = <<"write", name>> /\ \E n \in Sizes : Map!Write(name, n)
           \/ PendingOf(todo) = <<"delete", name>> /\ Map!Delete(name)
    PROVE  Map!Next
<1>1. PICK p : p = PendingOf(todo)
  OBVIOUS
<1>2. Map!Finish
  <2>1. CASE p = <<"mkdir", name>> /\ Map!MakeDirectory(name)
    <3>1. p # <<>> /\ p[1] = "mkdir" /\ p[2] = name
      BY <2>1
    <3> QED BY <1>1, <2>1, <3>1 DEF Map!Finish
  <2>2. CASE p = <<"write", name>> /\ \E n \in Sizes : Map!Write(name, n)
    <3>1. p # <<>> /\ p[1] = "write" /\ p[2] = name
      BY <2>2
    <3> QED BY <1>1, <2>2, <3>1 DEF Map!Finish
  <2>3. CASE p = <<"delete", name>> /\ Map!Delete(name)
    <3>1. p # <<>> /\ p[1] = "delete" /\ p[2] = name
      BY <2>3
    <3> QED BY <1>1, <2>3, <3>1 DEF Map!Finish
  <2> QED BY <1>1, <2>1, <2>2, <2>3
<1>3. UNCHANGED (panic # Running)
  OBVIOUS
<1> QED BY <1>2, <1>3 DEF Map!Next

\* A step that leaves the files and what is pending alone is none of FileMap's.
LEMMA FreeMaps ==
    ASSUME HeapAssumption, FileSystemAssumption, AllInv, FreeStep
    PROVE  UNCHANGED <<files, panic>> /\ PendingOf(todo') = PendingOf(todo)
<1>1. UNCHANGED <<files, panic>> /\ todo' = Tail(todo)
  BY Freed
<1>2. \E f, g, x : todo = <<f, x>> \/ todo = <<f, g, x>>
  <2>1. Undoing \/ Writing \/ Deleting \/ Deleted
    BY PhaseOf DEF AllInv, FsInv, FreeStep
  <2>2. Undoing => \E f, x : todo = <<f, x>>
    BY DEF Undoing
  <2>3. Writing => \E f, x : todo = <<f, x>>
    BY DEF Writing
  <2>4. Deleting => \E f, g, x : todo = <<f, g, x>>
    BY DEF Deleting
  <2>5. Deleted => \E f, x : todo = <<f, x>>
    BY DEF Deleted
  <2> QED BY <2>1, <2>2, <2>3, <2>4, <2>5
<1>3. todo # <<>> /\ todo' # <<>> /\ Last(todo') = Last(todo)
  <2>1. ASSUME NEW f, NEW x, todo = <<f, x>>
        PROVE  todo # <<>> /\ todo' # <<>> /\ Last(todo') = Last(todo)
    <3>1. todo' = <<x>>
      BY <1>1, <2>1
    <3> QED BY <2>1, <3>1 DEF Last
  <2>2. ASSUME NEW f, NEW g, NEW x, todo = <<f, g, x>>
        PROVE  todo # <<>> /\ todo' # <<>> /\ Last(todo') = Last(todo)
    <3>1. todo' = <<g, x>>
      BY <1>1, <2>2
    <3> QED BY <2>2, <3>1 DEF Last
  <2> QED BY <1>2, <2>1, <2>2
<1> QED BY <1>1, <1>3 DEF PendingOf
LEMMA NewFileMaps ==
    ASSUME HeapAssumption, FileSystemAssumption, AllInv, FsInv', Ready, NEW name \in Names,
           NEW rest, rest = <<>> \/ \E n \in Sizes : rest = <<<<"fill", Len(files) + 1, n, name>>>>,
           NewFile(name, rest)
    PROVE  Map!Next
<1>1. /\ panic = Running /\ todo = <<>> /\ PendingOf(todo) = <<>> /\ files \in Seq(Files)
      /\ Apart(files) /\ PendingOf(<<>>) = <<>>
  BY RestsWhenReady DEF PendingOf
<1>2. CASE OutOfMemory(FILE_SIZE) /\ UNCHANGED files
  <2>1. panic' # Running /\ todo' = <<>>
    BY <1>2 DEF OutOfMemory, Panic, Running
  <2> QED BY <1>1, <1>2, <2>1, MapHalts
<1>3. ASSUME NEW a \in Headers, Malloc(FILE_SIZE, a), files' = Append(files, Entry(a, name)),
             todo' = rest, UNCHANGED panic
      PROVE  Map!Next
  <2>1. PICK e, fs, t : e = Entry(a, name) /\ fs = files /\ t = files'
    OBVIOUS
  <2>2. /\ e \in Files /\ e.name = name /\ Shows(e) = [dir |-> FALSE, size |-> 0]
    BY <2>1, BlockTyped DEF Entry, Files, NULL, Shows, AllInv
  <2>3. Apart(t)
    BY <2>1 DEF FsInv
  <2>4. e.name \notin DOMAIN EntriesOf(fs) /\ EntriesOf(t) = With(EntriesOf(fs), e.name, Shows(e))
    <3>1. fs \in Seq(Files) /\ Apart(fs) /\ t = Append(fs, e)
      BY <1>1, <1>3, <2>1
    <3> QED BY <2>2, <2>3, <3>1, AppendMap
  <2>5. Map!Create(name)
    <3>1. /\ name \notin DOMAIN EntriesOf(files)
          /\ EntriesOf(files') = With(EntriesOf(files), name, [dir |-> FALSE, size |-> 0])
      BY <2>1, <2>2, <2>4
    <3> QED BY <3>1 DEF With, Map!Create, Map!Put
  <2>6. CASE rest = <<>>
    <3>1. UNCHANGED PendingOf(todo) /\ UNCHANGED (panic # Running)
      BY <1>1, <1>3, <2>6
    <3> QED BY <1>1, <2>5, <3>1 DEF Map!Next
  <2>7. ASSUME NEW n \in Sizes, rest = <<<<"fill", Len(files) + 1, n, name>>>> PROVE Map!Next
    <3>1. PICK x : x = <<"fill", Len(files) + 1, n, name>>
      OBVIOUS
    <3>2. rest # <<>> /\ x = Last(rest) /\ x[1] = "fill" /\ x[4] = name
      BY <2>7, <3>1 DEF Last
    <3>3. PendingOf(rest) = <<"write", name>>
      BY <3>2, PendingIs
    <3>4. PendingOf(todo') = <<"write", name>>
      BY <1>3, <3>3
    <3> QED BY <1>1, <1>3, <2>5, <3>4, MapBegins
  <2> QED BY <2>6, <2>7
<1> QED BY <1>2, <1>3 DEF NewFile

LEMMA CallMaps ==
    ASSUME HeapAssumption, FileSystemAssumption, AllInv, FsInv', Call
    PROVE  Map!Next
<1>1. PICK name \in Names :
        \/ CreateFile(name) \/ CreateDirectory(name)
        \/ \E n \in Sizes : WriteFile(name, n) \/ Edit(name, n)
        \/ DeleteFile(name) \/ DeleteDirectory(name)
  BY DEF Call
<1>2. Ready
  BY <1>1 DEF CreateFile, CreateDirectory, WriteFile, Edit, DeleteFile, DeleteDirectory
<1>3. /\ panic = Running /\ todo = <<>> /\ PendingOf(todo) = <<>> /\ files \in Seq(Files)
      /\ PendingOf(<<>>) = <<>>
  BY <1>2, RestsWhenReady DEF PendingOf
<1>4. ASSUME NEW code, code # "none", PanicIn(code) PROVE Map!Next
  <2>1. panic' # Running /\ todo' = <<>> /\ files' = files
    BY <1>3, <1>4 DEF PanicIn, Panic, Running
  <2> QED BY <1>3, <2>1, MapHalts
<1>5. CASE CreateFile(name)
  BY <1>2, <1>4, <1>5, NewFileMaps DEF CreateFile
<1>6. CASE CreateDirectory(name)
  <2>1. CASE OutOfMemory(FILE_SIZE) /\ UNCHANGED files
    <3>1. panic' # Running /\ todo' = <<>>
      BY <2>1 DEF OutOfMemory, Panic, Running
    <3> QED BY <1>3, <2>1, <3>1, MapHalts
  <2>2. ASSUME NEW a \in Headers, todo' = <<<<"subdir", a, name>>>>, UNCHANGED <<files, panic>>
        PROVE  Map!Next
    <3>1. PICK x, s : x = <<"subdir", a, name>> /\ s = todo'
      OBVIOUS
    <3>2. s # <<>> /\ x = Last(s) /\ x[1] = "subdir" /\ x[3] = name
      BY <2>2, <3>1 DEF Last
    <3>3. PendingOf(todo') = <<"mkdir", name>>
      BY <3>1, <3>2, PendingIs
    <3> QED BY <1>3, <2>2, <3>3, MapBegins
  <2> QED BY <1>4, <1>6, <2>1, <2>2 DEF CreateDirectory
<1>7. ASSUME NEW n \in Sizes, WriteFile(name, n) PROVE Map!Next
  <2>1. ASSUME NEW i \in FindFile(name), todo' = WriteSteps(i, n, name), UNCHANGED <<files, panic>>
        PROVE  Map!Next
    <3>1. PICK x, s : x = <<"fill", i, n, name>> /\ s = todo'
      OBVIOUS
    <3>2. s # <<>> /\ x = Last(s) /\ x[1] = "fill" /\ x[4] = name
      BY <2>1, <3>1 DEF Last, WriteSteps
    <3>3. PendingOf(todo') = <<"write", name>>
      BY <3>1, <3>2, PendingIs
    <3> QED BY <1>3, <2>1, <3>3, MapBegins
  <2> QED BY <1>4, <1>7, <2>1 DEF WriteFile
<1>8. CASE DeleteFile(name) \/ DeleteDirectory(name)
  <2>1. ASSUME NEW i \in FindFile(name), todo' = DeleteSteps(i, name), UNCHANGED <<files, panic>>
        PROVE  Map!Next
    <3>1. PICK x, s : x = <<"unlink", i, name>> /\ s = todo'
      OBVIOUS
    <3>2. s # <<>> /\ x = Last(s) /\ x[1] = "unlink" /\ x[3] = name
      BY <2>1, <3>1 DEF Last, DeleteSteps
    <3>3. PendingOf(todo') = <<"delete", name>>
      BY <3>1, <3>2, PendingIs
    <3> QED BY <1>3, <2>1, <3>3, MapBegins
  <2> QED BY <1>4, <1>8, <2>1 DEF DeleteFile, DeleteDirectory
<1>9. ASSUME NEW n \in Sizes, Edit(name, n) PROVE Map!Next
  BY <1>2, <1>7, <1>9, NewFileMaps DEF Edit
<1> QED BY <1>1, <1>5, <1>6, <1>7, <1>8, <1>9
LEMMA UnlinkMaps ==
    ASSUME HeapAssumption, FileSystemAssumption, AllInv, Unlink
    PROVE  Map!Next
<1>1. PICK i \in 1 .. Len(files) : todo = <<<<"unlink", i, files[i].name>>>>
  BY PhaseOf DEF AllInv, FsInv, Unlink, Unlinking
<1>2. /\ files' = RemoveAt(files, i) /\ todo' = <<>> /\ panic = Running /\ panic' = Running
      /\ files \in Seq(Files) /\ Apart(files)
  BY <1>1, Lists DEF Unlink, Unlinked, Steps, Alive, AllInv, FsInv, FsTyped
<1>3. PICK fs, t, s, name : fs = files /\ t = files' /\ s = todo /\ name = files[i].name
  OBVIOUS
<1>4. name \in DOMAIN EntriesOf(fs) /\ EntriesOf(t) = Without(EntriesOf(fs), name)
  <2>1. fs \in Seq(Files) /\ Apart(fs) /\ t = RemoveAt(fs, i) /\ name = fs[i].name
        /\ i \in 1 .. Len(fs)
    BY <1>2, <1>3
  <2> QED BY <2>1, RemoveMap
<1>5. Map!Delete(name)
  <2>1. /\ name \in DOMAIN EntriesOf(files)
        /\ EntriesOf(files') = Without(EntriesOf(files), name)
    BY <1>3, <1>4
  <2> QED BY <2>1 DEF Map!Delete, Without
<1>6. PendingOf(todo) = <<"delete", name>>
  <2>1. PICK x : x = <<"unlink", i, name>>
    OBVIOUS
  <2>2. s # <<>> /\ x = Last(s) /\ x[1] = "unlink" /\ x[3] = name
    BY <1>1, <1>3, <2>1 DEF Last
  <2>3. PendingOf(s) = <<"delete", name>>
    BY <2>2, PendingIs
  <2> QED BY <1>3, <2>3
<1>7. PendingOf(todo') = <<>>
  BY <1>2 DEF PendingOf
<1> QED BY <1>2, <1>5, <1>6, <1>7, MapFinishes

LEMMA FillMaps ==
    ASSUME HeapAssumption, FileSystemAssumption, AllInv, FsInv', Fill
    PROVE  Map!Next
<1>1. PICK i \in 1 .. Len(files), n \in Sizes : todo = <<<<"fill", i, n, files[i].name>>>>
  BY PhaseOf DEF AllInv, FsInv, Fill, Filling
<1>2. PICK k, m : k = Head(todo)[2] /\ m = Head(todo)[3]
  OBVIOUS
<1>3. k = i /\ m = n
  BY <1>1, <1>2, Lists
<1>4. \/ \E a \in Headers : /\ Malloc(m, a)
                            /\ files' = [files EXCEPT ![k].data = a, ![k].size = m]
                            /\ todo' = <<>>
                            /\ UNCHANGED panic
      \/ OutOfMemory(m) /\ files' = [files EXCEPT ![k].data = NULL]
  BY <1>2 DEF Fill
<1>5. panic = Running /\ files \in Seq(Files) /\ Apart(files) /\ Apart(files')
  BY DEF Fill, Steps, Alive, AllInv, FsInv, FsTyped
<1>6. PICK fs, t, s, name : fs = files /\ t = files' /\ s = todo /\ name = files[i].name
  OBVIOUS
<1>7. fs \in Seq(Files) /\ Apart(fs) /\ Apart(t) /\ i \in 1 .. Len(fs) /\ name = fs[i].name
  BY <1>5, <1>6
<1>8. ASSUME NEW a, t = [fs EXCEPT ![i].data = a, ![i].size = n], todo' = <<>>, UNCHANGED panic
      PROVE  Map!Next
  <2>1. /\ Len(t) = Len(fs) /\ t[i].name = fs[i].name /\ t[i].dir = fs[i].dir /\ t[i].size = n
        /\ \A j \in (1 .. Len(fs)) \ {i} : t[j] = fs[j]
    BY <1>7, <1>8, SetElements
  <2>2. /\ name \in DOMAIN EntriesOf(fs)
        /\ EntriesOf(t) = With(EntriesOf(fs), name, [EntriesOf(fs)[name] EXCEPT !.size = n])
    BY <1>7, <2>1, SetMap
  <2>3. Map!Write(name, n)
    <3>1. /\ name \in DOMAIN EntriesOf(files)
          /\ EntriesOf(files') = With(EntriesOf(files), name,
                                      [EntriesOf(files)[name] EXCEPT !.size = n])
      BY <1>6, <2>2
    <3> QED BY <3>1 DEF With, Map!Write, Map!Put
  <2>4. PendingOf(todo) = <<"write", name>>
    <3>1. PICK x : x = <<"fill", i, n, name>>
      OBVIOUS
    <3>2. s # <<>> /\ x = Last(s) /\ x[1] = "fill" /\ x[4] = name
      BY <1>1, <1>6, <3>1 DEF Last
    <3>3. PendingOf(s) = <<"write", name>>
      BY <3>2, PendingIs
    <3> QED BY <1>6, <3>3
  <2>5. PendingOf(todo') = <<>>
    BY <1>8 DEF PendingOf
  <2> QED BY <1>5, <1>8, <2>3, <2>4, <2>5, MapFinishes
<1>9. CASE OutOfMemory(n) /\ t = [fs EXCEPT ![i].data = NULL]
  <2>1. PICK d : d = NULL
    OBVIOUS
  <2>2. t = [fs EXCEPT ![i].data = d]
    BY <1>9, <2>1
  <2>3. /\ Len(t) = Len(fs) /\ t[i].name = fs[i].name /\ t[i].dir = fs[i].dir
        /\ \A j \in (1 .. Len(fs)) \ {i} : t[j] = fs[j]
    BY <1>7, <2>2, SetElements
  <2>4. t[i].size = fs[i].size
    <3>1. fs[i] \in Files
      BY <1>7
    <3>2. t[i] = [fs[i] EXCEPT !.data = d]
      BY <1>7, <2>2
    <3> QED BY <3>1, <3>2 DEF Files
  <2>5. EntriesOf(t) = EntriesOf(fs)
    BY <1>7, <2>3, <2>4, SetMap
  <2>6. panic' # Running /\ PendingOf(todo') = <<>>
    BY <1>9 DEF OutOfMemory, Panic, Running, PendingOf
  <2> QED BY <1>5, <1>6, <2>5, <2>6, MapHalts
<1> QED BY <1>3, <1>4, <1>6, <1>8, <1>9

LEMMA SubdirMaps ==
    ASSUME HeapAssumption, FileSystemAssumption, AllInv, FsInv', MakeSubdir
    PROVE  Map!Next \/ (UNCHANGED <<files, panic>> /\ PendingOf(todo') = PendingOf(todo))
<1>1. PICK node \in Held, name \in Names : todo = <<<<"subdir", node, name>>>>
  BY PhaseOf DEF AllInv, FsInv, MakeSubdir, MakingDirectory
<1>2. PICK k, m : k = Head(todo)[2] /\ m = Head(todo)[3]
  OBVIOUS
<1>3. k = node /\ m = name
  BY <1>1, <1>2, Lists
<1>4. \/ \E a \in Headers :
             /\ files' = Append(files, [Entry(k, m) EXCEPT
                              !.dir = TRUE, !.data = a, !.size = DIRECTORY_SIZE])
             /\ todo' = <<>>
             /\ UNCHANGED panic
      \/ SubdirFails(k, m)
  BY <1>2 DEF MakeSubdir
<1>5. panic = Running /\ files \in Seq(Files) /\ Apart(files) /\ Apart(files')
  BY DEF MakeSubdir, Steps, Alive, AllInv, FsInv, FsTyped
<1>6. PICK fs, t, s : fs = files /\ t = files' /\ s = todo
  OBVIOUS
<1>7. PendingOf(todo) = <<"mkdir", name>>
  <2>1. PICK x : x = <<"subdir", node, name>>
    OBVIOUS
  <2>2. s # <<>> /\ x = Last(s) /\ x[1] = "subdir" /\ x[3] = name
    BY <1>1, <1>6, <2>1 DEF Last
  <2>3. PendingOf(s) = <<"mkdir", name>>
    BY <2>2, PendingIs
  <2> QED BY <1>6, <2>3
<1>8. ASSUME NEW a \in Headers, todo' = <<>>, UNCHANGED panic,
             NEW e, e = [Entry(node, name) EXCEPT !.dir = TRUE, !.data = a, !.size = DIRECTORY_SIZE],
             t = Append(fs, e)
      PROVE  Map!Next
  <2>1. e = [at |-> node, name |-> name, dir |-> TRUE, size |-> DIRECTORY_SIZE, data |-> a]
    BY <1>8 DEF Entry
  <2>2. a \in Int /\ node \in Int /\ DIRECTORY_SIZE \in Nat
    BY BlockTyped DEF AllInv, Held, FileSystemAssumption
  <2>3. e \in Files /\ e.name = name /\ Shows(e) = [dir |-> TRUE, size |-> DIRECTORY_SIZE]
    BY <2>1, <2>2 DEF Files, Shows
  <2>4. fs \in Seq(Files) /\ Apart(fs) /\ Apart(t)
    BY <1>5, <1>6
  <2>5. e.name \notin DOMAIN EntriesOf(fs) /\ EntriesOf(t) = With(EntriesOf(fs), e.name, Shows(e))
    BY <1>8, <2>3, <2>4, AppendMap
  <2>6. Map!MakeDirectory(name)
    <3>1. /\ name \notin DOMAIN EntriesOf(files)
          /\ EntriesOf(files') = With(EntriesOf(files), name, [dir |-> TRUE, size |-> DIRECTORY_SIZE])
      BY <1>6, <2>3, <2>5
    <3> QED BY <3>1 DEF With, Map!MakeDirectory, Map!Put
  <2>7. PendingOf(todo') = <<>>
    BY <1>8 DEF PendingOf
  <2> QED BY <1>5, <1>7, <1>8, <2>6, <2>7, MapFinishes
<1>9. CASE SubdirFails(node, name)
  <2>1. todo' = <<<<"free", node>>, Undo(name)>> /\ UNCHANGED <<files, panic>>
    BY <1>9 DEF SubdirFails, Undo
  <2>2. PICK x, u : x = Undo(name) /\ u = todo'
    OBVIOUS
  <2>3. u # <<>> /\ x = Last(u) /\ x[1] = "panic" /\ x[3] = name
    BY <2>1, <2>2 DEF Last, Undo
  <2>4. PendingOf(u) = <<"mkdir", name>>
    BY <2>3, PendingIs
  <2> QED BY <1>7, <2>1, <2>2, <2>4
<1> QED BY <1>3, <1>4, <1>6, <1>8, <1>9

\* The files in memory behave as a map from names to kinds and sizes: each call changes the
\* entry of its own name and no other, or the machine halts with the map as it was; taking a
\* file out of files[] moves the later ones and loses none of them (file_system.c:38-176).
THEOREM FilesAreAMap ==
    ASSUME HeapAssumption, FileSystemAssumption, DirectoryAssumption
    PROVE  Spec => FileMapSpec
<1>1. Init => Map!Init
  <2> SUFFICES ASSUME Init PROVE Map!Init
    OBVIOUS
  <2>1. files = <<>> /\ todo = <<>> /\ panic = Running
    BY DEF Init
  <2>2. PendingOf(todo) = <<>>
    BY <2>1 DEF PendingOf
  <2>3. {files[i].name : i \in 1 .. Len(files)} = {}
    BY <2>1
  <2>4. EntriesOf(files) = [n \in {} |-> 0]
    BY <2>3 DEF EntriesOf
  <2> QED BY <2>1, <2>2, <2>4 DEF Map!Init
<1>2. AllInv /\ AllInv' /\ [Next]_vars => [Map!Next]_(Map!vars)
  <2> SUFFICES ASSUME AllInv, AllInv', [Next]_vars
               PROVE  Map!Next \/ (UNCHANGED <<files, panic>> /\ PendingOf(todo') = PendingOf(todo))
    BY DEF Map!vars
  <2>1. FsInv'
    BY DEF AllInv
  <2>2. CASE UNCHANGED vars
    BY <2>2 DEF vars
  <2>3. CASE Call
    BY <2>1, <2>3, CallMaps
  <2>4. CASE PanicStep
    <3>1. panic = Running /\ files' = files /\ todo' = <<>>
      BY <2>4 DEF PanicStep, Steps, Alive
    <3>2. panic' # Running
      <4>1. PICK name \in Names : todo = <<Undo(name)>>
        BY <2>4, PhaseOf DEF AllInv, FsInv, PanicStep, Undone
      <4> QED BY <2>4, <4>1, Lists DEF PanicStep, Panic, Undo, Running
    <3>3. PendingOf(todo') = <<>>
      BY <3>1 DEF PendingOf
    <3> QED BY <3>1, <3>2, <3>3, MapHalts
  <2>5. CASE CoalesceStep
    BY <2>5 DEF CoalesceStep, fsVars
  <2>6. CASE Work
    BY <2>1, <2>4, <2>5, <2>6, FreeMaps, FillMaps, SubdirMaps, UnlinkMaps DEF Work
  <2> QED BY <2>2, <2>3, <2>6 DEF Next, Halted
<1> QED BY <1>1, <1>2, AllInvHolds, PTL DEF Spec, FileMapSpec, Map!Spec
=============================================================================

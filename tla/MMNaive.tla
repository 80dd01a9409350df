------------------------------- MODULE MMNaive -------------------------------
(***************************************************************************)
(* The first-fit allocator of malloclab-handout/mm_.c.  Every block starts *)
(* with a size field (ALIGN(sizeof(size_t)) bytes); a free block also      *)
(* holds the prev and next links of a doubly linked free list that runs    *)
(* from head to tail, the two sentinels of MM_Head at mem_heap_lo().       *)
(* mm_malloc takes the first free block that fits, cutting the request    *)
(* off its end; mm_free merges the block with the free blocks right before *)
(* and after it, found by a walk of the whole list; mm_realloc is malloc,  *)
(* copy, free.                                                             *)
(*                                                                         *)
(* Addresses and sizes are in 8-byte units from mem_heap_lo(), for the     *)
(* 32-bit build that mm.c's MM_ARCH names: sizeof(size_t) = 4,             *)
(* sizeof(MM_Node) = 12, sizeof(MM_Head) = 24.  The list is the sequence   *)
(* of blocks from head->next to tail->prev; the sentinels themselves are   *)
(* not blocks.  Client data and the memcpy of mm_realloc are not modelled. *)
(***************************************************************************)
EXTENDS Naturals, SequencesExt

CONSTANTS Requests,        \* byte sizes the client passes to mm_malloc
          ResizeRequests,  \* byte sizes the client passes to mm_realloc
          MaxArena,        \* bound: the arena never grows past this many units
          MaxBlocks,       \* bound: the client holds at most this many blocks
          NULL,            \* the C null pointer
          TailNode             \* &head->tail, where the first-fit loop stops

ALIGNMENT == 8
ALIGN(b) == ((b + ALIGNMENT - 1) \div ALIGNMENT) * ALIGNMENT

HDR  == ALIGN(4) \div ALIGNMENT    \* ALIGN(sizeof(size_t)): the size field
NODE == ALIGN(12) \div ALIGNMENT   \* ALIGN(sizeof(MM_Node)): a free block
HEAD == ALIGN(24) \div ALIGNMENT   \* ALIGN(sizeof(MM_Head)): the first block

VARIABLES size,    \* block address -> its size field, free or allocated
          free,    \* the free list, head->next first
          brk,     \* mem_sbrk's break
          client   \* block the client holds -> bytes it asked for

vars == <<size, free, brk, client>>

Heap == [size |-> size, free |-> free, brk |-> brk]

-----------------------------------------------------------------------------
(* Heap operators: each maps a heap value N to the heap after the call.    *)

\* mm_new_node(nsize): a block of nsize units at the old break.
NewNode(N, u) ==
  [h |-> [N EXCEPT !.size = (N.brk :> u) @@ @, !.brk = @ + u], p |-> N.brk]

\* mm_delete_node(at): at's neighbours in the free list are linked together.
MmDeleteNode(N, at) == [N EXCEPT !.free = Remove(@, at)]

\* mm_insert_node(&head->tail, tg): tg is linked in just before tail.
MmInsertNode(N, tg) == [N EXCEPT !.free = Append(@, tg)]

\* The size field of the block the first-fit loop stopped at; tail's is 0.
SizeAt(N, itr) == IF itr = TailNode THEN 0 ELSE N.size[itr]

\* The first-fit loop of mm_malloc: the first free block of at least u
\* units, or TailNode.
FirstFit(N, u) ==
  LET i == SelectInSeq(N.free, LAMBDA b : u <= N.size[b])
  IN  IF i = 0 THEN TailNode ELSE N.free[i]

\* "ntr = itr + itr->size" after itr shrank: the new block is cut off the end.
CutAtOldEnd(N, itr, u) ==
  [h |-> [N EXCEPT !.size = (itr + N.size[itr] :> u) @@ [@ EXCEPT ![itr] = @ - u]],
   p |-> itr + N.size[itr]]

CutAtEnd(N, itr, u) ==
  [h |-> [N EXCEPT !.size = (itr + N.size[itr] - u :> u) @@ [@ EXCEPT ![itr] = @ - u]],
   p |-> itr + N.size[itr] - u]

\* Mutant of MallocAt: the test for a remainder that can hold a node is lost.
MallocAtTooSmall(N, u, itr) ==
  IF u < SizeAt(N, itr) THEN CutAtEnd(N, itr, u)
  ELSE IF u <= SizeAt(N, itr) THEN [h |-> MmDeleteNode(N, itr), p |-> itr]
  ELSE NewNode(N, u)

\* Mutant of MallocAt: the block taken whole is not unlinked (no mm_delete_node).
MallocAtNoDelete(N, u, itr) ==
  IF NODE + u <= SizeAt(N, itr) THEN CutAtEnd(N, itr, u)
  ELSE IF u <= SizeAt(N, itr) THEN [h |-> N, p |-> itr]
  ELSE NewNode(N, u)

\* The three branches of mm_malloc after the loop stopped at itr: cut u
\* units off the end of itr, take itr whole out of the list, or grow.
MallocAt(N, u, itr) ==
  IF NODE + u <= SizeAt(N, itr) THEN CutAtEnd(N, itr, u)
  ELSE IF u <= SizeAt(N, itr) THEN [h |-> MmDeleteNode(N, itr), p |-> itr]
  ELSE NewNode(N, u)

\* nsize = ALIGN(size) + ALIGN(sizeof(size_t)), at least ALIGN(sizeof(MM_Node)).
NSize(bytes) ==
  IF ALIGN(bytes) \div ALIGNMENT + HDR < NODE THEN NODE
  ELSE ALIGN(bytes) \div ALIGNMENT + HDR

\* mm_malloc(bytes).  Result: [h, p].
MmMalloc(N, bytes) == MallocAt(N, NSize(bytes), FirstFit(N, NSize(bytes)))

\* The loop of mm_free keeps the last free block in list order that matches,
\* as each match overwrites the one before; NULL when none does.
LastMatch(s, i) == IF i = 0 THEN NULL ELSE s[i]

\* "itr + itr->size == ptr": the free block right before p.
PrevFree(N, p) == LastMatch(N.free, SelectLastInSeq(N.free, LAMBDA b : b + N.size[b] = p))

\* "ptr + ptr->size == itr": the free block right after p.
NextFree(N, p) == LastMatch(N.free, SelectLastInSeq(N.free, LAMBDA b : p + N.size[p] = b))

\* Mutant of FreeNextBlock: next is unlinked but its size is not added.
FreeNextBlockNoGrow(N, p, next) ==
  IF next = NULL THEN N
  ELSE [MmDeleteNode(N, next) EXCEPT !.size = [b \in DOMAIN @ \ {next} |-> @[b]]]

\* "if(next != NULL)": next leaves the list and ptr swallows it.
FreeNextBlock(N, p, next) ==
  IF next = NULL THEN N
  ELSE [MmDeleteNode(N, next) EXCEPT
          !.size = [b \in DOMAIN @ \ {next} |-> IF b = p THEN @[p] + @[next] ELSE @[b]]]

\* "if(prev != NULL)": prev swallows ptr; else ptr goes in before tail.
FreePrevBlock(N, p, prev) ==
  IF prev = NULL THEN MmInsertNode(N, p)
  ELSE [N EXCEPT !.size = [b \in DOMAIN @ \ {p} |->
                             IF b = prev THEN @[prev] + @[p] ELSE @[b]]]

\* Mutant of MmFree: the free block after ptr is never merged.
MmFreeIgnoresNext(N, p) ==
  FreePrevBlock(N, p, PrevFree(N, p))

\* mm_free(p): find the free neighbours in one walk, merge the next one
\* into p, then p into the previous one or into the list.
MmFree(N, p) ==
  FreePrevBlock(FreeNextBlock(N, p, NextFree(N, p)), p, PrevFree(N, p))

\* mm_realloc: the new block is taken first, then the old one is freed.
Moved(m, p) == [h |-> MmFree(m.h, p), p |-> m.p]

\* Mutant of MmRealloc: the old block is freed before the new one is taken.
MmReallocFreeFirst(N, p, bytes) == MmMalloc(MmFree(N, p), bytes)

MmRealloc(N, p, bytes) == Moved(MmMalloc(N, bytes), p)

-----------------------------------------------------------------------------
(* The client: any sequence of calls on blocks it holds.                   *)

Apply(N) == /\ N.brk <= MaxArena
            /\ size' = N.size /\ free' = N.free /\ brk' = N.brk

\* mm_init: head and tail linked to each other, nothing else in the arena.
Init == /\ size = <<>>
        /\ free = <<>>
        /\ brk = HEAD
        /\ client = <<>>

\* The call returned res.p for n bytes; the client keeps kept besides it.
Granted(res, n, kept) == Apply(res.h) /\ client' = (res.p :> n) @@ kept

Malloc(n) == /\ Cardinality(DOMAIN client) < MaxBlocks
             /\ Granted(MmMalloc(Heap, n), n, client)

Free(p) == /\ Apply(MmFree(Heap, p))
           /\ client' = Restrict(client, DOMAIN client \ {p})

Realloc(p, n) == Granted(MmRealloc(Heap, p, n), n, Restrict(client, DOMAIN client \ {p}))

Next == \/ \E n \in Requests : Malloc(n)
        \/ \E p \in DOMAIN client : Free(p)
        \/ \E p \in DOMAIN client, n \in ResizeRequests : Realloc(p, n)

Spec == Init /\ [][Next]_vars

-----------------------------------------------------------------------------
(* Properties.                                                             *)

Addr == 0..MaxArena

FreeSet == {free[i] : i \in DOMAIN free}

\* The blocks met walking from HEAD by size, at most k of them.
RECURSIVE Walk(_, _, _)
Walk(s, a, k) ==
  IF k = 0 \/ a \notin DOMAIN s THEN <<>>
  ELSE <<a>> \o Walk(s, a + s[a], k - 1)

TypeOK ==
  /\ DOMAIN size \subseteq HEAD..brk - 1
  /\ \A b \in DOMAIN size : size[b] \in 1..MaxArena
  /\ free \in Seq(DOMAIN size)
  /\ brk \in HEAD..MaxArena
  /\ DOMAIN client \subseteq DOMAIN size
  /\ \A p \in DOMAIN client : client[p] \in Requests \cup ResizeRequests

\* The blocks tile the arena from the end of MM_Head to the break: the size
\* fields that mm_malloc's cut, mm_free's merges and mm_new_node write
\* always lead from one block to the next and end exactly at brk.
HeapTiles ==
  LET w == Walk(size, HEAD, Cardinality(DOMAIN size))
  IN  /\ {w[i] : i \in DOMAIN w} = DOMAIN size
      /\ DOMAIN size # {} => w[Len(w)] + size[w[Len(w)]] = brk

\* Every block is on the free list exactly once or held by the client, never
\* both: mm_malloc unlinks what it hands out whole, mm_free links a block
\* only when no free block before it absorbs it, and a merged block leaves.
FreeListPartition ==
  /\ IsInjective(free)
  /\ FreeSet \cap DOMAIN client = {}
  /\ FreeSet \cup DOMAIN client = DOMAIN size

\* No two neighbouring blocks are both free: mm_free merges both free
\* neighbours, and mm_malloc's cut leaves the free part before the block it
\* hands out.
NoAdjacentFree == \A b \in FreeSet : b + size[b] \notin FreeSet

\* A free block holds its size field and both links: the cut in mm_malloc
\* happens only when ALIGN(sizeof(MM_Node)) units remain.
FreeNodeFits == \A b \in FreeSet : size[b] >= NODE

\* The client's view: a block's payload follows its size field.
AA == INSTANCE AbstractAllocator
        WITH blocks <- [p \in DOMAIN client |->
                          [bytes |-> client[p], lo |-> p + HDR, len |-> size[p] - HDR]],
             top <- brk

\* spec.md, sections 4 and 5: mm_.c is an allocator of disjoint blocks whose
\* mm_realloc takes the new block before it frees the old one, and
\* resize(ptr, 0) releases ptr.
ImplementsAbstractAllocator == AA!Spec
=============================================================================

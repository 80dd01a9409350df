----------------------------- MODULE MMAllocator -----------------------------
(***************************************************************************)
(* The allocator of malloclab-handout/mm.c: the address-ordered segment    *)
(* list (headers with a back pointer and a size), the red-black tree of    *)
(* free segments (module MMTree), and mm_malloc, mm_free and mm_realloc,   *)
(* each one atomic step as the single-threaded C code runs it.             *)
(*                                                                         *)
(* Addresses are in alignment units of 8 bytes from mem_heap_lo().  The    *)
(* MM_Data block takes units 0..2, the first header is at unit 3, and the  *)
(* header of the zero-size end segment is at brk - 1.  hdr maps the header *)
(* of every segment on the list to its prev, size and alloc fields; a     *)
(* header swallowed by coalescing leaves hdr, as it leaves the list.  A    *)
(* block handed to the client is named by its header address: the payload *)
(* pointer is that address plus MM_HEADER_SIZE.  Client data is not       *)
(* modelled, so mm_memcpy is not either.                                   *)
(***************************************************************************)
EXTENDS MMTree, Sequences

CONSTANTS Requests,  \* byte sizes the client passes to mm_malloc/mm_realloc
          MaxArena,  \* bound: the arena never grows past this many units
          MaxBlocks  \* bound: the client holds at most this many blocks

ALIGNMENT      == 8
MM_UNIT        == 144
MM_HEADER_SIZE == 8
MM_NODE_SIZE   == 16
MM_DATA_SIZE   == 24
MM_ALLOC_FREE  == 0
MM_ALLOC_ALLOC == 1

FIRST == MM_DATA_SIZE \div ALIGNMENT   \* header of the first segment

\* ALIGN(size) + MM_HEADER_SIZE, shifted right by MM_ALIGN: units of a request.
ToUnits(bytes) == (((bytes + 7) \div 8) * 8 + MM_HEADER_SIZE) \div ALIGNMENT

\* mm_clear_header: prev NULL, size 0, all flags 0.
Cleared == [prev |-> NULL, size |-> 0, alloc |-> MM_ALLOC_FREE]

VARIABLES hdr,    \* header address -> [prev, size, alloc]
          tree,   \* the links and colors of the free segments (MMTree)
          root,   \* data->root
          brk,    \* mem_sbrk's break, in units
          client  \* block the client holds -> bytes it asked for

vars == <<hdr, tree, root, brk, client>>

\* The whole heap as one value, so that a handler is a chain of operators.
Heap == [hdr |-> hdr, tree |-> tree, root |-> root, brk |-> brk]

-----------------------------------------------------------------------------
(* Heap operators: each maps a heap value H to the heap after the call.    *)

Sz(H) == [a \in DOMAIN H.hdr |-> H.hdr[a].size]

\* mm_search, mm_insert, mm_delete on the heap's tree.
MmSearch(H, size) == Search(H.tree, Sz(H), H.root, size)
\* The heap with the tree and root of a wrapper's result res.
WithTree(H, res) == [H EXCEPT !.tree = res.t, !.root = res.root]
MmIns(H, n) == WithTree(H, MmInsert(H.tree, Sz(H), H.root, n))
MmDel(H, n) == WithTree(H, MmDelete(H.tree, Sz(H), H.root, n))

\* mm_get_next
GetNext(H, a) == a + H.hdr[a].size

SetPrev(H, a, p) == [H EXCEPT !.hdr[a].prev = p]

\* now->size += x->size: now swallows the segment x that follows it.
Absorb(H, now, x) ==
  LET h == H.hdr
  IN  [H EXCEPT !.hdr = [a \in DOMAIN h \ {x} |->
                           IF a = now THEN [h[a] EXCEPT !.size = @ + h[x].size]
                           ELSE h[a]]]

\* Mutant of FragNode: the rest's size computed as size - now->size.
FragNodeSwappedRest(H, now, size) ==
  IF H.hdr[now].size < size + MM_NODE_SIZE \div ALIGNMENT
  THEN SetPrev(H, GetNext(H, now), now)
  ELSE LET nxt == now + size
           rest == [prev |-> now, size |-> size - H.hdr[now].size,
                    alloc |-> MM_ALLOC_FREE]
       IN  MmIns([H EXCEPT !.hdr = (nxt :> rest) @@
                                   [@ EXCEPT ![now].size = size,
                                             ![GetNext(H, now)].prev = nxt]],
                 nxt)

\* mm_frag_node: cut now down to size units if the rest can hold a node;
\* the rest becomes a free segment in the tree.
FragNode(H, now, size) ==
  IF H.hdr[now].size < size + MM_NODE_SIZE \div ALIGNMENT
  THEN SetPrev(H, GetNext(H, now), now)
  ELSE LET nxt == now + size
           rest == [prev |-> now, size |-> H.hdr[now].size - size,
                    alloc |-> MM_ALLOC_FREE]
       IN  MmIns([H EXCEPT !.hdr = (nxt :> rest) @@
                                   [@ EXCEPT ![now].size = size,
                                             ![GetNext(H, now)].prev = nxt]],
                 nxt)

\* Mutant of MmSbrk: an exact growth leaves the new end header's prev NULL.
MmSbrkNoPrevFix(H, size) ==
  LET ptr  == H.brk - 1
      u    == IF size < MM_UNIT THEN MM_UNIT \div ALIGNMENT
              ELSE size \div ALIGNMENT
      H1   == [H EXCEPT !.brk = @ + u,
                        !.hdr = ((ptr + u) :> Cleared) @@
                                [@ EXCEPT ![ptr].size = u,
                                          ![ptr].alloc = MM_ALLOC_ALLOC]]
  IN  [h |-> IF size < MM_UNIT
             THEN FragNode(H1, ptr, (size + MM_HEADER_SIZE) \div ALIGNMENT)
             ELSE H1,
       p |-> ptr]

\* mm_sbrk(size), size in bytes: the old end header becomes an allocated
\* segment of size bytes, or of MM_UNIT bytes split by mm_frag_node.
\* Result: [h, p] with p the new segment.
MmSbrk(H, size) ==
  LET ptr  == H.brk - 1
      u    == IF size < MM_UNIT THEN MM_UNIT \div ALIGNMENT
              ELSE size \div ALIGNMENT
      H1   == [H EXCEPT !.brk = @ + u,
                        !.hdr = ((ptr + u) :> Cleared) @@
                                [@ EXCEPT ![ptr].size = u,
                                          ![ptr].alloc = MM_ALLOC_ALLOC]]
  IN  [h |-> IF size < MM_UNIT
             THEN FragNode(H1, ptr, (size + MM_HEADER_SIZE) \div ALIGNMENT)
             ELSE SetPrev(H1, ptr + u, ptr),
       p |-> ptr]

\* The found segment marked allocated and returned.  Result: [h, p].
Allocated(H, ptr) == [h |-> [H EXCEPT !.hdr[ptr].alloc = MM_ALLOC_ALLOC], p |-> ptr]

\* Mutant of MallocFound: the found segment is split without mm_delete first.
MallocFoundNoDelete(H, ptr, size) == Allocated(FragNode(H, ptr, size), ptr)

\* The "segment found" branch of mm_malloc: mm_delete, mm_frag_node, alloc bit.
MallocFound(H, ptr, size) == Allocated(FragNode(MmDel(H, ptr), ptr, size), ptr)

\* mm_malloc once mm_search has answered ptr for size units.
MallocAt(H, size, ptr) ==
  IF ptr = NULL THEN MmSbrk(H, size * ALIGNMENT) ELSE MallocFound(H, ptr, size)

\* mm_malloc(bytes).  Result: [h, p].
MmMalloc(H, bytes) == MallocAt(H, ToUnits(bytes), MmSearch(H, ToUnits(bytes)))

\* The first test of mm_free: a free previous segment leaves the tree and
\* swallows p.
FreePrev(H, p) ==
  LET prev == H.hdr[p].prev
  IN  IF prev # NULL /\ H.hdr[prev].alloc = MM_ALLOC_FREE
      THEN Absorb(MmDel(H, prev), prev, p) ELSE H

\* The second test: a free next segment (not the end header) leaves the
\* tree and is swallowed by now.
FreeNext(H, now, nxt) ==
  IF H.hdr[nxt].size # 0 /\ H.hdr[nxt].alloc = MM_ALLOC_FREE
  THEN Absorb(MmDel(H, nxt), now, nxt) ELSE H

\* Mutant of FreeInsert: the "mm_get_next(now)->prev = now" is lost.
FreeInsertNoPrevFix(H, now) == MmIns([H EXCEPT !.hdr[now].alloc = MM_ALLOC_FREE], now)

\* The tail of mm_free: alloc bit cleared, next's prev fixed, mm_insert.
FreeInsert(H, now) ==
  LET H1 == [H EXCEPT !.hdr[now].alloc = MM_ALLOC_FREE]
  IN  MmIns(SetPrev(H1, GetNext(H1, now), now), now)

\* mm_free(p): coalesce with a free previous and a free next segment, then
\* insert the result into the tree.  prev and next are read before either
\* is coalesced, as in the C code.
MmFree(H, p) ==
  LET prev == H.hdr[p].prev
      now  == IF prev # NULL /\ H.hdr[prev].alloc = MM_ALLOC_FREE THEN prev ELSE p
  IN  FreeInsert(FreeNext(FreePrev(H, p), now, GetNext(H, p)), now)

RECURSIVE FreeRun(_, _, _, _)

\* Mutant of FreeRun: the loop does not test next->alloc.
FreeRunIgnoresAlloc(H, next, sum, size) ==
  IF H.hdr[next].size # 0 /\ sum < size
  THEN FreeRun(H, GetNext(H, next), sum + H.hdr[next].size, size)
  ELSE [sum |-> sum, next |-> next]

\* The first loop of mm_realloc: add up the free segments from next on
\* while they are short of size.  Result: [sum, next].
FreeRun(H, next, sum, size) ==
  IF H.hdr[next].size # 0 /\ H.hdr[next].alloc = MM_ALLOC_FREE /\ sum < size
  THEN FreeRun(H, GetNext(H, next), sum + H.hdr[next].size, size)
  ELSE [sum |-> sum, next |-> next]

\* The second loop of mm_realloc: swallow free segments until now has size
\* units, then fix the back pointer of the segment after now.
RECURSIVE Coalesce(_, _, _)
Coalesce(H, now, size) ==
  LET next == GetNext(H, now) IN
  IF H.hdr[next].size # 0 /\ H.hdr[next].alloc = MM_ALLOC_FREE
     /\ H.hdr[now].size < size
  THEN Coalesce(Absorb(MmDel(H, next), now, next), now, size)
  ELSE SetPrev(H, next, now)

\* The re-allocation case: the new block is taken first, then p is freed.
Relocate(m, p) == [h |-> MmFree(m.h, p), p |-> m.p]

\* Mutant of EndGrow: the new tail is not marked free before mm_insert.
EndGrowNotFreed(sb, p, size) ==
  [h |-> Coalesce(MmIns(sb.h, sb.p), p, size), p |-> p]

\* p's run of free segments reaches the end header: the lacking units come
\* from mm_sbrk, enter the tree as a free segment, and are coalesced.
EndGrow(sb, p, size) ==
  [h |-> Coalesce(MmIns([sb.h EXCEPT !.hdr[sb.p].alloc = MM_ALLOC_FREE], sb.p),
                  p, size),
   p |-> p]

\* Mutant of Grow: the re-allocation case frees p before it allocates.
GrowFreeFirst(H, p, bytes, size, run) ==
  IF run.sum < size /\ H.hdr[run.next].size = 0
  THEN EndGrow(MmSbrk(H, (size - run.sum) * ALIGNMENT), p, size)
  ELSE IF run.sum < size THEN MmMalloc(MmFree(H, p), bytes)
  ELSE [h |-> Coalesce(H, p, size), p |-> p]

\* mm_realloc growing p to size units, after the look-ahead loop gave run.
Grow(H, p, bytes, size, run) ==
  IF run.sum < size /\ H.hdr[run.next].size = 0
  THEN EndGrow(MmSbrk(H, (size - run.sum) * ALIGNMENT), p, size)
  ELSE IF run.sum < size THEN Relocate(MmMalloc(H, bytes), p)
  ELSE [h |-> Coalesce(H, p, size), p |-> p]

\* mm_realloc(p, bytes).  Result: [h, p].
MmRealloc(H, p, bytes) ==
  IF p = NULL THEN MmMalloc(H, bytes)
  ELSE IF bytes = 0 THEN [h |-> MmFree(H, p), p |-> p]
  ELSE IF ToUnits(bytes) <= H.hdr[p].size
  THEN [h |-> FragNode(H, p, ToUnits(bytes)), p |-> p]
  ELSE Grow(H, p, bytes, ToUnits(bytes),
            FreeRun(H, GetNext(H, p), H.hdr[p].size, ToUnits(bytes)))

-----------------------------------------------------------------------------
(* The client: any sequence of calls on blocks it holds.                   *)

\* The heap after a call, within the arena bound.
Apply(H) == /\ H.brk <= MaxArena
            /\ hdr' = H.hdr /\ tree' = H.tree /\ root' = H.root /\ brk' = H.brk

\* mm_init has run: MM_Data, then a cleared end header at unit FIRST.
Init == /\ hdr = (FIRST :> Cleared)
        /\ tree = EmptyTree
        /\ root = NullNode
        /\ brk = FIRST + 1
        /\ client = <<>>

\* The call returned res.p for n bytes; the client keeps kept besides it.
Granted(res, n, kept) == /\ Apply(res.h)
                         /\ client' = (res.p :> n) @@ kept

Malloc(n) == /\ Cardinality(DOMAIN client) < MaxBlocks
             /\ Granted(MmMalloc(Heap, n), n, client)

Free(p) == /\ Apply(MmFree(Heap, p))
           /\ client' = Restrict(client, DOMAIN client \ {p})

\* realloc(p, 0) frees p; any other call hands back a block for n bytes.
ReallocDone(res, p, n, kept) ==
  IF p # NULL /\ n = 0 THEN Apply(res.h) /\ client' = kept
  ELSE Granted(res, n, kept)

Realloc(p, n) ==
  /\ p = NULL => Cardinality(DOMAIN client) < MaxBlocks
  /\ ReallocDone(MmRealloc(Heap, p, n), p, n,
                 Restrict(client, DOMAIN client \ {p}))

Next == \/ \E n \in Requests : Malloc(n)
        \/ \E p \in DOMAIN client : Free(p)
        \/ \E p \in DOMAIN client, n \in Requests \cup {0} : Realloc(p, n)
        \/ \E n \in Requests : Realloc(NULL, n)

Spec == Init /\ [][Next]_vars

-----------------------------------------------------------------------------
(* Properties.                                                             *)

Addr == 0..MaxArena

FreeSegs == {a \in DOMAIN hdr : hdr[a].size # 0 /\ hdr[a].alloc = MM_ALLOC_FREE}

\* The headers met walking from FIRST by size, at most k of them.
RECURSIVE Walk(_, _, _)
Walk(h, a, k) ==
  IF k = 0 \/ a \notin DOMAIN h THEN <<>>
  ELSE IF h[a].size = 0 THEN <<a>>
  ELSE <<a>> \o Walk(h, a + h[a].size, k - 1)

\* mm_check_node(now, &cnt) on tree t: [ok, cnt], ok being its 1 or 0 and
\* cnt the nodes it counted.  It checks each node against its children
\* only (mm_cmp_node order, no red node with a red child), then "&"s the
\* two recursive calls, both of which run.  k bounds the depth: the C
\* recursion never ends on a cyclic tree, which reads here as a failure.
RECURSIVE MmCheckNode(_, _, _, _)
MmCheckNode(t, sz, now, k) ==
  IF now = NullNode THEN [ok |-> 1, cnt |-> 0]
  ELSE IF k = 0 \/ now \notin DOMAIN t.l THEN [ok |-> 0, cnt |-> 1]
  ELSE LET l == t.l[now]
           r == t.r[now]
       IN  IF \/ l # NullNode /\ Cmp(sz, now, l)
              \/ r # NullNode /\ Cmp(sz, r, now)
              \/ t.c[now] = RED /\ RED \in {t.c[l], t.c[r]}
           THEN [ok |-> 0, cnt |-> 1]
           ELSE LET a == MmCheckNode(t, sz, l, k - 1)
                    b == MmCheckNode(t, sz, r, k - 1)
                IN  [ok |-> a.ok * b.ok, cnt |-> 1 + a.cnt + b.cnt]

\* mm_check's list loop from now: stop at a size-0 header, fail when the
\* next header's prev is not now, count the free segments.  [ok, nfree].
RECURSIVE ListCheck(_, _, _)
ListCheck(h, now, k) ==
  IF h[now].size = 0 THEN [ok |-> 1, nfree |-> 0]
  ELSE LET nxt == now + h[now].size
       IN  IF k = 0 \/ nxt \notin DOMAIN h \/ h[nxt].prev # now
           THEN [ok |-> 0, nfree |-> 0]
           ELSE LET rest == ListCheck(h, nxt, k - 1)
                IN  [ok |-> rest.ok,
                     nfree |-> rest.nfree + (IF h[now].alloc = MM_ALLOC_FREE THEN 1 ELSE 0)]

\* mm_check(): the list walk from the first header, the tree check from
\* data->root, and the two counts compared.  1 or 0.
MmCheck(H) ==
  LET lst  == ListCheck(H.hdr, FIRST, Cardinality(DOMAIN H.hdr))
      tr   == MmCheckNode(H.tree, Sz(H), H.root, Cardinality(DOMAIN H.tree.l) + 1)
  IN  IF lst.ok = 1 /\ tr.ok = 1 /\ lst.nfree = tr.cnt THEN 1 ELSE 0

TypeOK ==
  /\ DOMAIN hdr \subseteq Addr
  /\ \A a \in DOMAIN hdr :
       hdr[a] \in [prev : Addr \cup {NULL}, size : 0..MaxArena,
                   alloc : {MM_ALLOC_FREE, MM_ALLOC_ALLOC}]
  /\ DOMAIN tree.l \subseteq DOMAIN hdr
  /\ root \in DOMAIN hdr \cup {NullNode}
  /\ brk \in FIRST + 1..MaxArena
  /\ DOMAIN client \subseteq DOMAIN hdr
  /\ \A p \in DOMAIN client : client[p] \in Requests

\* The segments tile the arena from FIRST to the end header at brk - 1 and
\* every back pointer names the segment before (mm_check's list walk,
\* plus tiling): each handler's size updates and its trailing
\* "mm_get_next(now)->prev = now" keep the boundary tags consistent.
ListIntegrity ==
  LET segs == Walk(hdr, FIRST, Cardinality(DOMAIN hdr))
  IN  /\ {segs[i] : i \in DOMAIN segs} = DOMAIN hdr
      /\ segs[Len(segs)] = brk - 1 /\ hdr[brk - 1].size = 0
      /\ hdr[FIRST].prev = NULL
      /\ \A i \in 2..Len(segs) : hdr[segs[i]].prev = segs[i - 1]

\* The tree holds exactly the free segments of the list (mm_check's count
\* match): no handler leaves a freed or split-off segment out of the tree
\* or an allocated or swallowed one in it.
IndexMatchesFreeList == TreeNodes(tree, root) = FreeSegs

\* The tree stays a red-black search tree although the keys of its nodes
\* change between their stays in it (coalescing grows a segment after
\* mm_delete and before mm_insert).
IndexIsRBTree == IsRBTree(tree, Sz(Heap), root)

\* Every block the client holds is an allocated segment whose payload holds
\* the bytes asked for, and every allocated segment is a block the client
\* holds: no handler hands out, swallows or shrinks a block in use.
ClientBlocksIntact ==
  /\ \A p \in DOMAIN client :
       /\ p \in DOMAIN hdr /\ hdr[p].alloc = MM_ALLOC_ALLOC
       /\ hdr[p].size * ALIGNMENT - MM_HEADER_SIZE >= client[p]
  /\ {a \in DOMAIN hdr : hdr[a].alloc = MM_ALLOC_ALLOC} = DOMAIN client

\* The client's view of the heap: a held block p has its payload right
\* after its header, and the end header at brk - 1 bounds the arena.
AA == INSTANCE AbstractAllocator
        WITH blocks <- [p \in DOMAIN client |->
                          [bytes |-> client[p], lo |-> p + 1, len |-> hdr[p].size - 1]],
             top <- brk - 1

\* spec.md, sections 4 and 5: mm_malloc, mm_free and mm_realloc behave as an
\* allocator of disjoint blocks; above all, mm_realloc's re-allocation case
\* takes the new block before mm_free(ptr), so the copy never reads from a
\* payload that the new block already overlaps, and coalescing, splitting
\* and growth in place never touch another live block.
ImplementsAbstractAllocator == AA!Spec

\* spec.md, section 4.1: a free segment holds a full header plus the two
\* link fields (MM_NODE_SIZE bytes), so the left and right links mm_insert
\* writes into a free node lie inside its own segment.  mm_malloc(0) asks
\* for one unit, and mm_free puts that one-unit segment into the tree.
FreeNodeFits ==
  \A a \in TreeNodes(tree, root) : hdr[a].size * ALIGNMENT >= MM_NODE_SIZE
=============================================================================

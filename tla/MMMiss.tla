------------------------------- MODULE MMMiss -------------------------------
(***************************************************************************)
(* The allocator of malloclab-handout/mm_miss.c, an earlier copy of mm.c.  *)
(* Its red-black tree, mm_get_prev, mm_get_next, mm_init and mm_free are   *)
(* those of mm.c, so this module extends MMAllocator and keeps its state,  *)
(* its tree operators, Init and MmFree.  What differs is redefined here:   *)
(* mm_frag_node, mm_malloc (an exact growth with no mm_sbrk), and          *)
(* mm_realloc, whose end-of-arena branch is taken whenever the look-ahead  *)
(* loop stops at the end header, whether or not the free run already      *)
(* covers the request.                                                     *)
(***************************************************************************)
EXTENDS MMAllocator

\* mm_frag_node: as in mm.c, except that a segment too small to split is
\* returned as it is, with no back pointer fix.  The rest is inserted
\* before its alloc bit is cleared; the tree reads sizes only, so the
\* order does not show.
MissFragNode(H, now, size) ==
  IF H.hdr[now].size < size + MM_NODE_SIZE \div ALIGNMENT THEN H
  ELSE LET nxt  == now + size
           rest == [prev |-> now, size |-> H.hdr[now].size - size,
                    alloc |-> MM_ALLOC_FREE]
       IN  MmIns([H EXCEPT !.hdr = (nxt :> rest) @@
                                   [@ EXCEPT ![now].size = size,
                                             ![GetNext(H, now)].prev = nxt]],
                 nxt)

\* The miss branch of mm_malloc: mem_sbrk(size << MM_ALIGN), the old end
\* header cleared with mm_memset (its prev field too) and made an
\* allocated segment of size units, and a new end header after it whose
\* prev is ptr.  Result: [h, p].
MissGrowEnd(H, size) ==
  LET ptr == H.brk - 1
  IN  [h |-> [H EXCEPT !.brk = @ + size,
                       !.hdr = ((ptr + size) :> [Cleared EXCEPT !.prev = ptr]) @@
                               [@ EXCEPT ![ptr] = [prev |-> NULL, size |-> size,
                                                   alloc |-> MM_ALLOC_ALLOC]]],
       p |-> ptr]

\* mm_malloc once mm_search has answered ptr for size units; a found
\* segment leaves the tree, is split, and is marked allocated.
MissMallocAt(H, size, ptr) ==
  IF ptr = NULL THEN MissGrowEnd(H, size)
  ELSE Allocated(MissFragNode(MmDel(H, ptr), ptr, size), ptr)

\* mm_malloc(bytes).  Result: [h, p].
MissMalloc(H, bytes) == MissMallocAt(H, ToUnits(bytes), MmSearch(H, ToUnits(bytes)))

\* mm_free of mm_miss.c is line for line that of mm.c.
MissFree(H, p) == MmFree(H, p)

\* The "next->size == 0" branch of mm_realloc, with last the end header's
\* prev.  mem_sbrk((size - sum) << MM_ALIGN) takes an int: when the run
\* overshoots (sum > size) the increment is negative, memlib refuses it
\* and the result is ignored; the break moves only for a positive one.
\* last->size += size - sum (a free last segment changes size inside the
\* tree), and an end header is written after last.  Its alloc bit is
\* never read: every loop tests size # 0 first.  The old end header at
\* brk - 1 is no longer on the list: last now covers it, or, after an
\* overshoot, the new end header stops the list before it.
MissEnd(H, size, sum) ==
  LET last == H.hdr[H.brk - 1].prev
      len  == H.hdr[last].size + size - sum
      end  == last + len
      H1   == [H EXCEPT !.brk = IF size > sum THEN @ + (size - sum) ELSE @,
                        !.hdr[last].size = len]
  IN  [H1 EXCEPT !.hdr = (end :> [Cleared EXCEPT !.prev = last]) @@
                         [a \in DOMAIN @ \ {end, H.brk - 1} |-> @[a]]]

\* mm_realloc growing p to size units after the look-ahead loop gave run:
\* the end branch, or the re-allocation case (mm_malloc, then mm_free),
\* or neither; then mm.c's second loop and back pointer fix (Coalesce).
MissGrow(H, p, bytes, size, run) ==
  IF H.hdr[run.next].size = 0
  THEN [h |-> Coalesce(MissEnd(H, size, run.sum), p, size), p |-> p]
  ELSE IF run.sum < size
  THEN LET m == MissMalloc(H, bytes) IN [h |-> MissFree(m.h, p), p |-> m.p]
  ELSE [h |-> Coalesce(H, p, size), p |-> p]

\* mm_realloc(p, bytes).  Result: [h, p].
MissRealloc(H, p, bytes) ==
  IF p = NULL THEN MissMalloc(H, bytes)
  ELSE IF bytes = 0 THEN [h |-> MissFree(H, p), p |-> p]
  ELSE IF ToUnits(bytes) <= H.hdr[p].size
  THEN [h |-> MissFragNode(H, p, ToUnits(bytes)), p |-> p]
  ELSE MissGrow(H, p, bytes, ToUnits(bytes),
                FreeRun(H, GetNext(H, p), H.hdr[p].size, ToUnits(bytes)))

-----------------------------------------------------------------------------
(* The client, as in MMAllocator, calling mm_miss.c's handlers.            *)

MissMallocCall(n) == /\ Cardinality(DOMAIN client) < MaxBlocks
                     /\ Granted(MissMalloc(Heap, n), n, client)

MissFreeCall(p) == /\ Apply(MissFree(Heap, p))
                   /\ client' = Restrict(client, DOMAIN client \ {p})

MissReallocCall(p, n) ==
  /\ p = NULL => Cardinality(DOMAIN client) < MaxBlocks
  /\ ReallocDone(MissRealloc(Heap, p, n), p, n,
                 Restrict(client, DOMAIN client \ {p}))

MissNext == \/ \E n \in Requests : MissMallocCall(n)
            \/ \E p \in DOMAIN client : MissFreeCall(p)
            \/ \E p \in DOMAIN client, n \in Requests \cup {0} : MissReallocCall(p, n)
            \/ \E n \in Requests : MissReallocCall(NULL, n)

MissSpec == Init /\ [][MissNext]_vars

-----------------------------------------------------------------------------
(* Properties.                                                             *)

\* Walking the segments by size from FIRST ends at the end header at
\* brk - 1 and meets every header on the list: no handler's size update
\* cuts the arena short.  mm_realloc's end branch, taken with a free run
\* that overshoots the request, shrinks the last segment and writes an
\* end header inside the arena.
ListReachesBreak ==
  LET segs == Walk(hdr, FIRST, Cardinality(DOMAIN hdr))
  IN  /\ {segs[i] : i \in DOMAIN segs} = DOMAIN hdr
      /\ segs[Len(segs)] = brk - 1
=============================================================================

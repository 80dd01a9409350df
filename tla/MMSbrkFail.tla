----------------------------- MODULE MMSbrkFail -----------------------------
(***************************************************************************)
(* mm.c when the arena cannot grow.  memlib's mem_sbrk refuses to move the *)
(* break past the heap's limit (here MaxArena) and returns the pointer -1. *)
(* mm_sbrk never checks that value: it subtracts MM_HEADER_SIZE and writes *)
(* ptr->size at address -9, the top of the 32-bit address space, which     *)
(* faults.  mm_malloc reaches it on a miss of the index, and mm_realloc    *)
(* through its end-of-heap growth or the mm_malloc of a relocation.        *)
(*                                                                         *)
(* The calls that fit are those of MMAllocator, unchanged.                 *)
(***************************************************************************)
EXTENDS MMAllocator

VARIABLE fault   \* TRUE once a call has written through mem_sbrk's -1

varsF == <<hdr, tree, root, brk, client, fault>>

\* The call needs the break past the limit: mem_sbrk(size) fails inside it.
Exhausted(res) == res.h.brk > MaxArena

\* mm_malloc(n) misses the index and mm_sbrk writes through the failed break.
MallocFails(n) == /\ Cardinality(DOMAIN client) < MaxBlocks
                  /\ Exhausted(MmMalloc(Heap, n))
                  /\ fault' = TRUE
                  /\ UNCHANGED vars

\* mm_realloc(p, n) grows p at the end of the heap, or relocates it, and
\* its mm_sbrk writes through the failed break.
ReallocFails(p, n) == /\ Exhausted(MmRealloc(Heap, p, n))
                      /\ fault' = TRUE
                      /\ UNCHANGED vars

InitF == Init /\ fault = FALSE

NextF == /\ ~fault
         /\ \/ Next /\ UNCHANGED fault
            \/ \E n \in Requests : MallocFails(n)
            \/ \E p \in DOMAIN client, n \in Requests : ReallocFails(p, n)

SpecF == InitF /\ [][NextF]_varsF

\* spec.md, section 5: a failure of the arena growth primitive reaches the
\* caller of allocate or resize as OutOfMemory, and the arena is left as it
\* was.  mm_sbrk (mm.c:556, 567) uses mem_sbrk's result without a check, so
\* no call may ever write through the failure value.
GrowthFailureReported == ~fault
=============================================================================

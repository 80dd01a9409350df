-------------------------- MODULE AbstractAllocator --------------------------
(***************************************************************************)
(* What an allocator of malloclab-handout promises its client (spec.md,    *)
(* sections 4 and 5): every block handed out is a payload interval of the  *)
(* arena that no other live block overlaps, at least as long as the bytes  *)
(* asked for, and a call changes no block other than the one it is about.  *)
(* A block is named by the address of its header; blocks[p] records the   *)
(* bytes asked for and the payload interval [lo, lo + len) in 8-byte       *)
(* units.  top is the end of the arena, which only grows.                  *)
(*                                                                         *)
(* The actions are predicates on the next state: they say which results a *)
(* call may have, not how it finds one.  The module is used only through  *)
(* INSTANCE, as the property an implementation is checked against.        *)
(***************************************************************************)
EXTENDS Naturals

CONSTANTS Requests,  \* byte counts the client asks for
          NULL       \* the null pointer

VARIABLES blocks,    \* header address -> [bytes, lo, len] of a live block
          top        \* end of the arena, in units

vars == <<blocks, top>>

\* Two payload intervals share no unit.
Apart(a, b) == a.lo + a.len <= b.lo \/ b.lo + b.len <= a.lo

\* b holds n bytes and lies inside the arena as it is after the step.
Holds(b, n) == b.bytes = n /\ n <= b.len * 8 /\ b.lo + b.len <= top'

\* Every live block other than those in S is left as it was.
OthersKept(S) == \A q \in DOMAIN blocks \ S : q \in DOMAIN blocks' /\ blocks'[q] = blocks[q]

Init == blocks = <<>> /\ top \in Nat

\* allocate(n): one new block, apart from every live block.
Alloc(n) ==
  \E p \in DOMAIN blocks' \ DOMAIN blocks :
     /\ DOMAIN blocks' = DOMAIN blocks \cup {p}
     /\ OthersKept({})
     /\ Holds(blocks'[p], n)
     /\ \A q \in DOMAIN blocks : Apart(blocks'[p], blocks[q])
     /\ top' >= top

\* release(p): p is no longer live; nothing else changes.
Release(p) ==
  /\ DOMAIN blocks' = DOMAIN blocks \ {p}
  /\ OthersKept({p})
  /\ top' >= top

\* resize(p, n), n > 0: p keeps its start and grows or shrinks there, or the
\* contents move to a new block q that overlaps neither the other blocks nor
\* p's old payload, which is still being read while it is copied.
ResizeInPlace(p, n) ==
  /\ DOMAIN blocks' = DOMAIN blocks
  /\ OthersKept({p})
  /\ blocks'[p].lo = blocks[p].lo
  /\ Holds(blocks'[p], n)
  /\ \A q \in DOMAIN blocks \ {p} : Apart(blocks'[p], blocks[q])
  /\ top' >= top

ResizeMove(p, n) ==
  \E q \in DOMAIN blocks' \ DOMAIN blocks :
     /\ DOMAIN blocks' = (DOMAIN blocks \ {p}) \cup {q}
     /\ OthersKept({p})
     /\ Holds(blocks'[q], n)
     /\ \A r \in DOMAIN blocks : Apart(blocks'[q], blocks[r])
     /\ top' >= top

\* resize(null, n) is allocate(n); resize(p, 0) is release(p).
Resize(p, n) ==
  IF p = NULL THEN Alloc(n)
  ELSE IF n = 0 THEN Release(p)
  ELSE ResizeInPlace(p, n) \/ ResizeMove(p, n)

Next ==
  \/ \E n \in Requests : Alloc(n)
  \/ \E p \in DOMAIN blocks : Release(p)
  \/ \E p \in DOMAIN blocks \cup {NULL}, n \in Requests \cup {0} : Resize(p, n)

Spec == Init /\ [][Next]_vars
=============================================================================

---------------------------- MODULE AbstractIndex ----------------------------
(***************************************************************************)
(* What the Free-Segment Index of mm.c promises its callers (mm_insert,     *)
(* mm_delete, mm_search): a set of free segments, ordered by mm_cmp_node,  *)
(* whose search answers the least segment of at least the requested size.  *)
(* lastOp records the last call and, for a search, its answer.             *)
(***************************************************************************)
EXTENDS MMTree

CONSTANTS Nodes, Size, Queries

VARIABLES free, lastOp

Init == free = {} /\ lastOp = <<"none">>

Insert(n) == /\ n \notin free
             /\ free' = free \cup {n}
             /\ lastOp' = <<"insert", n>>

Delete(n) == /\ n \in free
             /\ free' = free \ {n}
             /\ lastOp' = <<"delete", n>>

Find(s) == /\ lastOp' = <<"search", s, BestFit(Size, free, s)>>
           /\ UNCHANGED free

Next == \/ \E n \in Nodes : Insert(n) \/ Delete(n)
        \/ \E s \in Queries : Find(s)

Spec == Init /\ [][Next]_<<free, lastOp>>
=============================================================================

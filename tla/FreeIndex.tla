------------------------------ MODULE FreeIndex ------------------------------
(***************************************************************************)
(* The Free-Segment Index of mm.c on its own: any sequence of mm_insert,    *)
(* mm_delete and mm_search calls that respects their contract (insert a    *)
(* node not in the tree, delete one that is), over a fixed set of nodes    *)
(* with fixed sizes.  Every call runs the C routines of MMTree to the end. *)
(***************************************************************************)
EXTENDS MMTree

CONSTANTS Nodes,    \* segment addresses, in alignment units
          Size,     \* Size[n]: the size field of node n
          Queries   \* sizes passed to mm_search

VARIABLES tree, root, lastOp

vars == <<tree, root, lastOp>>

Init == /\ tree = EmptyTree
        /\ root = NullNode
        /\ lastOp = <<"none">>

\* mm_insert(n), as called by mm_frag_node, mm_free and mm_realloc.
Insert(n) == /\ n \notin DOMAIN tree.l
             /\ LET res == MmInsert(tree, Size, root, n)
                IN  /\ tree' = res.t
                    /\ root' = res.root
             /\ lastOp' = <<"insert", n>>

\* mm_delete(n), as called by mm_malloc, mm_free and mm_realloc.
Delete(n) == /\ n \in DOMAIN tree.l
             /\ LET res == MmDelete(tree, Size, root, n)
                IN  /\ tree' = res.t
                    /\ root' = res.root
             /\ lastOp' = <<"delete", n>>

\* mm_search(s), as called by mm_malloc.
Find(s) == /\ lastOp' = <<"search", s, Search(tree, Size, root, s)>>
           /\ UNCHANGED <<tree, root>>

Next == \/ \E n \in Nodes : Insert(n) \/ Delete(n)
        \/ \E s \in Queries : Find(s)

Spec == Init /\ [][Next]_vars

-----------------------------------------------------------------------------
TypeOK ==
  /\ DOMAIN tree.l \subseteq Nodes
  /\ tree.l \in [DOMAIN tree.l -> Nodes \cup {NullNode}]
  /\ tree.r \in [DOMAIN tree.l -> Nodes \cup {NullNode}]
  /\ tree.c \in [DOMAIN tree.l \cup {NullNode} -> {BLACK, RED}]
  /\ root \in Nodes \cup {NullNode}

\* After every insert and delete has run its rotations and recolorings, the
\* links form one red-black search tree (mm_cmp_node order, root black, no
\* red node with a red child, one black height) over exactly the nodes
\* inserted and not deleted.  mm_check only tests order and red-red; a
\* wrong case of mm_delete_left/right shows here first as a black height.
IndexIsRBTree == IsRBTree(tree, Size, root)

\* The tree implements the abstract index: the set of reachable nodes changes
\* exactly as the calls say, and mm_search answers the best fit of that set.
Abs == INSTANCE AbstractIndex WITH free <- TreeNodes(tree, root)
ImplementsAbstractIndex == Abs!Spec
=============================================================================

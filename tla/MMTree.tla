------------------------------- MODULE MMTree -------------------------------
(***************************************************************************)
(* The Free-Segment Index of malloclab-handout/mm.c: the red-black tree    *)
(* embedded in the headers of the free segments (mm_cmp_node ...           *)
(* mm_delete).  The C code mutates the nodes in place and returns the new  *)
(* subtree root; here every routine is an operator from a tree value to a  *)
(* tree value and returns the subtree root in the field n.                 *)
(*                                                                         *)
(* A tree value t has the fields                                          *)
(*   l, r : the left and right links of every node in the tree,            *)
(*   c    : the color bit of every node in the tree and of NullNode,       *)
(* and sz maps a node to its size field, the first half of the key.  A     *)
(* read of NullNode's links is a read through data->null's zeroed links in *)
(* the C code; here it is outside the domain of l and r and TLC stops.     *)
(***************************************************************************)
EXTENDS Naturals, FiniteSets, Functions, TLC

CONSTANTS NullNode,  \* data->null, the node with null = MM_NULL_NULL
          NULL       \* the C null pointer returned by a failed search

BLACK == 0   \* MM_COLOR_BLACK
RED   == 1   \* MM_COLOR_RED

Opp(d) == IF d = "l" THEN "r" ELSE "l"

\* mm_cmp_node: order by size, equal sizes by address.
Cmp(sz, x, y) == IF sz[x] = sz[y] THEN x < y ELSE sz[x] < sz[y]

\* mm_rotate_left (d = "l") and mm_rotate_right (d = "r"): the child on the
\* side opposite to d takes now's place.
Rotate(t, now, d) ==
  LET tmp == t[Opp(d)][now]
  IN  [t |-> [t EXCEPT ![Opp(d)][now] = t[d][tmp], ![d][tmp] = now], n |-> tmp]

\* now's link on side d becomes the subtree root res.n of the tree res.t:
\* the "now->left = ..." / "now->right = ..." around every recursive call.
Link(res, now, d) == [res.t EXCEPT ![d][now] = res.n]

\* mm_search_node's "if(ptr == NULL) return now; return ptr;".
OrNow(ptr, now) == IF ptr = NULL THEN now ELSE ptr

RECURSIVE Search(_, _, _, _)

\* Mutant of Search: the search of rb.c, which stops at the first fitting
\* node on the path instead of looking left for a smaller one.
SearchFirstOnPath(t, sz, now, size) ==
  IF now = NullNode THEN NULL
  ELSE IF size <= sz[now] THEN now
       ELSE Search(t, sz, t.r[now], size)

\* mm_search_node: the least node whose size is at least size, or NULL.
Search(t, sz, now, size) ==
  IF now = NullNode THEN NULL
  ELSE IF size <= sz[now] THEN OrNow(Search(t, sz, t.l[now], size), now)
       ELSE Search(t, sz, t.r[now], size)

\* The outer rotation of mm_insert_node: rot is now rotated away from d;
\* its new top turns black and both children red.
InsertRotated(rot, d) ==
  [t |-> [rot.t EXCEPT !.c[rot.t[d][rot.n]] = RED,
                       !.c[rot.t[Opp(d)][rot.n]] = RED,
                       !.c[rot.n] = BLACK],
   n |-> rot.n]

\* The second test of the repair: now's red child on side d has a red
\* child on side d too.  A red uncle is recolored, else now is rotated.
InsertOuter(t, now, d) ==
  LET o  == Opp(d)
      ch == t[d][now]
  IN  IF t.c[t[d][ch]] # RED THEN [t |-> t, n |-> now]
      ELSE IF t.c[t[o][now]] = RED
      THEN [t |-> [t EXCEPT !.c[ch] = BLACK, !.c[t[o][now]] = BLACK,
                            !.c[now] = RED],
            n |-> now]
      ELSE InsertRotated(Rotate(t, now, o), d)

\* The repair in mm_insert_node after new went into now's subtree on side d:
\* a red child with a red inner grandchild is first rotated outwards.
InsertFix(t, now, d) ==
  IF t.c[t[d][now]] # RED THEN [t |-> t, n |-> now]
  ELSE InsertOuter(IF t.c[t[Opp(d)][t[d][now]]] = RED
                   THEN Link(Rotate(t, t[d][now], d), now, d)
                   ELSE t,
                   now, d)

RECURSIVE InsertNode(_, _, _, _)

\* Mutant of InsertNode: the new leaf's links are C NULL, not data->null.
InsertNodeNullLinks(t, sz, now, new) ==
  IF now = NullNode
  THEN [t |-> [l |-> (new :> NULL) @@ t.l, r |-> (new :> NULL) @@ t.r,
               c |-> (new :> RED) @@ t.c],
        n |-> new]
  ELSE LET d == IF Cmp(sz, new, now) THEN "l" ELSE "r"
       IN  InsertFix(Link(InsertNode(t, sz, t[d][now], new), now, d), now, d)

\* mm_insert_node: a new node enters at a leaf, red, and the path is repaired.
InsertNode(t, sz, now, new) ==
  IF now = NullNode
  THEN [t |-> [l |-> (new :> now) @@ t.l, r |-> (new :> now) @@ t.r,
               c |-> (new :> RED) @@ t.c],
        n |-> new]
  ELSE LET d == IF Cmp(sz, new, now) THEN "l" ELSE "r"
       IN  InsertFix(Link(InsertNode(t, sz, t[d][now], new), now, d), now, d)

\* Cases 4-6 of mm_delete_left/right: sibling s black, near nephew red and
\* far nephew black: rotate s so that the far nephew is red.
NearColors(t, now, o) ==
  [t EXCEPT !.c[t[o][now]] = BLACK, !.c[t[o][t[o][now]]] = RED]

DeleteNear(t, now, d) ==
  LET o == Opp(d)
      s == t[o][now]
  IN  IF t.c[s] = BLACK /\ t.c[t[d][s]] = RED /\ t.c[t[o][s]] = BLACK
      THEN NearColors(Link(Rotate(t, s, o), now, o), now, o)
      ELSE t

\* Far nephew red: now rotated towards d; the new top takes now's color,
\* its children turn black, and the deficit is absorbed.
FarColors(rot, d) ==
  [t |-> [rot.t EXCEPT !.c[rot.n] = rot.t.c[rot.t[d][rot.n]],
                       !.c[rot.t[d][rot.n]] = BLACK,
                       !.c[rot.t[Opp(d)][rot.n]] = BLACK],
   n |-> rot.n, bal |-> TRUE]

DeleteFar(t, now, bal, d) ==
  IF t.c[t[Opp(d)][now]] = BLACK /\ t.c[t[Opp(d)][t[Opp(d)][now]]] = RED
  THEN FarColors(Rotate(t, now, d), d)
  ELSE [t |-> t, n |-> now, bal |-> bal]

RECURSIVE DeleteFix(_, _, _, _)

\* The recursive call of the red-sibling case returns into the top.
LiftFix(rec, top, d) == [t |-> Link(rec, top, d), n |-> top, bal |-> rec.bal]

\* Red sibling: now is rotated towards d, top black, now red, and the
\* repair goes on one level down at now.
RedSibling(rot, bal, d) ==
  LiftFix(DeleteFix([rot.t EXCEPT !.c[rot.n] = BLACK,
                                  !.c[rot.t[d][rot.n]] = RED],
                    rot.t[d][rot.n], bal, d),
          rot.n, d)

\* Mutant of DeleteFix: the red-parent case forgets "*balance = 1".
DeleteFixNoBalance(t, now, bal, d) ==
  LET s == t[Opp(d)][now]
  IN  CASE t.c[s] = RED -> RedSibling(Rotate(t, now, d), bal, d)
        [] t.c[now] = BLACK /\ t.c[s] = BLACK
             /\ t.c[t.l[s]] = BLACK /\ t.c[t.r[s]] = BLACK ->
             [t |-> [t EXCEPT !.c[s] = RED], n |-> now, bal |-> bal]
        [] t.c[now] = RED /\ t.c[t.l[s]] = BLACK /\ t.c[t.r[s]] = BLACK ->
             [t |-> [t EXCEPT !.c[now] = BLACK, !.c[s] = RED], n |-> now, bal |-> bal]
        [] OTHER -> DeleteFar(DeleteNear(t, now, d), now, bal, d)

\* mm_delete_left (d = "l") and mm_delete_right (d = "r"): the subtree on
\* side d of now is one black node short; bal becomes TRUE once absorbed.
DeleteFix(t, now, bal, d) ==
  LET s == t[Opp(d)][now]
  IN  CASE t.c[s] = RED -> RedSibling(Rotate(t, now, d), bal, d)
        [] t.c[now] = BLACK /\ t.c[s] = BLACK
             /\ t.c[t.l[s]] = BLACK /\ t.c[t.r[s]] = BLACK ->
             [t |-> [t EXCEPT !.c[s] = RED], n |-> now, bal |-> bal]
        [] t.c[now] = RED /\ t.c[t.l[s]] = BLACK /\ t.c[t.r[s]] = BLACK ->
             [t |-> [t EXCEPT !.c[now] = BLACK, !.c[s] = RED], n |-> now, bal |-> TRUE]
        [] OTHER -> DeleteFar(DeleteNear(t, now, d), now, bal, d)

\* "if(!*balance) now = mm_delete_left/right(now, balance)".
FixAt(t, now, bal, d) ==
  IF bal THEN [t |-> t, n |-> now, bal |-> TRUE] ELSE DeleteFix(t, now, FALSE, d)

\* A recursive mm_delete_node call on side d returns into now.
FixUp(rec, now, d) == FixAt(Link(rec, now, d), now, rec.bal, d)

\* The target-mode result carries the unlinked successor in tgt.
WithTarget(res, tgt) == [t |-> res.t, n |-> res.n, bal |-> res.bal, tgt |-> tgt]

\* mm_delete_node with target # NULL: unlink the leftmost node of the
\* subtree at now (the in-order successor) and report it in tgt.
RECURSIVE DeleteMin(_, _)
DeleteMin(t, now) ==
  IF t.l[now] = NullNode
  THEN [t |-> [t EXCEPT !.c[t.r[now]] = BLACK], n |-> t.r[now],
        bal |-> t.c[now] = RED \/ t.c[t.r[now]] = RED, tgt |-> now]
  ELSE LET rec == DeleteMin(t, t.l[now])
       IN  WithTarget(FixUp(rec, now, "l"), rec.tgt)

\* del has two children: its successor ptr (rec.tgt) takes its links and
\* color, and the repair of the right side starts at ptr.
Splice(rec, now) ==
  LET ptr == rec.tgt
      t1  == Link(rec, now, "r")
  IN  FixAt([t1 EXCEPT !.c[ptr] = t1.c[now], !.l[ptr] = t1.l[now],
                       !.r[ptr] = t1.r[now]],
            ptr, rec.bal, "r")

\* mm_delete_node with target = NULL: find del by key and unlink it; a node
\* with two children is replaced by its successor.
RECURSIVE DeleteNode(_, _, _, _)
DeleteNode(t, sz, now, del) ==
  IF now = del
  THEN IF t.r[now] = NullNode
       THEN [t |-> [t EXCEPT !.c[t.l[now]] = BLACK], n |-> t.l[now],
             bal |-> t.c[now] = RED \/ t.c[t.l[now]] = RED]
       ELSE Splice(DeleteMin(t, t.r[now]), now)
  ELSE LET d == IF Cmp(sz, del, now) THEN "l" ELSE "r"
       IN  FixUp(DeleteNode(t, sz, t[d][now], del), now, d)

\* The root as the wrappers leave it; mutant of PaintRoot below.
Unpainted(rec) == [t |-> rec.t, root |-> rec.n]

\* "data->root = ...; data->root->color = MM_COLOR_BLACK".  Result: [t, root].
PaintRoot(rec) == [t |-> [rec.t EXCEPT !.c[rec.n] = BLACK], root |-> rec.n]

\* mm_insert: insert, then paint the root black.
MmInsert(t, sz, root, new) == PaintRoot(InsertNode(t, sz, root, new))

\* The links and color of the unlinked node are left out of the tree value:
\* the C code never reads them again before mm_insert_node rewrites all three.
Unlink(res, del) ==
  LET keep == DOMAIN res.t.l \ {del}
  IN  [t |-> [l |-> Restrict(res.t.l, keep), r |-> Restrict(res.t.r, keep),
              c |-> Restrict(res.t.c, keep \cup {NullNode})],
       root |-> res.root]

\* mm_delete: delete, then paint the root black.
MmDelete(t, sz, root, del) == Unlink(PaintRoot(DeleteNode(t, sz, root, del)), del)

EmptyTree == [l |-> <<>>, r |-> <<>>, c |-> (NullNode :> BLACK)]

-----------------------------------------------------------------------------
(* Shape of a tree value, used by the invariants.                          *)

\* The nodes of the subtree at now, following at most k links.
RECURSIVE Subtree(_, _, _)
Subtree(t, now, k) ==
  IF now = NullNode \/ k = 0 \/ now \notin DOMAIN t.l THEN {}
  ELSE {now} \cup Subtree(t, t.l[now], k - 1) \cup Subtree(t, t.r[now], k - 1)

TreeNodes(t, root) == Subtree(t, root, Cardinality(DOMAIN t.l) + 1)

\* The black height of the subtree at now, or -1 if two paths disagree.
RECURSIVE BlackHeight(_, _)
BlackHeight(t, now) ==
  IF now = NullNode THEN 0
  ELSE LET hl == BlackHeight(t, t.l[now])
           hr == BlackHeight(t, t.r[now])
       IN  IF hl < 0 \/ hl # hr THEN -1
           ELSE hl + (IF t.c[now] = BLACK THEN 1 ELSE 0)

\* t, rooted at root, is a red-black search tree over exactly its domain,
\* keyed by mm_cmp_node.
IsRBTree(t, sz, root) ==
  LET N == DOMAIN t.l IN
  /\ DOMAIN t.r = N /\ DOMAIN t.c = N \cup {NullNode}
  /\ TreeNodes(t, root) = N
  /\ \A n \in N : Cardinality({m \in N : n \in {t.l[m], t.r[m]}})
                    = IF n = root THEN 0 ELSE 1
  /\ \A n \in N : /\ \A x \in Subtree(t, t.l[n], Cardinality(N)) : Cmp(sz, x, n)
                  /\ \A x \in Subtree(t, t.r[n], Cardinality(N)) : Cmp(sz, n, x)
  /\ t.c[root] = BLACK /\ t.c[NullNode] = BLACK
  /\ \A n \in N : t.c[n] = RED => t.c[t.l[n]] = BLACK /\ t.c[t.r[n]] = BLACK
  /\ BlackHeight(t, root) >= 0

\* The best fit among the nodes N: the least (size, address) with size >= s.
BestFit(sz, N, s) ==
  LET fits == {n \in N : s <= sz[n]}
  IN  IF fits = {} THEN NULL
      ELSE CHOOSE n \in fits : \A m \in fits \ {n} : Cmp(sz, n, m)
=============================================================================

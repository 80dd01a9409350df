------------------------------- MODULE MCNaive -------------------------------
EXTENDS MMNaive

\* Request sizes in bytes and the units mm_malloc makes of them:
\* 8 -> 2 = ALIGN(sizeof(MM_Node)), 16 -> 3, 24 -> 4.  A freed 4-unit block
\* is cut for a 2-unit request, a 3-unit one is taken whole.
MCRequests == {8, 16, 24}
\* mm_realloc is asked for sizes that move a block to a larger or smaller one.
MCResizeRequests == {8, 24}
\* resize(ptr, 0), as spec.md describes it.
MCZeroResizeRequests == {0, 8}
\* Room for four or five blocks after MM_Head.
MCMaxArena == HEAD + 12
MCMaxBlocks == 3
=============================================================================

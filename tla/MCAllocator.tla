----------------------------- MODULE MCAllocator -----------------------------
EXTENDS MMAllocator

\* Request sizes in bytes and the units they take: 8 -> 2, 24 -> 4,
\* 40 -> 6, 136 -> 18 = MM_UNIT (grown exactly, not split).
MCRequests == {8, 24, 40, 136}
\* One growth of MM_UNIT bytes past mm_init's arena.
MCMaxArena == FIRST + 1 + MM_UNIT \div ALIGNMENT
MCMaxBlocks == 4

\* Growth at the arena end: room for two growths of MM_UNIT bytes, so that
\* mm_realloc's growth of a block ending at the end header happens.
MCGrowRequests == {8, 136}
MCGrowMaxArena == FIRST + 1 + 2 * (MM_UNIT \div ALIGNMENT)

\* The client may ask for 0 bytes, which mm_malloc turns into one unit.
MCZeroRequests == {0, 8}
=============================================================================

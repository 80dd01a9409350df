------------------------------- MODULE MCMiss -------------------------------
EXTENDS MMMiss

\* Request sizes in bytes and the units they take: 8 -> 2, 16 -> 3,
\* 24 -> 4; mm_miss.c grows the arena by exactly the units asked for.
MCMissRequests == {8, 16, 24}
MCMissMaxArena == FIRST + 1 + 10
MCMissMaxBlocks == 3
=============================================================================

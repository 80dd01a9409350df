----------------------------- MODULE MCSbrkFail -----------------------------
EXTENDS MMSbrkFail

\* Requests of 2 and 18 units; the heap's limit allows one MM_UNIT growth.
MCRequests == {8, 136}
MCMaxArena == FIRST + 1 + MM_UNIT \div ALIGNMENT
MCMaxBlocks == 3
=============================================================================

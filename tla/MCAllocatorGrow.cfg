CONSTANTS
  NullNode = NullNode
  NULL = NULL
  Requests <- MCGrowRequests
  MaxArena <- MCGrowMaxArena
  MaxBlocks <- MCMaxBlocks
SPECIFICATION Spec
INVARIANTS ListIntegrity IndexMatchesFreeList IndexIsRBTree ClientBlocksIntact
PROPERTY ImplementsAbstractAllocator

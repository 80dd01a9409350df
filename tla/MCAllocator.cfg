CONSTANTS
  NullNode = NullNode
  NULL = NULL
  Requests <- MCRequests
  MaxArena <- MCMaxArena
  MaxBlocks <- MCMaxBlocks
SPECIFICATION Spec
INVARIANTS TypeOK ListIntegrity IndexMatchesFreeList IndexIsRBTree ClientBlocksIntact
PROPERTY ImplementsAbstractAllocator

CONSTANTS
  NULL = NULL
  TailNode = TailNode
  Requests <- MCRequests
  ResizeRequests <- MCResizeRequests
  MaxArena <- MCMaxArena
  MaxBlocks <- MCMaxBlocks
SPECIFICATION Spec
INVARIANTS TypeOK HeapTiles FreeListPartition NoAdjacentFree FreeNodeFits
PROPERTY ImplementsAbstractAllocator

CONSTANTS
  NULL = NULL
  TailNode = TailNode
  Requests <- MCRequests
  ResizeRequests <- MCZeroResizeRequests
  MaxArena <- MCMaxArena
  MaxBlocks <- MCMaxBlocks
SPECIFICATION Spec
PROPERTY ImplementsAbstractAllocator

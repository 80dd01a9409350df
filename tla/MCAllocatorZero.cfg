CONSTANTS
  NullNode = NullNode
  NULL = NULL
  Requests <- MCZeroRequests
  MaxArena <- MCMaxArena
  MaxBlocks <- MCMaxBlocks
SPECIFICATION Spec
INVARIANT FreeNodeFits

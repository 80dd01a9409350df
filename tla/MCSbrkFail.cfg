CONSTANTS
  NullNode = NullNode
  NULL = NULL
  Requests <- MCRequests
  MaxArena <- MCMaxArena
  MaxBlocks <- MCMaxBlocks
SPECIFICATION SpecF
INVARIANT GrowthFailureReported

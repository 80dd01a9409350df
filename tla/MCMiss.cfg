CONSTANTS
  NullNode = NullNode
  NULL = NULL
  Requests <- MCMissRequests
  MaxArena <- MCMissMaxArena
  MaxBlocks <- MCMissMaxBlocks
SPECIFICATION MissSpec
INVARIANT ListReachesBreak

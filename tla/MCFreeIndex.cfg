CONSTANTS
  NullNode = NullNode
  NULL = NULL
  Nodes <- MCNodes
  Size <- MCSize
  Queries <- MCQueries
SPECIFICATION Spec
INVARIANTS TypeOK IndexIsRBTree
PROPERTIES ImplementsAbstractIndex

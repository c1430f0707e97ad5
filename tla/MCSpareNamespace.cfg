\* A cluster-scoped resource referred to once without and once with a namespace.
SPECIFICATION Spec
CONSTANTS
  MaxNodes = 6
  MaxDepth = 3
  WalkConcurrency = 3
  Names <- MCNames
  Clusters <- MCSpareNamespace
INVARIANT UniqueObjects
CHECK_DEADLOCK FALSE

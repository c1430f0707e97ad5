\* The parallel walk over every cluster of MCClusters.
SPECIFICATION Spec
CONSTANTS
  MaxNodes = 6
  MaxDepth = 3
  WalkConcurrency = 3
  Names <- MCNames
  Clusters <- MCClusters
INVARIANTS
  TypeInv
  WithinLimits
  UniqueNodes
  Complete
  CappedForCause
  BoundedFanOut
  BoundedWaste
  BoundedRounds
PROPERTIES
  RefinesSequential
  Termination
\* A walk ends.
CHECK_DEADLOCK FALSE

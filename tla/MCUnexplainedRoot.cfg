\* A resource that is waiting with conditions that all are True.
SPECIFICATION Spec
CONSTANTS
  MaxSuspects = 2
  RecurrenceThreshold = 3
  DisplayEvents = 2
  Trees <- MCTrees
  Hints <- MCHints
  Text <- MCText
  LinesIn <- MCLinesIn
  FallbackKeepLines = 2
  MaxActionableLines = 4
  KeepFirst = 1
INVARIANT RootExplained
CHECK_DEADLOCK FALSE

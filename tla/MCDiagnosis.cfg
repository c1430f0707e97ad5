\* A diagnosis ends.
SPECIFICATION Spec
CONSTANTS
  MaxSuspects = 2
  RecurrenceThreshold = 3
  DisplayEvents = 2
  Trees <- MCTrees
  Hints <- MCHints
  Text <- MCText
  LinesIn <- MCLinesIn
  FallbackKeepLines = 2
  MaxActionableLines = 4
  KeepFirst = 1
INVARIANTS
  TypeInv
  HealthyIsSound
  DeepestFailureFirst
  HeadlineMatchesReasons
  FlakesNeverLead
  RecurringShown
  DecodedOnce
  ErrorLineShown
  SuspectExplained
PROPERTIES
  RefinesInLoop
  Termination
CHECK_DEADLOCK FALSE

SPECIFICATION Spec
CONSTANTS
  Catalogs <- MCCatalogs
  Wanted <- MCWanted
  Pages <- MCPages
  Failures <- MCFailures
  NoSuggestion = NoSuggestion
  RetryAttempts = 3
  BaseDelay = 1
  MaxDelay = 8
INVARIANTS
  AccountedFor
  NoneTwice
  SkippedForCause
  PromptOutage
PROPERTY Termination
CHECK_DEADLOCK FALSE

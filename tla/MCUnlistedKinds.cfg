SPECIFICATION Spec
CONSTANTS
  Catalogs <- MCCatalogs
  Wanted <- MCWanted
  Pages <- MCPages
  Failures <- MCFailures
  NoSuggestion = NoSuggestion
  RetryAttempts = 3
  BaseDelay = 1
  MaxDelay = 8
INVARIANT AlwaysAccountedFor
CHECK_DEADLOCK FALSE

\* The handler returns.
SPECIFICATION Spec
CONSTANTS
  RecurrenceThreshold = 3
  DisplayEvents = 2
  Clusters <- MCClusters
  Queries <- MCQueries
  MaxRevisionRows = 2
  MaxDetailedPackages = 1
  DefaultLimit = 1
  MaxLimit = 2
INVARIANTS
  TypeOK
  UnlistedIsNotNone
  FailingPackageShown
  FailingRevisionShown
  EventsOrReason
CHECK_DEADLOCK FALSE

\* The call returns.
SPECIFICATION Spec
CONSTANTS
  RecurrenceThreshold = 3
  DisplayEvents = 2
  Kinds <- MCKinds
  Objects <- MCObjects
  Listings <- MCListings
  Queries <- MCQueries
  DefaultLimit = 2
  MaxLimit = 3
INVARIANTS
  CountsAddUp
  NothingTriagedAway
CHECK_DEADLOCK FALSE

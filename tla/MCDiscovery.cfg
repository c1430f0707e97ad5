SPECIFICATION Spec
CONSTANTS
  Callers = {p1, p2}
  Resources <- MCResources
  Queries <- MCQueries
  Outages <- MCOutages
  Interval = 1
INVARIANTS
  NoUnexcusedMiss
  BoundedRediscovery
PROPERTY EventuallyVisible

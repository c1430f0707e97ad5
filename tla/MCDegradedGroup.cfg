SPECIFICATION Spec
CONSTANTS
  Callers = {p1}
  Resources <- MCResources
  Queries <- MCQueries
  Outages <- MCOutages
  Interval = 1
INVARIANT DegradedGroupNamed

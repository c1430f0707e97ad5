\* The calls end, and the process with them.
SPECIFICATION Spec
CONSTANTS
  c0 = c0
  c1 = c1
  c2 = c2
  c3 = c3
  None = None
  Calls = {c0, c1, c2, c3}
  Sessions <- MCSessions
  Unencodable = {c3}
  View <- MCView
  Prepare <- MCPrepare
  Scrub <- MCScrub
  SensitiveNames = {"password", "token", "secretRef"}
  WriteOnlyArgs = {"valueWo"}
  SecretShapes = {"jwt"}
  CoreVersions = {"v1", "core/v1"}
  MaxNesting = 9
INVARIANTS
  ViewWithholds
  LogMasks
PROPERTIES
  RefinesLog
  AnsweredIsLogged
CHECK_DEADLOCK FALSE

SPECIFICATION Spec
CONSTANTS
  Server = server
  Owners = {o1}
  Connections = {c1, c2}
  MaxCalls = 3
INVARIANTS
  NothingLeftServing
  FailuresReported
PROPERTY StopEnds
CHECK_DEADLOCK FALSE

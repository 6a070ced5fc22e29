SPECIFICATION Spec
CONSTANTS
  r1 = r1
  r2 = r2
  p1 = p1
  json = json
  raw = raw
  NoMessage = NoMessage
  NoFilter = NoFilter
  Topics <- MCTopics
  Producers <- MCProducers
  MsgTypes <- MCMsgTypes
  Formats = {json}
  EmitterConfigs <- CaptureEmitters
  Filters <- CaptureFilters
  Receivers = {r1}
  Operations = {"publish", "request"}
  Sizes = {1}
  LifecycleTopics <- MCLifecycleTopics
  LifecycleTypes <- MCLifecycleTypes
  MaxSinkFailures = 0
  Registrable = {}
  MaxRecords = 3
  MaxPayloadBytes = 1
  MaxMessages = 2
INVARIANT CapturedWithItsMeaning
CHECK_DEADLOCK FALSE

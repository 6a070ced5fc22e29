SPECIFICATION Spec
CONSTANTS
  r1 = r1
  r2 = r2
  p1 = p1
  json = json
  raw = raw
  NoMessage = NoMessage
  NoFilter = NoFilter
  Topics <- MCTopics
  Producers <- MCProducers
  MsgTypes <- MCMsgTypes
  Formats = {json}
  EmitterConfigs <- CaptureEmitters
  Filters <- CaptureFilters
  Receivers = {r1}
  Operations = {"publish", "request"}
  Sizes = {1}
  LifecycleTopics <- MCLifecycleTopics
  LifecycleTypes <- MCLifecycleTypes
  MaxSinkFailures = 1
  Registrable <- JsonFormat
  MaxRecords = 5
  MaxPayloadBytes = 1
  MaxMessages = 2
INVARIANTS
  TypeOK
  CapturedInterpretable
  RegistryConsistent
  DeliveredIsRecorded
  RecordedInOrder
PROPERTIES
  ImplementsCapturedBus
CHECK_DEADLOCK FALSE

SPECIFICATION Spec
CONSTANTS
  threaded = threaded
  tasked = tasked
  local = local
  ch = ch
  json = json
  invocation = invocation
  composite = composite
  custom = custom
  request = request
  reply = reply
  note = note
  Default = Default
  Connections = {threaded, tasked, local}
  Channels = {ch}
  MsgTypes = {request, reply, note}
  Formats = {json, invocation, composite, custom}
  Plans <- MCPlans
  Installed <- MCInstalled
  Encodes <- MCEncodes
  Json = json
  InvocationJson = invocation
  Composite = composite
  RequestType = request
  ReplyType = reply
  LifecycleTypes <- MCLifecycle
  MaxHelpers = 2
  MaxCalls = 3
CHECK_DEADLOCK FALSE
INVARIANTS AcceptedAlike ReceiversOwned 
PROPERTIES CallsAnswered

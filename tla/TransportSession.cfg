SPECIFICATION Spec
CONSTANTS
  Topics = {a, b}
  Shared = shared
  p1 = p1
  p2 = p2
  Publishers = {p1, p2}
  Operations <- RespondersAndPublisher
  RequestOnly = {a}
  MaxSubscriptions = 2
  MaxMessages <- ThreeWithOneSubscription
  Reader = reader
INVARIANTS
  EveryDeliveryDecodes
  NothingLostOrReordered
  RepliesFindTheirOwner
  AnswerUnderWay
CHECK_DEADLOCK FALSE

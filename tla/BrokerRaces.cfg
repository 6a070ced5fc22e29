SPECIFICATION Spec
CONSTANTS
  Threads = {t1, t2}
  TopicNames = {topicA}
  Receivers = {r1, r2}
  MaxMessages = 2
SYMMETRY Symmetry
INVARIANTS
  CapturedBeforeDelivered
  RoutedOnceInOrder
  EveryIdExplained
CHECK_DEADLOCK FALSE

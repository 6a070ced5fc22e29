SPECIFICATION ReceiversSpec
CONSTANTS
  Emitters = {e1}
  Readers = {x1, x2}
  Receivers = {r1, r2}
  Bounds <- MCBounds
  NoReader = none
  MaxMessages = 2
  MaxReceives = 1
INVARIANT GivenOnceInOrder
PROPERTY WaitersReturn
CHECK_DEADLOCK FALSE

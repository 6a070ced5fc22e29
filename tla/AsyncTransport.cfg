SPECIFICATION AsyncSpec
CONSTANTS
  Topics = {a, b}
  Names = {x}
  Shared = shared
  Capacity = 2
  Room = 1
  MaxSubscriptions = 2
  MaxEmissions = 2
INVARIANTS
  FramesInTime
  NothingLostOrReordered
  OnlyRealFailures
PROPERTY NobodyWaitsForEver
CHECK_DEADLOCK FALSE

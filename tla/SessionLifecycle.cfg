SPECIFICATION Spec
CONSTANTS
  Emitters = {e1}
  Reader = reader
  Worker = worker
  Stopper = stopper
  Capacity = 1
  MaxTargets = 2
INVARIANTS
  OnlyRealFailures
  
PROPERTY NothingHangs
CHECK_DEADLOCK FALSE

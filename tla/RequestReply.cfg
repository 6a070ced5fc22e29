SPECIFICATION Spec
CONSTANTS
  Callers = {c1, c2}
  Workers = {w1, w2}
  Programs <- MCPrograms
  MaxRequests = 2
  MaxReceives = 2
  MaxFaults = 1
INVARIANTS
  OwnReplyOnce
  NoReplyLost
  NobodyStranded
  
  RequestsAccountedFor
SYMMETRY ActorSymmetry
CHECK_DEADLOCK FALSE

SPECIFICATION WireSpec
CONSTANTS
  s1 = s1
  s2 = s2
  Senders = {s1, s2}
  Media = {"stream", "messages"}
  Scripts <- MCScripts
  Base = 4
  ReadSize = 4
  MaxCancels = 1
INVARIANTS
  FramesArriveAsSent
  EndComesLast
CHECK_DEADLOCK FALSE

SPECIFICATION HistorySpec
CONSTANTS
  Topics = {a, b}
  RequestTopic = requests
  ReplyTopic = replies
  Opaque = {b}
  Writers = {w1}
  PageSizes = {0, 1, 3}
  AnyTopic = any
  AskedTopics = {a, any, requests}
  NoCursor = none
  MaxMessages <- TwoThenNone
  MaxRestarts = 1
  MaxQueries = 1
  MaxPages = 3
INVARIANTS
  NeverMisnamed
  ExactInSequence
  
PROPERTIES
  SelectAllEnds
CHECK_DEADLOCK FALSE

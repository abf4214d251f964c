SPECIFICATION FairSpec
CONSTANTS
  QueueMax = 2
  PageLimit = 3
  WireMax = 2
  SseMax = 2
  MaxEvents = 7
  MaxFailures = 2
INVARIANTS
  ResponseSurvives
PROPERTIES
  CatchesUp
  LogSpec
CHECK_DEADLOCK FALSE

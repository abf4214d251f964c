SPECIFICATION FairSpec
CONSTANTS
  Stream = {s1, s2}
  Workers = 1
  QueueMax = 2
  MaxEvents = 3
  MaxLate = 2
CHECK_DEADLOCK FALSE
INVARIANT EventsInOrder
INVARIANT HonestEnd
PROPERTY StreamEnds

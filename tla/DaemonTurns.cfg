SPECIFICATION FairSpec
CONSTANTS
  t1 = t1
  t2 = t2
  s1 = s1
  Turn = {t1, t2}
  Session = {s1}
  SessionOf <- MCOneSession
  NoHistory = {}
  Faulty = {t1}
  BatchMax = 2
  MaxProgress = 1
  MaxRuns = 2
  MaxRestarts = 1
INVARIANTS
  TypeOK
  ActiveHasCause
  RunningIsCancellable
  AwaitingStaysActive
  LateCriticalSuppressed
  TranscriptPairs
PROPERTIES
  SubmittedSettles
CHECK_DEADLOCK FALSE

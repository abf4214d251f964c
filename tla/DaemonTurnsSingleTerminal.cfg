SPECIFICATION Spec
CONSTANTS
  t1 = t1
  t2 = t2
  s1 = s1
  Turn = {t1, t2}
  Session = {s1}
  SessionOf <- MCOneSession
  NoHistory = {}
  Faulty = {t1}
  BatchMax = 2
  MaxProgress = 1
  MaxRuns = 2
  MaxRestarts = 0
INVARIANTS
  SingleTerminal
CHECK_DEADLOCK FALSE

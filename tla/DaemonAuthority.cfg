SPECIFICATION FairSpec
CONSTANTS
  Daemon = {d1, d2, d3}
  Frontend = {f1}
  Nobody = Nobody
  MaxCalls = 2
  MaxForeground = 1
  MaxCrashes = 2
  Overlap = FALSE
  Slow = {"probe", "ready", "answer", "exit"}
CHECK_DEADLOCK FALSE
INVARIANT OneAuthority
INVARIANT AuthorityIsNamed
PROPERTY StartServes
PROPERTY StopEnds

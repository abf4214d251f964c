SPECIFICATION Spec
CONSTANTS
  Daemon = {d1, d2, d3}
  Frontend = {f1}
  Nobody = Nobody
  MaxCalls = 0
  MaxForeground = 2
  MaxCrashes = 0
  Overlap = TRUE
  Slow = {}
SYMMETRY Symmetric
CHECK_DEADLOCK FALSE
INVARIANT OneAuthority

SPECIFICATION Spec
CONSTANTS
  Call = {c1, c2, c3, c4}
  Capacity = 2
  MaxDecisions = 5
  MaxRestarts = 1
SYMMETRY Symmetric
CHECK_DEADLOCK FALSE
INVARIANT OneOutcome
INVARIANT PendingDecidable
PROPERTY RefusedOnlyWhenFull

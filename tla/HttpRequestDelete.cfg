SPECIFICATION Spec
CONSTANTS
  Calls = {c1}
  MaxRetries = 2
  Options <- Deletions
  Statuses <- MCStatuses
INVARIANTS
  RetriedDeleteHandled
CHECK_DEADLOCK FALSE

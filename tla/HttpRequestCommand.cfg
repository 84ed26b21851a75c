SPECIFICATION Spec
CONSTANTS
  Calls = {c1}
  MaxRetries = 2
  Options <- Commands
  Statuses <- MCStatuses
INVARIANTS
  RunCommandRetried
CHECK_DEADLOCK FALSE

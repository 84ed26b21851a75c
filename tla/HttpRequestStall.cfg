SPECIFICATION FairSpec
CONSTANTS
  Calls = {c1}
  MaxRetries = 2
  Options <- AllOptions
  Statuses <- MCStatuses
PROPERTIES
  TimedCallSettles
CHECK_DEADLOCK FALSE

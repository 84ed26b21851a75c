SPECIFICATION FairSpec
CONSTANTS
  Timeout = 17000
  Latencies = {0, 300}
  Lateness = {5}
INVARIANTS
  TypeOK
  ReadyNotMissed
  EndsNearDeadline
PROPERTIES
  PollSpacing
  WaitEnds
CHECK_DEADLOCK FALSE

SPECIFICATION FairSpec
CONSTANTS
  Calls = {c1}
  Conns = {s1, s2}
  None = None
  Kinds <- Posts
PROPERTIES
  SignalEndsDispatch
CHECK_DEADLOCK FALSE

SPECIFICATION Spec
CONSTANTS
  Calls = {c1}
  Conns = {s1, s2}
  None = None
  Kinds <- Posts
INVARIANTS
  NeverResentOnceProcessed
CHECK_DEADLOCK FALSE

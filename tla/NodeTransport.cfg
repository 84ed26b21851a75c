SPECIFICATION Spec
CONSTANTS
  Calls = {c1, c2}
  Conns = {s1, s2}
  None = None
  Kinds <- FourKinds
INVARIANTS
  TypeOK
  OneSession
  SessionCacheFresh
  WaitersOnLiveAttempt
SYMMETRY Symmetry
CHECK_DEADLOCK FALSE

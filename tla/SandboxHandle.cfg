SPECIFICATION Spec
CONSTANTS
  Calls = {c1, c2}
  Methods <- Writers
  None = None
  MaxVersion = 2
  MaxStray = 1
INVARIANTS
  TypeOK
  TerminalIsTrue
  DiskAsAcked
  IngressAsAcked
PROPERTIES
  WaitSeesCurrentState
  GoneEndsWait
SYMMETRY Symmetry
CHECK_DEADLOCK FALSE

SPECIFICATION FairSpec
CONSTANTS
  PageLimit = 2
  Caps = {None, 0, 1, 3}
  None = None
  MaxRows = 4
INVARIANTS
  TypeOK
  EachDeletionCostsOneRow
  EachCreationRepeatsOneRow
  CapKept
PROPERTIES
  WalkEnds
CHECK_DEADLOCK FALSE

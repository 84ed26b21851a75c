SPECIFICATION FairSpec
CHECK_DEADLOCK FALSE
CONSTANTS
  Programs <- AllPrograms
  Resources = {"box", "a", "b", "c", "clone", "template", "network", "disk", "snapshot"}
  Bases = {"template", "network", "disk", "snapshot"}
  MaxTries = 2
INVARIANTS
  TypeOK
  NothingLeft
  DependentsFirst
  CallsOnRunning
  FetchAfterListening
PROPERTIES
  RunEnds

CONSTANTS
  o1 = o1
  o2 = o2
  r1 = r1
  r2 = r2
  Objects <- MCObjects
  Runs <- MCRuns
  Chunks = 2
  MaxWrites = 2
  None = None
SPECIFICATION RecoverySpec
INVARIANTS FrozenIsStill
PROPERTIES ClosedIsFinal RestoredIsCut
SYMMETRY Names
CHECK_DEADLOCK FALSE

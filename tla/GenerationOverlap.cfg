SPECIFICATION FairSpec
CONSTANTS
  Runs = {r1}
  MaxAttempts = 2
  MaxRepairs = 2
  MaxMoves = 1
  MaxFaults = 2
INVARIANTS
  JobSuccessMeansPublication
PROPERTIES
  NoLostEdit
  RunSettles
CHECK_DEADLOCK FALSE

SPECIFICATION Spec
CONSTANTS
  Runs = {r1, r2}
  MaxAttempts = 2
  MaxRepairs = 2
  MaxMoves = 1
  MaxFaults = 0
INVARIANTS
  ActiveRunDrivesTrip
PROPERTIES
  ImplementsContract
CHECK_DEADLOCK FALSE

SPECIFICATION FairSpec
CONSTANTS
  Jobs = {j1, j2}
  Keys = {k1}
  AccountKeys = {k1}
  Unique = Unique
  None = None
  Calls = {c1, c2}
  MaxAttempts = 2
  MaxFaults = 1
INVARIANTS
  RowsAreSound
PROPERTIES
  JobsSettle
CHECK_DEADLOCK FALSE

SPECIFICATION MCSpec
CONSTANTS
  Calls = {c1, c2}
  Requests = {q1}
  Jobs = {j1}
  MaxFaults = 1
INVARIANTS
  CompletedIsEarned
  IdentityGoesLast
PROPERTIES
  ExportsEndWithAccount
  RetryCompletes
CHECK_DEADLOCK FALSE

CONSTANTS
  Items = {1, 2}
  Jobs = {j1, j2}
  JobAttempts = 2
  MaxForecasts = 2
  MaxEdits = 1
SPECIFICATION LiveSpec
INVARIANTS ImpactsAreSound
PROPERTIES LoneRefreshReplaces RefreshesEnd
CHECK_DEADLOCK FALSE
CONSTANT Slots <- MCSlots
CONSTANT Weathers <- MCWeathers
CONSTANT Plans <- MCPlans

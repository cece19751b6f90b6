SPECIFICATION FairSpec
CONSTANTS
  Callers = {c1, c2}
  Inputs = {"here"}
  Primary = "first"
  Fallbacks <- MCFallbacks
  FallbackOn <- MCFallbackOn
  Uncovered <- MCUncovered
  RetryRateLimits = TRUE
  MaxAttempts = 2
  FailureThreshold = 2
  OpenFor = 1
  FreshFor = 1
  StaleFor = 1
  MaxTime = 2
  None = None
INVARIANTS
  FlightsAreSound
PROPERTIES
  AnswersAreCurrent
  AsksAreAnswered
  ProbesConclude
CHECK_DEADLOCK FALSE

CONSTANTS
  plain = plain
  rome = rome
  oslo = oslo
  d1 = d1
  d2 = d2
  i1 = i1
  i2 = i2
  i3 = i3
  None = None
  Unmatched = Unmatched
  Stops = {rome, oslo}
  Days = {d1, d2}
  Items = {i1, i2, i3}
  Dates = {1, 2}
  Texts = {plain, changed}
  Offset = 20
  Parked = 40
  MaxRevision = 2
  MaxDraft = 4
  MaxSubmits = 2
  MaxStops = 2
  MaxTries = 2
  MaxRuns = 2
  Ranges <- MCRanges
  Starts <- MCStarts
SPECIFICATION MCSpec
INVARIANTS ViewIsSaved PlanIsSaved
PROPERTIES AppliedAsSeen QueuedAsReviewed PagesSettle
CHECK_DEADLOCK FALSE

CONSTANTS
  rome = rome
  oslo = oslo
  d1 = d1
  d2 = d2
  i1 = i1
  i2 = i2
  i3 = i3
  Stops = {rome, oslo}
  Days = {d1, d2}
  Items = {i1, i2, i3}
  Dates = {1, 2, 3}
  Texts = {plain}
  Offset = 20
  Parked = 40
  MaxRevision = 3
  Starts <- MCStarts
SPECIFICATION Spec
INVARIANTS ItineraryIsSound OrderingNeverFails
PROPERTIES ImplementsLists
CHECK_DEADLOCK FALSE

SPECIFICATION FairSpec
CONSTANTS
  x1 = x1
  Items = {x1}
  Places = {p1, p2}
  Impacts = {i1}
  ItemOf <- OneItem
  Offers = {o1}
  Calls = {c1, c2}
  Gone = Gone
  Same = Same
  None = None
  MaxRevision = 2
  MaxFaults = 1
INVARIANTS
  OutcomeIsTrue
  AppliedIsBacked
PROPERTIES
  ChangesWhatWasPreviewed
  ApplyConcludes
CHECK_DEADLOCK FALSE

CONSTANTS
  Links = {l1, l2}
  Requests = {r1, r2}
  Lifetimes = {1, 2}
  MaxTime = 2
SPECIFICATION FairSpec
INVARIANTS LinksAreSound LastRevocationHides
PROPERTIES RequestsEnd
CHECK_DEADLOCK FALSE

CONSTANTS
  Tabs = {t1, t2}
  MaxChanges = 1
SPECIFICATION OfflineSpec
INVARIANTS PackagesAreSound SignOutClears
PROPERTIES PackagesAreCurrent
CHECK_DEADLOCK FALSE

SPECIFICATION FairSpec
CONSTANTS
  Rows = {r1}
  KindsSent <- HardOrNot
  Addresses = {a1}
  To <- OneAddress
  Readers = {p1, p2}
  PageSize = 1
  MaxPages = 3
  MaxReports = 2
  MaxFaults = 1
  MaxRemovals = 1
  Nobody = Nobody
INVARIANTS NothingPassedOver ErasedStaysErased
PROPERTIES EveryHardBounceSuppresses RemovedStaysRemoved
CHECK_DEADLOCK FALSE

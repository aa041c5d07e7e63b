SPECIFICATION MCSpec
CONSTANTS
  h1 = h1  h2 = h2  c1 = c1 c2 = c2  list = list  g1 = g1   None = None
  Handlers <- TwoHandlers
  Contents <- TwoContents
  Lists <- OneList
  Groups <- OneGroup
  DecisionTime = 1
  MaxVersion = 2
  MaxResubmits = 1
INVARIANTS
  GoesOnceAsDecided
  HistoryAgrees
PROPERTIES
  DeadlineHolds
  EveryRequestEnds

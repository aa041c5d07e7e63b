SPECIFICATION FairSpec
CONSTANTS
  p1 = p1  p2 = p2  r1 = r1  r2 = r2  w1 = w1  w2 = w2
  NoProc = NoProc  NoJob = NoJob  NoReply = NoReply
  Procs <- MCProcs2
  Rows <- OneRow
  SystemRows = {}
  Workers <- MCWorkers1
  BulkSlots = 1
  MaxAttempts = 2
  MaxRowThrottles = 1
  RetryDelay <- MCRetryDelay
  RetryAfters = {0}
  ThrottlePause = 1
  Lease = 1
  MaxHold = 1
  MaxAge = 2
  MaxFaults = 1
  MaxCopies = 2
  Budgeted = FALSE
INVARIANTS
  ClaimsAreExclusive
  DuplicatesExplained
  CountersMatchHands
  TriesAreBounded
  StopLeavesNothing
PROPERTIES
  LedgerSpec
  EveryRowEnds

SPECIFICATION Spec
CONSTANTS
  Kinds <- EveryKind
  TTL = 4
  RoundTimeout = 1
  SendTimeout = 2
  BreakerOpen = 2
  UndecidedAfter = 3
  FetchDelay = 1
  Backoff <- LongerWithAge
  MaxLag = 0
  MaxChanges = 1
  MaxTries = 2
  MaxRestarts = 1
PROPERTIES
  NoLinkOnlyIfRequired
  DecidedAsAnswered
  EveryRowDecided
CHECK_DEADLOCK FALSE

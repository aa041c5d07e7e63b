SPECIFICATION FairSpec
CONSTANTS
  p1 = p1  p2 = p2  r1 = r1  r2 = r2   w1 = w1  w2 = w2
  Rows <- TwoRows
  Procs <- TwoProcs
  Workers <- TwoWorkers
  MinFailures = 1
  MinPercent = 50
  MaxPutBacks = 2
CHECK_DEADLOCK FALSE
PROPERTIES
  HeldStaysQuiet
  CancelIsFinal
  NoRowStranded

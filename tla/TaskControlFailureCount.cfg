SPECIFICATION Spec
CONSTANTS
  p1 = p1  p2 = p2  r1 = r1  r2 = r2   w1 = w1  w2 = w2
  Rows <- TwoRows
  Procs <- OneProc
  Workers <- OneWorker
  MinFailures = 1
  MinPercent = 50
  MaxPutBacks = 0
CHECK_DEADLOCK FALSE
PROPERTIES
  CountLeavesHeldSends

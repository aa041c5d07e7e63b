SPECIFICATION Spec
CONSTANTS
  p1 = p1  p2 = p2  s1 = s1  s2 = s2
  Nobody = Nobody  Eraser = Eraser  Reader = Reader
  Sends <- TwoSends
  Rows = {1, 2, 3}
  SendOf <- PairAndOne
  ToPerson = {1}
  Naming = {2}
  Queued = {1, 2}
  NameKept = FALSE
  SensitiveAtSend <- OneSend
  Broken <- LastSend
  Sweepers <- OneSweeper
  MaxFailures = 1
  BreakerFailures = 2
  MaxMarks = 0
  MaxOutages = 0
INVARIANTS
  NamesStayFindable

SPECIFICATION MCSpec
CONSTANTS
  n1 = n1  p1 = p1  p2 = p2  a1 = a1
  Posts <- OnePost
  Audience <- ItsAudience
  People <- TwoPeople
  Reach <- Both
  Leaving <- TwoPeople
  Tests <- NoTests
  Minute = 1
  TestLimit = 1
  MaxNow = 0
PROPERTY ErasureCompletes
CHECK_DEADLOCK FALSE

SPECIFICATION Spec
CONSTANTS
  n1 = n1  n2 = n2  n3 = n3  p1 = p1  p2 = p2  a1 = a1  a2 = a2
  Posts <- ThreePosts
  Audience <- SameAgain
  People <- OnePerson
  Reach <- Reached
  Leaving <- OnePerson
  Tests <- ThreePosts
  Minute = 2
  TestLimit = 2
  MaxNow = 4
  Calls <- TwoCalls
  Payloads <- TwoAudiences
  Respondents <- TwoPeople
  Owner = Owner
  NoOne = NoOne
  Lifetime = 1
  MaxHour = 2
  Requests <- ThreePosts
  Bodies <- TwoAudiences
  Readers <- OnePerson
  NoRequest = NoRequest
  Kept = 1
  MaxDay = 1
  o1 = o1  s1 = s1  b1 = b1  b2 = b2  t1 = t1  x = x  None = None
  Operators <- OneOperator
  Seeds <- OneSeed
  Subjects <- OneSubject
  MailBodies <- TwoBodies
  Vars <- OneVar
  Refs <- SomeRefs
  LockedKey = TRUE
  Contents <- FewContents
  Edits <- FewEdits
  SeedPayloads <- FewPayloads
  MaxVersions = 4
  w1 = w1  w2 = w2  w3 = w3
  Senders <- ThreeWorkers
  Lifetimes <- ShortAndLong
  RefreshBefore = 3
  MinLeft = 1
  Backoff = 1
  MaxTokens = 2
  Nobody = Nobody
INVARIANTS
  MailedOnce
  TestsAreFew
  OneWholeTarget
  OneAnswerPerKey
  LiveMailIsWhole
  CredentialsStayHidden
  SeedSparesWork
  RefusedNotHandedOut
PROPERTIES
  NoSilentRevert
CHECK_DEADLOCK FALSE

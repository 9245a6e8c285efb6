\* A job that is cancelled before its thread runs.
SPECIFICATION Spec
CONSTANTS
  s1 = s1
  s2 = s2
  c1 = c1
  j1 = j1
  Ids <- TwoSnapshots
  NoId = NoId
  Threads <- Pair
  NAnswers = 2
  NoFile = NoFile
  Torn = Torn
  Clients <- OneClient
  Jobs <- OneJob
  MaxRequests = 1
  MaxCrashes = 0
PROPERTY
  CancelledStays
CHECK_DEADLOCK FALSE

\* Requests and a job for two snapshots, with a crash.
SPECIFICATION FairSpec
CONSTANTS
  s1 = s1
  s2 = s2
  c1 = c1
  j1 = j1
  Ids <- TwoSnapshots
  NoId = NoId
  Threads <- Pair
  NAnswers = 2
  NoFile = NoFile
  Torn = Torn
  Clients <- OneClient
  Jobs <- OneJob
  MaxRequests = 3
  MaxCrashes = 1
INVARIANTS
  ManifestDescribesData
  AnswersStayTrue
  EndedJobIsSettled
PROPERTY
  EveryHistoryJobEnds
CHECK_DEADLOCK FALSE

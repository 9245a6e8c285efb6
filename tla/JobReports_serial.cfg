\* Clients that never retry a job somebody works on; no crash.
SPECIFICATION FairReportsSpec
CONSTANTS
  Jobs = {j1, j2}
  NoJob = NoJob
  Threads = {t1, t2}
  NSlices = 2
  Symbols = {"A", "B"}
  SymbolOf <- TwoSymbols
  Contents = {c1}
  NoContent = NoContent
  Ranges <- Nested
  Modes = {"full", "ensure", "force"}
  SerialClients = TRUE
  MaxRetries = 1
  MaxCrashes = 0
  PolledJobs = {j1}
INVARIANTS
  StoredReportIsTrue
  RestingJobAgreesWithChunks
PROPERTIES
  PollsAreConsistent
  SucceededChunksAreKept
  EveryJobEnds
CHECK_DEADLOCK FALSE

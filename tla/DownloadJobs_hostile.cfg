\* Overlapping retries, and a crash of the server at any statement; three slices,
\* so that the recorded files can have a hole between them.
SPECIFICATION Spec
CONSTANTS
  Jobs = {j1, j2}
  NoJob = NoJob
  Threads = {t1, t2}
  NSlices = 3
  Symbols = {"A"}
  SymbolOf <- OneSymbol
  Contents = {c1}
  NoContent = NoContent
  Ranges <- WholeRange
  Modes = {"full", "ensure", "force"}
  SerialClients = FALSE
  MaxRetries = 1
  MaxCrashes = 1
SYMMETRY Symmetry
INVARIANTS
  TypeOK
  SucceededChunkIsIndexed
  CachedJobIsCovered
  SummaryNeverOvercounts
CHECK_DEADLOCK FALSE

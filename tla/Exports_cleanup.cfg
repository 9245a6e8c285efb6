\* A CSV and a Parquet export, created, deleted and cleaned up.
SPECIFICATION Spec
CONSTANTS
  csv = csv
  parquet = parquet
  Ids <- Both
  Csv <- OnlyCsv
  NoId = NoId
  Threads = {t1, t2}
  NAnswers = 1
  NoFile = NoFile
  Torn = Torn
  MaxRequests = 3
  MaxCleanups = 1
  MaxCrashes = 1
SYMMETRY Symmetry
INVARIANTS
  WholeOrAbsent
PROPERTIES
  DeletedIsGone
  CleanupLeavesNoOrphans
  CleanupSparesTheWhole
CHECK_DEADLOCK FALSE

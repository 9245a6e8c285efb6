\* Any command at any time, crashes anywhere, two series.
SPECIFICATION Spec
CONSTANTS
  Series = {none, front}
  NDates = 2
  Bars = {b1, b2}
  NoFile = NoFile
  Torn = Torn
  MaxDownloads = 3
  MaxCommands = 3
  MaxCrashes = 1
SYMMETRY Symmetry
INVARIANTS
  RebuildRestoresIndex
  RegisteredFilesExist
  RecordedBarsStay
CHECK_DEADLOCK FALSE

\* One series, any command at any time, no crash.
SPECIFICATION Spec
CONSTANTS
  Series = {none}
  NDates = 2
  Bars = {b1, b2}
  NoFile = NoFile
  Torn = Torn
  MaxDownloads = 3
  MaxCommands = 3
  MaxCrashes = 0
SYMMETRY Symmetry
INVARIANTS
  CompactionKeepsBars
CHECK_DEADLOCK FALSE

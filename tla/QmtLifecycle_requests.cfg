\* Three requests in two threads; any call of xtquant may fail.
SPECIFICATION Spec
CONSTANTS
  Threads = {t1, t2}
  HasTrader = TRUE
  HasAccount = TRUE
  MaxRequests = 3
  MaxDrops = 1
SYMMETRY Symmetry
INVARIANTS
  NothingIsLeftBehind
  StatusIsTrue
CHECK_DEADLOCK FALSE

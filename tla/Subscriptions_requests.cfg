\* Subscriptions of two symbols; any call of xtdata may raise.
SPECIFICATION Spec
CONSTANTS
  Ids = {s1, s2}
  NoId = NoId
  NSymbols = 2
  Clients = {c1, c2}
  Callers = {x1}
  OnePerId = TRUE
  MaxRequests = 5
  MaxQuotes = 1
SYMMETRY Symmetry
INVARIANTS
  LiveHandlesAreKnown
CHECK_DEADLOCK FALSE

\* Two threads, every request with every setting of the switches.
SPECIFICATION RpcSpec
CONSTANTS
  Threads = {t1, t2}
  Measures = {"volume", "amount"}
  Orders <- SomeOrders
  OrderMax <- MaxOfOrder
  DailyMax <- MaxOfDay
  LastDay = 2
  ReadonlyMethods <- Readonly
  TradingMethods <- Trading
  OrderMethods <- OrderNames
  CancelMethods <- CancelNames
  PublicNames <- Public
  TradingNames <- Marked
  AllSettings <- SomeSettings
  Calls <- SomeCalls
SYMMETRY Symmetry
INVARIANTS
  OnlyConsentedTrades
  AuditIsTrue
  DailyLimit
  TradedIsCounted
  OverrunIsBounded
PROPERTY
  GuardIsKept
CHECK_DEADLOCK FALSE

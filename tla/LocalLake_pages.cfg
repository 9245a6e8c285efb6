\* One client pages through the lake while downloads record up to two files.
SPECIFICATION ReadSpec
CONSTANTS
  Symbols <- AllSymbols
  Times <- ThreeTimes
  NoTime = NoTime
  Kinds = {"daily_bars", "intraday_bars"}
  DayLength = 2
  MaxChunkDays = 3
  Prices = {p1,p2}
  NoOffset = NoOffset
  MaxLimit = 3
  Limits = {2, 5}
  Paged <- SomeRequests
  DownloadDays = {0, 2, 9}
  MaxFiles = 2
  Weekdays <- TwoWeekdays
  BadPrices = {p2}
  BadVolumes = {p1}
INVARIANTS
  PagingMissesNothing
  EnginesAgree
  GapsAreExact
  ChunksTileGaps
  EnsureConverges
  QualityTellsTheLake
CHECK_DEADLOCK FALSE

\* Two threads and two clients, one of which wants orders only.
SPECIFICATION FairSpec
CONSTANTS
  p1 = p1
  p2 = p2
  w1 = w1
  w2 = w2
  Callers <- TwoCallers
  Loop = loop
  Clients <- TwoClients
  AllTypes <- FirstOnly
  QueueSize = 2
  CacheSize = 2
  StoreSize = 2
  MaxEvents = 3
INVARIANTS
  PublishedOrdersAreStored
  ThreadsKeepTheirOrder
PROPERTIES
  ImplementsFeed
  HandedOverIsPublished
  GoneClientsAreForgotten
CHECK_DEADLOCK FALSE

SPECIFICATION FairLiveSpec
CONSTANTS
  NoWriter = NoWriter
  Writer = {w1, w2}
  Page = {p1, p2, p3}
  limit = 1
  highWaterMark = 1
  MAX_CURSOR_COHORTS_PER_POLL = 2
  maxClients = 3
  MaxId = 2
  MaxDrops = 1
CHECK_DEADLOCK FALSE
PROPERTIES
  ImplementsFeed
  EventuallyFed

SPECIFICATION FeedsSpec
CONSTANTS
  \* source watch
  MaxItems = 2
  MaxSeen = 1
  MaxStops = 2
  MaxRestarts = 1
  MaxSlow = 1
  MaxLong = 1
  \* Redis bus
  Names = {"c1", "c2"}
  MaxSent = 2
  Refused = {2}
  PollCount = 2
  MaxOutages = 1
  MaxTransient = 1
  MaxDeaths = 1
  \* model calls
  FullConfidence = 100
  Confidences = {0, 60}
  RelevanceThreshold = 35
  TradeThreshold = 50
  DuplicateMultiplier = 50
  UnrelatedMultiplier = 60
  MaxAttempts = 2
  \* proxy failover
  Feeds = {"f1", "f2"}
  Probing = {"f2"}
  NodeOrder <- ThreeNodes
  Nested = "b"
  MaxRotations = 2
  RetryCount = 1
  Serving <- LastOrNone
  MaxUpsets = 1
INVARIANTS
    FeedsSound
PROPERTIES
    FeedsServe
CHECK_DEADLOCK FALSE

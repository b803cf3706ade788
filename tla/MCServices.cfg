SPECIFICATION ServicesSpec
CONSTANTS
  \* web trade
  Levers = {1, 2}
  MaxLots = 4
  MaxAsks = 3
  MaxBreaks = 1
  MaxResting = 1
  MaxPolls = 1
  \* agent driver
  Calls = {c1, c2}
  TopTier = 2
  Cost <- TierCosts
  CostLimit = 3
  MaxTries = 3
  TierTries = 2
  Deadline = 2
  MemoryUntil = 1
  Threshold = 1
  Cooldown = 1
  MaxClock = 2
  MaxMishaps = 1
  \* work items
  Hosts = {"h1", "h2"}
  Attempts = {"a1"}
  Targets = {"pending", "ready", "leased", "running", "retry_wait", "reserved", "stale", "timed_out"}
  Lifetime = 1
  MaxWorkClock = 1
  MaxEpochs = 2
  MaxMoves = 6
  \* coordinated graph
  Roots <- TwoTasks
  Replies <- TaskReplies
  TaskTries = 3
  PlanTries = 5
  RunTries = 8
  MaxSinkFaults = 1
  \* budget
  BudgetNodes = {"n1", "n2"}
  Models = {"small", "large"}
  Prices = {1, 3}
  WorkflowCap = 5
  NodeCap = 4
  WorkflowAttempts = 3
  NodeAttempts = 2
  ModelAttempts = 1
  WorkflowSeconds = 2
  NodeSeconds = 1
  AttemptSeconds = {1}
  MaxSeconds = 2
  \* news memory
  Instruments = {"a", "b"}
  MaxTape = 2
  TapeWindow = 2
  BufferSize = 1
  RecentLimit = 1
  MaxTurns = 3
  MaxReboots = 1
  MaxCuts = 1
  \* cross-asset trends
  Dexes <- TwoDexes
  ListedOn <- Listings
  Asked = {"gold", "oil", "dxy", "us10y", "usdcad", "cper", "vix"}
  RouteOf <- TrendRoutes
  AliasesOf <- Aliases
  ExactOf <- ExactNames
  CloseTo <- Resembling
  TextOf <- Texts
  Frames = {1, 3}
  BarsPerFrame = 2
  Slack = 1
  MaxMinutes = 6
  Tapes <- SevenMinutes
  \* soft stop poller
  Watchable = {"s1", "s2"}
  Quotes = {2, 4}
  StartMove = 1
  FullMove = 2
  ReleaseMove = 1
  CacheAge = 0
  ReferenceAge = 2
  PersistEvery = 1
  MidsTtl = 1
  MaxTicks = 3
  MaxCrashes = 1
  MaxQuoted = 2
INVARIANTS
    TradesExact
    CapsKept
    SpendingSound
    WorkSound
    NewsKept
    MarketHonest
PROPERTIES
    NothingRevived
CHECK_DEADLOCK FALSE

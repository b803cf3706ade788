SPECIFICATION LoopFairSpec
CONSTANTS
  RelevanceAt = 20
  FullScale = 70
  TrimAt = 40
  ReverseEdge = 15
  MinReverse = 60
  UnknownReverse = 85
  FullConfidence = 85
  FlattenAt = 85
  Decay = 50
  Confs = {45, 90}
  TradeGate = 40
  MaxEvents = 2
  Sizes = {2, 4}
  MaxPlans = 2
  MaxInputs = 3
  MaxExits = 1
  MaxFaults = 1
INVARIANTS
    PlanKept
    ActsOnce
PROPERTIES
    KeepsWatching
CHECK_DEADLOCK FALSE

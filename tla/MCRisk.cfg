CONSTANTS
    Tp1Tenths = 3
    Tp2Tenths = 4
    MaxSize = 7
    MaxOid = 6
    Settings <- AllSettings
SPECIFICATION FairSpec
INVARIANTS
    ExitsMatch
    StagesHonest
PROPERTIES
    WatchedToFlat

SPECIFICATION FairHistorySpec
CONSTANTS
    Miners = {m1}
    Pools = {"rolling", "stratum"}
    OptQueue = 1
    RollLimit = 1
    MaxWorks = 2
    MaxBlocks = 1
    NoWork = NoWork
    Watched <- MCWatched
INVARIANTS
    TypeOK
    RollableCounted
    HeadersDistinct
    RestartReaches
PROPERTIES
    HandedOnce
    WaitingIsHeard

SPECIFICATION MinerFairSpec
CONSTANTS
    N = 3
    Jobs <- MCJobs
    Miner = Miner
    Other = Other
    Procs <- MCProcs
    Addr = {a1, a2}
    NULL = NULL
    Free = Free
    MSGSIZE = 2
    MaxStarts = 2
INVARIANTS
    MinerTypeOK
    StatlineFdOpen
    
    FreshResult
PROPERTY
    RestartEndsScan

SPECIFICATION ProgFairSpec
CONSTANTS
    N = 3
    Jobs <- MCJobs
    Procs = {p1}
    Addr = {a1, a2}
    NULL = NULL
    Free = Free
    MSGSIZE = 1
    MaxStarts = 2
    MaxLoads = 2
INVARIANTS
    LifecycleTypeOK
    UnloadLeavesNothing
    OopsNeedsRace
PROPERTIES
    ExitEnds
    ProgramEnds
CHECK_DEADLOCK FALSE

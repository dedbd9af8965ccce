SPECIFICATION FairSpec
CONSTANTS
    N = 3
    Jobs <- MCJobs
    Procs = {p1}
    Addr = {a1, a2}
    NULL = NULL
    Free = Free
    MSGSIZE = 2
    MaxStarts = 2
INVARIANTS
    TypeOK
    Ownership
    InOrder
    NoLostWakeup
PROPERTIES
    ImplementsChannel
    MessageEndsWait
    EndIsReported

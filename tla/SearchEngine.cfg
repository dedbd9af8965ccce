SPECIFICATION FairSpec
CONSTANTS
    N = 7
    PERIOD = 3
    WINDOWS = 1
    CTRMOD = 15
    EarlyResume = FALSE
    None = None
    Junk = Junk
    Jobs <- MCJobs
INVARIANTS
    TypeOK
    StageEnableValid
    DigestMeetsNonce
    FoundIsHit
    NoHitSkipped
PROPERTIES
    ImplementsAccel
    SearchEnds

SPECIFICATION Spec
CONSTANTS
    N = 8
    PERIOD = 2
    WINDOWS = 2
    CTRMOD = 16
    EarlyResume = TRUE
    None = None
    Junk = Junk
    Jobs <- FewJobs
INVARIANT StageEnableValid

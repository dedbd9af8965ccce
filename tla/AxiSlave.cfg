SPECIFICATION FairSpec
CONSTANTS
    LANES = 2
    BYTE = 2
    Params <- MCParams
    LastWord = "NONCE_LAST"
    None = None
    Patient = TRUE
    DEPTH = 1
    Requests <- MCRequests
    Sources <- MCSources
    Engine <- MCEngine
INVARIANT TypeOK
PROPERTIES
    ImplementsRegisterFile
    
    

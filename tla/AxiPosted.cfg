SPECIFICATION Spec
CONSTANTS
    LANES = 2
    BYTE = 2
    Params <- MCParams
    LastWord = "NONCE_LAST"
    None = None
    Patient = FALSE
    DEPTH = 2
    Requests <- FewRequests
    Sources <- FewSources
    Engine <- MCEngine
PROPERTY ImplementsRegisterFile

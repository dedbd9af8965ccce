SPECIFICATION Spec
CONSTANTS
    Block = 8
    LenSize = 2
    Pieces <- MCPieces
    MaxTotal = 17
PROPERTIES
    DigestsMessage

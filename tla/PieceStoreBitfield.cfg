CONSTANTS
    Pieces <- MCPieces
    Blocks <- MCBlocks
    BadIndices = {}
    MaxDeliveries = 5
    DiskCanFail = FALSE
SPECIFICATION Spec
INVARIANT BitfieldMatchesState
CHECK_DEADLOCK FALSE

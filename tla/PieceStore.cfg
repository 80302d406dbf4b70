CONSTANTS
    Pieces <- MCPieces
    Blocks <- MCBlocks
    BadIndices = {}
    MaxDeliveries = 5
    DiskCanFail = TRUE
SPECIFICATION Spec
INVARIANT TypeOK
CHECK_DEADLOCK FALSE
PROPERTY StoreRefinesSpec

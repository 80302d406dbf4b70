CONSTANTS
    Pieces <- MCPieces
    Blocks <- MCBlocks
    BadIndices = {}
    MaxDeliveries = 2
    DiskCanFail = TRUE
SPECIFICATION Spec
PROPERTY DownloadedResolves
CHECK_DEADLOCK FALSE

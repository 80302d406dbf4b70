CONSTANTS
    Pieces <- MCPieces
    Blocks <- MCBlocks
    BadIndices = {}
    MaxDeliveries = 3
    DiskCanFail = TRUE
SPECIFICATION Spec
INVARIANT StoredReportSound
INVARIANT IncompleteReportSound
CHECK_DEADLOCK FALSE

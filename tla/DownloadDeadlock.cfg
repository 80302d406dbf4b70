CONSTANTS
    r1 = r1
    r2 = r2
    Pieces <- MCPieces
    Blocks <- MCOneBlock
    BadIndices = {}
    MaxDeliveries <- MCMaxDeliveries
    DiskCanFail = FALSE
    Peers <- MCPeers
    InitialHas <- MCSeeders
    MaxRequestsPerPeer = 2
    MaxTimeouts = 1
    MaxChokes = 0
    Corrupt = {}
    MaxDrops = 0
    TimelyPeers = {}
SPECIFICATION Spec

PROPERTY Termination
CHECK_DEADLOCK FALSE

CONSTANTS
    r1 = r1
    r2 = r2
    Pieces <- MCPieces
    Blocks <- MCBlocks
    BadIndices = {}
    MaxDeliveries <- MCMaxDeliveries
    DiskCanFail = FALSE
    Peers <- MCPeers
    InitialHas <- MCSeeders
    MaxRequestsPerPeer = 2
    MaxTimeouts = 0
    MaxChokes = 1
    Corrupt = {}
    MaxDrops = 0
    TimelyPeers = {}
SPECIFICATION Spec
INVARIANT NoRequestToChokingPeer
CHECK_DEADLOCK FALSE

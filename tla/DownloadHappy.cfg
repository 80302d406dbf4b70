CONSTANTS
    r1 = r1
    r2 = r2
    Pieces <- MCPieces
    Blocks <- MCOneBlock
    BadIndices = {}
    MaxDeliveries <- MCMaxDeliveries
    DiskCanFail = FALSE
    Peers <- MCOnePeer
    InitialHas <- MCFirstOnly
    MaxRequestsPerPeer = 1
    MaxTimeouts = 2
    MaxChokes = 1
    Corrupt = {}
    MaxDrops = 1
    TimelyPeers <- MCOnePeer
SPECIFICATION Spec
INVARIANT TypeOK
PROPERTY TerminatesUnlessGetDataDeadlock
CHECK_DEADLOCK FALSE

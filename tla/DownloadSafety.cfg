CONSTANTS
    r1 = r1
    r2 = r2
    Pieces <- MCOnePiece
    Blocks <- MCBlocks
    BadIndices = {}
    MaxDeliveries <- MCMaxDeliveries
    DiskCanFail = FALSE
    Peers <- MCPeers
    InitialHas <- MCSeeders
    MaxRequestsPerPeer = 1
    MaxTimeouts = 1
    MaxChokes = 0
    Corrupt = {r2}
    MaxDrops = 0
    TimelyPeers = {}
SPECIFICATION Spec
INVARIANT PerPeerBudget
INVARIANT NoWastedRequest
INVARIANT NoDuplicateRequest
CHECK_DEADLOCK FALSE

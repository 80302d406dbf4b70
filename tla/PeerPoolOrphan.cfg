CONSTANTS
    a1 = a1
    a2 = a2
    s1 = s1
    s2 = s2
    s3 = s3
    Addrs <- MCAddrs
    Sessions <- MCSessions
    SessionAddr <- MCSessionAddr
    MaxPeers = 1
SPECIFICATION Spec
CHECK_DEADLOCK FALSE
INVARIANT LiveSessionRegistered

SPECIFICATION FairSpec
CONSTANTS
    IntLen = 4
    SockLen = 4
    IpLen = 9
    Faults <- FramedFaults
    MaxSkew = 0
    MaxBlocks = 0
    Hooks = FALSE
INVARIANTS Exchange
PROPERTIES ImplementsRpc CommandEnds
CHECK_DEADLOCK FALSE

SPECIFICATION FairSpec
CONSTANTS
    IntLen = 4
    SockLen = 8
    IpLen = 9
    Faults <- NoFaults
    MaxSkew = 0
    MaxBlocks = 1
    Hooks = TRUE
CHECK_DEADLOCK FALSE
PROPERTY
    SessionReleased

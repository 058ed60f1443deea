SPECIFICATION FairSpec
CONSTANTS
    Sessions = {s1}
    MaxStarts = 2
    MaxClients = 1
    Faults <- AllFaults
INVARIANTS ListenerReleased OrderlyExit OrphanedByStop RestartInert
PROPERTIES StopCompletes
CHECK_DEADLOCK FALSE

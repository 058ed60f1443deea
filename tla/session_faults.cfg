SPECIFICATION Spec
CONSTANTS
    IntLen = 4
    SockLen = 8
    IpLen = 9
    Faults <- AllFaults
    MaxSkew = 2
    MaxBlocks = 2
    Hooks = TRUE
INVARIANTS TypeOK LagIsSkew StallHasCause TransferHasConnection PassiveReplyTrue ReplyOrder DataLostHasCause
PROPERTIES BothModesStick CompletionTruthful
CHECK_DEADLOCK FALSE

SPECIFICATION InetSpec
CONSTANTS
    Bytes = {0, 9, 10, 99, 100, 255}
    Words = {0, 1, 65535}
    Texts <- MCTexts
    Buffers <- MCBuffers
    MaxQuads = 5
    MaxWords = 10
    MaxNumerals = 4
INVARIANTS TextMeansAddress
CHECK_DEADLOCK FALSE

SPECIFICATION Spec
CONSTANTS
    Elems = {a, b}
    junk = junk
    MIN_LEN = 2
    MaxLen = 6
    AllocFails = TRUE
INVARIANTS PushInside NotSparse
PROPERTIES ResizeLeavesRoom ImplementsVector
CHECK_DEADLOCK FALSE

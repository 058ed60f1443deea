SPECIFICATION DesktopFairSpec
CONSTANTS
    Faults = {"event", "thread", "ole", "window"}
    MaxQueue = 2
    readme = readme
    readme_bak = readme_bak
    picture = picture
    x = x
    y = y
    Entries <- ThreeEntries
    FileNames <- TwoNames
    Match <- Parts
    MaxOthers = 1
INVARIANTS SignalsServed EventOutlivesThread NothingHeld SuccessMeansCopied
PROPERTIES ProgramEnds
CHECK_DEADLOCK FALSE

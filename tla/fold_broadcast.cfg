SPECIFICATION Spec
CONSTANTS
    Files <- MCFiles
    MaxModelBytes = 8
    MaxGraphItems = 6
    Excess = 1
    Bits = 20
    MaxRank = 4
    NoShape = NoShape
    NoName = NoName
    Garbage = Garbage
CHECK_DEADLOCK FALSE
INVARIANT FoldMirrorsEmitted

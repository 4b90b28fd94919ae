SPECIFICATION Spec
CONSTANTS
    Graphs <- MCGraphs
    Requests <- MCRequests
    Bufs <- MCBufs
    MaxCalls = 2
    Bits = 20
    MaxRank = 4
    NoName = NoName
    NoRegion = NoRegion
    Garbage <- MCGarbage
INVARIANTS
    TypeOK
    RangesDisjoint
    ReadsWritten
PROPERTY ImplementsService

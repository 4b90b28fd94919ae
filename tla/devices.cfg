SPECIFICATION Spec
CONSTANTS
    Callers = {1, 2}
    GroupSize = 3
    TileSide = 2
    MaxGroups = 3
    MaxBuffer = 64
    MaxBinding = 48
    Machines <- MCBuilds
    Calls <- MCCalls
    Bits = 16
    MaxRank = 4
    Garbage = Garbage
    Unset = Unset
CHECK_DEADLOCK FALSE
INVARIANTS
    TypeOK
    SelectsTheBest
    AnswersAsNaive
    PanicsOnlyAtLimits
PROPERTIES
    EveryCallEnds

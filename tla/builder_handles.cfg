SPECIFICATION Spec
CONSTANTS
    Builders = {b1, b2}
    Shapes <- MCShapes
    Names = {x}
    EditShapes <- MCEditShapes
    MaxCalls = 4
    Bits = 4
    MaxRank = 2
    NoName = NoName
    Garbage = Garbage
INVARIANT HandlesMatchNodes
CHECK_DEADLOCK FALSE

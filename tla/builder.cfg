SPECIFICATION Spec
CONSTANTS
    Builders = {b1, b2}
    Shapes <- MCShapes
    Names = {x, w}
    EditShapes <- MCEditShapes
    MaxCalls = 4
    Bits = 4
    MaxRank = 2
    NoName = NoName
    Garbage = Garbage
INVARIANTS
    TypeOK
    RegistryExact
    EdgesMirrorInputs
    HeadIsTheOutput
    BuiltGraphsRun
    NamedWeightsHoldTheirData
PROPERTY RefusalsChangeNothing
SYMMETRY MCSymmetry
CHECK_DEADLOCK FALSE

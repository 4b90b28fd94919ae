SPECIFICATION Spec
CONSTANTS
    Images <- MCImages
    Graphs <- MCGraphs
    Options <- MCOptions
    Spreads <- MCSpreads
    Products <- MCProducts
    Pending = Pending
    AccBits = 17
    Bits = 10
    MaxRank = 4
    NoName = NoName
CHECK_DEADLOCK FALSE
INVARIANTS
    RoundTrip
    QuantizesTheBoundWeights
    PixelsPlaced
    ProductOfDequantized

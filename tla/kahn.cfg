SPECIFICATION Spec
CONSTANTS
    Graphs <- MCGraphs
    Garbage = Garbage
INVARIANTS
    TypeOK
    AdjacencyExact
    PendingCounted
    SameOrderAsGraphSort
PROPERTY ImplementsTopoOrder

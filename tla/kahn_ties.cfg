SPECIFICATION Spec
CONSTANTS
    Graphs <- MCGraphs
    Garbage = Garbage
INVARIANT TiesBrokenById

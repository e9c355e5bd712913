\* A Delta-Stepping workspace implements the SSSP oracle, with costs that absorb smaller ones.
SPECIFICATION Spec
CONSTANTS
    Rows <- CoarseRows
    Nnz <- CoarseNnz
    rowptr <- CoarseRowptr
    to <- CoarseTo
    edgeValue <- CoarseValue
    baseCost <- Ones
    MaxFinite = 47
    Round <- Coarse
    Costs = {1, 2}
    Queries <- CoarseQueries
    Delta = 4
    NoBucket = 6
    EdgeParents = FALSE
    Generations = FALSE
    MaxGeneration = 2
    NoCall = NoCall
    NoReply = NoReply
PROPERTIES
    ImplementsOracle

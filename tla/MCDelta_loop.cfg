\* A cycle of zero-cost edges.
SPECIFICATION Spec
CONSTANTS
    Rows <- LoopRows
    Nnz <- LoopNnz
    rowptr <- LoopRowptr
    to <- LoopTo
    edgeValue <- LoopValue
    baseCost <- Ones
    MaxFinite = 4
    Round <- Exact
    Costs = {1}
    Queries <- LoopQueries
    Delta = 2
    NoBucket = 6
    EdgeParents = TRUE
    Generations = TRUE
    MaxGeneration = 2
INVARIANTS
    PathsEnd

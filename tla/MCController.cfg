\* Batches of two rounds with tokens that run out, and HIP calls that fail.
SPECIFICATION RefinementSpec
CONSTANTS
    Rows <- DiamondRows
    Nnz <- DiamondNnz
    rowptr <- DiamondRowptr
    to <- DiamondTo
    edgeValue <- DiamondValue
    baseCost <- Ones
    MaxFinite = 15
    Round <- Exact
    Costs = {1, 2}
    Queries <- ControllerQueries
    Delta = 5
    NoBucket = 3
    EdgeParents = TRUE
    Generations = TRUE
    MaxGeneration = 7
    BatchSize = 2
    MaxSequence = 2
    MaxCount = 20
    NoNext = 99
    HipFails = TRUE
INVARIANTS
    TokensReserved
    HostAccepts
    FollowsModel
PROPERTY ImplementsHostLoop

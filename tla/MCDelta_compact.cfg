\* Edge payloads and generation tokens on the diamond; the counter wraps.
SPECIFICATION FairSpec
CONSTANTS
    Rows <- DiamondRows
    Nnz <- DiamondNnz
    rowptr <- DiamondRowptr
    to <- DiamondTo
    edgeValue <- DiamondValue
    baseCost <- Ones
    MaxFinite = 15
    Round <- Exact
    Costs = {1, 2}
    Queries <- DiamondQueries
    Delta = 5
    NoBucket = 3
    EdgeParents = TRUE
    Generations = TRUE
    MaxGeneration = 3
INVARIANTS
    QueuesFit
    CleanWhenIdle
    NoWorkLost
    DeterministicParents
    AnswersExact
PROPERTY QueryEnds

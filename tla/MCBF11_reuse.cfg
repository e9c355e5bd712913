\* One workspace reused across queries, aborts and cost updates: what it leaves behind,
\* that every query ends, and that it implements the oracle PathFinder calls.
SPECIFICATION FairSpec
CONSTANTS
    Rows <- TriangleRows
    Nnz <- TriangleNnz
    rowptr <- TriangleRowptr
    to <- TriangleTo
    edgeValue <- TriangleValue
    baseCost <- TriangleBase
    MaxFinite = 3
    Round <- Exact
    Costs = {0, 1, 3}
    Queries <- TriangleQueries
    Fallback <- TriangleFallback
    NoCall = NoCall
    NoReply = NoReply
INVARIANTS
    TouchedComplete
    CleanSeed
    NoPredecessorCycle
PROPERTIES
    QueryEnds
    ImplementsOracle

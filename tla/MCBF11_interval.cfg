\* The target check is due only every third round.
SPECIFICATION FairSpec
CONSTANTS
    Rows <- LineRows
    Nnz <- LineNnz
    rowptr <- LineRowptr
    to <- LineTo
    edgeValue <- LineValue
    baseCost <- LineBase
    MaxFinite = 9
    Round <- Exact
    Costs = {1}
    Queries <- LineQueries
    Fallback = {}
INVARIANT
    DefaultBudgetCertifies

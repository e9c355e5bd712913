\* Every interleaving of the relaxation threads on the diamond.
SPECIFICATION Spec
CONSTANTS
    Rows <- DiamondRows
    Nnz <- DiamondNnz
    rowptr <- DiamondRowptr
    to <- DiamondTo
    edgeValue <- DiamondValue
    baseCost <- DiamondBase
    MaxFinite = 9
    Round <- Exact
    Costs = {1}
    Queries <- DiamondQueries
    Fallback <- DiamondFallback
INVARIANTS
    QueuesFit
    CertifiedExact
    DefaultBudgetCertifies

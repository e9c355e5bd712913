\* The run ends when every net is routed or an engine throws.
SPECIFICATION Spec
CHECK_DEADLOCK FALSE
CONSTANTS
    Rows <- MCRows
    Nnz <- MCNnz
    rowptr <- MCRowptr
    to <- MCTo
    edgeValue <- MCValue
    baseCost <- MCBase
    MaxFinite = 20
    Round <- Coarse
    endX <- MCEndX
    endY <- MCEndY
    MinCoord <- MCMinCoord
    MaxCoord = 3
    Requests <- MCRequests
    Config <- MCConfig
    MaxStamp = 4
INVARIANTS
    TrimmedPathAttaches
    RouteTree
    RootDistance
    MissedOnlyIfUnreachable
    TerminalsAdmitted

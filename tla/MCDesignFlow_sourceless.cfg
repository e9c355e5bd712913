\* A design leaves the last program or is refused: the flow ends.
SPECIFICATION Spec
CHECK_DEADLOCK FALSE
CONSTANTS
    Devices <- MCDevices
    Cuts <- MCCuts
    MaxCoord = 9
    ActiveType <- MCType
    PairedPin <- MCPaired
    NoType = "none"
    NoNode = 0
    MaxBranches = 16
    Designs <- MCDesigns
    LogicalDesigns <- MCLogical
INVARIANT SourcelessNetKept

\* Threads end, so the last state has no successor.
SPECIFICATION FairSpec
CHECK_DEADLOCK FALSE
CONSTANTS
    NetCount = 4
    WorkerCount = 3
    ReportSteps = 2
INVARIANTS
    OneWriterPerNet
    NoNetLost
    ThreadsJoined
    ProgressForward
PROPERTIES
    CallEnds

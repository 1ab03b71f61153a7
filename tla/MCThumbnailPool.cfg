SPECIFICATION FairPoolSpec
CONSTANTS
    MaxTasks = 3
    WorkerCount = 2
    MaxQueued = 1
    Processes = {p1, p2, p3, p4}
    NoProcess = NoProcess
INVARIANTS
    NothingLost
    WorkersAreOwned
PROPERTIES
    EveryConversionIsAnswered
CHECK_DEADLOCK FALSE

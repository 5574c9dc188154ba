SPECIFICATION FairSpec
CONSTANTS
    Threads = {1, 2}
    MaxCount = 6
    MaxTasks = 3
    MaxStarts = 2
INVARIANTS
    TasksIntact
    NoWorkerAfterStop
PROPERTIES
    StopReturns
    LastTaskRuns

SPECIFICATION FairSemSpec
CONSTANTS
    Threads = {t1, t2, t3, t4}
    MaxCount = 4
INVARIANT
    NoLostWakeup
PROPERTY
    ImplementsSemaphore

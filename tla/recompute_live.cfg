SPECIFICATION FairSpec
CONSTANTS
    j1 = j1
    j2 = j2
    j3 = j3
    Jobs = {j1, j2}
    Request <- MCRequest
    Catalog <- MCCatalog
    MaxRangeDays = 2
    Workers = {w1, w2}
    QueueSize = 1
    Faults <- ContextLapseCrash
    NoJob = NoJob
    Exited = Exited
INVARIANTS SingleOwner LockReleased CleanOutcome
PROPERTIES JobDrains QueuedFinishes LockFreed

SPECIFICATION Spec
CONSTANTS
    j1 = j1
    j2 = j2
    j3 = j3
    Jobs = {j1, j2}
    Request <- MCRequest
    Catalog <- MCCatalog
    MaxRangeDays = 2
    Workers = {w1}
    QueueSize = 1
    Faults <- OnlyCalls
    NoJob = NoJob
    Exited = Exited
INVARIANT FinalizationRecorded

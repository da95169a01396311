SPECIFICATION Spec
CONSTANTS
    j1 = j1
    j2 = j2
    j3 = j3
    Jobs = {j1, j2, j3}
    Request <- MCRequest
    Catalog <- MCCatalog
    MaxRangeDays = 2
    Workers = {w1}
    QueueSize = 1
    Faults <- AllFaults
    NoJob = NoJob
    Exited = Exited
SYMMETRY Interchangeable
INVARIANTS TypeOK SingleOwner LockHeld ScopeMutex StageMatchesRows OutcomeTruthful OnlyAcceptedRun
PROPERTIES LockHandOver ImplementsLifecycle

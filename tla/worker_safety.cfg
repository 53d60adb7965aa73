SPECIFICATION Spec
CONSTANTS
    j1 = j1
    j2 = j2
    p = p
    Job = {j1, j2}
    Runner = p
    Null = Null
    MaxRetries = 2
    MaxPolls = 1
    MaxFaults = 3
INVARIANTS
    WorkerInv
PROPERTIES
    StopIsOrderly
    ImplementsLeasedJobs
    JobsSettle
    ShutdownEnds

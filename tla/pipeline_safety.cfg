SPECIFICATION FairSpec
CONSTANTS
    j1 = j1
    j2 = j2
    w1 = w1
    w2 = w2
    Job = {j1, j2}
    Unsupported = {j2}
    Worker = {w1, w2}
    Null = Null
    MaxRetries = 2
    Capacity = 2
    MaxFaults = 2
INVARIANTS
    ProcessInv
    PublishedIsThere
    DescribedUnlessRevoked
PROPERTIES
    JobsSettle

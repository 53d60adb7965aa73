SPECIFICATION FairSpec
CONSTANTS
    j1 = j1
    Job = {j1}
    Null = Null
    HistorySize = 1
    MaxRows = 2
    MaxChanges = 3
    MaxFailures = 1
INVARIANTS
    StatusInv
    GreenMeansVerified
PROPERTIES
    CatchesUp

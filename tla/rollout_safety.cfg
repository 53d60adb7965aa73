SPECIFICATION RolloutSpec
CONSTANTS
    None = None
    Part = Part
    Foreign = Foreign
    MaxVersion = 1
    MaxRuns = 2
    MaxOperations = 2
    MaxFaults = 1
INVARIANTS
    ReadyMeansItRuns
    ReportIsRight
    RolloutInv
CHECK_DEADLOCK FALSE

SPECIFICATION Spec
CONSTANTS
    Null = Null
    Verifier = {service, smoke}
    Tables <- MCTables
    Parent <- MCParent
    Artifact <- MCTwoGood
    MaxRuns = 2
    MaxCrashes = 0
PROPERTIES
    JudgesItsRestore
CHECK_DEADLOCK FALSE

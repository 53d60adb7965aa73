SPECIFICATION Spec
CONSTANTS
    Null = Null
    Verifier = {service, smoke}
    Tables <- MCTables
    Parent <- MCParent
    Artifact <- MCArtifact
    MaxRuns = 3
    MaxCrashes = 1
INVARIANTS
    VerifyInv
PROPERTIES
    VerdictIsRight
    AloneJudgesItsRestore
\* At most MaxRuns verifications are begun.
CHECK_DEADLOCK FALSE

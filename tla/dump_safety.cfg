SPECIFICATION FairSpec
CONSTANTS
    parent = parent
    child = child
    Parent = parent
    Child = child
    Sentinel = {parent}
    Values <- MCValues
    Null = Null
    Malformed = Malformed
    MaxId = 2
    MaxWrites = 2
INVARIANTS
    DumpInv
    SequencesCoverRows
    ManifestMatches
    DanglingOnlyIfMoved
    QuietDumpRestores
PROPERTIES
    CallEnds
CHECK_DEADLOCK FALSE

SPECIFICATION Spec
CONSTANTS
    parent = parent
    child = child
    Parent = parent
    Child = child
    Sentinel = {parent}
    Values <- MCValues
    Null = Null
    Malformed = Malformed
    MaxId = 2
    MaxWrites = 1
INVARIANTS
    ArraysRestore
CHECK_DEADLOCK FALSE

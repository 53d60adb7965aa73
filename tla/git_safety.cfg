SPECIFICATION FairSpec
CONSTANTS
    dev = dev
    feature = feature
    Tracked <- MCTracked
    Other <- MCOther
    Loop = Loop
    Command = {command}
    Null = Null
    MaxPushes = 1
    MaxMoves = 1
    MaxFailures = 1
    MaxCommands = 2
INVARIANTS
    PullInv
PROPERTIES
    OnlyItsBranches
    NeverGoesBack
    CatchesUp
    CardSettles

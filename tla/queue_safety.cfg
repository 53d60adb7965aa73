SPECIFICATION Spec
CONSTANTS
    w1 = w1
    w2 = w2
    j1 = j1
    Job = {j1}
    Worker = {w1, w2}
    Null = Null
    Lease = 3
    HeartbeatInterval = 2
    MaxClaimDelay = 1
    MaxRetries = 2
    MaxBeats = 1
    MaxClock = 8
SYMMETRY Symmetry
INVARIANTS
    AtMostOneOwner
    FenceIdentifiesAttempt
    IInv
PROPERTIES
    RequeueOnlyExpired
    ImplementsLeasedJobs

SPECIFICATION Spec
CONSTANTS
    j1 = j1
    j2 = j2
    p = p
    Job = {j1, j2}
    Runner = p
    Null = Null
    MaxRetries = 2
    MaxPolls = 2
    MaxFaults = 1
PROPERTIES
    TimeoutIsOfAwaitedJob

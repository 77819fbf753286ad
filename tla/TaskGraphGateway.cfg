\* A pool and a client of one gateway process that may crash, a chain of tasks;
\* leases expire at any time, and anyone may cancel.
CONSTANTS
    NTasks = 2
    Deps <- Chain
    MaxAttempts = 2
    Pools = {p1}
    Clients = {c1}
    ProcessOf <- OneProcess
    Concurrency = 1
    Expiry = "any"
    MaxCrashes = 1
    NoOne = NoOne
    p1 = p1
    p2 = p2
    c1 = c1
    c2 = c2
SPECIFICATION SupervisedSpec
INVARIANTS
    RetryBudget
PROPERTIES
    CancelledNeverRestarts
    

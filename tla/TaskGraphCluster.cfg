\* Two worker processes on one database file, leases expiring at any time.
CONSTANTS
    NTasks = 2
    Deps <- Chain
    MaxAttempts = 2
    Pools = {p1, p2}
    Clients = {}
    ProcessOf <- OwnProcess
    Concurrency = 1
    Expiry = "any"
    MaxCrashes = 0
    NoOne = NoOne
    p1 = p1
    p2 = p2
    c1 = c1
    c2 = c2
SPECIFICATION Spec
INVARIANTS
    OneExecutor
PROPERTIES
    ImplementsDag

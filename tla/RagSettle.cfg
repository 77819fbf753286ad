\* One job, two workers, leases and locks that run out at any time, a crash.
CONSTANTS
    Jobs = {j1}
    Projects = {p1}
    ProjectOf <- OneProject
    Workers = {w1, w2}
    MaxAttempts = 2
    MaxDeliveries = 2
    Redis = TRUE
    Expiry = "any"
    LockExpiry = "any"
    MaxEdits = 0
    MaxCrashes = 1
    NoOne = NoOne
    Gone = Gone
    NoRev = NoRev
    j1 = j1
    j2 = j2
    w1 = w1
    w2 = w2
    p1 = p1
SPECIFICATION FairSpec
PROPERTIES
    IndexingSettles

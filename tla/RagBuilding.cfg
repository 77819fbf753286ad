\* A worker that dies while it builds a generation.
CONSTANTS
    Jobs = {j1}
    Projects = {p1}
    ProjectOf <- OneProject
    Workers = {w1, w2}
    MaxAttempts = 2
    MaxDeliveries = 1
    Redis = TRUE
    Expiry = "orphaned"
    LockExpiry = "orphaned"
    MaxEdits = 0
    MaxCrashes = 1
    NoOne = NoOne
    Gone = Gone
    NoRev = NoRev
    j1 = j1
    j2 = j2
    w1 = w1
    w2 = w2
    p1 = p1
SPECIFICATION FairSpec
PROPERTIES
    BuildingEnds

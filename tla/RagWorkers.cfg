\* Two workers, two jobs of one project, an edit; every lease may run out early.
CONSTANTS
    Jobs = {j1, j2}
    Projects = {p1}
    ProjectOf <- OneProject
    Workers = {w1, w2}
    MaxAttempts = 2
    MaxDeliveries = 1
    Redis = TRUE
    Expiry = "any"
    LockExpiry = "orphaned"
    MaxEdits = 1
    MaxCrashes = 0
    NoOne = NoOne
    Gone = Gone
    NoRev = NoRev
    j1 = j1
    j2 = j2
    w1 = w1
    w2 = w2
    p1 = p1
SPECIFICATION Spec
SYMMETRY Interchangeable
INVARIANTS
    ResultOfLastClaim
PROPERTIES
    FreshIndex
    ImplementsGenerations

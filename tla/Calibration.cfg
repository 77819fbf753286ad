\* A 200 run, perhaps a dev test, and a 5,000 run, whose samples share an item.
CONSTANTS
    c1 = c1
    c2 = c2
    Runs <- OneLadder
    Items = {i1}
    Reviewers = {1, 2, 3}
    Adjudicators = {2, 3}
    Stores = {"sqlite"}
    MaxExpiries = 1
    Campaigns = {c1, c2}
    Late = {"holdout"}
    AcceptPercent = 95
    KappaPercent = 0
    MaxEdits = 2
    MaxWrites = 2
SPECIFICATION Spec
CHECK_DEADLOCK FALSE
INVARIANTS
    IndependentVerdicts
    LadderIsSound
PROPERTIES
    ShownIsFrozen

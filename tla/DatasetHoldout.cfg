\* Two builds of a production dataset: what is in the sealed holdout.
SPECIFICATION DatasetSpec
CONSTANTS
    Texts = {t1, t2, t3, t4}
    Crawls = {{t1, t2, t3}, {t2, t4}}
    Patches = {t3}
    PatchReviews = {}
    Families = {{t1, t2}, {t3, t4}}
    NearPairs = {{t1, t3}}
    Unfit = {}
    Protected = {t4}
    LooksProtected = {t4}
    HighValue = {t2, t3}
    MaxDatasetBuilds = 2
INVARIANTS
    HoldoutIsKept
CHECK_DEADLOCK FALSE

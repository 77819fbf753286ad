\* Two stages of the ladder, the second of which has to improve on the first.
SPECIFICATION LadderSpec
CONSTANTS
    Stages = {2, 4}
    ImprovementFrom = 4
    PromptScores = {1, 2}
    MaxBuilds = 2
    MaxSwaps = 1
    MaxStageDeaths = 1
INVARIANTS
    ComparedWithPrior
CHECK_DEADLOCK FALSE

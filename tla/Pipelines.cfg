\* The pipelines of the learning stack, one at a time (the scene): how many steps
\* a training has, how many rows, files, rounds and workers there are, and how
\* often a process dies, a file is edited and a command is run.
SPECIFICATION PipelinesSpec
CONSTANTS
    Steps = 4
    Accumulations = {1, 2}
    PerEpoch = 3
    ValidateEvery = 1
    CheckpointEvery = 2
    Keep = 1
    DefaultKeep = 2
    Patience = 2
    Losses = {1, 2}
    MaxDeaths = 2
    Datasets = {1}
    Vocabularies = {32, 64}
    Scores = {0, 2}
    Spreads = {0}
    Gap = 0
    Gain = 1
    Fit = 2
    Commands = {c1}
    MaxRuns = 3
    MaxReportEdits = 1
    TokenBudget = 4
    TokensPerStep = 2
    MaxTrainings = 2
    MaxSuiteEdits = 1
    Stages = {3, 5}
    ImprovementFrom = 5
    PromptScores = {1, 2}
    MaxBuilds = 2
    MaxSwaps = 1
    MaxStageDeaths = 1
    Qualifications = {q1, q2}
    Policies = {0, 1}
    MaxReproductions = 1
    MaxAge = 0
    MaxPolicyEdits = 0
    PairSets = {p1, p2}
    EmbeddingSteps = 3
    Intervals = {1, 2}
    EmbeddingPatience = 2
    MaxEmbeddingRuns = 3
    Urls = {u1, u2}
    Seeds = {u1}
    Pages = {g1, b1}
    GoodPages = {g1}
    Crawlers = {w1, w2}
    MaxDepth = 1
    MaxDocs = 2
    RetryLimit = 3
    MaxCycles = 2
    MaxCycleFailures = 2
    DedupWorkers = {d1, d2}
    ContentHashes = {e1, e2}
    Structures = {s1}
    Lineages = {}
    Words = {{}, {0}, {0, 2}}
    LSH_BANDS = 2
    LSH_BAND_BITS = 2
    HammingThreshold = 1
    Texts = {t1, t2, t3, t4}
    Crawls = {{t1, t2, t3}, {t2, t4}}
    Patches = {t3}
    PatchReviews = {}
    Families = {{t1, t2}, {t3, t4}}
    NearPairs = {{t1, t3}}
    Unfit = {}
    Protected = {t4}
    LooksProtected = {t4}
    HighValue = {t2, t3}
    MaxDatasetBuilds = 2
    PipelineRuns = {r1, r2}
    NoRun = NoRun
    FilterFiles = {"gated"}
    Desks = {k1}
    People = {a1, a2, a3, a4}
    Boards = {{a1, a2}, {a1, a3}}
    Judges = {a3, a4}
    Misses = {{}, {1}, {2}, {11}}
    Accuracies = {19}
    Kappas = {80}
    Rounds = {o1}
    MaxRosterEdits = 3
    Sources = {l1}
    Contracts = {1, 2}
    EvaluationOnly = {2}
    Clerks = {n1, n2}
    MaxEditions = 2
    MaxSourceEdits = 1
    Asked = {2, 3}
    SaveEvery = 2
    KeptSaves = 2
    KeptTunings = 1
    Extension = 1
    TuningSteps = {3}
    MaxTrained = 3
    MaxLaunched = 3
    MaxMishaps = 1
    Sessions = {{"lifecycle"}, {"stress"}, {"soak"}, {"docker"}, {"worker loss", "probes"}, {"kubernetes"}, {"live"}}
    WorkloadLists <- SomeWorkloads
    EventCount = 3
    BatchSize = 2
    SoakCycles = 5
    Availability = 50
    MaxOutages = 1
    MaxEmitted = 1
    MaxLosses = 1
INVARIANTS
    TrainedInOrder
    
    
    DecidedOnOneMoment
    OneDataset
    CrawlSound
    NoDuplicates
    NoCircle
    
    
    
    
    
    
PROPERTY
    ProgressKept
CHECK_DEADLOCK FALSE

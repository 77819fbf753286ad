SPECIFICATION ServicesSpec
CONSTANTS
  File = {f1, f2}
  Execs = {e1}
  Endpoints = {c1}
  MaxFaults = 1
  MaxRevisions = 1
  MaxTries = 2
  Edits = {{f1}, {f1, f2}}
  Failures = {x1}
  Threshold = 2
  MaxCalls = 1
  Nothing = Nothing
  Talks = {t1}
  MaxRounds = 1
  MaxPosts = 1
  NoEntry = NoEntry
  Ranks = {r0}
  Requests = {q1, q2}
  MaxEvents = 2
  QueueSize = 1
  BatchSize = 2
  MaxFailures = 1
  NoRank = NoRank
  CheckpointSteps = {1}
  Digests = {d1, d2}
  Workspace = {o1, o2}
  MinimumEvaluations = 1
  MaxUploads = 3
  MaxEvaluations = 1
  Chunks = {k1, k2}
  Syncers = {s1, s2}
  MaxIndexRevisions = 2
  MaxRefusals = 1
  JobKeys = {k1, k2}
  JobRequests <- SmallRequests
  RegistryFiles <- SmallFiles
  Terms <- SmallTerms
  Gateways = {g1, g2}
  Admissions = {a1, a2}
  ClusterSize = 3
  NodeGpus = 2
  MaxDeploys = 1
  Characters = {"x", "n"}
  MaxText = 4
  Languages = {"python", "tree", "text"}
  SymbolNames = {"m"}
  MaxSymbols = 2
  ChunkLines = 2
  TokenChars = 1
  ChunkTokens = 2
  OverlapTokens = 1
  MaxCheckOuts = 1
  ChunkIds = {"long", "short"}
  Memories = {"note"}
  CostOf <- SomeCosts
  ContextBudget = 2
  CandidateLimit = 2
  SelectionLimit = 2
  MinTasks = 1
  AllowedMisses = 0
  MaxCommits = 2
  MaxPackEdits = 0
  LineValues = {"a", "b"}
  MaxLines = 3
  MaxNewLines = 2
  MaxTurns = 2
INVARIANTS
  
  PromotedIsJudged
  EventsArrive
  PromotionEarned
  IndexRecovers
  AskedIsTrained
  ChunksCover
  RetrievedTogether
  PatchesLand
CHECK_DEADLOCK FALSE

----------------------------- MODULE CrawlFrontier -----------------------------
(* The crawl: a supervisor launches bounded cycles; each makes a DataEngine over  *)
(* the Postgres frontier and the one output directory, whose workers claim a URL, *)
(* fetch it, write it to the shards, record it, enqueue its links and mark it     *)
(* done.  A worker waits between these steps, and others go on.  A store call     *)
(* may raise, and the process may die.                                            *)
(*                                                                                *)
(* A page is its content; the quality gate accepts some contents.                 *)
EXTENDS Integers, FiniteSets

CONSTANTS
    Urls, Seeds,
    Pages, GoodPages, \* contents, and those DatasetQualityGate accepts
    Crawlers,         \* async workers of an engine
    MaxDepth,         \* config.max_depth
    MaxDocs,          \* config.max_docs of a cycle
    RetryLimit,       \* config.retry_limit
    MaxCycles, MaxCycleFailures  \* config.max_cycles, config.max_failures

ASSUME CrawlAssumption ==
    Seeds \subseteq Urls /\ GoodPages \subseteq Pages /\ {MaxDepth, MaxDocs, RetryLimit} \subseteq Nat

VARIABLES
    frontier,   \* the urls table
    documents,  \* the documents table: by content hash, the URL and the engine that recorded it
    shards,     \* rows of the raw and of the clean shards
    crawler,    \* the async workers of the engine
    engine,     \* the engine in progress, its documents fetched
    supervisor  \* cycles, failures, status

crawlVars == <<frontier, documents, shards, crawler, engine, supervisor>>

NoUrl == "no url"
NoPage == "no page"
Resting == [pc |-> "returned", url |-> NoUrl, page |-> NoPage]
NotSeen == [status |-> "absent", attempts |-> 0, depth |-> 0, due |-> TRUE]

CrawlInit ==
    /\ frontier = [u \in Urls |-> NotSeen]
    /\ documents = <<>>
    /\ shards = [raw |-> {}, clean |-> {}]
    /\ crawler = [w \in Crawlers |-> Resting]
    /\ engine = [up |-> FALSE, fetched |-> 0]
    /\ supervisor = [cycles |-> 0, failures |-> 0, status |-> "running"]

Working(w, place) == engine.up /\ crawler[w].pc = place
Then(w, place) == crawler' = [crawler EXCEPT ![w].pc = place]
CrawledRow(w) == [page |-> crawler[w].page, url |-> crawler[w].url, cycle |-> supervisor.cycles]

--------------------------------------------------------------------------------
(* FrontierStore.seed and enqueue_discovered: INSERT OR IGNORE.                   *)
WithUrls(table, new, depth) ==
    [u \in Urls |-> IF u \in new /\ table[u].status = "absent"
                    THEN [NotSeen EXCEPT !.status = "queued", !.depth = depth] ELSE table[u]]

(* A cycle: ShardedJsonlWriter unlinks the shards that are there, and the run     *)
(* seeds the frontier and starts its workers.                                     *)
Cleared == [raw |-> {}, clean |-> {}]
StartCycle ==
    /\ ~engine.up /\ supervisor.status = "running" /\ supervisor.cycles < MaxCycles
    /\ supervisor' = [supervisor EXCEPT !.cycles = @ + 1]
    /\ engine' = [up |-> TRUE, fetched |-> 0]
    /\ shards' = Cleared
    /\ frontier' = WithUrls(frontier, Seeds, 0)
    /\ crawler' = [w \in Crawlers |-> [Resting EXCEPT !.pc = "ready"]]
    /\ UNCHANGED documents

(* claim, FOR UPDATE SKIP LOCKED, of the lowest priority, which is the depth.     *)
\* Mutant: what a worker holds may be claimed.
NotFinished(u) == frontier[u].status \in {"queued", "in_progress"} /\ frontier[u].due
Claimable(u) == frontier[u].status = "queued" /\ frontier[u].due
Shallowest(u) == Claimable(u) /\ \A v \in Urls : Claimable(v) => frontier[u].depth <= frontier[v].depth

ClaimUrl(w) ==
    /\ Working(w, "ready") /\ engine.fetched < MaxDocs
    /\ \E u \in Urls :
          /\ Shallowest(u)
          /\ frontier' = [frontier EXCEPT ![u].status = "in_progress", ![u].attempts = @ + 1]
          /\ crawler' = [crawler EXCEPT ![w] = [pc |-> "fetch", url |-> u, page |-> NoPage]]
    /\ UNCHANGED <<documents, shards, engine, supervisor>>
WorkerReturns(w) ==
    /\ Working(w, "ready")
    /\ engine.fetched >= MaxDocs \/ \A u \in Urls : ~Claimable(u)
    /\ crawler' = [crawler EXCEPT ![w] = Resting]
    /\ UNCHANGED <<frontier, documents, shards, engine, supervisor>>

(* mark_failed: of the attempts in the row that was claimed, plus one.            *)
AfterFailure(u, limit) ==
    [frontier EXCEPT ![u].status = IF frontier[u].attempts + 1 >= limit THEN "failed" ELSE "queued",
                     ![u].due = FALSE]
RobotsDisallow(w) ==
    /\ Working(w, "fetch")
    /\ frontier' = AfterFailure(crawler[w].url, 0)
    /\ Then(w, "ready")
    /\ UNCHANGED <<documents, shards, engine, supervisor>>
MarkFailed(w) ==
    /\ Working(w, "failed")
    /\ frontier' = AfterFailure(crawler[w].url, RetryLimit)
    /\ Then(w, "ready")
    /\ UNCHANGED <<documents, shards, engine, supervisor>>

(* The answer: not text, which is done; or a page, written at once to the raw     *)
(* shard and, when the gate accepts it, to the clean one.                         *)
FetchedNow == engine' = [engine EXCEPT !.fetched = @ + 1]
NotText(w) ==
    /\ Working(w, "fetch")
    /\ frontier' = [frontier EXCEPT ![crawler[w].url].status = "done"]
    /\ FetchedNow /\ Then(w, "ready")
    /\ UNCHANGED <<documents, shards, supervisor>>
Written(row) ==
    [raw   |-> shards.raw \union {row},
     clean |-> shards.clean \union (IF row.page \in GoodPages THEN {row} ELSE {})]
FetchPage(w) ==
    /\ Working(w, "fetch")
    /\ \E p \in Pages :
          /\ crawler' = [crawler EXCEPT ![w].pc = "record", ![w].page = p]
          /\ shards' = Written([page |-> p, url |-> crawler[w].url, cycle |-> supervisor.cycles])
    /\ UNCHANGED <<frontier, documents, engine, supervisor>>

(* record_document: the first URL of a content keeps its row.                     *)
RecordDocument(w) ==
    /\ Working(w, "record")
    /\ documents' = IF crawler[w].page \in DOMAIN documents THEN documents
                    ELSE [p \in DOMAIN documents \union {crawler[w].page} |->
                             IF p = crawler[w].page THEN CrawledRow(w) ELSE documents[p]]
    /\ Then(w, "links")
    /\ UNCHANGED <<frontier, shards, engine, supervisor>>
EnqueueDiscovered(w) ==
    LET depth == frontier[crawler[w].url].depth IN
    /\ Working(w, "links")
    /\ \E links \in SUBSET Urls :
          frontier' = IF depth >= MaxDepth THEN frontier ELSE WithUrls(frontier, links, depth + 1)
    /\ Then(w, "finish")
    /\ UNCHANGED <<documents, shards, engine, supervisor>>
MarkDone(w) ==
    /\ Working(w, "finish")
    /\ frontier' = [frontier EXCEPT ![crawler[w].url].status = "done"]
    /\ FetchedNow /\ Then(w, "ready")
    /\ UNCHANGED <<documents, shards, supervisor>>
StepRaises(w) ==
    /\ \E place \in {"fetch", "record", "links", "finish"} : Working(w, place)
    /\ Then(w, "failed")
    /\ UNCHANGED <<frontier, documents, shards, engine, supervisor>>

(* A URL that failed is due again.                                                *)
BecomesDue(u) ==
    /\ ~frontier[u].due
    /\ frontier' = [frontier EXCEPT ![u].due = TRUE]
    /\ UNCHANGED <<documents, shards, crawler, engine, supervisor>>

(* run_supervisor: it ends after a cycle that fetched nothing or too many that    *)
(* failed; a mark_failed that raises fails the cycle, and a process that dies is  *)
(* started again.                                                                 *)
CycleEnds ==
    /\ engine.up /\ \A w \in Crawlers : crawler[w].pc = "returned"
    /\ engine' = [engine EXCEPT !.up = FALSE]
    /\ supervisor' = [supervisor EXCEPT !.status =
                         IF engine.fetched = 0 \/ supervisor.cycles = MaxCycles THEN "complete" ELSE @]
    /\ UNCHANGED <<frontier, documents, shards, crawler>>
CycleFails ==
    /\ engine.up
    /\ engine' = [engine EXCEPT !.up = FALSE]
    /\ crawler' = [w \in Crawlers |-> Resting]
    /\ supervisor' = [supervisor EXCEPT !.failures = @ + 1,
                         !.status = IF supervisor.failures + 1 >= MaxCycleFailures THEN "failed" ELSE @]
    /\ UNCHANGED <<frontier, documents, shards>>

CrawlNext ==
    \/ StartCycle \/ CycleEnds \/ CycleFails
    \/ \E u \in Urls : BecomesDue(u)
    \/ \E w \in Crawlers :
          \/ ClaimUrl(w) \/ WorkerReturns(w) \/ RobotsDisallow(w) \/ MarkFailed(w) \/ NotText(w) \/ FetchPage(w)
          \/ RecordDocument(w) \/ EnqueueDiscovered(w) \/ MarkDone(w) \/ StepRaises(w)

CrawlSpec == CrawlInit /\ [][CrawlNext]_crawlVars

--------------------------------------------------------------------------------
(* Types of the tables: depths stay within the limit, and documents are of pages. *)
CrawlTypeOK ==
    /\ \A u \in Urls : /\ frontier[u].status \in {"absent", "queued", "in_progress", "done", "failed"}
                       /\ frontier[u].depth \in 0..MaxDepth
    /\ DOMAIN documents \subseteq Pages
    /\ engine.fetched <= MaxDocs + Cardinality(Crawlers) - 1

(* Two workers never hold one URL, and what a cycle recorded as an accepted       *)
(* document it has in its clean shards, whatever raised between the two.          *)
Holds(w) == crawler[w].pc \notin {"ready", "returned"}
CrawlSound ==
    /\ \A v, w \in Crawlers : Holds(v) /\ Holds(w) /\ v # w => crawler[v].url # crawler[w].url
    /\ \A p \in DOMAIN documents \cap GoodPages :
          documents[p].cycle = supervisor.cycles => documents[p] \in shards.clean

(* An accepted document that the frontier records is in a clean shard.            *)
CleanIsKept == \A p \in DOMAIN documents \cap GoodPages : documents[p] \in shards.clean
================================================================================

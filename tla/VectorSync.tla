------------------------------ MODULE VectorSync ------------------------------
(* The vectors of a project in Qdrant: a sync lists the chunks of the active      *)
(* revision, scrolls the points there are, embeds and upserts what changed,       *)
(* rebinds what is reused to the revision and deletes the rest, in calls of its   *)
(* own; other syncs (the API's, a worker whose lease ran out) and commits of      *)
(* revisions come between, and any call may fail.  A search filters by the        *)
(* revision and reads each hit's chunk from the store.                            *)
(*                                                                                *)
(* Abstracted: one tenant, one project, one collection under the alias; an id     *)
(* holds the hash of its content, so a point of the same id is never changed;     *)
(* every hit of the filter is a result; batches are of one chunk.                 *)
EXTENDS Integers, FiniteSets, Functions

CONSTANTS
    Chunks,       \* ids of chunks
    Syncers,      \* syncs that may run together
    MaxIndexRevisions, \* bound: revisions committed
    MaxRefusals   \* bound: failures of the embedding provider or of Qdrant

VARIABLES
    activeRevision,  \* the active revision, 0 for none
    chunkRows, \* the chunks of the active revision, in the store
    points,    \* the points of the project: the revision each is bound to
    sync,      \* the syncs
    synced,    \* history: the syncs of the active revision that ran alone and ended
    search,    \* a search
    circuit,   \* failures in a row of the embedding provider, as its client counts
    refusals

syncVars == <<activeRevision, chunkRows, points, sync, synced, search, circuit, refusals>>

NoSync   == [pc |-> "idle", revision |-> 0, chunks |-> {}, existing |-> {}, todo |-> {}, reused |-> {}, alone |-> TRUE]
NoSearch == [pc |-> "idle", revision |-> 0, hits |-> {}, results |-> {}]

SyncInit ==
    /\ activeRevision = 0 /\ chunkRows = {}
    /\ points = [c \in {} |-> 0]
    /\ sync = [s \in Syncers |-> NoSync]
    /\ synced = FALSE
    /\ search = NoSearch
    /\ circuit = 0 /\ refusals = 0

SyncsRunning == {s \in Syncers : sync[s].pc # "idle"}
SyncAt(s, pc) == sync[s].pc = pc
SetSync(s, new) == sync' = [sync EXCEPT ![s] = new]
SyncFault == refusals < MaxRefusals /\ refusals' = refusals + 1

(* commit_index_revision replaces the chunks and the active revision at once.     *)
CommitRevision ==
    /\ activeRevision < MaxIndexRevisions
    /\ \E new \in SUBSET Chunks \ {{}} : chunkRows' = new
    /\ activeRevision' = activeRevision + 1
    /\ sync' = [s \in Syncers |-> [sync[s] EXCEPT !.alone = SyncAt(s, "idle")]]
    /\ synced' = FALSE
    /\ UNCHANGED <<points, search, circuit, refusals>>

--------------------------------------------------------------------------------
(* sync_project.  The revision asked for must be the active one, and every chunk  *)
(* listed must be of it.                                                          *)
BeginSync(s) ==
    /\ SyncAt(s, "idle") /\ activeRevision > 0
    /\ sync' = [t \in Syncers |->
                   IF t = s THEN [NoSync EXCEPT !.pc = "list", !.revision = activeRevision, !.alone = SyncsRunning = {}]
                   ELSE [sync[t] EXCEPT !.alone = @ /\ SyncAt(t, "idle")]]
    /\ synced' = FALSE
    /\ UNCHANGED <<activeRevision, chunkRows, points, search, circuit, refusals>>

ListChunks(s) ==
    /\ SyncAt(s, "list")
    /\ IF sync[s].revision = activeRevision
       THEN SetSync(s, [sync[s] EXCEPT !.pc = "scroll", !.chunks = chunkRows])
       ELSE SetSync(s, NoSync)
    /\ UNCHANGED <<activeRevision, chunkRows, points, synced, search, circuit, refusals>>

Scroll(s) ==
    LET me == sync[s] IN
    /\ SyncAt(s, "scroll")
    /\ SetSync(s, [me EXCEPT !.pc = "upsert", !.existing = DOMAIN points,
                          !.todo = me.chunks \ DOMAIN points, !.reused = me.chunks \cap DOMAIN points])
    /\ UNCHANGED <<activeRevision, chunkRows, points, synced, search, circuit, refusals>>

(* A point is bound to the revision of its sync.                                  *)
WithPoints(S, r) == [c \in DOMAIN points \union S |-> IF c \in S THEN r ELSE points[c]]

(* embed_many: three failures in a row open the circuit for 30 s, in which        *)
(* embed_many refuses at once.                                                    *)
Embeds == circuit < 3
Upsert(s, c) ==
    LET me == sync[s] IN
    /\ SyncAt(s, "upsert") /\ c \in me.todo /\ Embeds
    /\ points' = WithPoints({c}, me.revision)
    /\ SetSync(s, [me EXCEPT !.todo = @ \ {c}])
    /\ circuit' = 0
    /\ UNCHANGED <<activeRevision, chunkRows, synced, search, refusals>>

\* Mutant: reused points keep their revision.
NoRebinding(me) == {}
Rebound(me) == me.reused
Rebind(s) ==
    LET me == sync[s] IN
    /\ SyncAt(s, "upsert") /\ me.todo = {}
    /\ points' = WithPoints(Rebound(me) \cap DOMAIN points, me.revision)
    /\ SetSync(s, [me EXCEPT !.pc = "delete"])
    /\ UNCHANGED <<activeRevision, chunkRows, synced, search, circuit, refusals>>

StalePoints(me) == me.existing \ me.chunks
DeleteStale(s) ==
    LET me == sync[s] IN
    /\ SyncAt(s, "delete")
    /\ points' = Restrict(points, DOMAIN points \ StalePoints(me))
    /\ synced' = (me.alone /\ me.revision = activeRevision)
    /\ SetSync(s, NoSync)
    /\ UNCHANGED <<activeRevision, chunkRows, search, circuit, refusals>>

(* A call of the embedding provider or of Qdrant fails, and the sync with it.     *)
SyncRefused(s) ==
    /\ sync[s].pc \notin {"idle", "list"} /\ SyncFault
    /\ SetSync(s, NoSync)
    /\ circuit' \in {circuit, IF circuit < 3 THEN circuit + 1 ELSE circuit}
    /\ UNCHANGED <<activeRevision, chunkRows, points, synced, search>>
CircuitCloses ==
    /\ circuit = 3 /\ circuit' = 2
    /\ UNCHANGED <<activeRevision, chunkRows, points, sync, synced, search, refusals>>

--------------------------------------------------------------------------------
(* search: the active revision is read, the points bound to it are the hits, and  *)
(* a hit counts if the store has its chunk, in that revision.                     *)
BeginSearch ==
    /\ search.pc = "idle" /\ activeRevision > 0
    /\ search' = [NoSearch EXCEPT !.pc = "query", !.revision = activeRevision]
    /\ UNCHANGED <<activeRevision, chunkRows, points, sync, synced, circuit, refusals>>

Query ==
    /\ search.pc = "query" /\ Embeds
    /\ search' = [search EXCEPT !.pc = "read", !.hits = {c \in DOMAIN points : points[c] = search.revision}]
    /\ UNCHANGED <<activeRevision, chunkRows, points, sync, synced, circuit, refusals>>

Confirms(c) == c \in chunkRows /\ activeRevision = search.revision
ReadHit ==
    /\ search.pc = "read"
    /\ \E c \in search.hits :
          search' = [search EXCEPT !.hits = @ \ {c},
                                   !.results = IF Confirms(c) THEN @ \union {<<c, activeRevision>>} ELSE @]
    /\ UNCHANGED <<activeRevision, chunkRows, points, sync, synced, circuit, refusals>>

EndSearch ==
    /\ search.pc = "read" /\ search.hits = {}
    /\ search' = NoSearch
    /\ UNCHANGED <<activeRevision, chunkRows, points, sync, synced, circuit, refusals>>

SyncNext ==
    \/ CommitRevision
    \/ \E s \in Syncers : \/ BeginSync(s) \/ ListChunks(s) \/ Scroll(s) \/ Rebind(s) \/ DeleteStale(s)
                          \/ SyncRefused(s) \/ \E c \in Chunks : Upsert(s, c)
    \/ CircuitCloses
    \/ BeginSearch \/ Query \/ ReadHit \/ EndSearch
SyncSpec == SyncInit /\ [][SyncNext]_syncVars

--------------------------------------------------------------------------------
(* Types of the points, the syncs and the search.                                 *)
SyncTypeOK ==
    /\ DOMAIN points \subseteq Chunks /\ \A c \in DOMAIN points : points[c] \in 1..activeRevision
    /\ \A s \in Syncers : sync[s].chunks \subseteq Chunks /\ sync[s].revision <= activeRevision
    /\ circuit \in 0..3

(* Whatever earlier syncs left behind when they failed half-way, were overtaken   *)
(* by a commit or ran into one another, one undisturbed sync makes the index      *)
(* exactly the active revision; and a search, even one that a commit overtakes,   *)
(* gives chunks of the revision it asked for and of no other.                     *)
IndexRecovers ==
    /\ synced => points = [c \in chunkRows |-> activeRevision]
    /\ \A hit \in search.results : hit[2] = search.revision
================================================================================

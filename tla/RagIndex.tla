------------------------------ MODULE RagIndex ------------------------------
(***************************************************************************)
(* Durable repository indexing: rag_index_jobs, rag_index_revisions,       *)
(* projects and rag_outbox_events as LocalStore and PostgresRAGStore       *)
(* update them, the project lock of RedisRAGControl, and the workers that  *)
(* run RAGIndexCoordinator.                                                *)
(*                                                                         *)
(* A step is one transaction, one Redis command, or one read that a later  *)
(* step relies on.  The n-th claim of a job builds at most one index       *)
(* revision, so revisions are named <<job, n>>.                            *)
(***************************************************************************)
EXTENDS Integers, FiniteSets

CONSTANTS
    Jobs,           \* index jobs (one per idempotency key)
    Projects,
    ProjectOf,      \* ProjectOf[j]: the project job j indexes
    Workers,
    MaxAttempts,    \* max_attempts of a job
    MaxDeliveries,  \* max_attempts of an outbox event
    Redis,          \* whether a Redis lock is configured
    Expiry,         \* which leases may run out: "orphaned", "any"
    LockExpiry,     \* which locks may run out: "orphaned", "any"
    MaxEdits,       \* bound on the edits of a repository
    MaxCrashes,     \* bound on the crashes of worker processes
    NoOne,          \* a NULL owner
    Gone,           \* the identity of a worker process that died
    NoRev           \* no index revision

Rev == Jobs \X (1..MaxAttempts)
Owner == Workers \union {Gone, NoOne}

ASSUME RagAssumption ==
    /\ ProjectOf \in [Jobs -> Projects]
    /\ MaxAttempts \in Nat \ {0}
    /\ MaxDeliveries \in Nat \ {0}
    /\ MaxEdits \in Nat
    /\ MaxCrashes \in Nat
    /\ Redis \in BOOLEAN
    /\ Expiry \in {"orphaned", "any"}
    /\ LockExpiry \in {"orphaned", "any"}
    /\ Gone \notin Workers
    /\ NoOne \notin Workers \union {Gone}
    /\ NoRev \notin Rev
    /\ NoOne \notin (Workers \union {Gone}) \X Jobs

JobStatus == {"none", "queued", "running", "succeeded", "cancelled", "dead_letter"}
JobTerminal == {"succeeded", "cancelled", "dead_letter"}
RevStatus == {"none", "building", "committed", "superseded", "failed"}
EventStatus == {"none", "pending", "delivering", "delivered", "dead_letter"}
PCs == {"seekJob", "lock", "refused", "snapshot", "begin", "build", "commit", "failRev",
        "complete", "failJob", "unlock", "unlockExit",
        "seekEvent", "sync", "completeEvent", "failEvent"}

VARIABLES
    jstatus, jattempt, jowner, jstale, jcancel,  \* rag_index_jobs (jstale: lease over)
    jrev,                                        \* revision_id of a succeeded job
    rstatus, rsource,                            \* rag_index_revisions
    active, istatus,                             \* projects: active_index_revision, index_status
    chunks,                                      \* revision of the project's chunk rows
    estatus, eattempt, eowner, estale,           \* rag_outbox_events, one per revision
    lock,                                        \* Redis project locks
    source,                                      \* version of a project's repository
    pc, on, perm, seen,                          \* workers
    crashes

jobRow == <<jstatus, jattempt, jowner, jstale>>
jobs == <<jobRow, jcancel, jrev>>
index == <<rstatus, rsource, active, istatus, chunks>>
events == <<estatus, eattempt, eowner, estale>>
local == <<on, perm, seen>>
env == <<source, crashes>>
vars == <<jstatus, jattempt, jowner, jstale, jcancel, jrev, rstatus, rsource, active, istatus,
          chunks, estatus, eattempt, eowner, estale, lock, source, pc, on, perm, seen, crashes>>

Init ==
    /\ jstatus = [j \in Jobs |-> "none"]
    /\ jattempt = [j \in Jobs |-> 0]
    /\ jowner = [j \in Jobs |-> NoOne]
    /\ jstale = [j \in Jobs |-> FALSE]
    /\ jcancel = [j \in Jobs |-> FALSE]
    /\ jrev = [j \in Jobs |-> NoRev]
    /\ rstatus = [r \in Rev |-> "none"]
    /\ rsource = [r \in Rev |-> 0]
    /\ active = [p \in Projects |-> NoRev]
    /\ istatus = [p \in Projects |-> "idle"]
    /\ chunks = [p \in Projects |-> NoRev]
    /\ estatus = [r \in Rev |-> "none"]
    /\ eattempt = [r \in Rev |-> 0]
    /\ eowner = [r \in Rev |-> NoOne]
    /\ estale = [r \in Rev |-> FALSE]
    /\ lock = [p \in Projects |-> NoOne]
    /\ source = [p \in Projects |-> 1]
    /\ pc = [w \in Workers |-> "seekJob"]
    /\ on = [w \in Workers |-> NoRev]
    /\ perm = [w \in Workers |-> FALSE]
    /\ seen = [w \in Workers |-> 0]
    /\ crashes = 0

Goto(w, label) == pc' = [pc EXCEPT ![w] = label]

(* The job, the project and the lock owner string of the revision a worker *)
(* is working on.                                                          *)
JobOf(r) == r[1]
ProjOf(r) == ProjectOf[r[1]]
LockName(w) == <<w, JobOf(on[w])>>

-----------------------------------------------------------------------------
(* Callers of the API *)

(* create_index_job; a repeated idempotency key returns the existing row. *)
Submit(j) ==
    /\ jstatus[j] = "none"
    /\ jstatus' = [jstatus EXCEPT ![j] = "queued"]
    /\ UNCHANGED <<jattempt, jowner, jstale, jcancel, jrev, index, events, lock, pc, local, env>>

(* request_index_job_cancel: a queued job ends at once, a running one is   *)
(* only marked.                                                            *)
Cancel(j) ==
    /\ jstatus[j] \in {"queued", "running"} /\ ~jcancel[j]
    /\ jcancel' = [jcancel EXCEPT ![j] = TRUE]
    /\ jstatus' = [jstatus EXCEPT ![j] = IF @ = "queued" THEN "cancelled" ELSE @]
    /\ UNCHANGED <<jattempt, jowner, jstale, jrev, index, events, lock, pc, local, env>>

Edit(p) ==
    /\ source[p] <= MaxEdits
    /\ source' = [source EXCEPT ![p] = @ + 1]
    /\ UNCHANGED <<jobs, index, events, lock, pc, local, crashes>>

-----------------------------------------------------------------------------
(* Job queue *)

Claimable(j) ==
    /\ jstatus[j] = "queued" \/ (jstatus[j] = "running" /\ jstale[j])
    /\ ~jcancel[j]
    /\ jattempt[j] < MaxAttempts

ClaimJob(w, j) ==
    /\ pc[w] = "seekJob" /\ Claimable(j)
    /\ jstatus' = [jstatus EXCEPT ![j] = "running"]
    /\ jattempt' = [jattempt EXCEPT ![j] = @ + 1]
    /\ jowner' = [jowner EXCEPT ![j] = w]
    /\ jstale' = [jstale EXCEPT ![j] = FALSE]
    /\ on' = [on EXCEPT ![w] = <<j, jattempt[j] + 1>>]
    /\ Goto(w, "lock")
    /\ UNCHANGED <<jcancel, jrev, index, events, lock, perm, seen, env>>

NoJob(w) ==
    /\ pc[w] = "seekJob" /\ \A j \in Jobs : ~Claimable(j)
    /\ Goto(w, "seekEvent")
    /\ UNCHANGED <<jobs, index, events, lock, local, env>>

Holds(w, j) == jstatus[j] = "running" /\ jowner[j] = w

(* One beat of _heartbeat, which runs from the lock to the end of the      *)
(* job; once it failed it stays off.                                       *)
Heartbeat(w) ==
    /\ on[w] # NoRev
    /\ pc[w] \in {"snapshot", "begin", "build", "commit", "failRev", "complete", "failJob"}
    /\ Holds(w, JobOf(on[w])) /\ ~jcancel[JobOf(on[w])]
    /\ jstale[JobOf(on[w])]
    /\ jstale' = [jstale EXCEPT ![JobOf(on[w])] = FALSE]
    /\ UNCHANGED <<jstatus, jattempt, jowner, jcancel, jrev, index, events, lock, pc, local, env>>

(* Where a worker that lost its lease goes: out of the process, which is   *)
(* restarted; the finally clause of an execution releases the lock first.  *)
WayOut(w) == IF pc[w] = "refused" THEN "seekJob" ELSE "unlockExit"

CanCompleteAnyone(w, j) == jstatus[j] = "running" /\ ~jcancel[j]

CanComplete(w, j) == Holds(w, j) /\ ~jcancel[j]

Complete(w) ==
    /\ pc[w] = "complete"
    /\ LET j == JobOf(on[w]) IN
         IF CanComplete(w, j)
         THEN /\ jstatus' = [jstatus EXCEPT ![j] = "succeeded"]
              /\ jrev' = [jrev EXCEPT ![j] = on[w]]
              /\ jowner' = [jowner EXCEPT ![j] = NoOne]
              /\ jstale' = [jstale EXCEPT ![j] = FALSE]
              /\ Goto(w, "unlock")
         ELSE Goto(w, "failJob") /\ UNCHANGED <<jstatus, jrev, jowner, jstale>>
    /\ UNCHANGED <<jattempt, jcancel, index, events, lock, local, env>>

Outcome(j, permanent) ==
    IF jcancel[j] THEN "cancelled"
    ELSE IF permanent \/ jattempt[j] >= MaxAttempts THEN "dead_letter" ELSE "queued"

(* fail_index_job by a refused or a failed execution.  If the lease was    *)
(* lost it raises, and the exception ends the worker process, after the    *)
(* finally clause has released the lock.                                   *)
FailJob(w) ==
    /\ pc[w] \in {"refused", "failJob"}
    /\ LET j == JobOf(on[w])
           refused == pc[w] = "refused"
       IN  IF Holds(w, j)
           THEN /\ jstatus' = [jstatus EXCEPT ![j] = Outcome(j, perm[w])]
                /\ jowner' = [jowner EXCEPT ![j] = NoOne]
                /\ jstale' = [jstale EXCEPT ![j] = FALSE]
                /\ Goto(w, IF refused THEN "seekEvent" ELSE "unlock")
           ELSE /\ UNCHANGED <<jstatus, jowner, jstale>>
                /\ Goto(w, WayOut(w))
    /\ on' = IF pc'[w] \in {"seekJob", "seekEvent"} THEN [on EXCEPT ![w] = NoRev] ELSE on
    /\ perm' = [perm EXCEPT ![w] = FALSE]
    /\ UNCHANGED <<jattempt, jcancel, jrev, index, events, lock, seen, env>>

-----------------------------------------------------------------------------
(* Project lock *)

(* Mutant: SET without NX. *)
LockFreeAlways(p) == TRUE

LockFree(p) == ~Redis \/ lock[p] = NoOne

Lock(w) ==
    /\ pc[w] = "lock"
    /\ LET p == ProjOf(on[w]) IN
         IF LockFree(p)
         THEN /\ lock' = IF Redis THEN [lock EXCEPT ![p] = LockName(w)] ELSE lock
              /\ Goto(w, "snapshot")
         ELSE Goto(w, "refused") /\ UNCHANGED lock
    /\ UNCHANGED <<jobs, index, events, local, env>>

(* The Lua script deletes the lock only if it still carries this owner. *)
Unlock(w) ==
    /\ pc[w] \in {"unlock", "unlockExit"}
    /\ LET p == ProjOf(on[w]) IN
         lock' = IF lock[p] = LockName(w) THEN [lock EXCEPT ![p] = NoOne] ELSE lock
    /\ on' = [on EXCEPT ![w] = NoRev]
    /\ Goto(w, IF pc[w] = "unlock" THEN "seekEvent" ELSE "seekJob")
    /\ UNCHANGED <<jobs, index, events, perm, seen, env>>

-----------------------------------------------------------------------------
(* index_project *)

(* Everything before begin_index_revision: the repository is read, or one  *)
(* of the checks raises (permanently for a missing directory or a bad      *)
(* argument).                                                              *)
Snapshot(w) ==
    /\ pc[w] = "snapshot"
    /\ seen' = [seen EXCEPT ![w] = source[ProjOf(on[w])]]
    /\ Goto(w, "begin")
    /\ UNCHANGED <<jobs, index, events, lock, on, perm, env>>

SnapshotFails(w) ==
    /\ pc[w] = "snapshot"
    /\ \E permanent \in BOOLEAN : perm' = [perm EXCEPT ![w] = permanent]
    /\ Goto(w, "failJob")
    /\ UNCHANGED <<jobs, index, events, lock, on, seen, env>>

MayBegin(p) == \A r \in Rev : ProjOf(r) = p => rstatus[r] # "building"

Begin(w) ==
    /\ pc[w] = "begin"
    /\ LET p == ProjOf(on[w]) IN
         IF MayBegin(p)
         THEN /\ rstatus' = [rstatus EXCEPT ![on[w]] = "building"]
              /\ rsource' = [rsource EXCEPT ![on[w]] = seen[w]]
              /\ istatus' = [istatus EXCEPT ![p] = "indexing"]
              /\ Goto(w, "build")
         ELSE Goto(w, "failJob") /\ UNCHANGED <<rstatus, rsource, istatus>>
    /\ seen' = [seen EXCEPT ![w] = 0]
    /\ UNCHANGED <<jobs, active, chunks, events, lock, on, perm, env>>

(* The files are chunked under repeated cancellation checks; the last one  *)
(* is right before the commit.                                             *)

Stops(w) == jcancel[JobOf(on[w])]

Build(w) ==
    /\ pc[w] = "build"
    /\ Goto(w, IF Stops(w) THEN "failRev" ELSE "commit")
    /\ UNCHANGED <<jobs, index, events, lock, local, env>>

BuildFails(w) ==
    /\ pc[w] = "build"
    /\ \E permanent \in BOOLEAN : perm' = [perm EXCEPT ![w] = permanent]
    /\ Goto(w, "failRev")
    /\ UNCHANGED <<jobs, index, events, lock, on, seen, env>>

(* Mutants: the previous generation keeps its status; the committed one is *)
(* not announced to the vector index.                                      *)
CommittedBeside(r) == [rstatus EXCEPT ![r] = "committed"]
AnnouncedNever(r) == estatus

Committed(r) ==
    [q \in Rev |-> IF q = r THEN "committed"
                   ELSE IF ProjOf(q) = ProjOf(r) /\ rstatus[q] = "committed"
                   THEN "superseded" ELSE rstatus[q]]

Announced(r) == [estatus EXCEPT ![r] = "pending"]

(* commit_index_revision: rows, revision, project and outbox event in one  *)
(* transaction.                                                            *)
Commit(w) ==
    /\ pc[w] = "commit"
    /\ LET r == on[w] IN
         IF rstatus[r] = "building"
         THEN /\ rstatus' = Committed(r)
              /\ active' = [active EXCEPT ![ProjOf(r)] = r]
              /\ istatus' = [istatus EXCEPT ![ProjOf(r)] = "ready"]
              /\ chunks' = [chunks EXCEPT ![ProjOf(r)] = r]
              /\ estatus' = Announced(r)
              /\ Goto(w, "complete")
         ELSE Goto(w, "failRev") /\ UNCHANGED <<rstatus, active, istatus, chunks, estatus>>
    /\ UNCHANGED <<jobs, rsource, eattempt, eowner, estale, lock, local, env>>

FailRev(w) ==
    /\ pc[w] = "failRev"
    /\ LET r == on[w] IN
         IF rstatus[r] = "building"
         THEN /\ rstatus' = [rstatus EXCEPT ![r] = "failed"]
              /\ istatus' = [istatus EXCEPT ![ProjOf(r)] = "failed"]
         ELSE UNCHANGED <<rstatus, istatus>>
    /\ Goto(w, "failJob")
    /\ UNCHANGED <<jobs, rsource, active, chunks, events, lock, local, env>>

-----------------------------------------------------------------------------
(* Vector outbox *)

Deliverable(r) ==
    /\ estatus[r] = "pending" \/ (estatus[r] = "delivering" /\ estale[r])
    /\ eattempt[r] < MaxDeliveries

ClaimEvent(w, r) ==
    /\ pc[w] = "seekEvent" /\ Deliverable(r)
    /\ estatus' = [estatus EXCEPT ![r] = "delivering"]
    /\ eattempt' = [eattempt EXCEPT ![r] = @ + 1]
    /\ eowner' = [eowner EXCEPT ![r] = w]
    /\ estale' = [estale EXCEPT ![r] = FALSE]
    /\ on' = [on EXCEPT ![w] = r]
    /\ Goto(w, "sync")
    /\ UNCHANGED <<jobs, index, lock, perm, seen, env>>

NoEvent(w) ==
    /\ pc[w] = "seekEvent" /\ \A r \in Rev : ~Deliverable(r)
    /\ Goto(w, "seekJob")
    /\ UNCHANGED <<jobs, index, events, lock, local, env>>

(* sync_project refuses a revision that is no longer the active one. *)

Syncable(r) == active[ProjOf(r)] = r /\ chunks[ProjOf(r)] = r

Sync(w) ==
    /\ pc[w] = "sync" /\ Syncable(on[w])
    /\ Goto(w, "completeEvent")
    /\ UNCHANGED <<jobs, index, events, lock, local, env>>

SyncFails(w) ==
    /\ pc[w] = "sync"
    /\ Goto(w, "failEvent")
    /\ UNCHANGED <<jobs, index, events, lock, local, env>>

HoldsEvent(w, r) == estatus[r] = "delivering" /\ eowner[r] = w

CompleteEvent(w) ==
    /\ pc[w] = "completeEvent"
    /\ LET r == on[w] IN
         IF HoldsEvent(w, r)
         THEN /\ estatus' = [estatus EXCEPT ![r] = "delivered"]
              /\ eowner' = [eowner EXCEPT ![r] = NoOne]
              /\ estale' = [estale EXCEPT ![r] = FALSE]
              /\ on' = [on EXCEPT ![w] = NoRev]
              /\ Goto(w, "seekJob")
         ELSE Goto(w, "failEvent") /\ UNCHANGED <<estatus, eowner, estale, on>>
    /\ UNCHANGED <<jobs, index, eattempt, lock, perm, seen, env>>

(* fail_rag_outbox asks for the owner only; if another worker has the      *)
(* event it raises, and the worker process ends.                           *)

OwnsEvent(w, r) == eowner[r] = w

FailEvent(w) ==
    /\ pc[w] = "failEvent"
    /\ LET r == on[w] IN
         IF OwnsEvent(w, r)
         THEN /\ estatus' = [estatus EXCEPT ![r] =
                     IF eattempt[r] >= MaxDeliveries THEN "dead_letter" ELSE "pending"]
              /\ eowner' = [eowner EXCEPT ![r] = NoOne]
              /\ estale' = [estale EXCEPT ![r] = FALSE]
         ELSE UNCHANGED <<estatus, eowner, estale>>
    /\ on' = [on EXCEPT ![w] = NoRev]
    /\ Goto(w, "seekJob")
    /\ UNCHANGED <<jobs, index, eattempt, lock, perm, seen, env>>

-----------------------------------------------------------------------------
(* Time and failures *)

(* An orphaned lease or lock is one whose owner died. *)
JobLeaseExpires(j) ==
    /\ jstatus[j] = "running" /\ ~jstale[j]
    /\ Expiry = "any" \/ jowner[j] = Gone
    /\ jstale' = [jstale EXCEPT ![j] = TRUE]
    /\ UNCHANGED <<jstatus, jattempt, jowner, jcancel, jrev, index, events, lock, pc, local, env>>

EventLeaseExpires(r) ==
    /\ estatus[r] = "delivering" /\ ~estale[r]
    /\ Expiry = "any" \/ eowner[r] = Gone
    /\ estale' = [estale EXCEPT ![r] = TRUE]
    /\ UNCHANGED <<jobs, index, estatus, eattempt, eowner, lock, pc, local, env>>

LockExpires(p) ==
    /\ lock[p] # NoOne
    /\ LockExpiry = "any" \/ lock[p][1] = Gone
    /\ lock' = [lock EXCEPT ![p] = NoOne]
    /\ UNCHANGED <<jobs, index, events, pc, local, env>>

(* A worker process dies (killed, or by an exception of Redis or of the    *)
(* database) and is restarted under a new worker id: nothing it held is    *)
(* released.                                                               *)
Crash(w) ==
    /\ on[w] # NoRev /\ crashes < MaxCrashes
    /\ crashes' = crashes + 1
    /\ jowner' = [j \in Jobs |-> IF jowner[j] = w THEN Gone ELSE jowner[j]]
    /\ eowner' = [r \in Rev |-> IF eowner[r] = w THEN Gone ELSE eowner[r]]
    /\ lock' = [p \in Projects |-> IF lock[p] # NoOne /\ lock[p][1] = w
                                   THEN <<Gone, lock[p][2]>> ELSE lock[p]]
    /\ on' = [on EXCEPT ![w] = NoRev]
    /\ perm' = [perm EXCEPT ![w] = FALSE]
    /\ seen' = [seen EXCEPT ![w] = 0]
    /\ Goto(w, "seekJob")
    /\ UNCHANGED <<jstatus, jattempt, jstale, jcancel, jrev, index, estatus, eattempt, estale,
                   source>>

-----------------------------------------------------------------------------
JobStep(w) ==
    \/ \E j \in Jobs : ClaimJob(w, j)
    \/ NoJob(w) \/ Lock(w) \/ Snapshot(w) \/ SnapshotFails(w) \/ Begin(w)
    \/ Build(w) \/ BuildFails(w) \/ Commit(w) \/ FailRev(w)
    \/ Complete(w) \/ FailJob(w) \/ Unlock(w)

EventStep(w) ==
    \/ \E r \in Rev : ClaimEvent(w, r)
    \/ NoEvent(w) \/ Sync(w) \/ SyncFails(w) \/ CompleteEvent(w) \/ FailEvent(w)

WorkerStep(w) == JobStep(w) \/ EventStep(w)

Time ==
    \/ \E j \in Jobs : JobLeaseExpires(j)
    \/ \E r \in Rev : EventLeaseExpires(r)
    \/ \E p \in Projects : LockExpires(p)

Next ==
    \/ \E j \in Jobs : Submit(j) \/ Cancel(j)
    \/ \E p \in Projects : Edit(p)
    \/ \E w \in Workers : WorkerStep(w) \/ Heartbeat(w) \/ Crash(w)
    \/ Time

Spec == Init /\ [][Next]_vars

(* Worker processes keep running (they are restarted when they exit), and  *)
(* the leases and locks of dead ones run out.                              *)
FairSpec ==
    /\ Spec
    /\ \A w \in Workers : WF_vars(WorkerStep(w))
    /\ \A j \in Jobs : WF_vars(JobLeaseExpires(j) /\ jowner[j] = Gone)
    /\ \A r \in Rev : WF_vars(EventLeaseExpires(r) /\ eowner[r] = Gone)

=============================================================================

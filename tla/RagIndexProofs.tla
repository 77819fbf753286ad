--------------------------- MODULE RagIndexProofs ---------------------------
(***************************************************************************)
(* Proofs about RagIndex.  First, what each step may change (Frames, Moves *)
(* and one lemma per kind of row), then the invariants that the attempts,  *)
(* the leases, the locks and the generations rest on, each proved          *)
(* inductive with the ones before it, and the properties they imply.       *)
(***************************************************************************)
EXTENDS RagIndexProperties, TLAPS

Busy == Indexing \union Syncing
Idle == {"seekJob", "seekEvent"}
Early == {"lock", "refused", "snapshot", "begin"}
Building == {"build", "commit", "failRev"}
Inside == {"snapshot", "begin", "build", "commit"}

(* A worker that is not looking for work is at work on some revision. *)
Working == \A w \in Workers : pc[w] \in Busy => on[w] \in Rev
TypeInv == TypeOK /\ Working

(* A revision is named by the job and the attempt that build it. *)
LEMMA RevFacts ==
    ASSUME NEW r \in Rev
    PROVE  /\ JobOf(r) \in Jobs /\ ProjOf(r) \in Projects
           /\ r[1] = JobOf(r) /\ r[2] \in 1..MaxAttempts /\ r = <<r[1], r[2]>>
BY RagAssumption DEF Rev, JobOf, ProjOf

(* A claim names a revision, with one attempt more than the job has had. *)
LEMMA ClaimFacts ==
    ASSUME TypeInv, NEW w \in Workers, NEW j \in Jobs, ClaimJob(w, j)
    PROVE  /\ <<j, jattempt[j] + 1>> \in Rev
           /\ jattempt[j] \in 0..MaxAttempts /\ jattempt[j] + 1 \in 0..MaxAttempts
           /\ jattempt' = [jattempt EXCEPT ![j] = jattempt[j] + 1]
           /\ JobOf(<<j, jattempt[j] + 1>>) = j /\ <<j, jattempt[j] + 1>>[2] > jattempt[j]
BY RagAssumption DEF ClaimJob, Claimable, TypeInv, TypeOK, JobsOK, Rev, JobOf

-----------------------------------------------------------------------------
(* The actions that write each kind of row *)

JobWrite ==
    \/ \E j \in Jobs : Submit(j) \/ Cancel(j) \/ JobLeaseExpires(j)
    \/ \E w \in Workers : \E j \in Jobs : ClaimJob(w, j)
    \/ \E w \in Workers : Complete(w) \/ FailJob(w) \/ Heartbeat(w) \/ Crash(w)
IndexWrite == \E w \in Workers : Begin(w) \/ Commit(w) \/ FailRev(w)
EventWrite ==
    \/ \E r \in Rev : EventLeaseExpires(r)
    \/ \E w \in Workers : \E r \in Rev : ClaimEvent(w, r)
    \/ \E w \in Workers : Commit(w) \/ CompleteEvent(w) \/ FailEvent(w) \/ Crash(w)
LockWrite ==
    \/ \E p \in Projects : LockExpires(p)
    \/ \E w \in Workers : Lock(w) \/ Unlock(w) \/ Crash(w)

PermWrite == \E w \in Workers : SnapshotFails(w) \/ BuildFails(w) \/ FailJob(w) \/ Crash(w)
SeenWrite == \E w \in Workers : Snapshot(w) \/ Begin(w) \/ Crash(w)

FramedStep ==
    /\ JobWrite \/ UNCHANGED jobs
    /\ IndexWrite \/ UNCHANGED index
    /\ EventWrite \/ UNCHANGED events
    /\ LockWrite \/ UNCHANGED lock
    /\ PermWrite \/ UNCHANGED perm
    /\ SeenWrite \/ UNCHANGED seen
    /\ (\E p \in Projects : Edit(p)) \/ UNCHANGED source
    /\ (\E w \in Workers : Crash(w)) \/ UNCHANGED crashes

(* Everything else leaves those rows alone. *)
LEMMA Frames == [Next]_vars => FramedStep
<1> SUFFICES ASSUME [Next]_vars PROVE FramedStep
  OBVIOUS
<1> USE DEF FramedStep, JobWrite, IndexWrite, EventWrite, LockWrite, PermWrite, SeenWrite,
            jobs, jobRow, index, events, local, env
<1>1. ASSUME NEW j \in Jobs, Submit(j) \/ Cancel(j) \/ JobLeaseExpires(j) PROVE FramedStep
  BY <1>1 DEF Submit, Cancel, JobLeaseExpires
<1>2. ASSUME NEW p \in Projects, Edit(p) \/ LockExpires(p) PROVE FramedStep
  BY <1>2 DEF Edit, LockExpires
<1>3. ASSUME NEW r \in Rev, EventLeaseExpires(r) PROVE FramedStep
  BY <1>3 DEF EventLeaseExpires
<1>4. ASSUME NEW w \in Workers, JobStep(w) PROVE FramedStep
  <2>1. ASSUME NEW j \in Jobs, ClaimJob(w, j) PROVE FramedStep
    BY <2>1 DEF ClaimJob
  <2>2. CASE NoJob(w) \/ Snapshot(w) \/ SnapshotFails(w) \/ Build(w) \/ BuildFails(w)
    BY <2>2 DEF NoJob, Snapshot, SnapshotFails, Build, BuildFails
  <2>3. CASE Lock(w) \/ Unlock(w)
    BY <2>3 DEF Lock, Unlock
  <2>4. CASE Begin(w) \/ Commit(w) \/ FailRev(w)
    BY <2>4 DEF Begin, Commit, FailRev
  <2>5. CASE Complete(w) \/ FailJob(w)
    BY <2>5 DEF Complete, FailJob
  <2> QED
    BY <1>4, <2>1, <2>2, <2>3, <2>4, <2>5 DEF JobStep
<1>5. ASSUME NEW w \in Workers, EventStep(w) PROVE FramedStep
  BY <1>5 DEF EventStep, ClaimEvent, NoEvent, Sync, SyncFails, CompleteEvent, FailEvent
<1>6. ASSUME NEW w \in Workers, Heartbeat(w) \/ Crash(w) PROVE FramedStep
  BY <1>6 DEF Heartbeat, Crash
<1>7. CASE UNCHANGED vars
  BY <1>7 DEF vars
<1> QED
  BY <1>1, <1>2, <1>3, <1>4, <1>5, <1>6, <1>7 DEF Next, WorkerStep, Time

-----------------------------------------------------------------------------
(* How a worker moves: it takes up a job or an event, works on it, gives   *)
(* it up, or goes on looking.  At most one worker moves in a step.         *)

TakesJob(w) == \E j \in Jobs :
    /\ ClaimJob(w, j)
    /\ pc[w] = "seekJob" /\ pc'[w] = "lock" /\ on'[w] = <<j, jattempt[j] + 1>>
TakesEvent(w) ==
    /\ pc[w] = "seekEvent" /\ pc'[w] = "sync" /\ on'[w] \in Rev
Works(w) ==
    /\ on'[w] = on[w]
    /\ pc'[w] \in Early => pc[w] \in Early
    /\ pc'[w] = "complete" => Commit(w) /\ rstatus[on[w]] = "building"
    /\ pc'[w] = "refused" => pc[w] = "lock"
    /\ pc'[w] = "snapshot" => Lock(w)
    /\ pc'[w] = "begin" => Snapshot(w) /\ pc[w] = "snapshot"
    /\ pc'[w] = "build" => Begin(w) /\ pc[w] = "begin"
    /\ pc'[w] = "commit" => pc[w] = "build"
    /\ pc[w] \in Building /\ pc'[w] \notin Building =>
         (Commit(w) \/ FailRev(w)) /\ (Commit(w) => rstatus[on[w]] = "building")
    /\ pc'[w] \in {"unlock", "unlockExit"} =>
         (Complete(w) /\ CanComplete(w, JobOf(on[w]))) \/ FailJob(w)
    /\ \/ pc[w] \in Indexing /\ pc'[w] \in Indexing \ {"lock"}
       \/ pc[w] \in Syncing /\ pc'[w] \in Syncing \ {"sync"}
GivesUp(w) ==
    /\ on'[w] = NoRev /\ pc'[w] \in Idle
    /\ \/ FailJob(w) /\ pc[w] = "refused"
       \/ Unlock(w) \/ FailEvent(w) \/ Crash(w)
       \/ CompleteEvent(w) /\ HoldsEvent(w, on[w])
Seeks(w) == on'[w] = on[w] /\ pc[w] \in Idle /\ pc'[w] \in Idle

MovingStep ==
    /\ pc' \in [Workers -> PCs] /\ on' \in [Workers -> Rev \union {NoRev}]
    /\ \/ \A v \in Workers : pc'[v] = pc[v] /\ on'[v] = on[v]
       \/ \E w \in Workers :
            /\ \A v \in Workers \ {w} : pc'[v] = pc[v] /\ on'[v] = on[v]
            /\ TakesJob(w) \/ TakesEvent(w) \/ Works(w) \/ GivesUp(w) \/ Seeks(w)

LEMMA Moves == TypeInv /\ [Next]_vars => MovingStep
<1> SUFFICES ASSUME TypeInv, [Next]_vars PROVE MovingStep
  OBVIOUS
<1> USE DEF TypeInv, TypeOK, WorkersOK, MovingStep, Goto, local,
            Works, GivesUp, Seeks, Idle, Early, Building, Indexing,
            Syncing, PCs
<1>1. ASSUME NEW j \in Jobs, Submit(j) \/ Cancel(j) \/ JobLeaseExpires(j) PROVE MovingStep
  BY <1>1 DEF Submit, Cancel, JobLeaseExpires
<1>2. ASSUME NEW p \in Projects, Edit(p) \/ LockExpires(p) PROVE MovingStep
  BY <1>2 DEF Edit, LockExpires
<1>3. ASSUME NEW r \in Rev, EventLeaseExpires(r) PROVE MovingStep
  BY <1>3 DEF EventLeaseExpires
<1>4. ASSUME NEW w \in Workers, JobStep(w) PROVE MovingStep
  <2>1. ASSUME NEW j \in Jobs, ClaimJob(w, j) PROVE MovingStep
    BY <2>1, ClaimFacts DEF ClaimJob, TakesJob
  <2>2. CASE NoJob(w) \/ Snapshot(w) \/ SnapshotFails(w) \/ Build(w) \/ BuildFails(w)
    BY <2>2 DEF NoJob, Snapshot, SnapshotFails, Build, BuildFails
  <2>3. CASE Lock(w)
    BY <2>3 DEF Lock
  <2>4. CASE Unlock(w)
    BY <2>4 DEF Unlock
  <2>5. CASE Begin(w) \/ Commit(w) \/ FailRev(w)
    BY <2>5 DEF Begin, Commit, FailRev
  <2>6. CASE Complete(w)
    BY <2>6 DEF Complete
  <2>7. CASE FailJob(w)
    BY <2>7 DEF FailJob, WayOut
  <2> QED
    BY <1>4, <2>1, <2>2, <2>3, <2>4, <2>5, <2>6, <2>7 DEF JobStep
<1>5. ASSUME NEW w \in Workers, EventStep(w) PROVE MovingStep
  <2>1. ASSUME NEW r \in Rev, ClaimEvent(w, r) PROVE MovingStep
    BY <2>1 DEF ClaimEvent, TakesEvent
  <2>2. CASE NoEvent(w) \/ Sync(w) \/ SyncFails(w)
    BY <2>2 DEF NoEvent, Sync, SyncFails
  <2>3. CASE CompleteEvent(w) \/ FailEvent(w)
    BY <2>3 DEF CompleteEvent, FailEvent
  <2> QED
    BY <1>5, <2>1, <2>2, <2>3 DEF EventStep
<1>6. ASSUME NEW w \in Workers, Heartbeat(w) \/ Crash(w) PROVE MovingStep
  BY <1>6 DEF Heartbeat, Crash
<1>7. CASE UNCHANGED vars
  BY <1>7 DEF vars
<1> QED
  BY <1>1, <1>2, <1>3, <1>4, <1>5, <1>6, <1>7 DEF Next, WorkerStep, Time

-----------------------------------------------------------------------------
(* Types *)

(* What a busy worker works on is a revision of a job of a project. *)
LEMMA BusyFacts ==
    ASSUME TypeInv, NEW w \in Workers, pc[w] \in Busy
    PROVE  on[w] \in Rev /\ JobOf(on[w]) \in Jobs /\ ProjOf(on[w]) \in Projects
BY RevFacts DEF TypeInv, Working

(* The rows of the job queue keep their types. *)
LEMMA JobsStep == TypeInv /\ [Next]_vars => JobsOK'
<1> SUFFICES ASSUME TypeInv, [Next]_vars PROVE JobsOK'
  OBVIOUS
<1>0. JobsOK
  BY DEF TypeInv, TypeOK
<1>1. ASSUME NEW j \in Jobs, Submit(j) \/ Cancel(j) \/ JobLeaseExpires(j) PROVE JobsOK'
  BY <1>0, <1>1 DEF Submit, Cancel, JobLeaseExpires, JobsOK, JobStatus
<1>2. ASSUME NEW w \in Workers, NEW j \in Jobs, ClaimJob(w, j) PROVE JobsOK'
  <2>1. jattempt' \in [Jobs -> 0..MaxAttempts]
    BY <1>0, <1>2, ClaimFacts DEF JobsOK
  <2> QED
    BY <1>0, <1>2, <2>1 DEF ClaimJob, JobsOK, JobStatus, Owner
<1>3. ASSUME NEW w \in Workers, Complete(w) PROVE JobsOK'
  BY <1>0, <1>3, BusyFacts DEF Complete, JobsOK, JobStatus, Owner, Busy, Indexing
<1>4. ASSUME NEW w \in Workers, FailJob(w) PROVE JobsOK'
  <2> DEFINE j == JobOf(on[w])
  <2>1. j \in Jobs /\ Outcome(j, perm[w]) \in JobStatus
    BY <1>4, BusyFacts DEF FailJob, Busy, Indexing, Outcome, JobStatus
  <2>2. UNCHANGED <<jattempt, jcancel, jrev>>
    BY <1>4 DEF FailJob
  <2>3. CASE Holds(w, j)
    <3>1. /\ jstatus' = [jstatus EXCEPT ![j] = Outcome(j, perm[w])]
          /\ jowner' = [jowner EXCEPT ![j] = NoOne]
          /\ jstale' = [jstale EXCEPT ![j] = FALSE]
      BY <1>4, <2>3 DEF FailJob
    <3> QED
      BY <1>0, <2>1, <2>2, <3>1 DEF JobsOK, Owner
  <2>4. CASE ~Holds(w, j)
    <3>1. UNCHANGED <<jstatus, jowner, jstale>>
      BY <1>4, <2>4 DEF FailJob
    <3> QED
      BY <1>0, <2>2, <3>1 DEF JobsOK
  <2> QED
    BY <2>3, <2>4
<1>5. ASSUME NEW w \in Workers, Heartbeat(w) \/ Crash(w) PROVE JobsOK'
  BY <1>0, <1>5 DEF Heartbeat, Crash, JobsOK, Owner
<1>6. CASE UNCHANGED jobs
  BY <1>0, <1>6 DEF JobsOK, jobs, jobRow
<1> QED
  BY Frames, <1>1, <1>2, <1>3, <1>4, <1>5, <1>6 DEF FramedStep, JobWrite

(* The rows of projects and revisions keep their types. *)
LEMMA IndexStep == TypeInv /\ [Next]_vars => IndexOK'
<1> SUFFICES ASSUME TypeInv, [Next]_vars PROVE IndexOK'
  OBVIOUS
<1>0. IndexOK /\ WorkersOK
  BY DEF TypeInv, TypeOK
<1>1. ASSUME NEW w \in Workers, Begin(w) PROVE IndexOK'
  BY <1>0, <1>1, BusyFacts DEF Begin, IndexOK, WorkersOK, RevStatus, Busy, Indexing
<1>2. ASSUME NEW w \in Workers, Commit(w) PROVE IndexOK'
  BY <1>0, <1>2, BusyFacts DEF Commit, Committed, IndexOK, RevStatus, Busy, Indexing
<1>3. ASSUME NEW w \in Workers, FailRev(w) PROVE IndexOK'
  BY <1>0, <1>3, BusyFacts DEF FailRev, IndexOK, RevStatus, Busy, Indexing
<1>4. CASE UNCHANGED index
  BY <1>0, <1>4 DEF IndexOK, index
<1> QED
  BY Frames, <1>1, <1>2, <1>3, <1>4 DEF FramedStep, IndexWrite

(* The rows of the outbox keep their types. *)
LEMMA EventsStep == TypeInv /\ [Next]_vars => EventsOK'
<1> SUFFICES ASSUME TypeInv, [Next]_vars PROVE EventsOK'
  OBVIOUS
<1>0. EventsOK
  BY DEF TypeInv, TypeOK
<1>1. ASSUME NEW r \in Rev, EventLeaseExpires(r) PROVE EventsOK'
  BY <1>0, <1>1 DEF EventLeaseExpires, EventsOK
<1>2. ASSUME NEW w \in Workers, NEW r \in Rev, ClaimEvent(w, r) PROVE EventsOK'
  BY <1>0, <1>2 DEF ClaimEvent, EventsOK, EventStatus, Owner
<1>3. ASSUME NEW w \in Workers, Commit(w) PROVE EventsOK'
  BY <1>0, <1>3 DEF Commit, Announced, EventsOK, EventStatus
<1>4. ASSUME NEW w \in Workers, CompleteEvent(w) \/ FailEvent(w) PROVE EventsOK'
  BY <1>0, <1>4 DEF CompleteEvent, FailEvent, EventsOK, EventStatus, Owner
<1>5. ASSUME NEW w \in Workers, Crash(w) PROVE EventsOK'
  BY <1>0, <1>5 DEF Crash, EventsOK, Owner
<1>6. CASE UNCHANGED events
  BY <1>0, <1>6 DEF EventsOK, events
<1> QED
  BY Frames, <1>1, <1>2, <1>3, <1>4, <1>5, <1>6 DEF FramedStep, EventWrite

(* So do the locks. *)
LEMMA LocksStep ==
    TypeInv /\ [Next]_vars
    => lock' \in [Projects -> ((Workers \union {Gone}) \X Jobs) \union {NoOne}]
<1> DEFINE Locks == [Projects -> ((Workers \union {Gone}) \X Jobs) \union {NoOne}]
<1> SUFFICES ASSUME TypeInv, [Next]_vars PROVE lock' \in Locks
  OBVIOUS
<1>0. lock \in Locks
  BY DEF TypeInv, TypeOK, WorkersOK
<1>1. ASSUME NEW p \in Projects, LockExpires(p) PROVE lock' \in Locks
  BY <1>0, <1>1 DEF LockExpires
<1>2. ASSUME NEW w \in Workers, Lock(w) PROVE lock' \in Locks
  BY <1>0, <1>2, BusyFacts DEF Lock, LockName, Busy, Indexing
<1>3. ASSUME NEW w \in Workers, Unlock(w) PROVE lock' \in Locks
  BY <1>0, <1>3 DEF Unlock
<1>4. ASSUME NEW w \in Workers, Crash(w) PROVE lock' \in Locks
  BY <1>0, <1>4 DEF Crash
<1> QED
  BY Frames, <1>0, <1>1, <1>2, <1>3, <1>4 DEF FramedStep, LockWrite

(* Wherever a worker is busy, it has something to work on. *)
LEMMA WorkingStep == TypeInv /\ [Next]_vars => Working'
<1> SUFFICES ASSUME TypeInv, [Next]_vars, NEW v \in Workers, pc'[v] \in Busy
             PROVE  on'[v] \in Rev
  BY DEF Working
<1>0. pc[v] \in Busy => on[v] \in Rev
  BY DEF TypeInv, Working
<1>1. CASE TakesJob(v)
  BY <1>1, ClaimFacts DEF TakesJob
<1> QED
  BY <1>0, <1>1, Moves DEF MovingStep, TakesEvent, Works, GivesUp, Seeks, Busy, Idle,
                           Indexing, Syncing

(* Every step keeps the types. *)
LEMMA TypeStep == TypeInv /\ [Next]_vars => TypeInv'
<1> SUFFICES ASSUME TypeInv, [Next]_vars PROVE TypeInv'
  OBVIOUS
<1>0. /\ WorkersOK
      /\ source \in [Projects -> Nat] /\ crashes \in Nat
  BY DEF TypeInv, TypeOK
<1>1. perm' \in [Workers -> BOOLEAN]
  BY <1>0, Frames DEF FramedStep, PermWrite, SnapshotFails, BuildFails, FailJob, Crash, WorkersOK
<1>2. seen' \in [Workers -> Nat]
  BY <1>0, BusyFacts, Frames
     DEF FramedStep, SeenWrite, Snapshot, Begin, Crash, WorkersOK, Busy, Indexing
<1>3. source' \in [Projects -> Nat] /\ crashes' \in Nat
  BY <1>0, Frames DEF FramedStep, Edit, Crash
<1>4. WorkersOK'
  BY <1>1, <1>2, LocksStep, Moves DEF WorkersOK, MovingStep
<1> QED
  BY <1>3, <1>4, JobsStep, IndexStep, EventsStep, WorkingStep DEF TypeInv, TypeOK

(* The initial state has the types. *)
LEMMA TypeInit == Init => TypeInv
<1> SUFFICES ASSUME Init PROVE TypeInv
  OBVIOUS
<1> USE RagAssumption DEF Init
<1>1. JobsOK
  BY DEF JobsOK, JobStatus, Owner
<1>2. IndexOK
  BY DEF IndexOK, RevStatus
<1>3. EventsOK
  BY DEF EventsOK, EventStatus, Owner
<1>4. WorkersOK
  BY DEF WorkersOK, PCs
<1>5. source \in [Projects -> Nat] /\ crashes \in Nat
  OBVIOUS
<1>6. Working
  BY DEF Working, Busy, Indexing, Syncing
<1> QED
  BY <1>1, <1>2, <1>3, <1>4, <1>5, <1>6 DEF TypeInv, TypeOK

(* In every reachable state the rows, the keys and the workers' variables  *)
(* have the types the code gives them; in particular no job is claimed     *)
(* more than max_attempts times.                                           *)
THEOREM TypeCorrect == Spec => []TypeOK
<1>1. TypeInv => TypeOK
  BY DEF TypeInv
<1> QED
  BY <1>1, TypeInit, TypeStep, PTL DEF Spec

-----------------------------------------------------------------------------
(* Attempts.  Each claim of a job names a revision nobody has named before; *)
(* it stays unbegun until its worker begins it, and a worker that is about  *)
(* to complete has published it.                                            *)

ClaimCounted == \A w \in Workers : pc[w] \in Indexing => on[w][2] <= jattempt[JobOf(on[w])]
ClaimUnique == \A v, w \in Workers :
    v # w /\ pc[v] \in Indexing /\ pc[w] \in Indexing => on[v] # on[w]
Unclaimed == \A r \in Rev : r[2] > jattempt[JobOf(r)] => rstatus[r] = "none"
Unbegun == \A w \in Workers : pc[w] \in Early => rstatus[on[w]] = "none"
Published == \A w \in Workers :
    pc[w] = "complete" => rstatus[on[w]] \in {"committed", "superseded"}
Claims == ClaimCounted /\ ClaimUnique /\ Unclaimed /\ Unbegun /\ Published

(* Attempts are counted up, by claims only. *)
LEMMA AttemptsGrow ==
    ASSUME TypeInv, [Next]_vars, NEW j \in Jobs
    PROVE  /\ jattempt[j] \in Nat /\ jattempt'[j] \in Nat /\ jattempt'[j] >= jattempt[j]
           /\ jattempt'[j] = jattempt[j] \/ \E w \in Workers : ClaimJob(w, j)
<1>0. JobsOK /\ JobsOK'
  BY JobsStep DEF TypeInv, TypeOK
<1>1. jattempt[j] \in Nat /\ jattempt'[j] \in Nat
  BY <1>0, RagAssumption DEF JobsOK
<1>2. ASSUME NEW w \in Workers, NEW k \in Jobs, ClaimJob(w, k)
      PROVE  jattempt'[j] >= jattempt[j] /\ (jattempt'[j] = jattempt[j] \/ k = j)
  <2>1. jattempt' = [jattempt EXCEPT ![k] = jattempt[k] + 1] /\ jattempt[k] \in 0..MaxAttempts
    BY <1>2, ClaimFacts
  <2> QED
    BY <1>0, <1>1, <2>1, RagAssumption DEF JobsOK
<1>3. (\E w \in Workers, k \in Jobs : ClaimJob(w, k)) \/ jattempt' = jattempt
  BY Frames DEF FramedStep, JobWrite, jobs, jobRow, Submit, Cancel, JobLeaseExpires,
                Complete, FailJob, Heartbeat, Crash
<1> QED
  BY <1>1, <1>2, <1>3

(* A worker's claim is counted. *)
LEMMA CountedStep == TypeInv /\ ClaimCounted /\ [Next]_vars => ClaimCounted'
<1> SUFFICES ASSUME TypeInv, ClaimCounted, [Next]_vars, NEW v \in Workers, pc'[v] \in Indexing
             PROVE  on'[v][2] <= jattempt'[JobOf(on'[v])]
  BY DEF ClaimCounted
<1>1. CASE TakesJob(v)
  <2> PICK j \in Jobs : ClaimJob(v, j) /\ on'[v] = <<j, jattempt[j] + 1>>
    BY <1>1 DEF TakesJob
  <2> QED
    BY ClaimFacts DEF TypeInv, TypeOK, JobsOK
<1>2. CASE on'[v] = on[v] /\ pc[v] \in Indexing
  <2>1. on[v][2] \in Nat /\ JobOf(on[v]) \in Jobs
    BY <1>2, BusyFacts, RevFacts, RagAssumption DEF Busy
  <2> QED
    BY <1>2, <2>1, AttemptsGrow DEF ClaimCounted
<1> QED
  BY <1>1, <1>2, Moves DEF MovingStep, TakesEvent, Works, GivesUp, Seeks, Idle,
                           Indexing, Syncing

(* A new claim has a higher attempt than every claim still worked on. *)
LEMMA UniqueStep == TypeInv /\ ClaimCounted /\ ClaimUnique /\ [Next]_vars => ClaimUnique'
<1> SUFFICES ASSUME TypeInv, ClaimCounted, ClaimUnique, [Next]_vars,
                    NEW u \in Workers, NEW v \in Workers,
                    u # v, pc'[u] \in Indexing, pc'[v] \in Indexing
             PROVE  on'[u] # on'[v]
  BY DEF ClaimUnique
<1> DEFINE Stays(w) == on'[w] = on[w] /\ pc[w] \in Indexing
<1>1. ASSUME NEW w \in Workers, NEW x \in Workers, TakesJob(w), Stays(x)
      PROVE  on'[w] # on'[x]
  <2> PICK j \in Jobs : ClaimJob(w, j) /\ on'[w] = <<j, jattempt[j] + 1>>
    BY <1>1 DEF TakesJob
  <2>1. on[x] \in Rev /\ on[x][2] \in Nat /\ JobOf(on[x]) \in Jobs
    BY <1>1, BusyFacts, RevFacts, RagAssumption DEF Busy
  <2>2. on[x][2] <= jattempt[JobOf(on[x])] /\ jattempt[j] \in Nat
    BY <1>1, AttemptsGrow DEF ClaimCounted
  <2>3. on[x] = <<j, jattempt[j] + 1>> => on[x][2] = jattempt[j] + 1 /\ JobOf(on[x]) = j
    BY DEF JobOf
  <2> QED
    BY <1>1, <2>1, <2>2, <2>3
<1>2. ASSUME NEW w \in Workers, pc'[w] \in Indexing PROVE Stays(w) \/ TakesJob(w)
  BY <1>2, Moves DEF MovingStep, TakesEvent, Works, GivesUp, Seeks, Idle, Indexing, Syncing
<1>3. ~(TakesJob(u) /\ TakesJob(v))
  BY Moves DEF MovingStep, TakesJob
<1> QED
  BY <1>1, <1>2, <1>3 DEF ClaimUnique

(* Only claimed revisions are begun. *)
LEMMA UnclaimedStep == TypeInv /\ ClaimCounted /\ Unclaimed /\ [Next]_vars => Unclaimed'
<1> SUFFICES ASSUME TypeInv, ClaimCounted, Unclaimed, [Next]_vars,
                    NEW r \in Rev, r[2] > jattempt'[JobOf(r)]
             PROVE  rstatus'[r] = "none"
  BY DEF Unclaimed
<1>1. r[2] \in Nat /\ JobOf(r) \in Jobs
  BY RevFacts, RagAssumption
<1>2. r[2] > jattempt[JobOf(r)] /\ jattempt[JobOf(r)] \in Nat
  BY <1>1, AttemptsGrow
<1>3. rstatus[r] = "none"
  BY <1>2 DEF Unclaimed
<1>4. ASSUME NEW w \in Workers, Begin(w) PROVE on[w] # r
  BY <1>1, <1>2, <1>4 DEF Begin, ClaimCounted, Indexing
<1> QED
  BY <1>3, <1>4, Frames DEF FramedStep, IndexWrite, Begin, Commit, Committed, FailRev, index,
                            TypeInv, TypeOK, IndexOK

(* Nobody but its claimant begins a revision. *)
LEMMA UnbegunStep ==
    TypeInv /\ ClaimUnique /\ Unclaimed /\ Unbegun /\ [Next]_vars => Unbegun'
<1> SUFFICES ASSUME TypeInv, ClaimUnique, Unclaimed, Unbegun, [Next]_vars,
                    NEW v \in Workers, pc'[v] \in Early
             PROVE  rstatus'[on'[v]] = "none"
  BY DEF Unbegun
<1>1. CASE TakesJob(v)
  <2> PICK j \in Jobs : ClaimJob(v, j) /\ on'[v] = <<j, jattempt[j] + 1>>
    BY <1>1 DEF TakesJob
  <2> QED
    BY ClaimFacts DEF ClaimJob, index, Unclaimed
<1>2. CASE on'[v] = on[v] /\ pc[v] \in Early
  <2>1. on[v] \in Rev /\ rstatus[on[v]] = "none"
    BY <1>2, BusyFacts DEF Unbegun, Busy, Early, Indexing
  <2>2. ASSUME NEW w \in Workers, Begin(w) PROVE on[w] # on[v]
    BY <1>2, <2>2 DEF Begin, ClaimUnique, Early, Indexing, Goto, TypeInv, TypeOK, WorkersOK
  <2> QED
    BY <1>2, <2>1, <2>2, Frames DEF FramedStep, IndexWrite, Begin, Commit, Committed, FailRev,
                                    index, TypeInv, TypeOK, IndexOK
<1> QED
  BY <1>1, <1>2, Moves DEF MovingStep, TakesEvent, Works, GivesUp, Seeks, Idle, Early,
                           Indexing, Syncing

Public(r) == rstatus[r] \in {"committed", "superseded"}

(* A published revision stays published: it is at most superseded. *)
LEMMA PublicStays ==
    ASSUME TypeInv, Unbegun, [Next]_vars, NEW r \in Rev, Public(r)
    PROVE  Public(r)'
<1>1. ASSUME NEW w \in Workers, Begin(w) PROVE on[w] # r
  BY <1>1 DEF Begin, Unbegun, Early, Public
<1> QED
  BY <1>1, Frames DEF FramedStep, IndexWrite, Begin, Commit, Committed, FailRev, index,
                      Public, TypeInv, TypeOK, IndexOK

(* Whoever is about to complete has committed. *)
LEMMA PublishedStep == TypeInv /\ Unbegun /\ Published /\ [Next]_vars => Published'
<1> SUFFICES ASSUME TypeInv, Unbegun, Published, [Next]_vars,
                    NEW v \in Workers, pc'[v] = "complete"
             PROVE  Public(on[v])' /\ on'[v] = on[v]
  BY DEF Published, Public
<1>1. CASE Commit(v) /\ rstatus[on[v]] = "building"
  BY <1>1, BusyFacts DEF Commit, Committed, Public, local, Busy, Indexing,
                         TypeInv, TypeOK, IndexOK
<1>2. CASE pc[v] = "complete" /\ on'[v] = on[v]
  <2>1. on[v] \in Rev /\ Public(on[v])
    BY <1>2, BusyFacts DEF Published, Public, Busy, Indexing
  <2> QED
    BY <1>2, <2>1, PublicStays DEF Public
<1> QED
  BY <1>1, <1>2, Moves DEF MovingStep, TakesJob, TakesEvent, Works, GivesUp, Seeks, Idle

(* The attempts of jobs are told apart throughout. *)
LEMMA ClaimsInvariant == Spec => [](TypeInv /\ Claims)
<1>1. Init => Claims
  BY DEF Init, Claims, ClaimCounted, ClaimUnique, Unclaimed, Unbegun, Published, Early, Indexing
<1>2. TypeInv /\ Claims /\ [Next]_vars => Claims'
  BY CountedStep, UniqueStep, UnclaimedStep, UnbegunStep, PublishedStep DEF Claims
<1> QED
  BY <1>1, <1>2, TypeInit, TypeStep, PTL DEF Spec

-----------------------------------------------------------------------------
(* Leases.  A running job has an owner, and an owner that is alive works   *)
(* on just that claim; so with events, locks and building revisions.       *)

RunningOwned == \A j \in Jobs : jstatus[j] = "running" <=> jowner[j] # NoOne
JobsAttended == \A j \in Jobs : JobAttended(j)
EventsAttended == \A r \in Rev : EventAttended(r)
RevsAttended == \A r \in Rev : RevAttended(r)
LocksAttended == \A p \in Projects : LockAttended(p)

(* An owner is recorded exactly while a job runs. *)
LEMMA RunningStep == TypeInv /\ RunningOwned /\ [Next]_vars => RunningOwned'
<1> SUFFICES ASSUME TypeInv, RunningOwned, [Next]_vars PROVE RunningOwned'
  OBVIOUS
<1>0. JobsOK
  BY DEF TypeInv, TypeOK
<1> USE DEF RunningOwned
<1>1. ASSUME NEW j \in Jobs, Submit(j) \/ Cancel(j) \/ JobLeaseExpires(j) PROVE RunningOwned'
  BY <1>0, <1>1 DEF Submit, Cancel, JobLeaseExpires, JobsOK
<1>2. ASSUME NEW w \in Workers, NEW j \in Jobs, ClaimJob(w, j) PROVE RunningOwned'
  BY <1>0, <1>2, RagAssumption DEF ClaimJob, JobsOK
<1>3. ASSUME NEW w \in Workers, Complete(w) \/ FailJob(w) PROVE RunningOwned'
  <2> DEFINE j == JobOf(on[w])
  <2>1. CASE UNCHANGED <<jstatus, jowner>>
    BY <2>1
  <2>2. CASE \E status \in JobStatus \ {"running"} :
                jstatus' = [jstatus EXCEPT ![j] = status] /\ jowner' = [jowner EXCEPT ![j] = NoOne]
    BY <1>0, <2>2 DEF JobsOK
  <2>3. Outcome(j, perm[w]) \in JobStatus \ {"running"} /\ "succeeded" \in JobStatus \ {"running"}
    BY DEF Outcome, JobStatus
  <2> QED
    BY <1>3, <2>1, <2>2, <2>3 DEF Complete, FailJob
<1>4. ASSUME NEW w \in Workers, Heartbeat(w) \/ Crash(w) PROVE RunningOwned'
  BY <1>0, <1>4, RagAssumption DEF Heartbeat, Crash, JobsOK
<1>5. CASE UNCHANGED jobs
  BY <1>5 DEF jobs, jobRow
<1> QED
  BY Frames, <1>1, <1>2, <1>3, <1>4, <1>5 DEF FramedStep, JobWrite

(* A worker leaves a job it owns only by giving it back. *)
LEMMA JobsAttendedStep ==
    TypeInv /\ RunningOwned /\ JobsAttended /\ [Next]_vars => JobsAttended'
<1> SUFFICES ASSUME TypeInv, RunningOwned, JobsAttended, [Next]_vars,
                    NEW j \in Jobs, NEW w \in Workers, jowner'[j] = w
             PROVE  /\ on'[w] = <<j, jattempt'[j]>>
                    /\ pc'[w] \in Indexing \ {"unlock", "unlockExit"}
  BY DEF JobsAttended, JobAttended
<1>0. JobsOK /\ WorkersOK /\ w # NoOne /\ w # Gone
  BY RagAssumption DEF TypeInv, TypeOK
<1>1. CASE ClaimJob(w, j)
  BY <1>0, <1>1, ClaimFacts DEF ClaimJob, Goto, JobsOK, WorkersOK, Indexing
<1>2. CASE ~ClaimJob(w, j)
  <2>1. jowner[j] = w
    BY <1>0, <1>2, Frames DEF FramedStep, JobWrite, jobs, jobRow, JobsOK, Submit, Cancel,
          JobLeaseExpires, ClaimJob, Complete, FailJob, Heartbeat, Crash
  <2>2. /\ on[w] = <<j, jattempt[j]>> /\ pc[w] \in Indexing \ {"unlock", "unlockExit"}
        /\ Holds(w, j) /\ JobOf(on[w]) = j
    BY <1>0, <2>1 DEF JobsAttended, JobAttended, RunningOwned, Holds, JobOf
  <2>3. ASSUME NEW v \in Workers, ClaimJob(v, j) PROVE FALSE
    BY <1>0, <1>2, <2>3 DEF ClaimJob, JobsOK
  <2>4. jattempt'[j] = jattempt[j]
    BY <2>3, AttemptsGrow
  <2>5. ~(Complete(w) /\ CanComplete(w, j))
    BY <1>0, <2>2 DEF Complete, JobsOK
  <2>6. ~FailJob(w)
    BY <1>0, <2>2 DEF FailJob, JobsOK
  <2>7. ~Crash(w)
    BY <1>0, <2>1 DEF Crash, JobsOK
  <2>8. ~Unlock(w) /\ ~CompleteEvent(w) /\ ~FailEvent(w)
    BY <2>2 DEF Unlock, CompleteEvent, FailEvent, Indexing
  <2>9. on'[w] = on[w] /\ pc'[w] \in Indexing \ {"unlock", "unlockExit"}
    BY <2>2, <2>5, <2>6, <2>7, <2>8, Moves
       DEF MovingStep, TakesJob, TakesEvent, Works, GivesUp, Seeks, Idle, Indexing, Syncing
  <2> QED
    BY <2>2, <2>4, <2>9
<1> QED
  BY <1>1, <1>2

(* A worker leaves an event it owns only by giving it back. *)
LEMMA EventsAttendedStep == TypeInv /\ EventsAttended /\ [Next]_vars => EventsAttended'
<1> SUFFICES ASSUME TypeInv, EventsAttended, [Next]_vars,
                    NEW r \in Rev, NEW w \in Workers, eowner'[r] = w
             PROVE  on'[w] = r /\ pc'[w] \in Syncing
  BY DEF EventsAttended, EventAttended
<1>0. EventsOK /\ WorkersOK /\ w # NoOne /\ w # Gone
  BY RagAssumption DEF TypeInv, TypeOK
<1>1. CASE ClaimEvent(w, r)
  BY <1>0, <1>1 DEF ClaimEvent, Goto, EventsOK, WorkersOK, Syncing
<1>2. CASE ~ClaimEvent(w, r)
  <2>1. eowner[r] = w
    BY <1>0, <1>2, Frames DEF FramedStep, EventWrite, events, EventsOK, EventLeaseExpires,
          ClaimEvent, Commit, CompleteEvent, FailEvent, Crash
  <2>2. on[w] = r /\ pc[w] \in Syncing
    BY <2>1 DEF EventsAttended, EventAttended
  <2>3. ~(CompleteEvent(w) /\ HoldsEvent(w, r)) /\ ~FailEvent(w)
    BY <1>0, <2>1, <2>2 DEF CompleteEvent, FailEvent, OwnsEvent, EventsOK
  <2>4. ~Crash(w)
    BY <1>0, <2>1 DEF Crash, EventsOK
  <2>5. ~Unlock(w) /\ ~FailJob(w)
    BY <2>2 DEF Unlock, FailJob, Syncing
  <2> QED
    BY <2>2, <2>3, <2>4, <2>5, Moves
       DEF MovingStep, TakesJob, TakesEvent, Works, GivesUp, Seeks, Idle, Indexing, Syncing
<1> QED
  BY <1>1, <1>2

(* A generation under construction stays with its builder until it is      *)
(* committed or failed, unless some process has died.                      *)
LEMMA RevsAttendedStep == TypeInv /\ RevsAttended /\ [Next]_vars => RevsAttended'
<1> SUFFICES ASSUME TypeInv, RevsAttended, [Next]_vars,
                    NEW r \in Rev, rstatus'[r] = "building", ~(crashes' > 0)
             PROVE  \E w \in Workers : on'[w] = r /\ pc'[w] \in Building
  BY DEF RevsAttended, RevAttended, Building
<1>0. IndexOK /\ WorkersOK /\ crashes \in Nat
  BY DEF TypeInv, TypeOK
<1>1. ~(crashes > 0) /\ \A w \in Workers : ~Crash(w)
  BY <1>0, Frames DEF FramedStep, Crash
<1>2. CASE rstatus[r] = "building"
  <2> PICK w \in Workers : on[w] = r /\ pc[w] \in Building
    BY <1>1, <1>2 DEF RevsAttended, RevAttended, Building
  <2>1. ~(Commit(w) /\ rstatus[r] = "building") /\ ~FailRev(w)
    BY <1>0 DEF Commit, Committed, FailRev, IndexOK
  <2>2. ~FailJob(w) /\ ~Unlock(w) /\ ~FailEvent(w) /\ ~CompleteEvent(w)
    BY DEF FailJob, Unlock, FailEvent, CompleteEvent, Building
  <2>3. on'[w] = r /\ pc'[w] \in Building
    BY <1>1, <2>1, <2>2, Moves
       DEF MovingStep, TakesJob, TakesEvent, Works, GivesUp, Seeks, Idle, Building
  <2> QED
    BY <2>3
<1>3. CASE rstatus[r] # "building"
  <2> PICK w \in Workers : Begin(w) /\ on[w] = r
    BY <1>0, <1>3, Frames DEF FramedStep, IndexWrite, index, Begin, Commit, Committed, FailRev,
                              IndexOK
  <2> QED
    BY <1>0, <1>3 DEF Begin, Goto, WorkersOK, IndexOK, Building
<1> QED
  BY <1>2, <1>3

(* A worker leaves a project it locked only by way of the unlocking step. *)
LEMMA LocksAttendedStep == TypeInv /\ LocksAttended /\ [Next]_vars => LocksAttended'
<1> SUFFICES ASSUME TypeInv, LocksAttended, [Next]_vars, NEW p \in Projects,
                    lock'[p] # NoOne, NEW w \in Workers, lock'[p][1] = w
             PROVE  /\ on'[w] # NoRev /\ ProjOf(on'[w]) = p /\ lock'[p] = <<w, JobOf(on'[w])>>
                    /\ pc'[w] \in Indexing \ {"lock", "refused"}
  BY LocksStep DEF LocksAttended, LockAttended, LockName
<1>0. WorkersOK /\ w # NoOne /\ w # Gone
  BY RagAssumption DEF TypeInv, TypeOK
<1>1. CASE Lock(w) /\ pc'[w] = "snapshot" /\ ProjOf(on[w]) = p /\ lock'[p] = LockName(w)
  BY <1>0, <1>1, BusyFacts, RagAssumption DEF Lock, LockName, local, Busy, Indexing
<1>2. CASE lock'[p] = lock[p]
  <2>1. /\ on[w] # NoRev /\ ProjOf(on[w]) = p /\ lock[p] = LockName(w)
        /\ pc[w] \in Indexing \ {"lock", "refused"}
    BY <1>0, <1>2 DEF LocksAttended, LockAttended
  <2>2. ~Unlock(w) /\ ~Crash(w)
    <3>1. lock'[p] # NoOne /\ lock'[p][1] # Gone
      BY <1>0
    <3>2. Unlock(w) => lock'[p] = NoOne
      BY <1>0, <2>1 DEF Unlock, WorkersOK
    <3>3. Crash(w) => lock'[p] = <<Gone, lock[p][2]>>
      BY <1>0, <1>2 DEF Crash
    <3> QED
      BY <3>1, <3>2, <3>3
  <2>3. ~FailEvent(w) /\ ~CompleteEvent(w)
    BY <2>1 DEF FailEvent, CompleteEvent, Indexing
  <2>4. on'[w] = on[w] /\ pc'[w] \in Indexing \ {"lock", "refused"}
    BY <2>1, <2>2, <2>3, Moves
       DEF MovingStep, TakesJob, TakesEvent, Works, GivesUp, Seeks, Idle, Indexing, Syncing
  <2> QED
    BY <1>2, <2>1, <2>4 DEF LockName
<1>3. ASSUME NEW v \in Workers, Lock(v), lock'[p] # lock[p]
      PROVE  v = w /\ pc'[w] = "snapshot" /\ ProjOf(on[w]) = p /\ lock'[p] = LockName(w)
  <2>1. lock'[p] = LockName(v) /\ ProjOf(on[v]) = p /\ pc'[v] = "snapshot"
    BY <1>0, <1>3 DEF Lock, Goto, WorkersOK
  <2> QED
    BY <2>1 DEF LockName
<1>4. ASSUME NEW v \in Workers, Unlock(v) \/ Crash(v) PROVE lock'[p] = lock[p]
  <2>1. Unlock(v) => lock'[p] = NoOne \/ lock'[p] = lock[p]
    BY <1>0 DEF Unlock
  <2>2. Crash(v) => lock'[p] = lock[p] \/ lock'[p] = <<Gone, lock[p][2]>>
    BY <1>0 DEF Crash
  <2> QED
    BY <1>0, <1>4, <2>1, <2>2
<1>5. ASSUME NEW q \in Projects, LockExpires(q) PROVE lock'[p] = lock[p]
  BY <1>0, <1>5 DEF LockExpires
<1> QED
  BY <1>1, <1>2, <1>3, <1>4, <1>5, Frames DEF FramedStep, LockWrite

Held == RunningOwned /\ JobsAttended /\ EventsAttended /\ RevsAttended /\ LocksAttended

(* Nothing is held and forgotten. *)
LEMMA HeldInvariant == Spec => [](TypeInv /\ Held)
<1>1. Init => Held
  BY RagAssumption DEF Init, Held, RunningOwned, JobsAttended, EventsAttended, RevsAttended,
     LocksAttended, JobAttended, EventAttended, RevAttended, LockAttended
<1>2. TypeInv /\ Held /\ [Next]_vars => Held'
  BY RunningStep, JobsAttendedStep, EventsAttendedStep, RevsAttendedStep, LocksAttendedStep
     DEF Held
<1> QED
  BY <1>1, <1>2, TypeInit, TypeStep, PTL DEF Spec

(* Every lease, every lock and every generation under construction belongs *)
(* to a worker that is at work on exactly that, or to a process that died. *)
THEOREM NothingForgotten == Spec => []HeldIsAttended
<1>1. Held => HeldIsAttended
  BY DEF Held, HeldIsAttended, RunningOwned, JobsAttended, EventsAttended, RevsAttended,
         LocksAttended
<1> QED
  BY <1>1, HeldInvariant, PTL

-----------------------------------------------------------------------------
(* Results *)

Results == \A j \in Jobs : jstatus[j] = "succeeded" =>
    jrev[j] = <<j, jattempt[j]>> /\ jrev[j] \in Rev /\ Public(jrev[j])

(* A result is the generation of the last claim, and stays published. *)
LEMMA ResultsStep ==
    TypeInv /\ Claims /\ Held /\ Results /\ [Next]_vars => Results'
<1> SUFFICES ASSUME TypeInv, Claims, Held, Results, [Next]_vars,
                    NEW j \in Jobs, jstatus'[j] = "succeeded"
             PROVE  jrev'[j] = <<j, jattempt'[j]>> /\ jrev'[j] \in Rev /\ Public(jrev[j])'
  BY DEF Results, Public
<1>0. JobsOK
  BY DEF TypeInv, TypeOK
<1>1. CASE \E w \in Workers : Complete(w) /\ JobOf(on[w]) = j /\ CanComplete(w, j)
  <2> PICK w \in Workers : Complete(w) /\ JobOf(on[w]) = j /\ CanComplete(w, j)
    BY <1>1
  <2>1. on[w] = <<j, jattempt[j]>> /\ on[w] \in Rev /\ Public(on[w])
    BY BusyFacts DEF Complete, CanComplete, Holds, Held, JobsAttended, JobAttended, Claims,
                     Published, Public, Busy, Indexing
  <2>2. jrev'[j] = on[w] /\ jattempt'[j] = jattempt[j] /\ rstatus' = rstatus
    <3>1. jrev' = [jrev EXCEPT ![j] = on[w]] /\ jattempt' = jattempt /\ rstatus' = rstatus
      BY DEF Complete, index
    <3> QED
      BY <1>0, <3>1 DEF JobsOK
  <2> QED
    BY <2>1, <2>2 DEF Public
<1>2. CASE jstatus[j] = "succeeded" /\ jrev'[j] = jrev[j]
  <2>1. jattempt'[j] = jattempt[j]
    BY <1>0, <1>2, Frames DEF FramedStep, JobWrite, jobs, jobRow, JobsOK, Submit, Cancel,
       JobLeaseExpires, ClaimJob, Claimable, Complete, FailJob, Heartbeat, Crash
  <2>2. jrev[j] = <<j, jattempt[j]>> /\ jrev[j] \in Rev /\ Public(jrev[j])
    BY <1>2 DEF Results
  <2> QED
    BY <1>2, <2>1, <2>2, PublicStays DEF Public, Claims
<1>3. \/ jstatus[j] = "succeeded" /\ jrev'[j] = jrev[j]
      \/ \E w \in Workers : Complete(w) /\ JobOf(on[w]) = j /\ CanComplete(w, j)
  BY <1>0, Frames DEF FramedStep, JobWrite, jobs, jobRow, JobsOK, Submit, Cancel,
     JobLeaseExpires, ClaimJob, Claimable, Complete, FailJob, Outcome, Heartbeat, Crash
<1> QED
  BY <1>1, <1>2, <1>3

(* A succeeded job carries the published generation of its last claim.     *)
THEOREM ResultsAreTrue == Spec => []ResultOfLastClaim
<1>1. Init => Results
  BY DEF Init, Results
<1>2. Results => ResultOfLastClaim
  BY DEF Results, ResultOfLastClaim, Public
<1> QED
  BY <1>1, <1>2, ClaimsInvariant, HeldInvariant, ResultsStep, PTL DEF Spec

-----------------------------------------------------------------------------
(* Cancellation *)

CancelInv == \A j \in Jobs : jcancel[j] => jstatus[j] \notin {"none", "queued", "succeeded"}

(* What a step does to a job that is marked for cancellation. *)
LEMMA CancelStep ==
    ASSUME TypeInv, CancelInv, [Next]_vars, NEW j \in Jobs
    PROVE  /\ jcancel[j] => /\ jattempt'[j] = jattempt[j]
                            /\ jstatus'[j] \notin {"none", "queued", "succeeded"}
           /\ jcancel'[j] => jstatus'[j] \notin {"none", "queued", "succeeded"}
<1>0. JobsOK
  BY DEF TypeInv, TypeOK
<1>1. CASE jcancel[j]
  <2>1. jstatus[j] \notin {"none", "queued", "succeeded"}
    BY <1>1 DEF CancelInv
  <2>2. ASSUME NEW w \in Workers, ClaimJob(w, j) PROVE FALSE
    BY <1>1, <2>2 DEF ClaimJob, Claimable
  <2>3. jattempt'[j] = jattempt[j]
    BY <2>2, AttemptsGrow
  <2>4. jstatus'[j] \notin {"none", "queued", "succeeded"}
    BY <1>0, <1>1, <2>1, Frames DEF FramedStep, JobWrite, jobs, jobRow, JobsOK, Submit, Cancel,
       JobLeaseExpires, ClaimJob, Complete, CanComplete, FailJob, Outcome, Heartbeat, Crash
  <2> QED
    BY <2>3, <2>4
<1>2. CASE ~jcancel[j] /\ jcancel'[j]
  <2>1. Cancel(j)
    BY <1>0, <1>2, Frames DEF FramedStep, JobWrite, jobs, jobRow, JobsOK, Submit, Cancel,
       JobLeaseExpires, ClaimJob, Complete, FailJob, Heartbeat, Crash
  <2> QED
    BY <1>0, <1>2, <2>1 DEF Cancel, JobsOK
<1> QED
  BY <1>1, <1>2

(* An accepted cancellation ends the job: no attempt starts, and it does   *)
(* not succeed any more.                                                   *)
THEOREM CancelledJobsEnd == Spec => CancelledEnds
<1>1. Init => CancelInv
  BY DEF Init, CancelInv
<1>2. TypeInv /\ CancelInv /\ [Next]_vars => CancelInv'
  BY CancelStep DEF CancelInv
<1>3. TypeInv /\ CancelInv /\ [Next]_vars =>
        [\A j \in Jobs : jcancel[j] =>
            jattempt'[j] = jattempt[j] /\ jstatus'[j] \notin {"queued", "succeeded"}]_vars
  BY CancelStep
<1> QED
  BY <1>1, <1>2, <1>3, TypeInit, TypeStep, PTL DEF Spec, CancelledEnds

-----------------------------------------------------------------------------
(* Delivery *)

EventInv == \A r \in Rev :
    /\ eowner[r] # NoOne => estatus[r] = "delivering"
    /\ estatus[r] # "none" => Public(r)

(* An event exists once its generation is published, and has an owner only *)
(* while it is being delivered.                                            *)
LEMMA EventInvStep ==
    TypeInv /\ EventsAttended /\ Unbegun /\ EventInv /\ [Next]_vars => EventInv'
<1> SUFFICES ASSUME TypeInv, EventsAttended, Unbegun, EventInv, [Next]_vars, NEW r \in Rev
             PROVE  /\ eowner'[r] # NoOne => estatus'[r] = "delivering"
                    /\ estatus'[r] # "none" => Public(r)'
  BY DEF EventInv, Public
<1>0. EventsOK /\ IndexOK
  BY DEF TypeInv, TypeOK
<1>1. eowner'[r] # NoOne => estatus'[r] = "delivering"
  BY <1>0, Frames, RagAssumption DEF FramedStep, EventWrite, events, EventInv, EventsOK,
     EventLeaseExpires, ClaimEvent, Commit, Announced, CompleteEvent, FailEvent, Crash, Public
<1>2. CASE estatus[r] # "none"
  BY <1>1, <1>2, PublicStays DEF EventInv
<1>3. CASE estatus[r] = "none" /\ estatus'[r] # "none"
  <2> PICK w \in Workers : Commit(w) /\ on[w] = r /\ rstatus[r] = "building"
    BY <1>0, <1>3, Frames, RagAssumption DEF FramedStep, EventWrite, events, EventInv, EventsOK,
       OwnsEvent, EventLeaseExpires, ClaimEvent, Deliverable, Commit, Announced, CompleteEvent,
       HoldsEvent, FailEvent, Crash
  <2> QED
    BY <1>0, <1>1 DEF Commit, Committed, Public, IndexOK
<1> QED
  BY <1>1, <1>2, <1>3

(* A delivered event has no owner, so that nobody can put it back. *)
LEMMA DeliveredStep ==
    TypeInv /\ EventInv /\ [Next]_vars
    => \A r \in Rev : estatus[r] = "delivered" => estatus'[r] = "delivered"
<1> SUFFICES ASSUME TypeInv, EventInv, [Next]_vars, NEW r \in Rev, estatus[r] = "delivered"
             PROVE  estatus'[r] = "delivered"
  OBVIOUS
<1>0. EventsOK
  BY DEF TypeInv, TypeOK
<1>1. eowner[r] = NoOne /\ rstatus[r] # "building"
  BY DEF EventInv, Public
<1> QED
  BY <1>0, <1>1, Frames, RagAssumption DEF FramedStep, EventWrite, events, EventsOK, OwnsEvent,
     EventLeaseExpires, ClaimEvent, Deliverable, Commit, Announced, CompleteEvent, FailEvent, Crash

(* A delivered event stays delivered. *)
THEOREM DeliveredStays == Spec => DeliveredIsFinal
<1>1. Init => EventInv
  BY DEF Init, EventInv
<1>2. TypeInv /\ EventInv /\ [Next]_vars =>
        [\A r \in Rev : estatus[r] = "delivered" => estatus'[r] = "delivered"]_vars
  BY DeliveredStep
<1>3. Held => EventsAttended
  BY DEF Held
<1>4. Claims => Unbegun
  BY DEF Claims
<1> QED
  BY <1>1, <1>2, <1>3, <1>4, ClaimsInvariant, HeldInvariant, EventInvStep, PTL
     DEF Spec, DeliveredIsFinal

-----------------------------------------------------------------------------
(* Generations *)

BuildingUnique == \A q, r \in Rev :
    ProjOf(q) = ProjOf(r) /\ rstatus[q] = "building" /\ rstatus[r] = "building" => q = r
ActiveCommitted ==
    /\ \A r \in Rev : rstatus[r] = "committed" <=> active[ProjOf(r)] = r
    /\ \A p \in Projects : active[p] # NoRev => ProjOf(active[p]) = p
IndexInv == BuildingUnique /\ StatusTold /\ ActiveCommitted

(* A project builds at most one generation, and exactly the active one is  *)
(* committed.                                                              *)
LEMMA IndexInvStep == TypeInv /\ Unbegun /\ IndexInv /\ [Next]_vars => IndexInv'
<1> SUFFICES ASSUME TypeInv, Unbegun, IndexInv, [Next]_vars PROVE IndexInv'
  OBVIOUS
<1>0. IndexOK /\ NoRev \notin Rev /\ \A r \in Rev : ProjOf(r) \in Projects
  BY RevFacts, RagAssumption DEF TypeInv, TypeOK
<1>1. ASSUME NEW w \in Workers, Begin(w) PROVE IndexInv'
  <2> DEFINE r == on[w]
             p == ProjOf(r)
  <2>1. r \in Rev /\ p \in Projects /\ rstatus[r] = "none"
    BY <1>1, BusyFacts DEF Begin, Unbegun, Early, Busy, Indexing
  <2>2. CASE MayBegin(p)
    <3>1. /\ rstatus' = [rstatus EXCEPT ![r] = "building"]
          /\ istatus' = [istatus EXCEPT ![p] = "indexing"] /\ active' = active
      BY <1>1, <2>2 DEF Begin
    <3>2. BuildingUnique'
      BY <1>0, <2>1, <2>2, <3>1 DEF IndexInv, BuildingUnique, MayBegin, IndexOK
    <3>3. StatusTold'
      BY <1>0, <2>1, <3>1 DEF IndexInv, StatusTold, IndexOK
    <3>4. ActiveCommitted'
      BY <1>0, <2>1, <3>1 DEF IndexInv, ActiveCommitted, IndexOK
    <3> QED
      BY <3>2, <3>3, <3>4 DEF IndexInv
  <2>3. CASE ~MayBegin(p)
    BY <1>1, <2>3 DEF Begin, IndexInv, BuildingUnique, StatusTold, ActiveCommitted
  <2> QED
    BY <2>2, <2>3
<1>2. ASSUME NEW w \in Workers, Commit(w) PROVE IndexInv'
  <2> DEFINE r == on[w]
             p == ProjOf(r)
  <2>1. r \in Rev /\ p \in Projects
    BY <1>2, BusyFacts DEF Commit, Busy, Indexing
  <2>2. CASE rstatus[r] = "building"
    <3>1. /\ rstatus' = Committed(r) /\ active' = [active EXCEPT ![p] = r]
          /\ istatus' = [istatus EXCEPT ![p] = "ready"]
      BY <1>2, <2>2 DEF Commit
    <3>2. \A q \in Rev : rstatus'[q] = "building" <=> q # r /\ rstatus[q] = "building"
      BY <1>0, <3>1 DEF Committed
    <3>3. BuildingUnique'
      BY <3>2 DEF IndexInv, BuildingUnique
    <3>4. StatusTold'
      BY <1>0, <2>1, <2>2, <3>1, <3>2 DEF IndexInv, BuildingUnique, StatusTold, IndexOK
    <3>5. ActiveCommitted'
      BY <1>0, <2>1, <2>2, <3>1 DEF IndexInv, ActiveCommitted, Committed, IndexOK
    <3> QED
      BY <3>3, <3>4, <3>5 DEF IndexInv
  <2>3. CASE rstatus[r] # "building"
    BY <1>2, <2>3 DEF Commit, IndexInv, BuildingUnique, StatusTold, ActiveCommitted
  <2> QED
    BY <2>2, <2>3
<1>3. ASSUME NEW w \in Workers, FailRev(w) PROVE IndexInv'
  <2> DEFINE r == on[w]
             p == ProjOf(r)
  <2>1. r \in Rev /\ p \in Projects
    BY <1>3, BusyFacts DEF FailRev, Busy, Indexing
  <2>2. CASE rstatus[r] = "building"
    <3>1. /\ rstatus' = [rstatus EXCEPT ![r] = "failed"] /\ active' = active
          /\ istatus' = [istatus EXCEPT ![p] = "failed"]
      BY <1>3, <2>2 DEF FailRev
    <3>2. \A q \in Rev : rstatus'[q] = "building" <=> q # r /\ rstatus[q] = "building"
      BY <1>0, <3>1 DEF IndexOK
    <3>3. BuildingUnique'
      BY <3>2 DEF IndexInv, BuildingUnique
    <3>4. StatusTold'
      BY <1>0, <2>1, <2>2, <3>1, <3>2 DEF IndexInv, BuildingUnique, StatusTold, IndexOK
    <3>5. ActiveCommitted'
      BY <1>0, <2>1, <2>2, <3>1 DEF IndexInv, ActiveCommitted, IndexOK
    <3> QED
      BY <3>3, <3>4, <3>5 DEF IndexInv
  <2>3. CASE rstatus[r] # "building"
    BY <1>3, <2>3 DEF FailRev, IndexInv, BuildingUnique, StatusTold, ActiveCommitted
  <2> QED
    BY <2>2, <2>3
<1>4. CASE UNCHANGED index
  BY <1>4 DEF index, IndexInv, BuildingUnique, StatusTold, ActiveCommitted
<1> QED
  BY <1>1, <1>2, <1>3, <1>4, Frames DEF FramedStep, IndexWrite

(* The shape of the generations holds throughout. *)
LEMMA IndexInvariant == Spec => [](TypeInv /\ Claims /\ IndexInv)
<1>1. Init => IndexInv
  BY RevFacts, RagAssumption
     DEF Init, IndexInv, BuildingUnique, StatusTold, ActiveCommitted
<1>2. Claims => Unbegun
  BY DEF Claims
<1> QED
  BY <1>1, <1>2, ClaimsInvariant, IndexInvStep, PTL DEF Spec

(* A project says "indexing" exactly while one of its generations is under *)
(* construction.                                                           *)
THEOREM StatusIsTrue == Spec => []StatusTold
<1>1. IndexInv => StatusTold
  BY DEF IndexInv
<1> QED
  BY <1>1, IndexInvariant, PTL

(* Readers see whole generations, in order, each once: durable indexing    *)
(* implements the abstract sequence of generations.                        *)
THEOREM IndexImplementsGenerations == Spec => ImplementsGenerations
<1>1. Init => Generations!Init
  BY DEF Init, Generations!Init
<1>2. TypeInv /\ Claims /\ IndexInv /\ [Next]_vars
      => [Generations!Next]_(Generations!vars)
  <2> SUFFICES ASSUME TypeInv, Claims, IndexInv, [Next]_vars,
                      ~UNCHANGED <<active, {r \in Rev : rstatus[r] = "superseded"}>>
               PROVE  \E q \in Projects, g \in Rev : Generations!Publish(q, g)
    BY DEF Generations!Next, Generations!vars
  <2>0. IndexOK
    BY DEF TypeInv, TypeOK
  <2>1. PICK w \in Workers : Commit(w) /\ rstatus[on[w]] = "building"
    <3>1. ASSUME NEW w \in Workers, Begin(w)
          PROVE  UNCHANGED <<active, {r \in Rev : rstatus[r] = "superseded"}>>
      BY <2>0, <3>1 DEF Begin, Claims, Unbegun, Early, IndexOK
    <3>2. ASSUME NEW w \in Workers, FailRev(w)
          PROVE  UNCHANGED <<active, {r \in Rev : rstatus[r] = "superseded"}>>
      BY <2>0, <3>2 DEF FailRev, IndexOK
    <3> QED
      BY <3>1, <3>2, Frames DEF FramedStep, IndexWrite, index, Commit
  <2>2. PICK p \in Projects, r \in Rev : p = ProjOf(r) /\ r = on[w]
    BY <2>1, BusyFacts DEF Commit, Busy, Indexing
  <2>3. rstatus' = Committed(r) /\ active' = [active EXCEPT ![p] = r]
    BY <2>1, <2>2 DEF Commit
  <2>4. \A q \in Rev : ProjOf(q) = p /\ rstatus[q] = "committed" <=> active[p] = q
    BY <2>2, RevFacts, RagAssumption DEF IndexInv, ActiveCommitted
  <2>5. {q \in Rev : rstatus'[q] = "superseded"}
        = {q \in Rev : rstatus[q] = "superseded"} \union ({active[p]} \ {NoRev})
    BY <2>0, <2>1, <2>2, <2>3, <2>4, RagAssumption DEF Committed, IndexOK
  <2>6. \A q \in Projects : active[q] # r
    BY <2>1, <2>2, RagAssumption DEF IndexInv, ActiveCommitted
  <2>7. Generations!Publish(p, r)
    BY <2>1, <2>2, <2>3, <2>5, <2>6 DEF Generations!Publish
  <2> QED
    BY <2>7
<1> QED
  BY <1>1, <1>2, IndexInvariant, PTL DEF Spec, ImplementsGenerations, Generations!Spec

-----------------------------------------------------------------------------
(* Freshness.  While locks are only lost by the dead, the holder of a      *)
(* project's lock is alone between reading the repository and committing.  *)

LocksLast == Redis /\ LockExpiry = "orphaned"

Project(w) == ProjOf(on[w])
InsideLocked == \A w \in Workers : pc[w] \in Inside => lock[Project(w)] = LockName(w)

(* The way in, and through. *)
LEMMA MovesInside ==
    ASSUME TypeInv, [Next]_vars, NEW w \in Workers, pc'[w] \in Inside
    PROVE  /\ on'[w] = on[w]
           /\ \/ pc'[w] = pc[w]
              \/ pc'[w] = "snapshot" /\ Lock(w)
              \/ pc'[w] = "begin" /\ pc[w] = "snapshot" /\ Snapshot(w)
              \/ pc'[w] = "build" /\ pc[w] = "begin" /\ Begin(w)
              \/ pc'[w] = "commit" /\ pc[w] = "build"
<1>1. CASE pc'[w] = pc[w] /\ on'[w] = on[w]
  BY <1>1
<1>2. CASE Works(w)
  BY <1>2 DEF Works, Inside
<1> QED
  BY <1>1, <1>2, Moves DEF MovingStep, TakesJob, TakesEvent, GivesUp, Seeks, Idle, Inside

(* Nobody takes the lock away from a worker inside. *)
LEMMA InsideStep == LocksLast /\ TypeInv /\ InsideLocked /\ [Next]_vars => InsideLocked'
<1> SUFFICES ASSUME LocksLast, TypeInv, InsideLocked, [Next]_vars,
                    NEW w \in Workers, pc'[w] \in Inside
             PROVE  lock'[ProjOf(on'[w])] = <<w, JobOf(on'[w])>>
  BY DEF InsideLocked, Project, LockName
<1>0. WorkersOK /\ w # Gone
  BY RagAssumption DEF TypeInv, TypeOK
<1>1. on'[w] = on[w] /\ (pc[w] \in Inside \/ (Lock(w) /\ pc'[w] = "snapshot"))
  BY MovesInside DEF Inside
<1>2. on[w] \in Rev /\ Project(w) \in Projects /\ JobOf(on[w]) \in Jobs
  BY <1>1, BusyFacts DEF Project, Lock, Busy, Indexing, Inside
<1>3. CASE Lock(w) /\ pc'[w] = "snapshot"
  BY <1>0, <1>1, <1>2, <1>3 DEF Lock, LockName, LocksLast, Goto, Project, WorkersOK
<1>4. CASE lock[Project(w)] = LockName(w)
  <2>1. ASSUME NEW v \in Workers, Lock(v) PROVE lock'[Project(w)] = lock[Project(w)]
    <3>1. lock[Project(w)] # NoOne
      BY <1>2, <1>4, RagAssumption DEF LockName
    <3> QED
      BY <1>0, <1>2, <2>1, <3>1 DEF Lock, LockFree, LocksLast, Project, WorkersOK
  <2>2. ASSUME NEW v \in Workers, Unlock(v), v # w PROVE lock'[Project(w)] = lock[Project(w)]
    BY <1>0, <1>2, <1>4, <2>2 DEF Unlock, LockName, Project, WorkersOK
  <2>3. ASSUME NEW v \in Workers, Crash(v), v # w PROVE lock'[Project(w)] = lock[Project(w)]
    BY <1>0, <1>2, <1>4, <2>3 DEF Crash, LockName
  <2>4. ASSUME NEW p \in Projects, LockExpires(p) PROVE lock'[Project(w)] = lock[Project(w)]
    BY <1>0, <1>2, <1>4, <2>4 DEF LockExpires, LocksLast, LockName, WorkersOK
  <2>5. ~Unlock(w) /\ ~Crash(w)
    BY <1>0, <1>1 DEF Unlock, Crash, Goto, Inside, WorkersOK
  <2>6. lock'[Project(w)] = lock[Project(w)]
    BY <2>1, <2>2, <2>3, <2>4, <2>5, Frames DEF FramedStep, LockWrite
  <2> QED
    BY <1>1, <1>4, <2>6 DEF Project, LockName
<1> QED
  BY <1>1, <1>3, <1>4 DEF InsideLocked

(* Two workers are never inside the same project. *)
LEMMA InsideAlone ==
    ASSUME TypeInv, InsideLocked, NEW v \in Workers, NEW w \in Workers,
           pc[v] \in Inside, pc[w] \in Inside, Project(v) = Project(w)
    PROVE  v = w
BY DEF InsideLocked, LockName

Behind(p, version) == active[p] # NoRev => rsource[active[p]] <= version
ProjectsFresh == \A p \in Projects : Behind(p, source[p])
SeenFresh == \A w \in Workers : pc[w] = "begin" =>
    seen[w] <= source[Project(w)] /\ Behind(Project(w), seen[w])
BuiltFresh == \A w \in Workers : pc[w] \in {"build", "commit"} =>
    rsource[on[w]] <= source[Project(w)] /\ Behind(Project(w), rsource[on[w]])
Fresh == ProjectsFresh /\ SeenFresh /\ BuiltFresh

(* Nobody is inside a project while another worker commits or begins there. *)
LEMMA NobodyBeside ==
    ASSUME TypeInv, InsideLocked, NEW v \in Workers, NEW w \in Workers, v # w,
           Begin(v) \/ Commit(v), pc[w] \in Inside
    PROVE  Project(v) # Project(w)
BY InsideAlone DEF Begin, Commit, Inside

(* What the steps do to the versions. *)
LEMMA VersionFacts ==
    ASSUME TypeInv, Unbegun, IndexInv, [Next]_vars
    PROVE  /\ \A p \in Projects : source[p] \in Nat /\ source'[p] \in Nat /\ source'[p] >= source[p]
           /\ \A r \in Rev : rsource[r] \in Nat
           /\ \A r \in Rev : rsource'[r] # rsource[r] => \E v \in Workers : Begin(v) /\ on[v] = r
           /\ \A p \in Projects : active[p] # NoRev =>
                active[p] \in Rev /\ rsource'[active[p]] = rsource[active[p]]
           /\ \A p \in Projects : active'[p] # active[p] =>
                \E v \in Workers : Commit(v) /\ Project(v) = p /\ active'[p] = on[v]
<1>0. IndexOK /\ source \in [Projects -> Nat]
  BY DEF TypeInv, TypeOK
<1>1. \A p \in Projects : source[p] \in Nat /\ source'[p] \in Nat /\ source'[p] >= source[p]
  BY <1>0, Frames DEF FramedStep, Edit
<1>2. \A r \in Rev : rsource'[r] # rsource[r] => \E v \in Workers : Begin(v) /\ on[v] = r
  BY <1>0, Frames DEF FramedStep, IndexWrite, index, Begin, Commit, FailRev, IndexOK
<1>3. \A p \in Projects : active'[p] # active[p] =>
        \E v \in Workers : Commit(v) /\ Project(v) = p /\ active'[p] = on[v]
  BY <1>0, Frames DEF FramedStep, IndexWrite, index, Begin, Commit, FailRev, IndexOK, Project
<1>4. ASSUME NEW p \in Projects, active[p] # NoRev
      PROVE  active[p] \in Rev /\ rsource'[active[p]] = rsource[active[p]]
  <2>1. active[p] \in Rev /\ rstatus[active[p]] = "committed"
    BY <1>0, <1>4 DEF IndexInv, ActiveCommitted, IndexOK
  <2>2. ASSUME NEW v \in Workers, Begin(v) PROVE rstatus[on[v]] = "none"
    BY <2>2 DEF Begin, Unbegun, Early
  <2> QED
    BY <1>2, <2>1, <2>2
<1> QED
  BY <1>0, <1>1, <1>2, <1>3, <1>4 DEF IndexOK

(* The searchable generation and whatever is being built from the current  *)
(* reading of the repository stay in order.                                *)
LEMMA FreshStep ==
    TypeInv /\ Claims /\ IndexInv /\ InsideLocked /\ Fresh /\ [Next]_vars => Fresh'
<1> SUFFICES ASSUME TypeInv, Claims, IndexInv, InsideLocked, Fresh, [Next]_vars
             PROVE  Fresh'
  OBVIOUS
<1>0. WorkersOK /\ IndexOK /\ Unbegun
  BY DEF TypeInv, TypeOK, Claims
<1>1. ASSUME NEW p \in Projects, active'[p] # NoRev
      PROVE  rsource'[active'[p]] <= source'[p]
  <2>1. CASE active'[p] = active[p]
    BY <1>0, <1>1, <2>1, VersionFacts DEF Fresh, ProjectsFresh, Behind
  <2>2. CASE active'[p] # active[p]
    <3> PICK v \in Workers : Commit(v) /\ Project(v) = p /\ active'[p] = on[v]
      BY <1>0, <2>2, VersionFacts
    <3>1. on[v] \in Rev /\ rsource'[on[v]] = rsource[on[v]] /\ rsource[on[v]] <= source[p]
      BY BusyFacts DEF Commit, Fresh, BuiltFresh, Busy, Indexing
    <3> QED
      BY <1>0, <3>1, VersionFacts
  <2> QED
    BY <2>1, <2>2
<1>2. ASSUME NEW w \in Workers, pc[w] \in Inside
      PROVE  \/ Commit(w)
             \/ /\ active'[Project(w)] = active[Project(w)]
                /\ active[Project(w)] # NoRev => rsource'[active[Project(w)]] = rsource[active[Project(w)]]
  <2>1. on[w] \in Rev /\ Project(w) \in Projects
    BY <1>2, BusyFacts DEF Project, Busy, Indexing, Inside
  <2> QED
    BY <1>0, <1>2, <2>1, NobodyBeside, VersionFacts
<1>3. ASSUME NEW w \in Workers, pc'[w] = "begin"
      PROVE  seen'[w] <= source'[Project(w)'] /\ Behind(Project(w), seen[w])'
  <2>1. on'[w] = on[w] /\ on[w] \in Rev /\ Project(w) \in Projects /\ pc[w] \in Inside
    BY <1>3, MovesInside, BusyFacts DEF Project, Busy, Indexing, Inside
  <2>2. ~Commit(w) /\ ~Begin(w)
    BY <1>0, <1>3 DEF Commit, Begin, Goto, WorkersOK
  <2>3. CASE pc[w] = "snapshot" /\ Snapshot(w)
    <3>1. seen'[w] = source[Project(w)] /\ UNCHANGED <<active, rsource, source>>
      BY <1>0, <2>3 DEF Snapshot, Project, WorkersOK, index, env
    <3> QED
      BY <2>1, <3>1, VersionFacts, <1>0 DEF Fresh, ProjectsFresh, Behind, Project
  <2>4. CASE pc[w] = "begin"
    <3>1. seen'[w] = seen[w]
      BY <1>0, <1>3, <2>2, <2>4, Frames
         DEF FramedStep, SeenWrite, Snapshot, Begin, Crash, Goto, WorkersOK
    <3>2. seen[w] \in Nat /\ seen[w] <= source[Project(w)] /\ Behind(Project(w), seen[w])
      BY <1>0, <2>4 DEF Fresh, SeenFresh, WorkersOK
    <3> QED
      BY <1>0, <1>2, <2>1, <2>2, <3>1, <3>2, VersionFacts DEF Behind, Project
  <2> QED
    BY <1>3, <2>3, <2>4, MovesInside DEF Inside
<1>4. ASSUME NEW w \in Workers, pc'[w] \in {"build", "commit"}
      PROVE  rsource'[on'[w]] <= source'[Project(w)'] /\ Behind(Project(w), rsource[on[w]])'
  <2>1. on'[w] = on[w] /\ on[w] \in Rev /\ Project(w) \in Projects /\ pc[w] \in Inside
    BY <1>4, MovesInside, BusyFacts DEF Project, Busy, Indexing, Inside
  <2>2. ~Commit(w)
    BY <1>0, <1>4 DEF Commit, Goto, WorkersOK
  <2>3. CASE pc[w] = "begin" /\ Begin(w) /\ pc'[w] = "build"
    <3>1. rsource'[on[w]] = seen[w] /\ UNCHANGED <<active, source>>
      BY <1>0, <2>1, <2>3 DEF Begin, Goto, WorkersOK, IndexOK, env
    <3>2. seen[w] <= source[Project(w)] /\ Behind(Project(w), seen[w])
      BY <2>3 DEF Fresh, SeenFresh
    <3> QED
      BY <1>0, <2>1, <3>1, <3>2, VersionFacts DEF Behind, Project
  <2>4. CASE pc[w] \in {"build", "commit"}
    <3>1. ASSUME NEW v \in Workers, Begin(v) PROVE on[v] # on[w]
      BY <2>4, <3>1 DEF Begin, Claims, ClaimUnique, Indexing
    <3>2. rsource'[on[w]] = rsource[on[w]] /\ rsource[on[w]] \in Nat
      BY <1>0, <2>1, <3>1, VersionFacts
    <3>3. rsource[on[w]] <= source[Project(w)] /\ Behind(Project(w), rsource[on[w]])
      BY <2>4 DEF Fresh, BuiltFresh
    <3> QED
      BY <1>0, <1>2, <2>1, <2>2, <3>2, <3>3, VersionFacts DEF Behind, Project
  <2> QED
    BY <1>4, <2>3, <2>4, MovesInside DEF Inside
<1> QED
  BY <1>1, <1>3, <1>4 DEF Fresh, ProjectsFresh, SeenFresh, BuiltFresh, Behind

(* While locks are only lost by the dead, the searchable generation never  *)
(* goes back to an older state of the repository.                          *)
THEOREM IndexStaysFresh == ASSUME LocksLast PROVE Spec => FreshIndex
<1>1. Init => InsideLocked /\ Fresh
  BY DEF Init, InsideLocked, Fresh, ProjectsFresh, SeenFresh, BuiltFresh, Behind, Inside
<1>2. TypeInv /\ InsideLocked /\ [Next]_vars => InsideLocked'
  BY InsideStep
<1>3. TypeInv /\ Claims /\ IndexInv /\ Fresh /\ [Next]_vars =>
        [\A p \in Projects : active[p] # NoRev /\ active'[p] # active[p] =>
            rsource'[active'[p]] >= rsource[active[p]]]_vars
  <2> SUFFICES ASSUME TypeInv, Claims, IndexInv, Fresh, [Next]_vars, NEW p \in Projects,
                      active[p] # NoRev, active'[p] # active[p]
               PROVE  rsource'[active'[p]] >= rsource[active[p]]
    OBVIOUS
  <2>1. Unbegun
    BY DEF Claims
  <2> PICK v \in Workers : Commit(v) /\ Project(v) = p /\ active'[p] = on[v]
    BY <2>1, VersionFacts
  <2>2. on[v] \in Rev /\ rsource' = rsource /\ Behind(p, rsource[on[v]])
    BY BusyFacts DEF Commit, Fresh, BuiltFresh, Busy, Indexing
  <2> QED
    BY <2>1, <2>2, VersionFacts DEF Behind
<1> QED
  BY <1>1, <1>2, <1>3, IndexInvariant, FreshStep, PTL DEF Spec, FreshIndex

=============================================================================

------------------------- MODULE RagIndexProperties -------------------------
(* What durable indexing must guarantee, stated of RagIndex. *)
EXTENDS RagIndex

(* Rows, Redis keys and worker variables have the types the code gives     *)
(* them.                                                                   *)
JobsOK ==
    /\ jstatus \in [Jobs -> JobStatus]
    /\ jattempt \in [Jobs -> 0..MaxAttempts]
    /\ jowner \in [Jobs -> Owner]
    /\ jstale \in [Jobs -> BOOLEAN]
    /\ jcancel \in [Jobs -> BOOLEAN]
    /\ jrev \in [Jobs -> Rev \union {NoRev}]
IndexOK ==
    /\ rstatus \in [Rev -> RevStatus]
    /\ rsource \in [Rev -> Nat]
    /\ active \in [Projects -> Rev \union {NoRev}]
    /\ istatus \in [Projects -> {"idle", "indexing", "ready", "failed"}]
    /\ chunks \in [Projects -> Rev \union {NoRev}]
EventsOK ==
    /\ estatus \in [Rev -> EventStatus]
    /\ eattempt \in [Rev -> Nat]
    /\ eowner \in [Rev -> Owner]
    /\ estale \in [Rev -> BOOLEAN]
WorkersOK ==
    /\ lock \in [Projects -> ((Workers \union {Gone}) \X Jobs) \union {NoOne}]
    /\ pc \in [Workers -> PCs]
    /\ on \in [Workers -> Rev \union {NoRev}]
    /\ perm \in [Workers -> BOOLEAN]
    /\ seen \in [Workers -> Nat]
TypeOK ==
    /\ JobsOK /\ IndexOK /\ EventsOK /\ WorkersOK
    /\ source \in [Projects -> Nat]
    /\ crashes \in Nat

Indexing == {"lock", "refused", "snapshot", "begin", "build", "commit", "failRev",
             "complete", "failJob", "unlock", "unlockExit"}
Syncing == {"sync", "completeEvent", "failEvent"}

(* Nothing is held and forgotten: the leases of jobs and events, the locks *)
(* and the building revisions belong to a worker that is at work on        *)
(* exactly that claim and will give them up on its way out, or to a        *)
(* process that died.                                                      *)
JobAttended(j) ==
    LET w == jowner[j] IN
    w \in Workers =>
        on[w] = <<j, jattempt[j]>> /\ pc[w] \in Indexing \ {"unlock", "unlockExit"}
EventAttended(r) ==
    LET w == eowner[r] IN w \in Workers => on[w] = r /\ pc[w] \in Syncing
LockAttended(p) ==
    lock[p] = NoOne \/ lock[p][1] = Gone
    \/ LET w == lock[p][1] IN
         /\ on[w] # NoRev /\ ProjOf(on[w]) = p /\ lock[p] = LockName(w)
         /\ pc[w] \in Indexing \ {"lock", "refused"}
RevAttended(r) ==
    rstatus[r] = "building" =>
        crashes > 0 \/ \E w \in Workers : on[w] = r /\ pc[w] \in {"build", "commit", "failRev"}
HeldIsAttended ==
    /\ \A j \in Jobs : jstatus[j] = "running" <=> jowner[j] # NoOne
    /\ \A j \in Jobs : JobAttended(j)
    /\ \A r \in Rev : EventAttended(r) /\ RevAttended(r)
    /\ \A p \in Projects : LockAttended(p)

(* The result of a succeeded job is the generation its last claimant       *)
(* committed, whoever else still works on the job after losing its lease.  *)
ResultOfLastClaim ==
    \A j \in Jobs : jstatus[j] = "succeeded" =>
        /\ jrev[j] = <<j, jattempt[j]>>
        /\ rstatus[jrev[j]] \in {"committed", "superseded"}

(* projects.index_status tells the truth about the one generation under    *)
(* construction, although two executions of the project may overlap.       *)
StatusTold ==
    \A p \in Projects :
        (istatus[p] = "indexing") <=> \E r \in Rev : ProjOf(r) = p /\ rstatus[r] = "building"

(* Once a cancellation is accepted no attempt starts, and the job neither  *)
(* returns to the queue nor succeeds, even if its generation is committed. *)
CancelledEnds ==
    [][\A j \in Jobs : jcancel[j] =>
        jattempt'[j] = jattempt[j] /\ jstatus'[j] \notin {"queued", "succeeded"}]_vars

(* A delivered event stays delivered: a worker whose delivery lease ran    *)
(* out cannot put it back.                                                 *)
DeliveredIsFinal ==
    [][\A r \in Rev : estatus[r] = "delivered" => estatus'[r] = "delivered"]_vars

(* While locks outlive the executions that hold them, the searchable       *)
(* generation never goes back to an older state of the repository.         *)
FreshIndex ==
    [][\A p \in Projects : active[p] # NoRev /\ active'[p] # active[p] =>
        rsource'[active'[p]] >= rsource[active[p]]]_vars

(* Readers see whole generations, in order, each once.                     *)
Generations == INSTANCE IndexGenerations WITH
    searchable <- active, retired <- {r \in Rev : rstatus[r] = "superseded"},
    Generations <- Rev, None <- NoRev
ImplementsGenerations == Generations!Spec

(* Rows no worker can ever take up again: their process died, and they     *)
(* were on their last attempt or (jobs) marked for cancellation.           *)
StrandedJob(j) ==
    /\ jstatus[j] = "running" /\ jowner[j] = Gone
    /\ jcancel[j] \/ jattempt[j] = MaxAttempts
StrandedEvent(r) ==
    estatus[r] = "delivering" /\ eowner[r] = Gone /\ eattempt[r] = MaxDeliveries

(* Every job ends, whatever fails or crashes, unless a crash strands it.   *)
JobsSettle ==
    \A j \in Jobs : jstatus[j] = "queued" ~> jstatus[j] \in JobTerminal \/ StrandedJob(j)

(* Every generation that becomes searchable is delivered to the vector     *)
(* index or ends in the dead-letter state, unless a crash strands it.      *)
GenerationsAnnounced ==
    \A r \in Rev : rstatus[r] = "committed" ~>
        estatus[r] \in {"delivered", "dead_letter"} \/ StrandedEvent(r)

(* A job asked for leads to an index, and an index to its announcement.    *)
IndexingSettles == JobsSettle /\ GenerationsAnnounced

(* "Migration 0008 makes that lifecycle distributed and recoverable": a    *)
(* generation under construction is committed or failed in the end.        *)
BuildingEnds == \A r \in Rev : rstatus[r] = "building" ~> rstatus[r] # "building"
=============================================================================

---------------------- MODULE TrainingControlProperties ----------------------
(* What the control plane of training jobs guarantees, and what its manual says.   *)
EXTENDS TrainingControl, TLC

-----------------------------------------------------------------------------
SeenRows ==
    [id : Jobs, status : Status \cup {"absent"}, version : Nat, attempt : Nat,
     binding : Nat, noted : BOOLEAN, scheduler : Schedulers]
    \cup {Unread(j) : j \in Jobs} \cup {Unseen}

(* Types: rows, attempts and workloads of a job in step with one another.          *)
TypeOK ==
    /\ \A j \in Jobs :
          /\ job[j] = NoRow \/ job[j].status \in Status
          /\ job[j].scheduler \in Schedulers
          /\ {job[j].attempt, job[j].binding} \subseteq 0 .. Len(attempts[j])
          /\ Len(workload[j]) = Len(attempts[j])
          /\ \A a \in DOMAIN attempts[j] :
                /\ attempts[j][a] \in Status
                /\ workload[j][a] \in {"none", "running", "succeeded", "failed", "cancelled"}
    /\ \A c \in Callers : call[c].seen \in SeenRows
    /\ controller.at \in SeenRows
    /\ controller.todo \subseteq SeenRows
    /\ orphaned \subseteq Jobs

Live(j) == {a \in DOMAIN workload[j] : workload[j][a] = "running"}
Held(j) == controller.at.id = j

-----------------------------------------------------------------------------
(* The controller watches the run it started last: a cluster job it has set going  *)
(* and is not at work on is bound to its current attempt, whatever calls came      *)
(* between submission and binding.  Only the end of the controller's process while *)
(* it holds the job (a crash, or an exception of its handlers) leaves it otherwise.*)
WatchesCurrent ==
    \A j \in Jobs :
        /\ job[j].status \in Following
        /\ job[j].scheduler = "cluster"
        /\ ~Held(j)
        /\ j \notin orphaned
        => job[j].binding = job[j].attempt /\ job[j].attempt # 0

(* One run at a time: automatic retries never start a second workload while one is *)
(* live.  A resume may (the cancelled workload is not stopped), and so may a retry *)
(* after the controller's process ended between submission and binding.            *)
OneLiveRun ==
    \A j \in Jobs \ orphaned : requeued[j] = 0 => Cardinality(Live(j)) <= 1

(* No silent overwrite: who moves or binds a stored row had read its last version. *)
ActedFrom ==
    {call[c].seen : c \in {d \in Callers : call'[d] # call[d]}}
    \cup (IF controller' # controller THEN {controller.at} ELSE {})
NoSilentOverwrite ==
    [][\A j \in Jobs :
          Stored(j) /\ job'[j].version # job[j].version
          => \E row \in ActedFrom : row.id = j /\ row.version = job[j].version]_vars

(* A job that has failed or was cancelled goes back to the queue by a resume, which *)
(* takes a promoted checkpoint, or, failed, by the automatic retry; not by a twin   *)
(* of the request that created it, however late.                                    *)
Resumes(j) == \E c \in Callers : /\ At(c, "resume", "resume") /\ call[c].seen.id = j
                                 /\ call'[c] = NoCall
RequeueNeedsCheckpoint ==
    [][\A j \in Jobs :
          job[j].status \in Terminal /\ job'[j].status = "queued"
          => \/ j \in Released /\ Resumes(j)
             \/ job[j].status = "failed" /\ On("requeue") /\ Held(j)]_vars

(* The job keeps to the state machine of the manual, starts at most one attempt    *)
(* each time it is taken from the queue, and requeues itself within its attempts.  *)
Permits(j) ==
    Cardinality({c \in Callers : At(c, "claim", "attempt") /\ call[c].seen.id = j})
    + (IF On("attempt") /\ Held(j) THEN 1 ELSE 0)

Lifecycle == INSTANCE JobLifecycle WITH
    status  <- [j \in Jobs |-> job[j].status],
    permits <- [j \in Jobs |-> Permits(j)],
    tries   <- [j \in Jobs |-> Len(attempts[j])],
    grants  <- requeued

ImplementsLifecycle == Lifecycle!Spec

-----------------------------------------------------------------------------
(* A queued cluster job comes to an end, unless the controller died holding it, or *)
(* its workload succeeded while the row was in a status from which the state       *)
(* machine has no way to succeeded: the controller then leaves it there for ever.  *)
PassedOver(j) ==
    /\ job[j].status \in {"provisioning", "checkpointing"}
    /\ job[j].binding # 0
    /\ workload[j][job[j].binding] = "succeeded"

JobsSettle ==
    \A j \in Jobs :
        (job[j].status = "queued" /\ job[j].scheduler = "cluster")
        ~> (job[j].status \in Terminal \/ j \in orphaned \/ PassedOver(j))

-----------------------------------------------------------------------------
(* The manual: "Attempt state, start time, and finish time follow the job state."  *)
(* At rest, the current attempt of a job that left the queue has the job's status. *)
AtRest == controller = Resting /\ \A c \in Callers : call[c] = NoCall
AttemptFollowsJob ==
    \A j \in Jobs :
        AtRest /\ crashes = 0 /\ job[j].attempt # 0 /\ job[j].status # "queued"
        => attempts[j][job[j].attempt] = job[j].status

-----------------------------------------------------------------------------
(* Calls are interchangeable, for the runs that look at safety only.               *)
SymmetricCallers == Permutations(Callers)
=============================================================================

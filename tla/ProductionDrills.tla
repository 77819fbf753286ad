---------------------------- MODULE ProductionDrills ----------------------------
(* training_proofs: the drills that a command runs one after the other against     *)
(* live services.  A drill writes marks, restarts what holds them and reads them    *)
(* back; or submits a job, has its worker killed and watches it recover; or keeps   *)
(* probing.  Services go down, come back without what they had not put on disk, and *)
(* the deployed controller reconciles the same jobs.                                *)
(*                                                                                 *)
(* Keys, rows and objects are named by fresh ids, so only the marks of the drill    *)
(* that runs are followed.  Any call of a drill may fail: it then reports that.     *)
EXTENDS Integers, Sequences, FiniteSets

CONSTANTS
    Sessions,        \* what a command may ask for: sets of drills
    WorkloadLists,   \* what --dr-workload may name: sequences of services
    EventCount,      \* --event-count, ordered_event_stress
    BatchSize,       \* 100: events posted together
    SoakCycles,      \* cycles before the deadline of the soak
    Availability,    \* minimum_availability, in percent
    MaxOutages,      \* bound: services that go down
    MaxEmitted,      \* bound: events of a worker
    MaxLosses        \* bound: workers lost by themselves

ASSUME DrillsAssumption ==
    {EventCount, BatchSize, SoakCycles, Availability, MaxOutages, MaxEmitted, MaxLosses} \subseteq Nat

VARIABLES
    session,   \* the command: drills asked for, the one that runs, the results so far
    drill,     \* the locals of the drill that runs
    services,  \* what each service holds, what of it is on disk, whether it is up
    proofJob,  \* the job of the drill: its row, and its worker
    past,      \* history: what happened to the marks, and at the injection
    outages    \* services gone down, workers lost so far

drillVars == <<session, drill, services, proofJob, past, outages>>

DrillOrder == <<"lifecycle", "stress", "soak", "docker", "worker loss", "kubernetes", "live", "probes">>
Services == {"postgres", "redis", "minio", "qdrant"}
MarkKey == 0  \* the row, key, object or point of the drill; the events are 1, 2, ...

NoDrill == [pc |-> "begin", todo |-> <<>>, offset |-> 0, accepted |-> 0, replayed |-> 0, checks |-> 0, failures |-> 0,
            streak |-> 0, worst |-> 0, cycle |-> 0, broken |-> FALSE, status |-> "none", mark |-> 0, injected |-> FALSE]
NoProofJob == [status |-> "none", attempts |-> 0, ingress |-> {}, sequence |-> 0, beats |-> {},
               verified |-> FALSE, worker |-> "none"]
NoPast == [mark |-> [s \in Services |-> "none"], restarted |-> {}, proven |-> {}, dark |-> [s \in Services |-> 0],
           blackout |-> FALSE, killed |-> FALSE, sequence |-> 0, verified |-> FALSE]
Empty == [s \in Services |-> [held |-> {}, kept |-> {}, up |-> TRUE]]

DrillsInit ==
    /\ \E asked \in Sessions, inject \in BOOLEAN :
          /\ inject => "live" \in asked
          /\ session = [left |-> SelectSeq(DrillOrder, LAMBDA d : d \in asked), inject |-> inject,
                        results |-> <<>>, report |-> "none"]
    /\ drill = NoDrill
    /\ services = Empty
    /\ proofJob = NoProofJob
    /\ past = NoPast
    /\ outages = [services |-> 0, workers |-> 0]

(* async_main takes them in this order.                                            *)
Current == IF session.left = <<>> THEN "none" ELSE Head(session.left)
InDrill(name, pc) == drill.pc = pc /\ Current = name
DrillGoes(pc) == drill' = [drill EXCEPT !.pc = pc]
HoldsMark(s, m) == services[s].up /\ m \in services[s].held
MarksWritten(S) == [past EXCEPT !.mark = [s \in Services |-> IF s \in S THEN "written" ELSE @[s]]]
Puts(at, s, m) == [at EXCEPT ![s].held = @ \union {m}]

(* A result: what is reported, and, as history, whether it is so.                  *)
Ends(status, so) ==
    /\ session' = [session EXCEPT !.left = Tail(@),
                                  !.results = Append(@, [drill |-> Current, status |-> status, so |-> so])]
    /\ drill' = NoDrill /\ services' = [s \in Services |-> [services[s] EXCEPT !.held = {}, !.kept = {}]]
    /\ proofJob' = NoProofJob /\ past' = NoPast
DrillJudged(passed, so) == Ends(IF passed THEN "passed" ELSE "failed", so)

(* Any call may raise, or be cut short by a deadline: failed, or, when the message *)
(* names a dependency, blocked.  (A live job is then cancelled if the time was up, *)
(* and otherwise left as it is.)                                                   *)
DrillRaises ==
    /\ Current \in {"lifecycle", "stress", "docker", "worker loss", "kubernetes", "live"}
    /\ \/ Ends("failed", TRUE)
       \/ Current \in {"kubernetes", "live"} /\ Ends("blocked", TRUE)
    /\ UNCHANGED outages

--------------------------------------------------------------------------------
(* The services.  A graceful restart may or may not write what is only in memory.  *)
PutsOnDisk(s) ==
    /\ services[s].kept # services[s].held
    /\ services' = [services EXCEPT ![s].kept = services[s].held]
    /\ UNCHANGED <<session, drill, proofJob, past, outages>>
MarkIn(s) == IF s = "redis" /\ Current = "kubernetes" THEN 1 ELSE MarkKey
AfterRestart(s, restarted) ==
    \E left \in {services[s].held, services[s].kept} :
        /\ services' = [services EXCEPT ![s] = [held |-> left, kept |-> left, up |-> TRUE]]
        /\ past' = [past EXCEPT !.mark[s] = IF @ \in {"none", "lost"} THEN @ ELSE IF MarkIn(s) \notin left THEN "lost"
                                            ELSE IF restarted THEN "survived" ELSE @,
                                !.restarted = IF restarted THEN @ \union {s} ELSE @,
                                !.dark[s] = 0]
GoesDown(s) ==
    /\ services[s].up /\ outages.services < MaxOutages
    /\ services' = [services EXCEPT ![s].up = FALSE]
    /\ outages' = [outages EXCEPT !.services = @ + 1]
    /\ UNCHANGED <<session, drill, proofJob, past>>
ComesBack(s) ==
    /\ ~services[s].up
    /\ AfterRestart(s, FALSE)
    /\ UNCHANGED <<session, drill, proofJob, outages>>

--------------------------------------------------------------------------------
(* The jobs of the drills: created, claimed as a notebook job, given events, of    *)
(* which those not seen before are numbered and published.                         *)
Creating == {"lifecycle", "stress", "worker loss", "kubernetes", "live"}
CreateProofJob ==
    /\ Current \in Creating /\ drill.pc = "begin" /\ services["postgres"].up
    /\ proofJob' = [NoProofJob EXCEPT !.status = "queued"]
    /\ services' = Puts(services, "postgres", MarkKey)
    /\ past' = MarksWritten({"postgres"})
    /\ DrillGoes(IF Current \in {"worker loss", "live"} THEN "watch" ELSE "claim")
    /\ UNCHANGED <<session, outages>>
ClaimProofJob ==
    /\ drill.pc = "claim" /\ HoldsMark("postgres", MarkKey)
    /\ proofJob' = [proofJob EXCEPT !.status = "running", !.attempts = @ + 1]
    /\ DrillGoes("ingest")
    /\ UNCHANGED <<session, services, past, outages>>
Fresh(batch) == batch \ proofJob.ingress
Published(at, n) == [at EXCEPT !["redis"].held = @ \union (proofJob.sequence + 1)..(proofJob.sequence + n)]
Ingested(batch) ==
    /\ HoldsMark("postgres", MarkKey) /\ services["redis"].up
    /\ proofJob' = [proofJob EXCEPT !.ingress = @ \union batch, !.sequence = @ + Cardinality(Fresh(batch))]
    /\ services' = Published(services, Cardinality(Fresh(batch)))

(* infrastructure_lifecycle_proof: an event, the same event again, what the stream *)
(* then has; the job is cancelled and the rows are counted.                        *)
LifecycleIngests ==
    /\ InDrill("lifecycle", "ingest") /\ Ingested({1})
    /\ drill' = [drill EXCEPT !.pc = "replay", !.accepted = Cardinality(Fresh({1}))]
    /\ UNCHANGED <<session, past, outages>>
LifecycleReplays ==
    /\ InDrill("lifecycle", "replay") /\ Ingested({1})
    /\ drill' = [drill EXCEPT !.pc = "cancel", !.replayed = Cardinality(Fresh({1}))]
    /\ UNCHANGED <<session, past, outages>>
LifecycleCancels ==
    /\ InDrill("lifecycle", "cancel") /\ services["redis"].up /\ HoldsMark("postgres", MarkKey)
    /\ drill' = [drill EXCEPT !.pc = "count", !.checks = Cardinality(services["redis"].held)]
    /\ proofJob' = [proofJob EXCEPT !.status = "cancelled"]
    /\ UNCHANGED <<session, services, past, outages>>
LifecycleCounts ==
    /\ InDrill("lifecycle", "count") /\ services["postgres"].up
    /\ LET rows == MarkKey \in services["postgres"].held
           passed == drill.accepted = 1 /\ drill.replayed = 0 /\ drill.checks = 1 /\ rows
       IN  \/ DrillJudged(passed, proofJob.sequence = 1 /\ proofJob.status = "cancelled" /\ past.mark["postgres"] # "lost")
           \/ Ends("failed", TRUE)  \* the object store did not return what was put
    /\ UNCHANGED outages

(* million_event_proof: batches, each accepted whole; then the number of the last  *)
(* event of the job, and what the stream has after the one before it.              *)
StressIngests ==
    LET upTo == IF drill.offset + BatchSize < EventCount THEN drill.offset + BatchSize ELSE EventCount IN
    /\ InDrill("stress", "ingest") /\ drill.offset < EventCount /\ Ingested((drill.offset + 1)..upTo)
    /\ drill' = [drill EXCEPT !.offset = upTo]
    /\ UNCHANGED <<session, past, outages>>
TailOf(held) == {n \in held : n > EventCount - 1}
StressJudges ==
    /\ InDrill("stress", "ingest") /\ drill.offset = EventCount
    /\ HoldsMark("postgres", MarkKey) /\ services["redis"].up
    /\ DrillJudged(proofJob.sequence = EventCount /\ TailOf(services["redis"].held) = {EventCount},
                   proofJob.ingress = 1..EventCount /\ EventCount \in services["redis"].held)
    /\ UNCHANGED outages

--------------------------------------------------------------------------------
(* soak_proof: each cycle asks the three services in turn; the first that does not *)
(* answer ends the cycle as a failure.  It has passed when the time was served,    *)
(* enough cycles succeeded and no two in a row failed.                             *)
SoakOrder == <<"postgres", "redis", "minio">>
SoakServices == {"postgres", "redis", "minio"}
SoakBegins ==
    /\ InDrill("soak", "begin")
    /\ drill' = [drill EXCEPT !.pc = "cycle", !.todo = SoakOrder]
    /\ past' = [past EXCEPT !.dark = [s \in Services |-> IF services[s].up THEN 0 ELSE 1]]
    /\ UNCHANGED <<session, services, proofJob, outages>>
SoakAsks ==
    /\ InDrill("soak", "cycle") /\ drill.todo # <<>>
    /\ drill' = IF services[Head(drill.todo)].up THEN [drill EXCEPT !.todo = Tail(@)]
                ELSE [drill EXCEPT !.todo = <<>>, !.broken = TRUE]
    /\ UNCHANGED <<session, services, proofJob, past, outages>>
SoakCycleEnds(d) ==
    IF d.broken
    THEN [d EXCEPT !.failures = @ + 1, !.streak = @ + 1, !.worst = IF d.streak + 1 > @ THEN d.streak + 1 ELSE @]
    ELSE [d EXCEPT !.checks = @ + 1, !.streak = 0]
(* History: between how many cycles in a row a service was down without a break.    *)
DarkNow == [s \in Services |-> IF services[s].up THEN 0 ELSE past.dark[s] + 1]
SoakSleeps ==
    /\ InDrill("soak", "cycle") /\ drill.todo = <<>> /\ drill.cycle < SoakCycles
    /\ drill' = [SoakCycleEnds(drill) EXCEPT !.cycle = @ + 1, !.broken = FALSE,
                                         !.todo = IF drill.cycle + 1 < SoakCycles THEN SoakOrder ELSE <<>>]
    /\ past' = [past EXCEPT !.dark = DarkNow,
                            !.blackout = @ \/ \E s \in SoakServices : DarkNow[s] > 2]
    /\ UNCHANGED <<session, services, proofJob, outages>>
SoakJudges ==
    /\ InDrill("soak", "cycle") /\ drill.cycle = SoakCycles
    /\ DrillJudged(/\ drill.checks > 0 /\ drill.worst <= 1
                   /\ 100 * drill.checks >= Availability * (drill.checks + drill.failures),
                   ~past.blackout)
    /\ UNCHANGED outages

--------------------------------------------------------------------------------
(* docker_disaster_recovery_proof: the database is dumped and restored; then, one  *)
(* service after the other, a mark is written, the container is restarted and the  *)
(* mark is looked for until a deadline; of Postgres only that it is ready again.   *)
DockerOrder == <<"redis", "minio", "qdrant", "postgres">>
DockerBegins ==
    /\ InDrill("docker", "begin") /\ services["postgres"].up
    /\ drill' = [drill EXCEPT !.pc = "write", !.todo = DockerOrder]
    /\ UNCHANGED <<session, services, proofJob, past, outages>>
DockerWrites ==
    LET s == Head(drill.todo) IN
    /\ InDrill("docker", "write")
    /\ IF s = "postgres" THEN UNCHANGED <<services, past>>
       ELSE services[s].up /\ services' = Puts(services, s, MarkKey) /\ past' = MarksWritten({s})
    /\ DrillGoes("restart")
    /\ UNCHANGED <<session, proofJob, outages>>
DockerRestarts ==
    /\ InDrill("docker", "restart")
    /\ AfterRestart(Head(drill.todo), TRUE)
    /\ DrillGoes("poll")
    /\ UNCHANGED <<session, proofJob, outages>>
Recovered(s) == HoldsMark(s, MarkIn(s))
(* History: the mark that was found had been through the restart.                  *)
Found(s) == [past EXCEPT !.mark[s] = "none", !.proven = IF past.mark[s] = "survived" THEN @ \union {s} ELSE @]
DockerFinds ==
    LET s == Head(drill.todo) IN
    /\ InDrill("docker", "poll") /\ s # "postgres" /\ Recovered(s)
    /\ services' = [services EXCEPT ![s].held = @ \ {MarkKey}]
    /\ past' = Found(s)
    /\ drill' = [drill EXCEPT !.pc = "write", !.todo = Tail(@)]
    /\ UNCHANGED <<session, proofJob, outages>>
DockerJudges ==
    /\ InDrill("docker", "poll") /\ Head(drill.todo) = "postgres" /\ services["postgres"].up
    /\ DrillJudged(TRUE, past.proven = {"redis", "minio", "qdrant"})
    /\ UNCHANGED outages

(* kubernetes_disaster_recovery_proof: a running job, its event and an object; the *)
(* listed workloads restarted in turn; new clients read the three.                 *)
KubernetesIngests ==
    /\ InDrill("kubernetes", "ingest") /\ Ingested({1})
    /\ past' = MarksWritten({"redis"})
    /\ DrillGoes("object")
    /\ UNCHANGED <<session, outages>>
KubernetesStores ==
    /\ InDrill("kubernetes", "object") /\ services["minio"].up
    /\ services' = Puts(services, "minio", MarkKey)
    /\ past' = MarksWritten({"minio"})
    /\ \E workloads \in WorkloadLists : drill' = [drill EXCEPT !.pc = "roll", !.todo = workloads]
    /\ UNCHANGED <<session, proofJob, outages>>
KubernetesRestarts ==
    LET s == Head(drill.todo) IN
    /\ InDrill("kubernetes", "roll") /\ drill.todo # <<>>
    /\ IF s \in Services THEN AfterRestart(s, TRUE) ELSE UNCHANGED <<services, past>>
    /\ drill' = [drill EXCEPT !.todo = Tail(@)]
    /\ UNCHANGED <<session, proofJob, outages>>
KubernetesReads ==
    /\ Current = "kubernetes" /\ drill.todo = <<>> /\ drill.pc \in {"roll", "postgres", "redis"}
    /\ LET s == IF drill.pc = "roll" THEN "postgres" ELSE IF drill.pc = "postgres" THEN "redis" ELSE "minio"
       IN  /\ services[s].up
           /\ drill' = [drill EXCEPT !.pc = s, !.broken = @ \/ ~Recovered(s)]
           /\ past' = Found(s)
    /\ UNCHANGED <<session, services, proofJob, outages>>
Marked == {"postgres", "redis", "minio"}
KubernetesJudges ==
    /\ InDrill("kubernetes", "minio")
    /\ DrillJudged(~drill.broken /\ proofJob.status = "running", Marked \intersect past.restarted \subseteq past.proven)
    /\ UNCHANGED outages

--------------------------------------------------------------------------------
(* The cluster: a worker starts, posts events, commits checkpoints, finishes, is    *)
(* lost, and may be started again by the scheduler.                                *)
Worker(from, to) ==
    /\ proofJob.worker \in from
    /\ proofJob' = [proofJob EXCEPT !.worker = to]
    /\ UNCHANGED <<session, drill, services, past>>
WorkerMoves ==
    \/ Worker({"pending"}, "running") /\ UNCHANGED outages
    \/ Worker({"dying"}, "lost") /\ UNCHANGED outages
    \/ Worker({"running"}, "finished") /\ UNCHANGED outages
    \/ /\ Current = "live" /\ outages.workers < MaxLosses /\ outages' = [outages EXCEPT !.workers = @ + 1]
       /\ (Worker({"running"}, "lost") \/ Worker({"lost"}, "pending"))
(* What a worker sent may arrive after it was lost.                                *)
WorkerPosts ==
    /\ Current = "live" /\ proofJob.worker \in {"running", "lost", "finished"}
    /\ proofJob.sequence < MaxEmitted /\ services["redis"].up
    /\ \E beats \in BOOLEAN :
          proofJob' = [proofJob EXCEPT !.sequence = @ + 1, !.beats = IF beats THEN @ \union {proofJob.sequence + 1} ELSE @]
    /\ services' = Published(services, 1)
    /\ UNCHANGED <<session, drill, past, outages>>
WorkerCommits ==
    /\ Current = "live" /\ proofJob.worker = "running" /\ ~proofJob.verified
    /\ proofJob' = [proofJob EXCEPT !.verified = TRUE]
    /\ UNCHANGED <<session, drill, services, past, outages>>

(* reconcile_job, as far as a drill sees it (TrainingControl has the rest).        *)
Requeues(j) == IF j.attempts < 2 THEN [j EXCEPT !.status = "queued", !.worker = "none"] ELSE [j EXCEPT !.status = "failed"]
Watched(j) ==
    CASE j.worker = "finished" -> [j EXCEPT !.status = "succeeded"]
      [] j.worker = "lost" -> Requeues(j)
      [] j.worker \in {"running", "dying"} -> [j EXCEPT !.status = "running"]
      [] OTHER -> j
Reconciled(j) ==
    IF j.status = "queued"
    THEN {[j EXCEPT !.status = "provisioning", !.worker = "pending", !.attempts = @ + 1], [j EXCEPT !.status = "blocked"]}
    ELSE IF j.status \in {"provisioning", "running"} THEN {Watched(j)} ELSE {j}
(* The deployed controller does the same; a drill whose copy is then stale raises. *)
ControllerReconciles ==
    /\ Current = "live" /\ drill.pc # "begin"
    /\ proofJob' \in Reconciled(proofJob) \ {proofJob}
    /\ UNCHANGED <<session, drill, services, past, outages>>

(* worker_loss_recovery_proof, whose scheduler starts a container: two passes, the *)
(* container is killed, a third pass.                                              *)
LossReconciles ==
    /\ Current = "worker loss" /\ drill.pc \in {"watch", "watch again", "killed"} /\ HoldsMark("postgres", MarkKey)
    /\ proofJob' \in Reconciled(proofJob)
    /\ drill' = [drill EXCEPT !.status = proofJob'.status,
                              !.pc = CASE @ = "watch" -> "watch again" [] @ = "watch again" -> "kill" [] OTHER -> "judge"]
    /\ UNCHANGED <<session, services, past, outages>>
LossKills ==
    /\ InDrill("worker loss", "kill") /\ drill.status = "running"
    /\ proofJob' = [proofJob EXCEPT !.worker = IF @ = "running" THEN "dying" ELSE @]
    /\ past' = [past EXCEPT !.killed = TRUE]
    /\ DrillGoes("killed")
    /\ UNCHANGED <<session, services, outages>>
LossJudges ==
    /\ InDrill("worker loss", "judge")
    /\ DrillJudged(drill.status = "queued" /\ proofJob.attempts = 1, past.killed /\ proofJob.status = "queued")
    /\ UNCHANGED outages

(* live_scheduler_execution_proof: passes until the job has ended.  Once a          *)
(* checkpoint is verified the worker is killed, if there is one, and the number of  *)
(* the job's last event is noted.                                                  *)
Terminal == {"succeeded", "failed", "blocked", "cancelled"}
Ready == session.inject /\ ~drill.injected /\ proofJob.verified
LiveReconciles ==
    /\ InDrill("live", "watch") /\ HoldsMark("postgres", MarkKey)
    /\ proofJob' \in Reconciled(proofJob)
    /\ drill' = [drill EXCEPT !.status = proofJob'.status,
                              !.pc = IF proofJob'.status \in Terminal THEN "collect"
                                     ELSE IF proofJob'.status = "running" THEN "look" ELSE "watch"]
    /\ UNCHANGED <<session, services, past, outages>>
LiveLooks ==
    /\ InDrill("live", "look")
    /\ \/ Ready /\ proofJob.worker = "running" /\ DrillGoes("kill")
       \/ ~Ready /\ DrillGoes("watch")
    /\ UNCHANGED <<session, services, proofJob, past, outages>>
LiveKills ==
    /\ InDrill("live", "kill")
    /\ proofJob' = [proofJob EXCEPT !.worker = IF @ = "running" THEN "lost" ELSE @]
    /\ past' = [past EXCEPT !.killed = TRUE, !.sequence = proofJob.sequence, !.verified = proofJob.verified]
    /\ DrillGoes("mark")
    /\ UNCHANGED <<session, services, outages>>
\* Mutant: the events are counted from the first one.
MarksFirst == 0
InjectionSequence == proofJob.sequence
LiveMarks ==
    /\ InDrill("live", "mark") /\ HoldsMark("postgres", MarkKey)
    /\ drill' = [drill EXCEPT !.pc = "watch", !.mark = InjectionSequence, !.injected = TRUE]
    /\ UNCHANGED <<session, services, proofJob, past, outages>>
LiveJudges ==
    LET events == services["redis"].held IN
    /\ InDrill("live", "collect") /\ services["redis"].up /\ HoldsMark("postgres", MarkKey)
    /\ DrillJudged(/\ drill.status = "succeeded" /\ proofJob.attempts > 0 /\ proofJob.verified
                   /\ proofJob.beats \intersect events # {}
                   /\ session.inject => drill.injected /\ \E n \in events : n > drill.mark,
                   session.inject => past.killed /\ past.verified /\ proofJob.sequence > past.sequence)
    /\ UNCHANGED outages

--------------------------------------------------------------------------------
(* external_scheduler_proofs and distributed_gpu_proofs: a cluster answers or is   *)
(* blocked; what needs several nodes is always blocked.                            *)
Probes ==
    /\ Current = "probes"
    /\ \E kubernetes, slurm \in {"passed", "blocked"} :
          session' = [session EXCEPT !.left = Tail(@),
                                     !.results = @ \o <<[drill |-> "kubernetes cluster", status |-> kubernetes, so |-> TRUE],
                                                         [drill |-> "slurm cluster", status |-> slurm, so |-> TRUE],
                                                         [drill |-> "multi-node gpu", status |-> "blocked", so |-> TRUE]>>]
    /\ UNCHANGED <<drill, services, proofJob, past, outages>>
Reported(status) == \E i \in DOMAIN session.results : session.results[i].status = status
BuildReport ==
    /\ session.left = <<>> /\ session.report = "none"
    /\ session' = [session EXCEPT !.report = IF Reported("failed") THEN "failed"
                                             ELSE IF Reported("blocked") THEN "blocked" ELSE "passed"]
    /\ UNCHANGED <<drill, services, proofJob, past, outages>>

DrillsNext ==
    \/ DrillRaises \/ Probes \/ BuildReport
    \/ \E s \in Services : PutsOnDisk(s) \/ GoesDown(s) \/ ComesBack(s)
    \/ CreateProofJob \/ ClaimProofJob
    \/ LifecycleIngests \/ LifecycleReplays \/ LifecycleCancels \/ LifecycleCounts
    \/ StressIngests \/ StressJudges
    \/ SoakBegins \/ SoakAsks \/ SoakSleeps \/ SoakJudges
    \/ DockerBegins \/ DockerWrites \/ DockerRestarts \/ DockerFinds \/ DockerJudges
    \/ KubernetesIngests \/ KubernetesStores \/ KubernetesRestarts \/ KubernetesReads \/ KubernetesJudges
    \/ WorkerMoves \/ WorkerPosts \/ WorkerCommits \/ ControllerReconciles
    \/ LossReconciles \/ LossKills \/ LossJudges
    \/ LiveReconciles \/ LiveLooks \/ LiveKills \/ LiveMarks \/ LiveJudges
DrillsSpec == DrillsInit /\ [][DrillsNext]_drillVars

--------------------------------------------------------------------------------
(* What a report says passed was so, whatever the services and the cluster did      *)
(* meanwhile: the events were numbered once and all; no service was away for two    *)
(* cycles of a soak; what was read back had been through the restart, of every      *)
(* service that was restarted with a mark in it; the worker was killed after a      *)
(* verified checkpoint, and the job has events from after that.  A report passes    *)
(* with all its drills.                                                            *)
ProvenIsSo ==
    /\ \A i \in DOMAIN session.results : session.results[i].status = "passed" => session.results[i].so
    /\ session.report = "passed" => \A i \in DOMAIN session.results : session.results[i].status = "passed"
================================================================================

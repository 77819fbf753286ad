-------------------------------- MODULE JobSpecs --------------------------------
(* What a training job runs: the registry of profiles each gateway loaded, the      *)
(* spec a request resolves to, its admission, the scheduler's preflight, the        *)
(* processes it starts and what the training loop makes of them.  Gateways are      *)
(* deployed one by one, with registry files that may differ.                        *)
(*                                                                                  *)
(* Abstracted: pretraining jobs of one owner, in production; contracts of models,   *)
(* progression decisions and milestones are in Experiments and CheckpointRegistry,  *)
(* versions of rows and the controller's steps in TrainingControl.  A hash is what  *)
(* it is the hash of; the pipeline, tensor and context parallel sizes are one       *)
(* number; nodes that lack labels, memory or RDMA are not ready.                    *)
EXTENDS Integers, FiniteSets

CONSTANTS
    JobKeys,        \* idempotency keys
    JobRequests,    \* what a request asks for: a profile and overrides
    Terms,          \* the record of each profile
    RegistryFiles,  \* registries that may be deployed: the profiles of each
    Gateways, Admissions,
    ClusterSize,    \* the nodes of the cluster, with as many GPUs each
    NodeGpus,
    MaxDeploys      \* bound: gateways deployed again

Numbers == {"nodes", "steps", "sequence", "batch", "accumulation"}
Profiles == DOMAIN Terms
Profile == [p \in Profiles |-> Terms[p]]
Registry == [file \in DOMAIN RegistryFiles |-> RegistryFiles[file]]
Files == DOMAIN Registry
SameVersion(p, q) == Profile[p].id = Profile[q].id /\ Profile[p].version = Profile[q].version

ASSUME SpecAssumption ==
    /\ {MaxDeploys, ClusterSize, NodeGpus} \subseteq Nat
    /\ \A p \in Profiles :
          /\ Profile[p].scheduler \in {"notebook", "kubernetes", "kubernetes_pytorch", "slurm"}
          /\ Profile[p].strategy \in {"none", "fsdp", "megatron"}
          /\ DOMAIN Profile[p].allowed \subseteq Numbers
          /\ \A n \in Numbers : Profile[p][n] \in Nat \ {0}
          /\ \A n \in DOMAIN Profile[p].allowed : Profile[p].allowed[n] \subseteq Nat
          /\ {Profile[p].parallel, Profile[p].replicas, Profile[p].experts} \subseteq Nat \ {0}
          /\ Profile[p].gpus \in Nat
    /\ \A file \in Files : Registry[file] \subseteq Profiles

VARIABLES
    deployed,   \* the registry each gateway loaded when it started
    profileRows,\* training_profiles: the profiles, by id and version
    jobRows,    \* training_jobs, by idempotency key
    specFiles,  \* the jobs whose spec was stored and registered
    admission,  \* the calls of create_job
    deploys,
    answers,    \* history: what callers were answered
    launched    \* history: the workloads whose training began

specVars == <<deployed, profileRows, jobRows, specFiles, admission, deploys, answers, launched>>

NoJob == [id |-> 0, status |-> "none", spec |-> <<>>]
NoAdmission == [pc |-> "idle", gateway |-> 0, key |-> 0, spec |-> <<>>]

--------------------------------------------------------------------------------
(* Batches and tokens; how many ranks consume samples of their own.                 *)
GlobalBatch(v, ranks) == v.batch * v.accumulation * ranks
TokensOf(v, batch) == v.steps * v.sequence * batch
AtLeastOne(n) == IF n < 1 THEN 1 ELSE n
DataParallel(p, nodes) == IF p.strategy = "megatron" THEN p.replicas ELSE nodes * AtLeastOne(p.gpus)

\* Mutant: the world size is not compared.
TopologyUnchecked(p, nodes) == p.replicas % p.experts = 0
TopologyFits(p, nodes) == p.replicas % p.experts = 0 /\ p.parallel * p.replicas = nodes * p.gpus

(* TrainingProfile: a registry with a profile that fails this does not load.        *)
ValidProfile(p) ==
    /\ p.strategy # "none" => p.gpus >= 1
    /\ p.strategy = "megatron" => TopologyFits(p, p.nodes)
    /\ p.globalBatch = GlobalBatch(p, DataParallel(p, p.nodes))
    /\ p.target = TokensOf(p, p.globalBatch)
    /\ p.warmup < p.steps
RegistryLoads(file) ==
    /\ \A p \in Registry[file] : ValidProfile(Profile[p])
    /\ \A p, q \in Registry[file] : SameVersion(p, q) => p = q

Latest(file, id) ==
    LET named == {p \in Registry[file] : Profile[p].id = id}
    IN  {p \in named : \A q \in named : Profile[q].version <= Profile[p].version}

(* resolve_spec: the specs a request has in a registry, one or, if it is refused,   *)
(* none.  A spec keeps the profile with the values that were overridden; none of    *)
(* its counts may be zero (TrainingBatchContract).                                  *)
Bounded(p, overrides) ==
    \A n \in DOMAIN overrides : n \in DOMAIN p.allowed /\ overrides[n] \in p.allowed[n]
SpecOf(name, overrides) ==
    LET p == Profile[name]
        v == [n \in Numbers |-> IF n \in DOMAIN overrides THEN overrides[n] ELSE p[n]]
        batch == GlobalBatch(v, DataParallel(p, v.nodes))
    IN  [profile |-> name, values |-> v, globalBatch |-> batch, target |-> TokensOf(v, batch)]
Resolved ==
    [file \in Files |-> [request \in JobRequests |->
        {spec \in {SpecOf(p, request.overrides) : p \in {q \in Latest(file, request.profile) :
            Bounded(Profile[q], request.overrides) /\ Profile[q].scheduler # "notebook"}} : spec.target >= 1}]]

--------------------------------------------------------------------------------
SpecsInit ==
    /\ \E file \in Files : RegistryLoads(file) /\ deployed = [g \in Gateways |-> file]
    /\ profileRows = {}
    /\ jobRows = [k \in JobKeys |-> NoJob]
    /\ specFiles = {}
    /\ admission = [a \in Admissions |-> NoAdmission]
    /\ deploys = 0
    /\ answers = {}
    /\ launched = {}

Admit(a, new) == admission' = [admission EXCEPT ![a] = new]
AdmissionEnds(a) == Admit(a, NoAdmission)
AtAdmission(a, pc) == admission[a].pc = pc
AnswerWith(a, me) ==
    /\ answers' = answers \union {[key |-> me.key, spec |-> me.spec]}
    /\ AdmissionEnds(a)
Outside == UNCHANGED <<deployed, deploys, launched>>

SameSpec(row, spec) == row.spec = spec

(* create_job: the row of the key is read and the request is resolved; a new job has *)
(* to leave the owner within the concurrency and the GPUs the profile grants.       *)
ActiveJobs == {k \in JobKeys : jobRows[k].status \in {"validating", "queued", "running"}}
WithinGrant(spec) ==
    LET p == Profile[spec.profile] IN
    Cardinality(ActiveJobs) < p.concurrent /\ spec.values.nodes * p.gpus <= p.quota
CreateBegins(a, g, k, request) ==
    /\ AtAdmission(a, "idle")
    /\ \E spec \in Resolved[deployed[g]][request] :
          LET me == [pc |-> "sync", gateway |-> g, key |-> k, spec |-> spec] IN
          IF jobRows[k] = NoJob THEN WithinGrant(spec) /\ Admit(a, me) /\ UNCHANGED answers
          ELSE SameSpec(jobRows[k], spec) /\ AnswerWith(a, me)
    /\ Outside /\ UNCHANGED <<profileRows, jobRows, specFiles>>

(* sync_profiles, one transaction: each profile is inserted or is what is stored.   *)
Unchanged(rows, file) == \A p \in Registry[file], q \in rows : SameVersion(p, q) => p = q
SyncProfiles(a) ==
    LET file == deployed[admission[a].gateway] IN
    /\ AtAdmission(a, "sync")
    /\ IF Unchanged(profileRows, file)
       THEN /\ profileRows' = profileRows \union
                  {p \in Registry[file] : ~\E q \in profileRows : SameVersion(p, q)}
            /\ Admit(a, [admission[a] EXCEPT !.pc = "insert"])
       ELSE AdmissionEnds(a) /\ UNCHANGED profileRows
    /\ Outside /\ UNCHANGED <<jobRows, specFiles, answers>>

(* The row is inserted unless the key has one; the row there is has to be this      *)
(* job's.  The caller that did not insert goes on with an id that no row has.       *)
NextId == 1 + Cardinality({k \in JobKeys : jobRows[k] # NoJob})
CreateInserts(a) ==
    LET me == admission[a]
        row == IF jobRows[me.key] = NoJob THEN [id |-> NextId, status |-> "validating", spec |-> me.spec]
               ELSE jobRows[me.key]
    IN  /\ AtAdmission(a, "insert")
        /\ jobRows' = [jobRows EXCEPT ![me.key] = row]
        /\ IF SameSpec(row, me.spec)
           THEN Admit(a, [me EXCEPT !.pc = IF jobRows[me.key] = NoJob THEN "store" ELSE "stray"])
           ELSE AdmissionEnds(a)
        /\ Outside /\ UNCHANGED <<profileRows, specFiles, answers>>

(* spec.json is put under the caller's own id and registered, which a foreign key   *)
(* refuses for an id without a row.                                                 *)
StoresSpec(a) ==
    /\ AtAdmission(a, "store")
    /\ specFiles' = specFiles \union {jobRows[admission[a].key].id}
    /\ Admit(a, [admission[a] EXCEPT !.pc = "queue"])
    /\ Outside /\ UNCHANGED <<profileRows, jobRows, answers>>
StrayIsRefused(a) ==
    /\ AtAdmission(a, "stray") /\ AdmissionEnds(a)
    /\ Outside /\ UNCHANGED <<profileRows, jobRows, specFiles, answers>>
CreateQueues(a) ==
    LET me == admission[a] IN
    /\ AtAdmission(a, "queue")
    /\ IF jobRows[me.key].status = "validating"
       THEN /\ jobRows' = [jobRows EXCEPT ![me.key].status = "queued"]
            /\ AnswerWith(a, me)
       ELSE AdmissionEnds(a) /\ UNCHANGED <<jobRows, answers>>
    /\ Outside /\ UNCHANGED <<profileRows, specFiles>>

--------------------------------------------------------------------------------
(* scheduler.validate: the adapter's own rules and the nodes that are ready now.    *)
Eligible(spec, ready) == IF NodeGpus >= Profile[spec.profile].gpus THEN ready ELSE 0
NodesFit(scheduler, spec) ==
    CASE scheduler = "kubernetes" -> spec.values.nodes = 1
      [] scheduler = "kubernetes_pytorch" -> spec.values.nodes >= 2 /\ Profile[spec.profile].strategy # "none"
      [] OTHER -> spec.values.nodes >= 2
Validates(spec, ready) ==
    NodesFit(Profile[spec.profile].scheduler, spec) /\ Eligible(spec, ready) >= spec.values.nodes

(* The manifest or script: what it asks for, and the processes each pod or node     *)
(* runs.  A Job runs the command as it is, a PyTorchJob torchrun on every replica,  *)
(* Slurm a task for every GPU.  Megatron is run by Slurm, whose script compares the *)
(* topology first.                                                                  *)
JobManifest(spec) == [pods |-> 1, perPod |-> 1]
DistributedManifest(spec) == [pods |-> spec.values.nodes, perPod |-> Profile[spec.profile].gpus]
Processes(spec) ==
    LET asked == IF Profile[spec.profile].scheduler = "kubernetes" THEN JobManifest(spec)
                 ELSE DistributedManifest(spec)
    IN  asked.pods * asked.perPod
RunsMegatron(spec) == Profile[spec.profile].scheduler = "slurm" /\ Profile[spec.profile].strategy = "megatron"
Builds(spec) == RunsMegatron(spec) => TopologyFits(Profile[spec.profile], spec.values.nodes)

(* The native loop: it knows its own ranks only, and needs what the spec promised.  *)
LoopRanks(spec) == IF Profile[spec.profile].strategy = "none" THEN 1 ELSE Processes(spec)
LoopAccepts(spec) ==
    /\ Profile[spec.profile].strategy # "megatron"
    /\ Profile[spec.profile].warmup < spec.values.steps
    /\ spec.target = TokensOf(spec.values, GlobalBatch(spec.values, LoopRanks(spec)))

Workload(row) ==
    LET spec == row.spec
        ranks == IF RunsMegatron(spec) THEN Processes(spec) \div Profile[spec.profile].parallel ELSE LoopRanks(spec)
    IN  [id |-> row.id, spec |-> spec, ranks |-> ranks,
         tokens |-> IF RunsMegatron(spec) THEN TokensOf(spec.values, spec.globalBatch)
                    ELSE TokensOf(spec.values, GlobalBatch(spec.values, ranks))]

(* reconcile_job of a queued job, and what its workers do first.                    *)
LaunchJob(k, ready) ==
    LET row == jobRows[k]
        begins == RunsMegatron(row.spec) \/ LoopAccepts(row.spec)
    IN  /\ row.status = "queued"
        /\ IF Validates(row.spec, ready) /\ Builds(row.spec)
           THEN /\ jobRows' = [jobRows EXCEPT ![k].status = IF begins THEN "running" ELSE "failed"]
                /\ launched' = IF begins THEN launched \union {Workload(row)} ELSE launched
           ELSE jobRows' = [jobRows EXCEPT ![k].status = "blocked"] /\ UNCHANGED launched
        /\ UNCHANGED <<deployed, profileRows, specFiles, admission, deploys, answers>>

(* A gateway is deployed again, which ends its calls.                               *)
Deploy(g, file) ==
    /\ deploys < MaxDeploys /\ deploys' = deploys + 1
    /\ RegistryLoads(file)
    /\ deployed' = [deployed EXCEPT ![g] = file]
    /\ admission' = [a \in Admissions |-> IF admission[a].gateway = g THEN NoAdmission ELSE admission[a]]
    /\ UNCHANGED <<profileRows, jobRows, specFiles, answers, launched>>
SpecsNext ==
    \/ \E a \in Admissions :
          \/ \E g \in Gateways, k \in JobKeys, request \in JobRequests : CreateBegins(a, g, k, request)
          \/ SyncProfiles(a) \/ CreateInserts(a)
          \/ StoresSpec(a) \/ StrayIsRefused(a) \/ CreateQueues(a)
    \/ \E k \in JobKeys, ready \in 0..ClusterSize : LaunchJob(k, ready)
    \/ \E g \in Gateways, file \in Files : Deploy(g, file)
SpecsSpec == SpecsInit /\ [][SpecsNext]_specVars

--------------------------------------------------------------------------------
(* A caller that is answered with a job is answered with the one it asked for: its  *)
(* spec is what the request resolved to in the registry of the gateway that         *)
(* answered.  All jobs of a version of a profile have the same profile, although    *)
(* gateways run different registries; and a job that may run has its spec stored.   *)
AdmittedAsAsked ==
    /\ \A it \in answers : jobRows[it.key].spec = it.spec
    /\ \A k, l \in JobKeys :
          LET p == jobRows[k].spec.profile
              q == jobRows[l].spec.profile
          IN  NoJob \notin {jobRows[k], jobRows[l]} /\ SameVersion(p, q) => p = q
    /\ \A k \in JobKeys : jobRows[k].status \notin {"none", "validating"} => jobRows[k].id \in specFiles

(* A workload that trains consumes the tokens its spec promises, in batches of the  *)
(* size the spec promises, on ranks that fit the resources it asked for, whatever   *)
(* was overridden.                                                                  *)
TrainsAsSpecified ==
    \A w \in launched :
        /\ w.tokens = w.spec.target
        /\ GlobalBatch(w.spec.values, w.ranks) = w.spec.globalBatch
        /\ w.ranks <= w.spec.values.nodes * AtLeastOne(Profile[w.spec.profile].gpus)

(* What was asked for is what is admitted, and what then trains.                    *)
AskedIsTrained == AdmittedAsAsked /\ TrainsAsSpecified

(* A job that is queued can be run when the cluster is large enough.  Expected to   *)
(* fail: resolve_spec checks bounds of overrides, and the profile once, but neither *)
(* what its scheduler refuses nor what the loop makes of a job that asks for        *)
(* several GPUs and no distributed strategy.                                        *)
AdmittedRuns ==
    \A k \in JobKeys : jobRows[k].status = "queued" =>
        LET spec == jobRows[k].spec IN
        NodesFit(Profile[spec.profile].scheduler, spec) /\ Builds(spec) /\ (RunsMegatron(spec) \/ LoopAccepts(spec))
================================================================================

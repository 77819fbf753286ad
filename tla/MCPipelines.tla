------------------------------ MODULE MCPipelines ------------------------------
(* Pipelines that share no state, model-checked side by side: each behaviour is   *)
(* one of a single pipeline, the one its scene names, and the others stay as they *)
(* start.                                                                         *)
EXTENDS Pretraining, Experiments, QualificationLadder, ProductionQualification, EmbeddingTraining,
        CrawlFrontier, DedupIndex, ProductionDataset, PipelineRun, ReviewerGovernance, SourceApprovals,
        Workstation, ProductionDrills

(* Orders in which a drill may be asked to restart the deployed workloads.        *)
SomeWorkloads == {<<"postgres", "redis", "minio">>, <<"redis", "controller">>}

VARIABLE scene

Scenes == {"pretraining", "experiments", "ladder", "release", "embedding", "crawl", "dedup", "dataset", "pipeline",
           "governance", "approvals", "workstation", "drills", "arms"}

Fixed(name) ==
    /\ name # "pretraining" => UNCHANGED pretrainingVars
    /\ name # "experiments" => UNCHANGED experimentVars
    /\ name # "ladder" => UNCHANGED ladderVars
    /\ name # "release" => UNCHANGED releaseVars
    /\ name # "embedding" => UNCHANGED embeddingVars
    /\ name # "crawl" => UNCHANGED crawlVars
    /\ name # "dedup" => UNCHANGED dedupVars
    /\ name # "dataset" => UNCHANGED datasetVars
    /\ name # "pipeline" => UNCHANGED pipelineVars
    /\ name # "governance" => UNCHANGED governanceVars
    /\ name # "approvals" => UNCHANGED approvalVars
    /\ name # "workstation" => UNCHANGED workstationVars
    /\ name # "drills" => UNCHANGED drillVars
    /\ name # "arms" => UNCHANGED armVars

(* What an initial state leaves open is fixed in the scenes it is not part of.    *)
PipelinesInit ==
    /\ scene \in Scenes
    /\ PretrainingInit /\ ExperimentsInit /\ LadderInit /\ ReleaseInit /\ EmbeddingInit
    /\ CrawlInit /\ DedupInit /\ DatasetInit /\ PipelineInit
    /\ GovernanceInit /\ ApprovalInit /\ WorkstationInit /\ DrillsInit /\ ArmsInit
    /\ scene # "pretraining" => sharded
    /\ scene # "ladder" => initial.score = 1
    /\ scene # "release" => policy = 0
    /\ scene # "dataset" => \A family \in Families : splitOf[family] = "train"
    /\ scene # "approvals" => \A s \in Sources : registry[s].contract = 1
    /\ scene # "drills" => session.left = <<"soak">>

(* The operator runs the campaigns in their order.                                *)
Finished(type) == experiment[type].promotion.status = "promoted"
Begun(type) == experiment[type] # NoExperiment
CampaignsInOrder ==
    /\ Begun("architecture_ab") => Finished("tokenizer_selection")
    /\ Begun("scaling_law") => Finished("architecture_ab")

PipelinesNext ==
    /\ UNCHANGED scene
    /\ \/ scene = "pretraining" /\ PretrainingNext /\ Fixed(scene)
       \/ scene = "experiments" /\ ExperimentsNext /\ CampaignsInOrder' /\ Fixed(scene)
       \/ scene = "ladder" /\ LadderNext /\ Fixed(scene)
       \/ scene = "release" /\ ReleaseNext /\ Fixed(scene)
       \/ scene = "embedding" /\ EmbeddingNext /\ Fixed(scene)
       \/ scene = "crawl" /\ CrawlNext /\ Fixed(scene)
       \/ scene = "dedup" /\ DedupNext /\ Fixed(scene)
       \/ scene = "dataset" /\ DatasetNext /\ Fixed(scene)
       \/ scene = "pipeline" /\ PipelineNext /\ Fixed(scene)
       \/ scene = "governance" /\ GovernanceNext /\ Fixed(scene)
       \/ scene = "approvals" /\ ApprovalNext /\ Fixed(scene)
       \/ scene = "workstation" /\ WorkstationNext /\ Fixed(scene)
       \/ scene = "drills" /\ DrillsNext /\ Fixed(scene)
       \/ scene = "arms" /\ ArmsNext /\ Fixed(scene)

pipelinesVars ==
    <<scene, pretrainingVars, experimentVars, ladderVars, releaseVars, embeddingVars, crawlVars, dedupVars,
      datasetVars, pipelineVars, governanceVars, approvalVars, workstationVars, drillVars, armVars>>
PipelinesSpec == PipelinesInit /\ [][PipelinesNext]_pipelinesVars
================================================================================

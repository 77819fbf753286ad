------------------------------ MODULE MCServices ------------------------------
(* Services that share no state, model-checked side by side: each behaviour   *)
(* is one of a single service, the one its scene names, and the others stay   *)
(* as they start.                                                             *)
EXTENDS AgentExecution, Collaboration, TrainingEvents, CheckpointRegistry, VectorSync,
        JobSpecs, RepositoryChunks, ContextBuilding, AgentLoop

(* Registries of profiles: a job of two nodes for each scheduler.  The second    *)
(* has one profile that was edited without a new version.                       *)
NoOverride == [n \in {} |-> 0]
SmallProfile(id, scheduler, strategy) ==
    [id |-> id, version |-> 1, scheduler |-> scheduler, strategy |-> strategy, nodes |-> 2, gpus |-> 2,
     parallel |-> 2, replicas |-> 2, experts |-> 1, steps |-> 2, warmup |-> 1, sequence |-> 1, batch |-> 1,
     accumulation |-> 1, globalBatch |-> 2, target |-> 4, allowed |-> NoOverride, quota |-> 6, concurrent |-> 2]
SmallTerms ==
    [hybrid |-> [SmallProfile("hybrid", "slurm", "megatron") EXCEPT !.allowed = [nodes |-> 2..3], !.concurrent = 1],
     sharded |-> [SmallProfile("sharded", "kubernetes_pytorch", "fsdp") EXCEPT
                     !.gpus = 1, !.allowed = [nodes |-> 0..3, steps |-> 1..2]],
     edited |-> [SmallProfile("sharded", "kubernetes_pytorch", "fsdp") EXCEPT
                     !.gpus = 1, !.allowed = [nodes |-> 1..3, steps |-> 1..2], !.quota = 4],
     single |-> [SmallProfile("single", "kubernetes", "none") EXCEPT !.nodes = 1]]
SmallFiles == [first |-> {"hybrid", "sharded"}, second |-> {"single", "edited"}]
SmallRequests ==
    {[profile |-> "hybrid", overrides |-> NoOverride], [profile |-> "hybrid", overrides |-> [nodes |-> 3]],
     [profile |-> "sharded", overrides |-> [nodes |-> 3, steps |-> 2]], [profile |-> "single", overrides |-> NoOverride],
     [profile |-> "sharded", overrides |-> [nodes |-> 0]]}

(* One chunk is more than the budget has room for.                               *)
SomeCosts == [id \in ChunkIds \union Memories |-> IF id = "long" THEN 3 ELSE 1]

VARIABLE scene

Scenes == {"execution", "collaboration", "events", "registry", "vectors", "specs", "chunks", "context", "loop"}

Unchanging(name) ==
    /\ name # "execution" => UNCHANGED executionVars
    /\ name # "collaboration" => UNCHANGED collaborationVars
    /\ name # "events" => UNCHANGED eventVars
    /\ name # "registry" => UNCHANGED registryVars
    /\ name # "vectors" => UNCHANGED syncVars
    /\ name # "specs" => UNCHANGED specVars
    /\ name # "chunks" => UNCHANGED chunkVars
    /\ name # "context" => UNCHANGED contextVars
    /\ name # "loop" => UNCHANGED loopVars

(* What an initial state leaves open is fixed in the scenes it is not part of. *)
ServicesInit ==
    /\ scene \in Scenes
    /\ ExecutionInit /\ CollaborationInit /\ EventsInit /\ RegistryInit /\ SyncInit /\ SpecsInit
    /\ ChunksInit /\ ContextInit /\ LoopInit
    /\ scene # "specs" => \A g \in Gateways : deployed[g] = "first"
    /\ scene # "loop" => workspace.file = <<>>

ServicesNext ==
    /\ UNCHANGED scene
    /\ \/ scene = "execution" /\ ExecutionNext /\ Unchanging(scene)
       \/ scene = "collaboration" /\ CollaborationNext /\ Unchanging(scene)
       \/ scene = "events" /\ EventsNext /\ Unchanging(scene)
       \/ scene = "registry" /\ RegistryNext /\ Unchanging(scene)
       \/ scene = "vectors" /\ SyncNext /\ Unchanging(scene)
       \/ scene = "specs" /\ SpecsNext /\ Unchanging(scene)
       \/ scene = "chunks" /\ ChunksNext /\ Unchanging(scene)
       \/ scene = "context" /\ ContextNext /\ Unchanging(scene)
       \/ scene = "loop" /\ LoopNext /\ Unchanging(scene)

servicesVars ==
    <<scene, executionVars, collaborationVars, eventVars, registryVars, syncVars, specVars, chunkVars, contextVars,
      loopVars>>
ServicesSpec == ServicesInit /\ [][ServicesNext]_servicesVars
===============================================================================

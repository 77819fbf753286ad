------------------------------ MODULE PipelineRun ------------------------------
(* run_data_pipeline of learning/data_pipeline.py: a run takes the lock of its    *)
(* working directory, crawls, filters, gates, trains a tokenizer, shards, trains  *)
(* a model, and publishes a version, each stage from the file the last one left   *)
(* in the directory.  Runs are processes: they may be started on one directory    *)
(* together or one after another, and die at any step.                            *)
(*                                                                                *)
(* A file's content is the set of the runs whose crawls its rows come from.       *)
EXTENDS Integers, FiniteSets

CONSTANTS
    PipelineRuns, NoRun,
    FilterFiles   \* the optional stages a configuration may have

Order(f) ==
    CASE f = "clean" -> 0 [] f = "licensed" -> 1 [] f = "unprotected" -> 2 [] f = "distinct" -> 3
      [] f = "gated" -> 4 [] f = "balanced" -> 5 [] f = "mixed" -> 6

ASSUME PipelineAssumption ==
    NoRun \notin PipelineRuns /\ FilterFiles \subseteq {"licensed", "unprotected", "distinct", "gated", "balanced", "mixed"}

VARIABLES
    lock,      \* .pipeline.lock: the run that wrote it, and whether it is over 24 hours old
    outputs,   \* the files of the working directory
    run,       \* the runs: their stage, and the file they take their rows from
    versions,  \* the version manifests, and the runs in the ledger
    overran    \* whether a lock was removed whose run was alive

pipelineVars == <<lock, outputs, run, versions, overran>>

NoLock == [owner |-> NoRun, stale |-> FALSE]
NoCheckpoint == {}
Files == {"clean", "tokenizer", "shards", "checkpoint"} \union FilterFiles
RunStages == {"new", "unlink", "open", "purge", "crawl", "filter", "shard", "train", "seal", "ledger", "release",
              "ended", "dead"}

PipelineInit ==
    /\ lock = NoLock
    /\ outputs = [f \in Files |-> {}]
    /\ run = [p \in PipelineRuns |-> [stage |-> "new", input |-> "clean", model |-> FALSE]]
    /\ versions = [manifests |-> {}, ledger |-> {}]
    /\ overran = FALSE

RunAt(p, stage) == run[p].stage = stage
Goes(p, stage) == run' = [run EXCEPT ![p].stage = stage]
Alive(p) == p \in PipelineRuns /\ run[p].stage \notin {"new", "ended", "dead"}

--------------------------------------------------------------------------------
(* PipelineRunLock.__enter__: a lock over 24 hours old is unlinked, whoever holds *)
(* it, which raises if it is gone; and the file is created if it is not there.    *)
LookAtLock(p) ==
    /\ RunAt(p, "new")
    /\ Goes(p, IF lock.owner # NoRun /\ lock.stale THEN "unlink" ELSE "open")
    /\ UNCHANGED <<lock, outputs, versions, overran>>
UnlinkedUnder(p) == overran' = (overran \/ (lock.owner # p /\ Alive(lock.owner)))
UnlinkStale(p) ==
    /\ RunAt(p, "unlink")
    /\ lock' = NoLock
    /\ UnlinkedUnder(p)
    /\ Goes(p, IF lock = NoLock THEN "ended" ELSE "open")
    /\ UNCHANGED <<outputs, versions>>
LockIsFree == lock.owner = NoRun
OpenLock(p) ==
    /\ RunAt(p, "open")
    /\ LockIsFree
    /\ lock' = [owner |-> p, stale |-> FALSE]
    /\ Goes(p, "purge")
    /\ UNCHANGED <<outputs, versions, overran>>
LockIsHeld(p) ==
    /\ RunAt(p, "open")
    /\ ~LockIsFree
    /\ Goes(p, "ended")
    /\ UNCHANGED <<lock, outputs, versions, overran>>
LockAges ==
    /\ lock.owner # NoRun /\ ~lock.stale
    /\ lock' = [lock EXCEPT !.stale = TRUE]
    /\ UNCHANGED <<outputs, run, versions, overran>>

(* __exit__: the file that is there is unlinked, this run's or not.               *)
ReleaseLock(p) ==
    /\ RunAt(p, "release")
    /\ lock' = NoLock
    /\ UnlinkedUnder(p)
    /\ Goes(p, "ended")
    /\ UNCHANGED <<outputs, versions>>

(* The crawl: its shards are unlinked when the engine is made, and written as it  *)
(* goes on; a crawl that wrote none ends the run.                                 *)
\* Mutant: the shards that are there are kept.
ShardsKept == outputs.clean
ShardsPurged == {}
PurgeShards(p) ==
    /\ RunAt(p, "purge")
    /\ outputs' = [outputs EXCEPT !.clean = ShardsPurged]
    /\ Goes(p, "crawl")
    /\ UNCHANGED <<lock, versions, overran>>
CrawlPages(p) ==
    /\ RunAt(p, "crawl")
    /\ outputs' = [outputs EXCEPT !.clean = @ \union {p}]
    /\ Goes(p, "filter")
    /\ UNCHANGED <<lock, versions, overran>>

(* The stages the configuration has, in their order, each from the input of this  *)
(* run to its own file, which is the input of the next.                           *)
Filtered(p, f) == outputs[run[p].input]
Filter(p, f) ==
    /\ RunAt(p, "filter") /\ Order(f) > Order(run[p].input)
    /\ outputs' = [outputs EXCEPT ![f] = Filtered(p, f)]
    /\ run' = [run EXCEPT ![p].input = f]
    /\ UNCHANGED <<lock, versions, overran>>
TrainTokenizer(p) ==
    /\ RunAt(p, "filter")
    /\ outputs' = [outputs EXCEPT !.tokenizer = outputs[run[p].input]]
    /\ Goes(p, "shard")
    /\ UNCHANGED <<lock, versions, overran>>
BuildShards(p) ==
    /\ RunAt(p, "shard")
    /\ outputs' = [outputs EXCEPT !.shards = outputs[run[p].input] \union outputs.tokenizer]
    /\ \E stage \in {"train", "seal"} : Goes(p, stage)
    /\ UNCHANGED <<lock, versions, overran>>

(* run_pretraining_loop with resume=True: a checkpoint in the directory is        *)
(* resumed if it is of these shards, and ends the run if it is not.               *)
OfTheseShards == outputs.checkpoint \in {NoCheckpoint, outputs.shards}
TrainModel(p) ==
    /\ RunAt(p, "train")
    /\ OfTheseShards
    /\ outputs' = [outputs EXCEPT !.checkpoint = @ \union outputs.shards]
    /\ run' = [run EXCEPT ![p].stage = "seal", ![p].model = TRUE]
    /\ UNCHANGED <<lock, versions, overran>>

(* The artifacts are hashed, the version's id is the hash of their hashes, they   *)
(* are uploaded, the manifest is written, and then the ledger and the reports.    *)
SealVersion(p) ==
    /\ RunAt(p, "seal")
    /\ versions' = [versions EXCEPT !.manifests = @ \union
                       {[run |-> p, rows |-> outputs[run[p].input], tokenizer |-> outputs.tokenizer,
                         shards |-> outputs.shards, model |-> IF run[p].model THEN outputs.checkpoint ELSE NoCheckpoint,
                         alone |-> ~overran]}]
    /\ Goes(p, "ledger")
    /\ UNCHANGED <<lock, outputs, overran>>
AppendLedger(p) ==
    /\ RunAt(p, "ledger")
    /\ versions' = [versions EXCEPT !.ledger = @ \union {p}]
    /\ Goes(p, "release")
    /\ UNCHANGED <<lock, outputs, overran>>

(* A stage that raises, or a gate that stops the run, releases the lock; a        *)
(* process that dies does not.                                                    *)
StageRaises(p) ==
    /\ \E stage \in {"purge", "crawl", "filter", "shard", "train", "seal", "ledger"} : RunAt(p, stage)
    /\ Goes(p, "release")
    /\ UNCHANGED <<lock, outputs, versions, overran>>
PipelineDies(p) ==
    /\ Alive(p)
    /\ Goes(p, "dead")
    /\ UNCHANGED <<lock, outputs, versions, overran>>

PipelineNext ==
    \/ LockAges
    \/ \E p \in PipelineRuns :
          \/ LookAtLock(p) \/ UnlinkStale(p) \/ OpenLock(p) \/ LockIsHeld(p) \/ ReleaseLock(p)
          \/ PurgeShards(p) \/ CrawlPages(p) \/ TrainTokenizer(p) \/ BuildShards(p) \/ TrainModel(p)
          \/ SealVersion(p) \/ AppendLedger(p) \/ StageRaises(p) \/ PipelineDies(p)
          \/ \E f \in FilterFiles : Filter(p, f)

PipelineSpec == PipelineInit /\ [][PipelineNext]_pipelineVars

--------------------------------------------------------------------------------
(* Types: every row comes from a run, and a version is of a run that began.       *)
PipelineTypeOK ==
    /\ lock.owner \in PipelineRuns \union {NoRun} /\ (lock.owner = NoRun => ~lock.stale)
    /\ \A f \in Files : outputs[f] \subseteq PipelineRuns
    /\ \A p \in PipelineRuns : run[p].stage \in RunStages /\ run[p].input \in FilterFiles \union {"clean"}
    /\ versions.ledger \subseteq {v.run : v \in versions.manifests}

(* Unless a lock was taken from a run that was alive, everything a version binds, *)
(* rows, tokenizer, shards and the checkpoint trained on them, is of the one run, *)
(* whatever the runs that died in the directory before it left there.             *)
VersionOfOneRun ==
    \A v \in versions.manifests :
        v.alone => v.rows = {v.run} /\ v.tokenizer = {v.run} /\ v.shards = {v.run} /\ v.model \subseteq {v.run}

(* Two runs are never at work on one directory.                                   *)
AtWork(p) == run[p].stage \in {"purge", "crawl", "filter", "shard", "train", "seal", "ledger"}
OneRunAtATime == \A p, q \in PipelineRuns : AtWork(p) /\ AtWork(q) => p = q
================================================================================

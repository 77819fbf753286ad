--------------------------- MODULE ProductionDataset ---------------------------
(* build_production_dataset of learning/production_dataset.py: a crawl's rows     *)
(* are filtered, gated, joined with verified patches and reviewed rows, split by  *)
(* family and sealed by a manifest, all in one output directory.  The directory   *)
(* is built again as crawls and reviews come in, a build may die at any step, and *)
(* training takes what the manifest that is there vouches for.                    *)
(*                                                                                *)
(* A row is its text.                                                             *)
EXTENDS Integers, FiniteSets

CONSTANTS
    Texts,
    Crawls,          \* the input rows of a build, one of these sets
    Patches,         \* --verified-patch: rows with verification evidence
    PatchReviews,    \* those of them two reviewers approved
    Families,        \* _split_group: a partition of the texts
    NearPairs,       \* pairs the near-duplicate index finds
    Unfit,           \* what the license filter and the quality gate drop
    Protected,       \* texts of the benchmark holdouts
    LooksProtected,  \* what the fingerprint index matches with one
    HighValue,       \* the policy's high_value_data_types
    MaxDatasetBuilds

ASSUME DatasetAssumption ==
    /\ \A crawl \in Crawls : crawl \subseteq Texts
    /\ PatchReviews \subseteq Patches /\ Patches \subseteq Texts
    /\ Protected \subseteq LooksProtected
    /\ \A f, g \in Families : f \cap g # {} => f = g

Splits == {"train", "val", "test"}

VARIABLES
    splitOf,         \* _assign_group_split: the split the seed gives a family
    artifacts,       \* the files of the output directory
    datasetBuild,    \* the build in progress: its step, and what it has counted
    datasetManifest, \* dataset_version_manifest.json
    reviewed,        \* rows of the review queue that two reviewers approved
    trained          \* what training was given last, and on what evidence

datasetVars == <<splitOf, artifacts, datasetBuild, datasetManifest, reviewed, trained>>

Nothing == [status |-> "nothing"]
NoFiles == [promoted |-> {}, queue |-> {}, holdout |-> {}, final |-> {}, train |-> {}, val |-> {}, test |-> {}]

DatasetInit ==
    /\ splitOf \in [Families -> Splits]
    /\ artifacts = NoFiles
    /\ datasetBuild = [pc |-> "idle", number |-> 0, rows |-> {}, contaminated |-> FALSE, held |-> {}]
    /\ datasetManifest = Nothing
    /\ reviewed = {}
    /\ trained = Nothing

BuildAt(step) == datasetBuild.pc = step
Step(step) == datasetBuild' = [datasetBuild EXCEPT !.pc = step]

--------------------------------------------------------------------------------
(* deduplicate_jsonl: of rows that are near one another the first is kept.        *)
Near(a, b) == {a, b} \in NearPairs
Deduplicated(rows) ==
    {kept \in SUBSET rows :
        /\ \A a, b \in kept : ~Near(a, b)
        /\ \A a \in rows \ kept : \E b \in kept : Near(a, b)}

(* Stages 1 to 4: the license filter, the quality gate, the contamination filter  *)
(* and the near-duplicate filter.                                                 *)
FilterRows ==
    /\ BuildAt("idle") /\ datasetBuild.number < MaxDatasetBuilds
    /\ \E crawl \in Crawls : \E rows \in Deduplicated((crawl \ Unfit) \ LooksProtected) :
          datasetBuild' = [pc |-> "gate", number |-> datasetBuild.number + 1, rows |-> rows,
                    contaminated |-> (crawl \ Unfit) \cap LooksProtected # {}, held |-> {}]
    /\ UNCHANGED <<splitOf, artifacts, datasetManifest, reviewed, trained>>

(* apply_training_data_gate: a crawled row has no review, so one of high value is *)
(* queued; of the others the score rejects some, and some are held out.           *)
MayPromote(row) == row \notin HighValue
GateRows ==
    /\ BuildAt("gate")
    /\ \E verdict \in [datasetBuild.rows -> {"promoted", "holdout", "queue", "rejected"}] :
          LET Given(v) == {row \in datasetBuild.rows : verdict[row] = v} IN
          /\ \A row \in Given("promoted") \union Given("holdout") : MayPromote(row)
          /\ artifacts' = [artifacts EXCEPT !.promoted = Given("promoted"), !.holdout = Given("holdout"),
                                    !.queue = Given("queue")]
          /\ datasetBuild' = [datasetBuild EXCEPT !.pc = "combine", !.held = Given("holdout")]
    /\ UNCHANGED <<splitOf, datasetManifest, reviewed, trained>>

(* The promoted, the verified and the approved rows, deduplicated again; then     *)
(* enforce_benchmark_holdout takes out the protected ones.                        *)
CombineRows ==
    /\ BuildAt("combine")
    /\ \E rows \in Deduplicated(artifacts.promoted \union Patches \union reviewed) :
          /\ artifacts' = [artifacts EXCEPT !.final = rows \ Protected]
          /\ datasetBuild' = [datasetBuild EXCEPT !.pc = "split", !.rows = rows,
                                    !.contaminated = @ \/ rows \cap Protected # {}]
    /\ UNCHANGED <<splitOf, datasetManifest, reviewed, trained>>

(* split_train_val_test: a family goes to one split.                              *)
FamilyOf(row) == CHOOSE family \in Families : row \in family
Place(row) == splitOf[FamilyOf(row)]
SplitRows ==
    LET In(split) == {row \in artifacts.final : Place(row) = split} IN
    /\ BuildAt("split")
    /\ artifacts' = [artifacts EXCEPT !.train = In("train"), !.val = In("val"), !.test = In("test")]
    /\ Step("copy")
    /\ UNCHANGED <<splitOf, datasetManifest, reviewed, trained>>

(* _copy_file of the gate's holdout to the split manifest's holdout_path, which   *)
(* is the same file: it is opened for writing before it is read.                  *)
Copied == {}
CopyHoldout ==
    /\ BuildAt("copy")
    /\ artifacts' = [artifacts EXCEPT !.holdout = Copied]
    /\ Step("decide")
    /\ UNCHANGED <<splitOf, datasetManifest, reviewed, trained>>

(* The decision over the splits, and the manifest with the artifacts' hashes.     *)
InSplits == artifacts.train \union artifacts.val \union artifacts.test
Reviewed(row) == row \in PatchReviews \/ (row \in reviewed /\ row \notin Patches)
Promotable ==
    /\ artifacts.train # {}
    /\ ~datasetBuild.contaminated
    /\ \A row \in InSplits \cap HighValue : Reviewed(row)
Hashes == [train |-> artifacts.train, val |-> artifacts.val, test |-> artifacts.test,
           holdout |-> artifacts.holdout, queue |-> artifacts.queue]
SealDataset ==
    /\ BuildAt("decide")
    /\ datasetManifest' = [status |-> IF Promotable THEN "promoted" ELSE "rejected", hashes |-> Hashes,
                    build |-> datasetBuild.number, held |-> datasetBuild.held]
    /\ Step("idle")
    /\ UNCHANGED <<splitOf, artifacts, reviewed, trained>>

BuildDies ==
    /\ ~BuildAt("idle")
    /\ Step("idle")
    /\ UNCHANGED <<splitOf, artifacts, datasetManifest, reviewed, trained>>

--------------------------------------------------------------------------------
(* The reviewers approve a row of the queue that is there.                        *)
ApproveRow(row) ==
    /\ row \in artifacts.queue \ reviewed
    /\ reviewed' = reviewed \union {row}
    /\ UNCHANGED <<splitOf, artifacts, datasetBuild, datasetManifest, trained>>

(* validate_dataset_manifest_for_promotion, and training on what it returns.      *)
\* Mutant: the artifacts are not hashed again.
Unchecked == TRUE
HashesHold == datasetManifest.hashes = Hashes
TrainOn ==
    /\ datasetManifest.status = "promoted"
    /\ HashesHold
    /\ trained' = [status |-> "given", train |-> artifacts.train, val |-> artifacts.val, test |-> artifacts.test,
                   sealed |-> datasetManifest.hashes, reviewed |-> {row \in InSplits : Reviewed(row)}]
    /\ UNCHANGED <<splitOf, artifacts, datasetBuild, datasetManifest, reviewed>>

DatasetNext ==
    \/ FilterRows \/ GateRows \/ CombineRows \/ SplitRows \/ CopyHoldout \/ SealDataset \/ BuildDies \/ TrainOn
    \/ \E row \in Texts : ApproveRow(row)

DatasetSpec == DatasetInit /\ [][DatasetNext]_datasetVars

--------------------------------------------------------------------------------
(* Types of the directory: the queue and what was promoted come from a crawl.     *)
DatasetTypeOK ==
    /\ splitOf \in [Families -> Splits]
    /\ \A file \in DOMAIN artifacts : artifacts[file] \subseteq Texts
    /\ datasetBuild.pc \in {"idle", "gate", "combine", "split", "copy", "decide"}
    /\ datasetBuild.number \in 0..MaxDatasetBuilds
    /\ artifacts.promoted \union artifacts.queue \union artifacts.holdout \union reviewed \subseteq UNION Crawls
    /\ datasetManifest.status \in {"nothing", "promoted", "rejected"}

(* What training is given is what a promoted decision measured, every build and   *)
(* death since notwithstanding: free of the benchmarks, of near-duplicates and of *)
(* rows of high value nobody reviewed, and with no family on two sides.           *)
TrainedIsGoverned ==
    trained.status = "given" =>
    LET given == trained.train \union trained.val \union trained.test IN
    /\ trained.sealed.train = trained.train
    /\ given \cap Protected = {}
    /\ \A a, b \in given : ~Near(a, b)
    /\ given \cap HighValue \subseteq trained.reviewed
    /\ \A family \in Families : Cardinality({split \in Splits : trained[split] \cap family # {}}) <= 1

(* The rows a promoted dataset held out for evaluation are in its holdout file.   *)
HoldoutIsKept ==
    datasetManifest.status = "promoted" => datasetManifest.hashes.holdout = datasetManifest.held
================================================================================

----------------------------- MODULE Experiments -----------------------------
(***************************************************************************)
(* ExperimentAuthority: scientific experiments are planned, their arms     *)
(* admitted, compared, decided and promoted, each in a directory of its    *)
(* own, by commands that may run at the same time; three promotions        *)
(* authorise the 7B experiment.  The files an experiment is bound to stay  *)
(* where they are and may be edited: every command hashes them again.      *)
(*                                                                         *)
(* An arm stands for the seeds of a candidate: its score is their mean,    *)
(* its spread the half width of their confidence interval, and a score of  *)
(* zero stands for a hard gate that failed.  The dataset manifest stands   *)
(* for the split and evaluation manifests too, which are bound and         *)
(* compared as it is.                                                      *)
(***************************************************************************)
EXTENDS Integers, FiniteSets

CONSTANTS
    Datasets,    \* dataset manifests a campaign may be planned with
    Vocabularies,\* candidate vocabularies, as numbers
    Scores, Spreads,
    Gap,         \* maximum_tokenizer_noninferiority_gap
    Gain,        \* improvement the mixture of experts must show
    Fit,         \* score from which the scaling law is precise enough
    Commands,    \* commands that may run together
    MaxRuns,     \* bound: compare commands
    MaxReportEdits,\* bound: files edited
    TokenBudget, TokensPerStep,  \* of an arm, and of its training's steps
    MaxTrainings,  \* bound: trainings of an arm
    MaxSuiteEdits  \* bound: edits of the task suites

ASSUME ExperimentAssumption ==
    /\ {Gap, Gain, Fit, MaxRuns, MaxReportEdits, TokenBudget, MaxTrainings, MaxSuiteEdits} \subseteq Nat
    /\ TokensPerStep \in Nat \ {0}
    /\ Vocabularies \subseteq Nat \ {0}
    /\ Scores \subseteq Nat
    /\ \E highest \in Scores : \A score \in Scores : score <= highest

VARIABLES
    disk,        \* version of each file an experiment may be bound to
    experiment,  \* the directory of each experiment
    command,     \* commands in flight
    progression, \* the decision about the 7B experiment
    runsMade, editsMade,
    armFiles,    \* the files behind the evidence of one arm, and what is served
    busy,        \* its training and its evaluations in flight
    trainings, suiteEdits,
    compared     \* history: the evidence comparisons have loaded

experimentVars == <<disk, experiment, command, progression, runsMade, editsMade>>
armVars == <<armFiles, busy, trainings, suiteEdits, compared>>

Types == {"tokenizer_selection", "architecture_ab", "scaling_law"}
(* _campaign_arms: a vocabulary per arm of the tokenizer campaign; the     *)
(* others train with the one tokenizer they are given.                     *)
ArmsOf(type) == CASE type = "tokenizer_selection" -> Vocabularies
                  [] type = "architecture_ab"     -> {"1b", "1b_moe"}
                  [] type = "scaling_law"         -> {"shapes"}

DatasetFiles == {<<"dataset", d>> : d \in Datasets}
TokenizerFiles == {<<"tokenizer", v, d>> : v \in Vocabularies, d \in Datasets}
ReportFiles == UNION {{<<"report", type, arm>> : arm \in ArmsOf(type)} : type \in Types}
ExperimentFiles == DatasetFiles \union TokenizerFiles \union ReportFiles

Unwritten == [status |-> "none"]
NoExperiment == [manifest |-> Unwritten, evidence |-> <<>>, reports |-> Unwritten,
                 comparison |-> Unwritten, decision |-> Unwritten, promotion |-> Unwritten]
NoCommand == [pc |-> "idle", type |-> "none", reports |-> Unwritten, comparison |-> Unwritten]

ExperimentsInit ==
    /\ disk = [f \in ExperimentFiles |-> 1]
    /\ experiment = [type \in Types |-> NoExperiment]
    /\ command = [c \in Commands |-> NoCommand]
    /\ progression = Unwritten
    /\ runsMade = 0 /\ editsMade = 0

-----------------------------------------------------------------------------
(* BoundArtifact: a file and the hash of what it held when it was bound.   *)
BindArtifact(f) == [file |-> f, sha |-> disk[f]]
Unchanged(b) == disk[b.file] = b.sha

(* create_experiment_manifest binds the tokenizers of the campaign, all    *)
(* trained on its dataset.                                                 *)
TokenizersOf(type, d, v) ==
    IF type = "tokenizer_selection"
    THEN [w \in Vocabularies |-> BindArtifact(<<"tokenizer", w, d>>)]
    ELSE [w \in {"selected"} |-> BindArtifact(<<"tokenizer", v, d>>)]

Plan(type) ==
    /\ experiment[type] = NoExperiment
    /\ \E d \in Datasets, v \in Vocabularies :
          experiment' = [experiment EXCEPT ![type].manifest =
              [status |-> "planned", dataset |-> BindArtifact(<<"dataset", d>>),
               tokenizers |-> TokenizersOf(type, d, v)]]
    /\ UNCHANGED <<disk, command, progression, runsMade, editsMade>>

(* ExperimentManifest.verify.                                              *)
ManifestHolds(type) ==
    LET m == experiment[type].manifest IN
    /\ m # Unwritten
    /\ Unchanged(m.dataset)
    /\ \A w \in DOMAIN m.tokenizers : Unchanged(m.tokenizers[w])

(* admit_arm: evidence derived from the reports, created once.             *)
AdmitArm(type, arm) ==
    LET admitted == experiment[type].evidence IN
    /\ ManifestHolds(type)
    /\ arm \in ArmsOf(type) \ DOMAIN admitted
    /\ \E score \in Scores, spread \in Spreads :
          experiment' = [experiment EXCEPT ![type].evidence =
              [a \in DOMAIN admitted \union {arm} |->
                  IF a = arm THEN [report |-> BindArtifact(<<"report", type, arm>>),
                                   score |-> score, spread |-> spread]
                             ELSE admitted[a]]]
    /\ UNCHANGED <<disk, command, progression, runsMade, editsMade>>

-----------------------------------------------------------------------------
(* compare_tokenizer_candidates: among the candidates that are not worse   *)
(* than the best by more than the gap, the smallest; but none when its     *)
(* interval meets that of a smaller one.                                   *)
Eligible(items) == {a \in DOMAIN items : items[a].score > 0}
NonInferior(items) == {a \in Eligible(items) : \A b \in Eligible(items) : items[b].score - items[a].score <= Gap}
SmallestOf(S) == CHOOSE v \in S : \A w \in S : v <= w
Superior(items, a) ==
    \A b \in Eligible(items) : b < a => items[a].score - items[a].spread > items[b].score + items[b].spread

TokenizerChoice(items) ==
    IF Eligible(items) = {} THEN {}
    ELSE LET a == SmallestOf(NonInferior(items)) IN IF Superior(items, a) THEN {a} ELSE {}

(* compare_architecture_candidates: the dense baseline must pass; the      *)
(* mixture replaces it when it gains enough.                               *)
ArchitectureChoice(items) ==
    CASE items["1b"].score = 0 -> {}
      [] items["1b_moe"].score > 0 /\ items["1b_moe"].score - items["1b"].score >= Gain -> {"1b_moe"}
      [] OTHER -> {"1b"}

(* compare_scaling_campaign, of a law fitted and tried on held out shapes. *)
ScalingChoice(items) == IF items["shapes"].score >= Fit THEN {"7b"} ELSE {}

ChoiceOf(type, items) ==
    CASE type = "tokenizer_selection" -> TokenizerChoice(items)
      [] type = "architecture_ab"     -> ArchitectureChoice(items)
      [] type = "scaling_law"         -> ScalingChoice(items)

(* _load_arm_evidence: every planned arm, with reports that still hash.    *)
Loaded(type) == {a \in DOMAIN experiment[type].evidence : Unchanged(experiment[type].evidence[a].report)}
Admitted(type) == Loaded(type) = ArmsOf(type)

ArmReports(type) == [status |-> IF Admitted(type) THEN "passed" ELSE "blocked", arms |-> Loaded(type)]
Comparison(type) ==
    LET choice == IF Admitted(type) THEN ChoiceOf(type, experiment[type].evidence) ELSE {}
    IN  [status |-> IF choice = {} THEN "blocked" ELSE "passed", choice |-> choice,
         reports |-> ArmReports(type)]

(* run, resume and compare: refused once there is a decision; otherwise    *)
(* the reports and then the comparison are written again.                  *)
Compare(c, type) ==
    /\ command[c].pc = "idle" /\ runsMade < MaxRuns
    /\ experiment[type].decision = Unwritten /\ experiment[type].promotion = Unwritten
    /\ ManifestHolds(type)
    /\ command' = [command EXCEPT ![c] = [NoCommand EXCEPT !.pc = "reports", !.type = type,
                      !.reports = ArmReports(type), !.comparison = Comparison(type)]]
    /\ runsMade' = runsMade + 1
    /\ UNCHANGED <<disk, experiment, progression, editsMade>>

WriteArmReports(c) ==
    /\ command[c].pc = "reports"
    /\ experiment' = [experiment EXCEPT ![command[c].type].reports = command[c].reports]
    /\ command' = [command EXCEPT ![c].pc = "comparison"]
    /\ UNCHANGED <<disk, progression, runsMade, editsMade>>

WriteComparison(c) ==
    /\ command[c].pc = "comparison"
    /\ experiment' = [experiment EXCEPT ![command[c].type].comparison = command[c].comparison]
    /\ command' = [command EXCEPT ![c] = NoCommand]
    /\ UNCHANGED <<disk, progression, runsMade, editsMade>>

(* decide: of the comparison that was read, written once.                  *)
DecideExperiment(c, type) ==
    /\ command[c].pc = "idle"
    /\ experiment[type].decision = Unwritten /\ experiment[type].comparison # Unwritten
    /\ ManifestHolds(type)
    /\ command' = [command EXCEPT ![c] = [NoCommand EXCEPT !.pc = "decide", !.type = type,
                                                           !.comparison = experiment[type].comparison]]
    /\ UNCHANGED <<disk, experiment, progression, runsMade, editsMade>>

WriteDecision(c) ==
    LET type == command[c].type  read == command[c].comparison IN
    /\ command[c].pc = "decide"
    /\ experiment' = IF experiment[type].decision # Unwritten THEN experiment
                     ELSE [experiment EXCEPT ![type].decision =
                             [status |-> read.status, choice |-> read.choice, comparison |-> read]]
    /\ command' = [command EXCEPT ![c] = NoCommand]
    /\ UNCHANGED <<disk, progression, runsMade, editsMade>>

PromoteExperiment(type) ==
    LET decision == experiment[type].decision IN
    /\ decision # Unwritten /\ experiment[type].promotion = Unwritten
    /\ experiment' = [experiment EXCEPT ![type].promotion =
                        [status |-> IF decision.status = "passed" THEN "promoted" ELSE "blocked",
                         choice |-> decision.choice]]
    /\ UNCHANGED <<disk, command, progression, runsMade, editsMade>>

-----------------------------------------------------------------------------
(* verify_promotion_chain: promotion, decision, comparison, reports and    *)
(* manifest are bound each to the next, and every file under them still    *)
(* hashes as it did.                                                       *)
ChainHolds(type) ==
    LET x == experiment[type] IN
    /\ x.promotion # Unwritten
    /\ x.decision.comparison = x.comparison
    /\ ManifestHolds(type)
    /\ x.comparison.reports = x.reports
    /\ x.reports.arms = ArmsOf(type)
    /\ \A a \in x.reports.arms : Unchanged(x.evidence[a].report)

Promoted(type) == experiment[type].promotion.status = "promoted"
Manifest(type) == experiment[type].manifest

(* build_model_progression_decision: the three campaigns share a dataset,  *)
(* and two of them use the tokenizer that the first one promoted.          *)
OneLineage == Cardinality({Manifest(type).dataset.sha : type \in Types}) = 1
              /\ Cardinality({Manifest(type).dataset.file : type \in Types}) = 1
Chosen == CHOOSE v \in experiment["tokenizer_selection"].promotion.choice : TRUE
PromotedTokenizer ==
    LET chosen == Manifest("tokenizer_selection").tokenizers[Chosen]
    IN  \A type \in Types \ {"tokenizer_selection"} : Manifest(type).tokenizers["selected"] = chosen

Authorised == /\ \A type \in Types : Promoted(type)
              /\ OneLineage
              /\ PromotedTokenizer

Advance ==
    /\ progression = Unwritten
    /\ \A type \in Types : ChainHolds(type)
    /\ progression' = [status |-> IF Authorised THEN "authorized" ELSE "blocked",
                       disk |-> disk]
    /\ UNCHANGED <<disk, experiment, command, runsMade, editsMade>>

(* Somebody edits a file, or a command ends where it is.                   *)
EditFile(f) ==
    /\ editsMade < MaxReportEdits
    /\ disk' = [disk EXCEPT ![f] = @ + 1]
    /\ editsMade' = editsMade + 1
    /\ UNCHANGED <<experiment, command, progression, runsMade>>

CommandDies(c) ==
    /\ command[c].pc # "idle"
    /\ command' = [command EXCEPT ![c] = NoCommand]
    /\ UNCHANGED <<disk, experiment, progression, runsMade, editsMade>>

ExperimentsNext ==
    \/ \E type \in Types :
          \/ Plan(type) \/ PromoteExperiment(type)
          \/ \E arm \in ArmsOf(type) : AdmitArm(type, arm)
          \/ \E c \in Commands : Compare(c, type) \/ DecideExperiment(c, type)
    \/ \E c \in Commands : WriteArmReports(c) \/ WriteComparison(c) \/ WriteDecision(c) \/ CommandDies(c)
    \/ Advance
    \/ \E f \in ExperimentFiles : EditFile(f)

ExperimentsSpec == ExperimentsInit /\ [][ExperimentsNext]_experimentVars

-----------------------------------------------------------------------------
(* The reports behind the evidence of one armFiles.  It is trained, perhaps     *)
(* several times, by whoever runs the request; its checkpoint is measured  *)
(* by an executable benchmark and by an agent scorecard, each of which     *)
(* takes hours.  A number names what a file holds: 0 nothing, in suites 1  *)
(* what the plan bound.                                                    *)
NoArtifact == [weights |-> 0]

(* build_arm_execution_requests, and the ways a training may differ: a     *)
(* part of the budget, another optimizer policy, or other data.            *)
ArmRequest == [steps |-> TokenBudget \div TokensPerStep, policy |-> "bound", data |-> "bound"]
Executable == TokenBudget % TokensPerStep = 0
Trained(settings) == settings.steps * TokensPerStep
ArmSettings == {ArmRequest, [ArmRequest EXCEPT !.steps = @ - 1],
                [ArmRequest EXCEPT !.policy = "other"], [ArmRequest EXCEPT !.data = "other"]}

ArmsInit ==
    /\ armFiles = [suite |-> 1, checkpoint |-> 0, served |-> 0, training |-> NoArtifact, code |-> NoArtifact,
              score |-> NoArtifact, evaluation |-> NoArtifact, evidence |-> NoArtifact]
    /\ busy = [training |-> NoArtifact, code |-> NoArtifact, score |-> NoArtifact]
    /\ trainings = 0 /\ suiteEdits = 0
    /\ compared = {}

Kept == UNCHANGED <<trainings, suiteEdits, compared>>
(* _bind_evaluation_inputs, verified by every command.                     *)
SuitesHold == armFiles.suite = 1
(* History: something under an evaluation was changed while it ran.        *)
Disturbed(evaluation) == IF evaluation = NoArtifact THEN NoArtifact ELSE [evaluation EXCEPT !.quiet = FALSE]
DisturbedBoth == [busy EXCEPT !.code = Disturbed(@), !.score = Disturbed(@)]

(* The selected checkpoint is at one path; the report follows at the end.  *)
TrainArm(settings) ==
    /\ Executable /\ busy.training = NoArtifact /\ trainings < MaxTrainings
    /\ trainings' = trainings + 1
    /\ armFiles' = [armFiles EXCEPT !.checkpoint = trainings + 1]
    /\ busy' = [DisturbedBoth EXCEPT !.training = [weights |-> trainings + 1, settings |-> settings]]
    /\ UNCHANGED <<suiteEdits, compared>>
ReportTraining ==
    /\ busy.training # NoArtifact
    /\ \E whole \in BOOLEAN : armFiles' = IF whole THEN [armFiles EXCEPT !.training = busy.training] ELSE armFiles
    /\ busy' = [busy EXCEPT !.training = NoArtifact] /\ Kept
ServeArm ==
    /\ armFiles.served # armFiles.checkpoint
    /\ armFiles' = [armFiles EXCEPT !.served = armFiles.checkpoint]
    /\ busy' = [busy EXCEPT !.score = Disturbed(@)] /\ Kept

(* Bound: reports that have been assembled are not made again; nothing     *)
(* would read them.                                                        *)
Wanted == armFiles.evaluation = NoArtifact

(* run_executable_benchmark_suites: the weights and the suites are loaded  *)
(* first, and the files hashed when the tasks are done.                    *)
BeginCode ==
    /\ Wanted /\ busy.code = NoArtifact /\ armFiles.checkpoint # 0
    /\ busy' = [busy EXCEPT !.code = [weights |-> armFiles.checkpoint, suite |-> armFiles.suite, quiet |-> TRUE]]
    /\ UNCHANGED armFiles /\ Kept
EndCode ==
    /\ busy.code # NoArtifact
    /\ armFiles' = [armFiles EXCEPT !.code = [weights |-> armFiles.checkpoint, suite |-> armFiles.suite, of |-> busy.code]]
    /\ busy' = [busy EXCEPT !.code = NoArtifact] /\ Kept

(* The scorecard asks at its start for the identity of what is served,     *)
(* which has to be the checkpoint's; each task is answered by what is      *)
(* served then, here the last one.                                         *)
ServedIsCheckpoint == armFiles.served # 0 /\ armFiles.served = armFiles.checkpoint
BeginScore ==
    /\ Wanted /\ busy.score = NoArtifact /\ ServedIsCheckpoint
    /\ busy' = [busy EXCEPT !.score = [weights |-> armFiles.served, suite |-> armFiles.suite, quiet |-> TRUE]]
    /\ UNCHANGED armFiles /\ Kept
Answered == [busy.score EXCEPT !.weights = armFiles.served]
EndScore ==
    /\ busy.score # NoArtifact
    /\ armFiles' = [armFiles EXCEPT !.score = [weights |-> busy.score.weights, suite |-> armFiles.suite, of |-> Answered]]
    /\ busy' = [busy EXCEPT !.score = NoArtifact] /\ Kept

(* assemble_scientific_evaluation_report: passed reports of one checkpoint *)
(* and of the suites that were bound; written once.                        *)
\* Mutant: the reports may be of two checkpoints.
AnyCheckpoints == TRUE
SameCheckpoint == armFiles.code.weights = armFiles.score.weights
AssembleEvaluation ==
    /\ SuitesHold /\ armFiles.evaluation = NoArtifact
    /\ NoArtifact \notin {armFiles.code, armFiles.score}
    /\ SameCheckpoint
    /\ armFiles.code.suite = 1 /\ armFiles.score.suite = 1
    /\ armFiles' = [armFiles EXCEPT !.evaluation = [weights |-> armFiles.code.weights, code |-> armFiles.code, score |-> armFiles.score]]
    /\ UNCHANGED busy /\ Kept

(* verify_artifacts, of the training report and the checkpoint there are   *)
(* now; how many tokens there should have been is asked by comparisons.    *)
ArtifactsHold(training) ==
    /\ training # NoArtifact /\ training = armFiles.training
    /\ training.settings.policy = ArmRequest.policy
    /\ training.weights = armFiles.checkpoint
    /\ armFiles.evaluation # NoArtifact /\ armFiles.evaluation.weights = training.weights
AdmitReports ==
    /\ SuitesHold /\ armFiles.evidence = NoArtifact /\ ArtifactsHold(armFiles.training)
    /\ armFiles' = [armFiles EXCEPT !.evidence = [training |-> armFiles.training, evaluation |-> armFiles.evaluation]]
    /\ UNCHANGED busy /\ Kept
WholeBudget(settings) == Trained(settings) = TokenBudget
CompareArm ==
    /\ SuitesHold /\ armFiles.evidence # NoArtifact /\ ArtifactsHold(armFiles.evidence.training)
    /\ WholeBudget(armFiles.evidence.training.settings)
    /\ compared' = compared \union {armFiles.evidence}
    /\ UNCHANGED <<armFiles, busy, trainings, suiteEdits>>

(* The suites are edited, or put back.                                     *)
EditSuites ==
    /\ suiteEdits < MaxSuiteEdits /\ suiteEdits' = suiteEdits + 1
    /\ armFiles' = [armFiles EXCEPT !.suite = 3 - @]
    /\ busy' = DisturbedBoth
    /\ UNCHANGED <<trainings, compared>>

ArmsNext ==
    \/ \E settings \in ArmSettings : TrainArm(settings)
    \/ ReportTraining \/ ServeArm \/ BeginCode \/ EndCode \/ BeginScore \/ EndScore
    \/ AssembleEvaluation \/ AdmitReports \/ CompareArm \/ EditSuites
ArmsSpec == ArmsInit /\ [][ArmsNext]_armVars

-----------------------------------------------------------------------------
(* Types of the files of the experiments.                                  *)
ExperimentsTypeOK ==
    /\ \A type \in Types :
          /\ DOMAIN experiment[type].evidence \subseteq ArmsOf(type)
          /\ experiment[type].decision.status \in {"none", "passed", "blocked"}
          /\ experiment[type].promotion # Unwritten => experiment[type].decision # Unwritten
    /\ progression.status \in {"none", "blocked", "authorized"}

(* The 7B experiment is authorised by measurements: each campaign had      *)
(* evidence of every armFiles, from reports nobody had edited when they were    *)
(* replayed, and chose what that evidence supports; the campaigns share a  *)
(* dataset, and the tokenizer the last two trained with is the one the     *)
(* first one chose.                                                        *)
ProgressionEarned ==
    progression.status = "authorized" =>
        /\ \A type \in Types :
              LET x == experiment[type] IN
              /\ DOMAIN x.evidence = ArmsOf(type)
              /\ x.promotion.choice = ChoiceOf(type, x.evidence)
              /\ \A a \in ArmsOf(type) : x.evidence[a].report.sha = progression.disk[x.evidence[a].report.file]
        /\ \A type \in Types \ {"tokenizer_selection"} :
              Manifest(type).tokenizers["selected"].file =
                  <<"tokenizer", Chosen,
                    Manifest("tokenizer_selection").dataset.file[2]>>

(* A comparison takes the scores of an arm from one checkpoint: the one    *)
(* its training reported, of a training with the policy and the budget     *)
(* that were planned.  The benchmark and the scorecard both name it, and   *)
(* the bound suites, and were of them unless a training, a deployment or   *)
(* an edit came under them while they ran.                                 *)
ArmsMeasured ==
    \A e \in compared : \A report \in {e.evaluation.code, e.evaluation.score} :
        /\ e.training.settings.policy = "bound" /\ e.training.settings.steps = ArmRequest.steps
        /\ report.weights = e.training.weights /\ report.suite = 1
        /\ report.of.quiet => report.of.weights = report.weights /\ report.of.suite = 1

(* What authorises the 7B experiment, and what each of its arms measured.  *)
ExperimentsEarned == ProgressionEarned /\ ArmsMeasured

(* A score is of the checkpoint its report names, always.  Expected to     *)
(* fail: the checkpoint is hashed after it was evaluated.                  *)
ScoresWhatItNames ==
    \A e \in compared : e.evaluation.code.of.weights = e.evaluation.code.weights

(* An arm is trained on the data of the experiment.  Expected to fail: the *)
(* evidence repeats the hash of the plan, and nothing compares it with the *)
(* training's.                                                             *)
TrainedOnItsData == \A e \in compared : e.training.settings.data = "bound"
=============================================================================

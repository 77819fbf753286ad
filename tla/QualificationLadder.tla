-------------------------- MODULE QualificationLadder --------------------------
(* The defensive qualification campaign: a prompt pack is built and sealed; a     *)
(* ladder of stages continues one training run, each stage to a greater step;     *)
(* what a stage trained is compared with a baseline, and the recorded verdict     *)
(* unlocks the next stage and, at the end, the scale handoff.  A run of a stage   *)
(* may die anywhere and be started again; its training resumes.                   *)
(*                                                                                *)
(* A checkpoint is the step it was saved at, the dataset it was trained on and    *)
(* its score on the prompts, which generation with a fixed seed repeats.  The     *)
(* dataset stands for the inputs a campaign binds beside its pack.                *)
EXTENDS Integers, Sequences

CONSTANTS
    Stages,           \* gate.stage_steps, as optimizer steps
    ImprovementFrom,  \* require_improvement_from_stage
    PromptScores,     \* average scores on the prompts
    MaxBuilds,        \* bound: packs built
    MaxSwaps,         \* bound: changes of the dataset
    MaxStageDeaths    \* bound: deaths of a stage

ASSUME LadderAssumption == Stages \subseteq Nat \ {0} /\ PromptScores \subseteq Nat

VARIABLES
    pack,      \* checkpoint_prompts.jsonl, and the hash of it in the pack manifest
    dataset,   \* the dataset manifest
    initial,   \* the initial checkpoint
    train,     \* train/: the latest checkpoint, best_checkpoint_manifest.json
    campaign,  \* campaign_state.json
    stage,     \* the run of a stage, its locals and how far it is
    handoff,   \* scale_handoff_report.json
    accidents  \* changes of the dataset and deaths so far

ladderVars == <<pack, dataset, initial, train, campaign, stage, handoff, accidents>>

NoModel == [step |-> 0, dataset |-> 0, score |-> 0]
NoStage == [at |-> "down", target |-> 0, step |-> 0, selected |-> FALSE, audit |-> FALSE, baseline |-> NoModel,
            inputs |-> [pack |-> 0, dataset |-> 0]]
NoCampaign == [bound |-> [pack |-> 0, dataset |-> 0], stages |-> <<>>]

LadderInit ==
    /\ pack = [prompts |-> 0, sealed |-> 0]
    /\ dataset = 1
    /\ initial \in {[NoModel EXCEPT !.score = s] : s \in PromptScores}
    /\ train = [latest |-> NoModel, best |-> NoModel]
    /\ campaign = NoCampaign
    /\ stage = NoStage
    /\ handoff = "none"
    /\ accidents = [swaps |-> 0, deaths |-> 0]

StageAt(place) == stage.at = place
StageGoes(new) == stage' = new

--------------------------------------------------------------------------------
(* build_repository_qualification_pack: the prompts are written in place, then    *)
(* the manifest that holds their hash.  _load_pack_manifest compares the two.     *)
WritePrompts ==
    /\ pack.prompts < MaxBuilds
    /\ pack' = [pack EXCEPT !.prompts = @ + 1]
    /\ UNCHANGED <<dataset, initial, train, campaign, stage, handoff, accidents>>
SealPack ==
    /\ pack.prompts # pack.sealed
    /\ pack' = [pack EXCEPT !.sealed = pack.prompts]
    /\ UNCHANGED <<dataset, initial, train, campaign, stage, handoff, accidents>>
PackHolds == pack.sealed # 0 /\ pack.prompts = pack.sealed

(* The dataset is changed between two runs of stages: a checkpoint is labelled    *)
(* with the hash its dataset has when it is saved.                                *)
SwapDataset ==
    /\ StageAt("down") /\ accidents.swaps < MaxSwaps
    /\ dataset' = dataset + 1
    /\ accidents' = [accidents EXCEPT !.swaps = @ + 1]
    /\ UNCHANGED <<pack, initial, train, campaign, stage, handoff>>

(* _load_or_create_state: the inputs must hash as they did when the campaign      *)
(* recorded its first stage.                                                      *)
StageInputs == [pack |-> pack.sealed, dataset |-> dataset]
\* Mutant: the inputs are not compared.
AnyInputs == TRUE
SameInputs == campaign.stages # <<>> => campaign.bound = StageInputs

(* _prior_stage: the last record of the stage before must have been promoted.     *)
Earlier(t) == {s \in Stages : s < t}
Before(t) == CHOOSE s \in Earlier(t) : \A r \in Earlier(t) : r <= s
RecordsOf(t) == {i \in DOMAIN campaign.stages : campaign.stages[i].target = t}
PriorPromoted(t) == Earlier(t) # {} => \E i \in RecordsOf(Before(t)) : campaign.stages[i].promoted

(* run_defensive_stage, as far as the tokenizer audit.                            *)
RunStage(t) ==
    /\ StageAt("down")
    /\ PackHolds /\ SameInputs /\ PriorPromoted(t)
    /\ RecordsOf(t) = {}
    /\ \E audit \in BOOLEAN : StageGoes([NoStage EXCEPT !.at = "resume", !.target = t, !.audit = audit,
                                                          !.inputs = StageInputs])
    /\ UNCHANGED <<pack, dataset, initial, train, campaign, handoff, accidents>>

(* The training resumes from the latest checkpoint of the campaign, which must    *)
(* have been trained on the dataset, or from the initial one; a checkpoint that   *)
(* is at the target already is refused.                                           *)
Resume ==
    /\ StageAt("resume")
    /\ StageGoes(IF train.latest.step < stage.target /\ train.latest.dataset \in {0, dataset}
                 THEN [stage EXCEPT !.at = "train", !.step = train.latest.step]
                 ELSE NoStage)
    /\ UNCHANGED <<pack, dataset, initial, train, campaign, handoff, accidents>>

(* A step is trained, validated and saved.  A run's first validation always       *)
(* improves on none, so the best checkpoint is replaced; a later one may improve, *)
(* or stop the training early.                                                    *)
TrainedNow(score) == [step |-> stage.step + 1, dataset |-> dataset, score |-> score]
TrainStage ==
    /\ StageAt("train")
    /\ \E score \in PromptScores, improved, early \in BOOLEAN :
          /\ stage.selected \/ improved
          /\ early => ~improved
          /\ train' = [latest |-> TrainedNow(score),
                       best |-> IF improved THEN TrainedNow(score) ELSE train.best]
          /\ StageGoes([stage EXCEPT !.step = @ + 1, !.selected = TRUE,
                          !.at = IF early \/ stage.step + 1 = stage.target THEN "compare" ELSE "train"])
    /\ UNCHANGED <<pack, dataset, initial, campaign, handoff, accidents>>

(* compare_checkpoints of two manifests, by their paths: the prior stage's        *)
(* selected manifest is train/best_checkpoint_manifest.json, as this stage's is.  *)
Baseline(t) == IF Earlier(t) = {} THEN initial ELSE train.best
CompareStage ==
    /\ StageAt("compare")
    /\ StageGoes([stage EXCEPT !.at = "decide", !.baseline = Baseline(stage.target)])
    /\ UNCHANGED <<pack, dataset, initial, train, campaign, handoff, accidents>>

(* decide_stage; the executable benchmarks and the checkpoint evaluation pass or  *)
(* do not.                                                                        *)
Delta == train.best.score - stage.baseline.score
TargetReached == stage.step = stage.target
GatesPass == /\ stage.audit
             /\ TargetReached
             /\ Delta >= 0
             /\ stage.target >= ImprovementFrom => Delta >= 1

StageRecord(evaluated) ==
    [target |-> stage.target, promoted |-> evaluated /\ GatesPass, selected |-> train.best,
     reached |-> stage.step, baseline |-> stage.baseline, inputs |-> stage.inputs]

DecideStage ==
    /\ StageAt("decide")
    /\ \E evaluated \in BOOLEAN :
          campaign' = [bound  |-> IF campaign.stages = <<>> THEN stage.inputs ELSE campaign.bound,
                       stages |-> Append(campaign.stages, StageRecord(evaluated))]
    /\ StageGoes(NoStage)
    /\ UNCHANGED <<pack, dataset, initial, train, handoff, accidents>>

StageDies ==
    /\ ~StageAt("down") /\ accidents.deaths < MaxStageDeaths
    /\ accidents' = [accidents EXCEPT !.deaths = @ + 1]
    /\ StageGoes(NoStage)
    /\ UNCHANGED <<pack, dataset, initial, train, campaign, handoff>>

(* build_scale_handoff, of the greatest promoted stage.                           *)
LastStage == CHOOSE s \in Stages : \A r \in Stages : r <= s
BuildHandoff ==
    /\ campaign.stages # <<>>
    /\ handoff' = IF \E i \in RecordsOf(LastStage) : campaign.stages[i].promoted THEN "admitted" ELSE "blocked"
    /\ UNCHANGED <<pack, dataset, initial, train, campaign, stage, accidents>>

LadderNext ==
    \/ WritePrompts \/ SealPack \/ SwapDataset
    \/ \E t \in Stages : RunStage(t)
    \/ Resume \/ TrainStage \/ CompareStage \/ DecideStage \/ StageDies
    \/ BuildHandoff

LadderSpec == LadderInit /\ [][LadderNext]_ladderVars

--------------------------------------------------------------------------------
(* Types of the campaign and its training run.                                    *)
CampaignTypeOK ==
    /\ pack.sealed <= pack.prompts
    /\ train.best.step <= train.latest.step
    /\ stage.target \in Stages \union {0}
    /\ handoff \in {"none", "blocked", "admitted"}

(* A stage is promoted on its own merits, in its turn: its training ran to its    *)
(* target on the dataset the campaign is bound to, whatever died, was swapped or  *)
(* was rebuilt on the way; it was judged with the pack of the first stage; and    *)
(* the stage before it had been promoted when it was recorded.                    *)
StagesEarned ==
    \A i \in DOMAIN campaign.stages :
        LET r == campaign.stages[i] IN
        /\ r.inputs.pack = campaign.bound.pack
        /\ r.promoted => /\ r.reached = r.target
                         /\ r.selected.dataset = campaign.bound.dataset
                         /\ Earlier(r.target) # {} =>
                               \E j \in 1..(i - 1) : /\ campaign.stages[j].target = Before(r.target)
                                                     /\ campaign.stages[j].promoted

(* A stage is compared with what it started from: its baseline is the checkpoint  *)
(* that the stage before it selected.                                             *)
ComparedWithPrior ==
    \A i, j \in DOMAIN campaign.stages :
        LET r == campaign.stages[i]  p == campaign.stages[j] IN
        (Earlier(r.target) # {} /\ p.target = Before(r.target)) => r.baseline = p.selected
================================================================================

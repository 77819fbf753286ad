--------------------------- MODULE EmbeddingTraining ---------------------------
(* train_scratch_embedding_model: the embedding model is trained on a dataset of  *)
(* pairs, validated at intervals and saved to latest/ and, when it improved, to   *)
(* best/.  A checkpoint is four files, written one after another over those of    *)
(* the checkpoint before; a run may die between any two of them, and be started   *)
(* again, from latest/ or from scratch, perhaps with other pairs.                 *)
(*                                                                                *)
(* Weights are the step they were saved at and the datasets they have seen.  The  *)
(* tokenizer and the configuration are bound and compared as the dataset is.      *)
EXTENDS Integers, Sequences

CONSTANTS
    PairSets,          \* datasets of embedding pairs
    EmbeddingSteps,    \* config.steps
    Intervals,         \* config.validation_interval
    EmbeddingPatience, \* config.early_stopping_patience
    MaxEmbeddingRuns   \* bound: runs of the encoder

ASSUME EmbeddingAssumption ==
    EmbeddingSteps \in Nat \ {0} /\ Intervals \subseteq Nat \ {0} /\ EmbeddingPatience \in Nat \ {0}

VARIABLES
    folder,    \* the files of latest/ and of best/
    encoder,   \* the run in progress: its locals and the files it still has to write
    embedding, \* embedding_training_report.json
    runs       \* runs started so far

embeddingVars == <<folder, encoder, embedding, runs>>

Folders == {"latest", "best"}
FilesOf == <<"weights", "manifest", "optimizer", "state">>
NoWeights == [step |-> 0, seen |-> {}]
NoValidation == [best |-> 0, stale |-> 0]
NoContent == [of |-> NoWeights, dataset |-> "none", interval |-> 0, progress |-> NoValidation]
NoTrainer == [pc |-> "down", dataset |-> "none", interval |-> 0, model |-> NoWeights, optimizer |-> 0,
              step |-> 0, progress |-> NoValidation, measured |-> FALSE, writes |-> <<>>]
NoEmbedding == [status |-> "none", dataset |-> "none", best |-> 0, weights |-> NoWeights]

EmbeddingInit ==
    /\ folder = [d \in Folders |-> [f \in {FilesOf[i] : i \in DOMAIN FilesOf} |-> NoContent]]
    /\ encoder = NoTrainer
    /\ embedding = NoEmbedding
    /\ runs = 0

--------------------------------------------------------------------------------
(* _load_embedding_checkpoint: all the files exist, the manifest and the training *)
(* state are of this dataset, and the weights hash as the manifest says.          *)
Complete(d) == \A f \in DOMAIN folder[d] : folder[d][f] # NoContent
\* Mutant: a checkpoint of other pairs is continued.
OfAnyPairs(d, pairs) == TRUE
OfThesePairs(d, pairs) == folder[d]["manifest"].dataset = pairs /\ folder[d]["state"].dataset = pairs
WeightsMatch(d) == folder[d]["weights"].of = folder[d]["manifest"].of

StartScratch(pairs) == [NoTrainer EXCEPT !.dataset = pairs, !.model.seen = {pairs}]
Resumed(pairs) ==
    LET saved == folder["latest"] IN
    [NoTrainer EXCEPT !.dataset = pairs,
        !.model = [step |-> saved["weights"].of.step, seen |-> saved["weights"].of.seen \union {pairs}],
        !.optimizer = saved["optimizer"].of.step,
        !.step = saved["state"].of.step, !.progress = saved["state"].progress]

Running(begun, interval) == [begun EXCEPT !.pc = "train", !.interval = interval]

StartTraining ==
    /\ encoder.pc = "down" /\ runs < MaxEmbeddingRuns
    /\ \E pairs \in PairSets, interval \in Intervals :
          \/ encoder' = Running(StartScratch(pairs), interval)
          \/ /\ Complete("latest") /\ OfThesePairs("latest", pairs) /\ WeightsMatch("latest")
             /\ folder["latest"]["state"].interval = interval
             /\ folder["latest"]["state"].of.step < EmbeddingSteps
             /\ encoder' = Running(Resumed(pairs), interval)
    /\ runs' = runs + 1
    /\ UNCHANGED <<folder, embedding>>

(* An optimizer step of the loop, over batches of the shuffled pairs.             *)
TakeStep ==
    /\ encoder.pc = "train" /\ encoder.step < EmbeddingSteps
    /\ encoder' = [encoder EXCEPT !.step = @ + 1, !.model.step = @ + 1, !.optimizer = @ + 1, !.pc = "stepped"]
    /\ UNCHANGED <<folder, embedding, runs>>

(* _save_training_checkpoint: weights, manifest, optimizer, training state.       *)
Saving(d) == [i \in DOMAIN FilesOf |-> <<d, FilesOf[i]>>]
Due == encoder.step % encoder.interval = 0 \/ encoder.step = EmbeddingSteps
After(improved) == IF improved THEN [best |-> encoder.step, stale |-> 0]
                   ELSE [encoder.progress EXCEPT !.stale = @ + 1]

(* A validation, which improves on none; latest/ is saved, then best/.            *)
ValidateStep ==
    /\ encoder.pc = "stepped" /\ Due
    /\ \E improved \in BOOLEAN :
          /\ encoder.progress.best = 0 => improved
          /\ encoder' = [encoder EXCEPT !.pc = "save", !.progress = After(improved), !.measured = TRUE,
                            !.writes = Saving("latest") \o (IF improved THEN Saving("best") ELSE <<>>)]
    /\ UNCHANGED <<folder, embedding, runs>>
(* Otherwise latest/ is saved when the checkpoint interval is due.                *)
SaveOrGoOn ==
    /\ encoder.pc = "stepped" /\ ~Due
    /\ \E writes \in {<<>>, Saving("latest")} : encoder' = [encoder EXCEPT !.pc = "save", !.writes = writes]
    /\ UNCHANGED <<folder, embedding, runs>>

Contents(name) ==
    [of |-> CASE name \in {"weights", "manifest"} -> encoder.model
              [] name = "optimizer" -> [NoWeights EXCEPT !.step = encoder.optimizer]
              [] OTHER -> [NoWeights EXCEPT !.step = encoder.step],
     dataset |-> encoder.dataset, interval |-> encoder.interval, progress |-> encoder.progress]
WriteNextFile ==
    /\ encoder.pc = "save" /\ encoder.writes # <<>>
    /\ LET file == Head(encoder.writes)
       IN  folder' = [folder EXCEPT ![file[1]][file[2]] = Contents(file[2])]
    /\ encoder' = [encoder EXCEPT !.writes = Tail(@)]
    /\ UNCHANGED <<embedding, runs>>
NextEmbeddingStep ==
    /\ encoder.pc = "save" /\ encoder.writes = <<>>
    /\ encoder' = [encoder EXCEPT !.pc = IF encoder.progress.stale >= EmbeddingPatience \/ encoder.step = EmbeddingSteps
                                         THEN "report" ELSE "train"]
    /\ UNCHANGED <<folder, embedding, runs>>

(* The report: passed when something was validated, no collapse was seen and      *)
(* there is a manifest in best/.                                                  *)
WriteEmbeddingReport ==
    /\ encoder.pc = "report"
    /\ \E collapsed \in BOOLEAN :
          embedding' = [status  |-> IF encoder.measured /\ ~collapsed /\ folder["best"]["manifest"] # NoContent
                                    THEN "passed" ELSE "failed",
                        dataset |-> encoder.dataset, best |-> encoder.progress.best,
                        weights |-> folder["best"]["weights"].of]
    /\ encoder' = NoTrainer
    /\ UNCHANGED <<folder, runs>>

TrainingDies ==
    /\ encoder.pc # "down"
    /\ encoder' = NoTrainer
    /\ UNCHANGED <<folder, embedding, runs>>

EmbeddingNext ==
    \/ StartTraining \/ TakeStep \/ ValidateStep \/ SaveOrGoOn \/ WriteNextFile
    \/ NextEmbeddingStep \/ WriteEmbeddingReport \/ TrainingDies

EmbeddingSpec == EmbeddingInit /\ [][EmbeddingNext]_embeddingVars

--------------------------------------------------------------------------------
(* Types of the files and of the run: nothing is written past the last step, and  *)
(* the writes that remain are of the two folders.                                 *)
EmbeddingTypeOK ==
    /\ \A d \in Folders : \A f \in DOMAIN folder[d] : folder[d][f].progress.best <= EmbeddingSteps
    /\ encoder.step \in 0..EmbeddingSteps
    /\ \A i \in DOMAIN encoder.writes : encoder.writes[i][1] \in Folders
    /\ embedding.status \in {"none", "passed", "failed"}

(* A model only ever learns from one dataset, whichever files of whichever run a  *)
(* crash left beside each other in latest/.                                       *)
OneDataset == /\ encoder.model.seen \subseteq {encoder.dataset}
              /\ \A d \in Folders : folder[d]["weights"].of.seen \subseteq {folder[d]["weights"].dataset}

(* A run that resumes continues one checkpoint: its weights, its optimizer and    *)
(* its step count are of the same step.                                           *)
ResumesOneStep == encoder.pc # "down" => /\ encoder.model.step = encoder.step
                                         /\ encoder.optimizer = encoder.step

(* A passed report names the best step, and the weights in best/ are of it.       *)
BestIsReported == embedding.status = "passed" => embedding.weights.step = embedding.best
================================================================================

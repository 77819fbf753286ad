----------------------------- MODULE Pretraining -----------------------------
(***************************************************************************)
(* run_pretraining_loop: optimizer steps over a deterministic stream of    *)
(* micro-batches, validation, early stopping, checkpoints kept in step     *)
(* directories, and, at the end, a reload that is compared with the        *)
(* trained model, the publication of the checkpoint and the report.  The   *)
(* process may die between any two of them and be launched again in the    *)
(* same output directory.                                                  *)
(*                                                                         *)
(* The model is the sequence of micro-batches it was trained on, so that   *)
(* two models are equal when their training was.  A file's hash is the     *)
(* content of the file.                                                    *)
(***************************************************************************)
EXTENDS Integers, Sequences, FiniteSets

CONSTANTS
    Steps,            \* optimizer steps requested
    Accumulations,    \* gradient accumulations a launch may ask for
    PerEpoch,         \* batches per rank and epoch
    ValidateEvery, CheckpointEvery,
    Keep,             \* keep_last_n_checkpoints of the launch
    DefaultKeep,      \* and its default, which the final save falls back to
    Patience,         \* early_stopping_patience; 0 turns it off
    Losses,           \* validation losses, as numbers
    MaxDeaths         \* bound on deaths and write errors

VARIABLES
    sharded,      \* FSDP directories, or one model.pt written in place
    directory,    \* checkpoint-step-N of each step that has one
    manifest,     \* checkpoint_manifest.json and best_checkpoint_manifest.json
    trainer,      \* the process: its locals and how far it is
    report,       \* pretrain_report.json
    published,    \* checkpoints committed to the workspace
    deaths        \* deaths and write errors so far

pretrainingVars == <<sharded, directory, manifest, trainer, report, published, deaths>>

ASSUME PretrainingAssumption ==
    /\ {Steps, PerEpoch, ValidateEvery, CheckpointEvery, Keep, DefaultKeep} \subseteq Nat \ {0}
    /\ Accumulations \subseteq Nat \ {0}
    /\ Losses \subseteq Nat \ {0}

NoFile  == [step |-> -1]
NoLoss  == -1
Infinite == 1 + CHOOSE m \in Losses : \A l \in Losses : l <= m

Down(how) == [at |-> how, accumulation |-> 0, step |-> 0, model |-> <<>>, epoch |-> 0, offset |-> 0,
              best |-> Infinite, selected |-> FALSE, idle |-> 0, loss |-> NoLoss, save |-> "none",
              next |-> "none"]

PretrainingInit ==
    /\ sharded \in BOOLEAN
    /\ directory = [s \in {} |-> NoFile]
    /\ manifest = [name \in {"final", "best"} |-> NoFile]
    /\ trainer = Down("down")
    /\ report = NoFile
    /\ published = {}
    /\ deaths = 0

Trainer(new) == trainer' = new
Reaches(place) == Trainer([trainer EXCEPT !.at = place])
Fails == Trainer(Down("down"))

-----------------------------------------------------------------------------
(* latest_checkpoint: the directory of the greatest step.  load_checkpoint *)
(* refuses a torn file and one whose contract differs from the launch's.   *)
Latest == CHOOSE s \in DOMAIN directory : \A r \in DOMAIN directory : r <= s
Loadable(c, accumulation) == c.whole /\ c.accumulation = accumulation

(* The cursor of a resumed stream is computed from the step.               *)
Completed(step, accumulation) == step * accumulation
\* Mutant: a resume starts at the beginning of the epoch.
EpochCursor(step, accumulation) == [epoch |-> Completed(step, accumulation) \div PerEpoch, offset |-> 0]
Cursor(step, accumulation) ==
    [epoch  |-> Completed(step, accumulation) \div PerEpoch,
     offset |-> Completed(step, accumulation) % PerEpoch]

Starts(c, accumulation) ==
    [Down("train") EXCEPT !.accumulation = accumulation, !.step = c.step, !.model = c.model,
                          !.epoch  = Cursor(c.step, accumulation).epoch,
                          !.offset = Cursor(c.step, accumulation).offset]

Scratch == [step |-> 0, model |-> <<>>]

Launch ==
    /\ trainer.at = "down"
    /\ \E accumulation \in Accumulations :
          IF DOMAIN directory = {}
          THEN Trainer(Starts(Scratch, accumulation))
          ELSE /\ Loadable(directory[Latest], accumulation)
               /\ Latest < Steps                       \* or the launch raises
               /\ Trainer(Starts(directory[Latest], accumulation))
    /\ UNCHANGED <<sharded, directory, manifest, report, published, deaths>>

(* One optimizer step: the next micro-batches of the stream, a new epoch   *)
(* when it is exhausted.                                                   *)
BatchAt(epoch, offset) == epoch * PerEpoch + offset + 1
Advanced(c) == IF c.offset < PerEpoch THEN [c EXCEPT !.offset = @ + 1, !.read = Append(@, BatchAt(c.epoch, c.offset))]
               ELSE [epoch |-> c.epoch + 1, offset |-> 1, read |-> Append(c.read, BatchAt(c.epoch + 1, 0))]
Read == LET after[k \in 0..trainer.accumulation] ==
                IF k = 0 THEN [epoch |-> trainer.epoch, offset |-> trainer.offset, read |-> <<>>]
                         ELSE Advanced(after[k - 1])
        IN  after[trainer.accumulation]

TrainStep ==
    /\ trainer.at = "train"
    /\ Trainer([trainer EXCEPT !.step = @ + 1, !.model = @ \o Read.read,
                               !.epoch = Read.epoch, !.offset = Read.offset, !.at = "validate"])
    /\ UNCHANGED <<sharded, directory, manifest, report, published, deaths>>

-----------------------------------------------------------------------------
(* Validation: an improved loss saves the best checkpoint; too many checks *)
(* without one stop the training early.                                    *)
Saves(reason, after) == [trainer EXCEPT !.at = "write", !.save = reason, !.next = after]
StopsEarly(idle) == Patience > 0 /\ idle >= Patience

Validate ==
    /\ trainer.at = "validate"
    /\ IF trainer.step % ValidateEvery # 0 THEN Reaches("periodic")
       ELSE \E loss \in Losses :
              IF loss < trainer.best
              THEN Trainer([Saves("best", "periodic") EXCEPT !.loss = loss, !.best = loss, !.idle = 0])
              ELSE Trainer([trainer EXCEPT !.loss = loss, !.idle = @ + 1,
                                           !.at = IF StopsEarly(trainer.idle + 1) THEN "finish" ELSE "periodic"])
    /\ UNCHANGED <<sharded, directory, manifest, report, published, deaths>>

EndOfLoop == IF trainer.step < Steps THEN "train" ELSE "finish"
Periodic ==
    /\ trainer.at = "periodic"
    /\ IF trainer.step % CheckpointEvery = 0 THEN Trainer(Saves("periodic", EndOfLoop))
                                             ELSE Reaches(EndOfLoop)
    /\ UNCHANGED <<sharded, directory, manifest, report, published, deaths>>

(* After the loop the final checkpoint, and the best one if none was.      *)
Finish ==
    /\ trainer.at = "finish"
    /\ Trainer(Saves("final", IF trainer.selected THEN "reload" ELSE "also best"))
    /\ UNCHANGED <<sharded, directory, manifest, report, published, deaths>>
AlsoBest ==
    /\ trainer.at = "also best"
    /\ Trainer([Saves("last resort", "reload") EXCEPT !.best = trainer.loss])
    /\ UNCHANGED <<sharded, directory, manifest, report, published, deaths>>

-----------------------------------------------------------------------------
(* save_training_checkpoint.  The metrics are part of the file.            *)
Metrics == CASE trainer.save = "periodic" -> <<trainer.loss>>
             [] trainer.loss = NoLoss       -> <<NoLoss, NoLoss>>
             [] OTHER                       -> <<trainer.loss, trainer.best>>
Content == [step |-> trainer.step, model |-> trainer.model, accumulation |-> trainer.accumulation,
            metrics |-> Metrics, whole |-> TRUE]
Torn    == [Content EXCEPT !.whole = FALSE]
NameOf(reason) == IF reason \in {"best", "last resort"} THEN "best" ELSE "final"

WithDirectory(s, c) == [r \in DOMAIN directory \union {s} |-> IF r = s THEN c ELSE directory[r]]
Without(S) == [r \in DOMAIN directory \ S |-> directory[r]]

(* model.pt is written in place; a sharded checkpoint is written beside    *)
(* the directory, which is then removed and replaced.                      *)
\* Mutant: a sharded checkpoint is written in place too.
WriteInPlace ==
    /\ trainer.at = "write"
    /\ directory' = WithDirectory(trainer.step, Torn)
    /\ Reaches("written")
    /\ UNCHANGED <<sharded, manifest, report, published, deaths>>
WriteBegins ==
    /\ trainer.at = "write"
    /\ directory' = IF sharded THEN Without({trainer.step}) ELSE WithDirectory(trainer.step, Torn)
    /\ Reaches("written")
    /\ UNCHANGED <<sharded, manifest, report, published, deaths>>

WriteEnds ==
    /\ trainer.at = "written"
    /\ directory' = WithDirectory(trainer.step, Content)
    /\ Reaches("manifest")
    /\ UNCHANGED <<sharded, manifest, report, published, deaths>>

(* A write error of model.pt removes the directory; the loop raises.       *)
WriteFails ==
    /\ trainer.at = "written" /\ ~sharded
    /\ deaths < MaxDeaths /\ deaths' = deaths + 1
    /\ directory' = Without({trainer.step})
    /\ Fails
    /\ UNCHANGED <<sharded, manifest, report, published>>

SealCheckpoint ==
    /\ trainer.at = "manifest"
    /\ manifest' = [manifest EXCEPT ![NameOf(trainer.save)] = Content]
    /\ Reaches("prune")
    /\ UNCHANGED <<sharded, directory, report, published, deaths>>

(* prune_old_checkpoints: all but the last Keep directories go, except     *)
(* the one just written.                                                   *)
KeepNow == IF trainer.save \in {"final", "last resort"} THEN DefaultKeep ELSE Keep
Newer(s) == {r \in DOMAIN directory : r > s}
Old == {s \in DOMAIN directory \ {trainer.step} : Cardinality(Newer(s)) >= KeepNow}
Prune ==
    /\ trainer.at = "prune"
    /\ directory' = Without(Old)
    /\ Trainer([trainer EXCEPT !.at = trainer.next, !.save = "none", !.next = "none",
                               !.selected = @ \/ trainer.save = "best"])
    /\ UNCHANGED <<sharded, manifest, report, published, deaths>>

-----------------------------------------------------------------------------
(* The newest checkpoint is loaded and must hold the step and the model    *)
(* that were trained; it is published and reported.                        *)
ReloadMatches ==
    LET c == directory[Latest]
    IN  Loadable(c, trainer.accumulation) /\ c.step = trainer.step /\ c.model = trainer.model
Reload ==
    /\ trainer.at = "reload"
    /\ IF ReloadMatches THEN Reaches("publish") ELSE Fails
    /\ UNCHANGED <<sharded, directory, manifest, report, published, deaths>>

(* publish_checkpoint_to_workspace: the files must hash as the manifest    *)
(* says; the commit comes after every upload, each of which may fail.      *)
Intact(name) == LET c == manifest[name]
                IN  c.step \in DOMAIN directory /\ directory[c.step] = c
Publish ==
    /\ trainer.at = "publish"
    /\ IF Intact("final")
       THEN published' = published \union {manifest["final"]} /\ Reaches("report")
       ELSE UNCHANGED published /\ Fails
    /\ UNCHANGED <<sharded, directory, manifest, report, deaths>>

WriteReport ==
    /\ trainer.at = "report"
    /\ report' = [step |-> trainer.step, final |-> manifest["final"], best |-> manifest["best"]]
    /\ Trainer(Down("done"))
    /\ UNCHANGED <<sharded, directory, manifest, published, deaths>>

TrainerDies ==
    /\ trainer.at \notin {"down", "done"}
    /\ deaths < MaxDeaths /\ deaths' = deaths + 1
    /\ Fails
    /\ UNCHANGED <<sharded, directory, manifest, report, published>>

PretrainingNext ==
    \/ Launch \/ TrainStep \/ Validate \/ Periodic \/ Finish \/ AlsoBest
    \/ WriteBegins \/ WriteEnds \/ WriteFails \/ SealCheckpoint \/ Prune
    \/ Reload \/ Publish \/ WriteReport \/ TrainerDies

PretrainingSpec == PretrainingInit /\ [][PretrainingNext]_pretrainingVars

-----------------------------------------------------------------------------
(* Types of the directories, the manifests and the process.                   *)
Checkpoints == {c \in {manifest["final"], manifest["best"]} : c # NoFile}
                  \union {directory[s] : s \in DOMAIN directory}
PretrainingTypeOK ==
    /\ DOMAIN directory \subseteq 1..Steps
    /\ \A c \in Checkpoints : c.step \in 1..Steps /\ c.accumulation \in Accumulations
    /\ trainer.step \in 0..Steps /\ trainer.offset \in 0..PerEpoch /\ trainer.idle \in Nat

(* A deterministic stream: however often the process died and was launched    *)
(* again, with whatever accumulation it was asked for, the model in training  *)
(* and every whole checkpoint were trained on each micro-batch once, in       *)
(* order, across epochs and with no gap at a resume.                          *)
InOrder(c) == c.model = [i \in 1..(c.step * c.accumulation) |-> i]
OrderedData ==
    /\ trainer.at \notin {"down", "done"} => InOrder(trainer)
    /\ \A c \in Checkpoints : c.whole => InOrder(c)

(* A crash costs no checkpoint but the one that is being written again: the   *)
(* newest whole one stays, through saves of two kinds and the pruning of old  *)
(* directories; and where checkpoints are sharded the directory a resume      *)
(* selects is always a whole one.                                             *)
Whole == {s \in DOMAIN directory : directory[s].whole}
ProgressKept ==
    [][/\ \A s \in Whole : s = trainer.step \/ \E r \in Whole' : r >= s
       /\ sharded => Whole' = (DOMAIN directory)']_pretrainingVars

(* A report is only written for training that ran to its end or stopped       *)
(* early, and only after the checkpoint it names was reloaded, found intact   *)
(* and committed to the workspace.                                            *)
ReportedIsTrained ==
    report # NoFile =>
        /\ report.final \in published
        /\ report.final.step = report.step /\ InOrder(report.final) /\ report.final.whole
        /\ report.step = Steps \/ Patience > 0

(* What is trained, saved and reported was trained on the data in its order.  *)
TrainedInOrder == OrderedData /\ ReportedIsTrained

(* Expected to fail.  "best_checkpoint_manifest.json for the best validation  *)
(* checkpoint" (docs/craftly_complete_architecture_manual.md:2096), whose     *)
(* files "match the checkpoint manifest" (:2083): when the run has reported,  *)
(* the checkpoint the best manifest names is there, as it was hashed.         *)
BestIsKept == trainer.at = "done" => Intact("best")
=============================================================================

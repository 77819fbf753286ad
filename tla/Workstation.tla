------------------------------ MODULE Workstation ------------------------------
(* The training workstation (deploy/modal): pretraining in an output directory,    *)
(* which is cleaned at each launch, packages of weights exported beside it and     *)
(* copied to a volume, and the fine-tuning that starts from such a package and     *)
(* exports its own.  Processes are interrupted or killed at any point, uploads     *)
(* fail, and the machine may be lost, of which only the volume stays.              *)
(*                                                                                 *)
(* The training is deterministic (Pretraining): weights are the step they were     *)
(* trained to, tuned weights that and the step of the tuning.  The corpus and the  *)
(* tokenizer are made once and kept; the reload and the report that end a training *)
(* are in Pretraining, where the last checkpoint is also sealed as the best one    *)
(* when none was.                                                                  *)
EXTENDS Integers, FiniteSets

CONSTANTS
    Asked,          \* steps a launch may ask for
    SaveEvery,      \* checkpoint_every, of both loops
    KeptSaves,      \* keep_last_n_checkpoints of the pretraining
    KeptTunings,    \* and of the tuning
    Extension,      \* steps added to a training that had reached what was asked
    TuningSteps,    \* steps a tuning may be asked for
    MaxTrained,     \* bound: steps of pretraining
    MaxLaunched,    \* bound: launches and tunings
    MaxMishaps      \* bound: interruptions, deaths, losses of the machine

\* Both loops refuse to run for less than a step.
ASSUME WorkstationAssumption ==
    /\ {SaveEvery, KeptSaves, KeptTunings, Extension, MaxTrained, MaxLaunched, MaxMishaps} \subseteq Nat
    /\ Asked \union TuningSteps \subseteq Nat \ {0}

VARIABLES
    saves,      \* the output directory: what the directory of each step holds
    sealed,     \* the step checkpoint_manifest.json names, and the one the best names
    station,    \* the pretraining process
    zips,       \* the packages beside it, by name
    volume,     \* the packages on the volume, and the step of the manifest there
    extracted,  \* the package last unpacked for a tuning
    tunings,    \* the output directory of the tunings
    tuner,      \* the tuning process
    launches, mishaps,
    ended       \* history: the weights with which a training or a tuning ended last

workstationVars ==
    <<saves, sealed, station, zips, volume, extracted, tunings, tuner, launches, mishaps, ended>>

NoStep == 0
NotAFile == -1
NoZip == [file |-> NoStep, label |-> NoStep, tokens |-> NoStep, weights |-> NoStep, tuned |-> NoStep]
PackageNames == {"latest", "completed", "emergency", "sft latest", "sft completed"}
NoZips == [name \in PackageNames |-> NoZip]
Off == [pc |-> "off", step |-> NoStep, target |-> NoStep, save |-> "none"]
NoTunings == [dirs |-> [s \in {} |-> NoStep], sealed |-> NoStep]
NoTuner == [pc |-> "off", base |-> NoStep, step |-> NoStep, target |-> NoStep]

WorkstationInit ==
    /\ saves = [s \in {} |-> "none"]
    /\ sealed = [final |-> NoStep, best |-> NoStep]
    /\ station = Off
    /\ zips = NoZips
    /\ volume = [packages |-> NoZips, manifest |-> NoStep]
    /\ extracted = NoZip
    /\ tunings = NoTunings
    /\ tuner = NoTuner
    /\ launches = 0 /\ mishaps = 0
    /\ ended = [training |-> NoStep, tuning |-> [base |-> NoStep, step |-> NoStep]]

LastOf(S) == CHOOSE s \in S : \A r \in S : r <= s
LastN(S, n) == {s \in S : Cardinality({r \in S : r > s}) < n}
Of(dirs, S) == [s \in S |-> dirs[s]]
With(dirs, s, what) == [r \in DOMAIN dirs \union {s} |-> IF r = s THEN what ELSE dirs[r]]
Mishap == mishaps < MaxMishaps /\ mishaps' = mishaps + 1
Launching == launches < MaxLaunched /\ launches' = launches + 1
TuningIdle == UNCHANGED <<extracted, tunings, tuner>>
StationIdle == UNCHANGED <<saves, sealed, station>>

--------------------------------------------------------------------------------
(* run_training_workstation.  A target that was reached is extended; directories   *)
(* that are empty or hold a small torn file are removed, and all but the last two  *)
(* whole ones and the one the manifest names.  The loop goes on from the newest    *)
(* directory with a model, which may be torn without being small, or past the      *)
(* target: then it raises.                                                         *)
Target(asked) == IF sealed.final >= asked
                 THEN sealed.final + (IF asked > Extension THEN asked ELSE Extension) ELSE asked
Sizeable == {s \in DOMAIN saves : saves[s] \in {"large", "whole"}}
Maintained == Of(saves, LastN(Sizeable, 2) \union ({sealed.final} \intersect Sizeable))
ResumesAt(dirs) == IF DOMAIN dirs = {} THEN NoStep ELSE LastOf(DOMAIN dirs)
LaunchStation(asked) ==
    LET from == ResumesAt(Maintained)
        refused == from # NoStep /\ (saves[from] # "whole" \/ from >= Target(asked))
    IN  /\ station.pc = "off" /\ tuner.pc = "off" /\ Launching
        /\ Target(asked) <= MaxTrained
        /\ saves' = Maintained
        /\ station' = IF refused THEN [Off EXCEPT !.pc = "raised"]
                      ELSE [Off EXCEPT !.pc = "train", !.step = from, !.target = Target(asked)]
        /\ UNCHANGED <<sealed, zips, volume, mishaps, ended>> /\ TuningIdle

(* A step, validated: an improvement is saved as the best, enough checks without   *)
(* one end the training; then the periodic save.                                   *)
SavesAs(s, reason) == [s EXCEPT !.pc = "save", !.save = reason]
AfterPeriodic(s) == IF s.step < s.target THEN [s EXCEPT !.pc = "train", !.save = "none"] ELSE SavesAs(s, "final")
AfterBest(s) == IF s.step % SaveEvery = 0 THEN SavesAs(s, "periodic") ELSE AfterPeriodic(s)
StationTrains ==
    LET s == [station EXCEPT !.step = @ + 1] IN
    /\ station.pc = "train"
    /\ station' \in {SavesAs(s, "best"), AfterBest(s), SavesAs(s, "final")}
    /\ UNCHANGED <<saves, sealed, zips, volume, launches, mishaps, ended>> /\ TuningIdle

(* save_training_checkpoint: what the directory holds until model.pt is written;   *)
(* the manifest; all but the last directories go, except the one just written.     *)
SaveBegins ==
    /\ station.pc = "save"
    /\ \E partial \in {"empty", "small", "large"} :
          /\ partial = "empty" => station.step \notin DOMAIN saves
          /\ saves' = With(saves, station.step, partial)
    /\ station' = [station EXCEPT !.pc = "write"]
    /\ UNCHANGED <<sealed, zips, volume, launches, mishaps, ended>> /\ TuningIdle
SaveEnds ==
    /\ station.pc = "write"
    /\ saves' = With(saves, station.step, "whole")
    /\ station' = [station EXCEPT !.pc = "seal"]
    /\ UNCHANGED <<sealed, zips, volume, launches, mishaps, ended>> /\ TuningIdle
SaveSeals ==
    /\ station.pc = "seal"
    /\ sealed' = IF station.save = "best" THEN [sealed EXCEPT !.best = station.step]
                                          ELSE [sealed EXCEPT !.final = station.step]
    /\ station' = [station EXCEPT !.pc = "prune"]
    /\ UNCHANGED <<saves, zips, volume, launches, mishaps, ended>> /\ TuningIdle
SavePrunes ==
    /\ station.pc = "prune"
    /\ saves' = Of(saves, LastN(DOMAIN saves, KeptSaves) \union {station.step})
    /\ station' = [station EXCEPT !.pc = IF station.save = "final" THEN "complete" ELSE "hook"]
    /\ UNCHANGED <<sealed, zips, volume, launches, mishaps, ended>> /\ TuningIdle

\* Mutant: the best save is exported before the final one.
BestFirst == IF sealed.best # NoStep THEN sealed.best ELSE sealed.final

(* export_clean_checkpoint_to_root: the directory the manifest names, or, if it is *)
(* gone, the last one, whose step is then read from its name; the tokens stay those *)
(* of the manifest.  Nothing is exported from a torn file, and no weights from a   *)
(* directory without one.                                                          *)
Named == IF sealed.final # NoStep THEN sealed.final ELSE sealed.best
Exported == IF Named \in DOMAIN saves THEN Named ELSE LastOf(DOMAIN saves)
Exports == DOMAIN saves # {} /\ saves[Exported] \in {"empty", "whole"}
Package(file) ==
    [NoZip EXCEPT !.file = file, !.label = Exported, !.tokens = Named,
                  !.weights = IF saves[Exported] = "whole" THEN Exported ELSE NoStep]

(* safe_volume_commit: what the manifest names and a package are uploaded, or, for *)
(* any error, nothing; without a manifest nothing is.                              *)
Uploads(names) ==
    \/ UNCHANGED volume
    \/ /\ sealed.final # NoStep
       /\ volume' = [packages |-> [n \in PackageNames |-> IF n \in names THEN zips'[n] ELSE volume.packages[n]],
                     manifest |-> sealed.final]

(* handle_checkpoint_save, after each best and periodic save.                      *)
StationExports ==
    /\ station.pc = "hook"
    /\ zips' = IF Exports THEN [zips EXCEPT !["latest"] = Package(station.step)] ELSE zips
    /\ Uploads(IF zips'["latest"] # NoZip THEN {"latest"} ELSE {})
    /\ station' = IF station.save = "best" THEN AfterBest(station) ELSE AfterPeriodic(station)
    /\ UNCHANGED <<saves, sealed, launches, mishaps, ended>> /\ TuningIdle
StationCompletes ==
    /\ station.pc = "complete"
    /\ zips' = IF Exports THEN [zips EXCEPT !["completed"] = Package(NoStep), !["latest"] = Package(NoStep)] ELSE zips
    /\ Uploads(IF Exports THEN {"completed"} ELSE {})
    /\ ended' = [ended EXCEPT !.training = station.step]
    /\ station' = Off
    /\ UNCHANGED <<saves, sealed, launches, mishaps>> /\ TuningIdle

(* An interruption or an error anywhere is met by an emergency export; an error    *)
(* while model.pt is written removes its directory.  A process may also be killed. *)
StationInterrupted ==
    /\ station.pc \notin {"off", "raised"} /\ Mishap
    /\ \/ UNCHANGED saves
       \/ station.pc = "write" /\ saves' = Of(saves, DOMAIN saves \ {station.step})
    /\ station' = [Off EXCEPT !.pc = "raised"]
    /\ UNCHANGED <<sealed, zips, volume, launches, ended>> /\ TuningIdle
EmergencyExport ==
    /\ station.pc = "raised"
    /\ zips' = IF Exports THEN [zips EXCEPT !["emergency"] = Package(NoStep)] ELSE zips
    /\ Uploads(IF Exports THEN {"emergency"} ELSE {})
    /\ station' = Off
    /\ UNCHANGED <<saves, sealed, launches, mishaps, ended>> /\ TuningIdle
StationDies ==
    /\ station.pc # "off" /\ Mishap
    /\ station' = Off
    /\ UNCHANGED <<saves, sealed, zips, volume, launches, ended>> /\ TuningIdle

--------------------------------------------------------------------------------
(* locate_base_checkpoint: a fixed order; a package is unpacked unless one has     *)
(* been before, and a manifest is only of use where its directory is.              *)
FromManifest(step) ==
    IF step \in DOMAIN saves /\ saves[step] = "whole"
    THEN [NoZip EXCEPT !.file = NotAFile, !.label = step, !.weights = step] ELSE NoZip
Unpacked(zip) == IF extracted.weights # NoStep THEN extracted ELSE zip
Located ==
    IF volume.packages["latest"] # NoZip THEN Unpacked(volume.packages["latest"])
    ELSE IF volume.packages["completed"] # NoZip THEN Unpacked(volume.packages["completed"])
    ELSE IF volume.manifest # NoStep THEN FromManifest(volume.manifest)
    ELSE IF extracted.weights # NoStep THEN extracted
    ELSE IF zips["latest"] # NoZip THEN zips["latest"]
    ELSE IF zips["completed"] # NoZip THEN zips["completed"]
    ELSE FromManifest(sealed.final)
TuningBegins(steps) ==
    /\ tuner.pc = "off" /\ station.pc = "off" /\ Launching
    /\ Located.weights # NoStep
    /\ extracted' = IF Located.file = NotAFile THEN extracted ELSE Located
    /\ tuner' = [pc |-> "train", base |-> Located.weights, step |-> NoStep, target |-> steps]
    /\ UNCHANGED <<zips, volume, tunings, mishaps, ended>> /\ StationIdle

(* run_sft: a step, validated; enough checks without an improvement end the loop   *)
(* before the periodic save.                                                       *)
TunerTrains ==
    LET t == [tuner EXCEPT !.step = @ + 1]
        saving == t.step % SaveEvery = 0 \/ t.step = t.target
    IN  /\ tuner.pc = "train"
        /\ tuner' \in {[t EXCEPT !.pc = IF saving THEN "save" ELSE "train"], [t EXCEPT !.pc = "final"]}
        /\ UNCHANGED <<extracted, tunings, zips, volume, launches, mishaps, ended>> /\ StationIdle

TunedNow == [base |-> tuner.base, step |-> tuner.step]
HalfWritten == [base |-> NoStep, step |-> NoStep]
TunerWrites ==
    /\ tuner.pc \in {"save", "final"}
    /\ tunings' = [tunings EXCEPT !.dirs = With(@, tuner.step, HalfWritten)]
    /\ tuner' = [tuner EXCEPT !.pc = IF @ = "save" THEN "seal" ELSE "final seal"]
    /\ UNCHANGED <<extracted, zips, volume, launches, mishaps, ended>> /\ StationIdle
(* The manifest, and, but for the last save, the pruning.                          *)
Pruned(dirs) == LastN(DOMAIN dirs, KeptTunings) \union {tuner.step}
TunerSeals ==
    LET written == With(tunings.dirs, tuner.step, TunedNow) IN
    /\ tuner.pc \in {"seal", "final seal"}
    /\ tunings' = [dirs |-> IF tuner.pc = "seal" THEN Of(written, Pruned(written)) ELSE written,
                   sealed |-> tuner.step]
    /\ tuner' = [tuner EXCEPT !.pc = IF @ = "seal" THEN "hook" ELSE "complete"]
    /\ UNCHANGED <<extracted, zips, volume, launches, mishaps, ended>> /\ StationIdle

(* export_clean_sft_package, of the directory that was saved: a copy goes to the   *)
(* volume, if that succeeds.                                                       *)
TunedPackage ==
    [NoZip EXCEPT !.label = tuner.step,
                  !.weights = tunings.dirs[tuner.step].base, !.tuned = tunings.dirs[tuner.step].step]
CopiesToVolume(name) ==
    \/ UNCHANGED volume
    \/ volume' = [volume EXCEPT !.packages[name] = TunedPackage]
TunerExports ==
    /\ tuner.pc = "hook"
    /\ zips' = [zips EXCEPT !["sft latest"] = TunedPackage]
    /\ CopiesToVolume("sft latest")
    /\ tuner' = [tuner EXCEPT !.pc = IF tuner.step < tuner.target THEN "train" ELSE "final"]
    /\ UNCHANGED <<extracted, tunings, launches, mishaps, ended>> /\ StationIdle
TunerCompletes ==
    /\ tuner.pc = "complete"
    /\ zips' = [zips EXCEPT !["sft completed"] = TunedPackage, !["sft latest"] = TunedPackage]
    /\ CopiesToVolume("sft completed")
    /\ ended' = [ended EXCEPT !.tuning = TunedNow]
    /\ tuner' = NoTuner
    /\ UNCHANGED <<extracted, tunings, launches, mishaps>> /\ StationIdle
TunerDies ==
    /\ tuner.pc # "off" /\ Mishap
    /\ tuner' = NoTuner
    /\ UNCHANGED <<extracted, tunings, zips, volume, launches, ended>> /\ StationIdle

(* The machine is lost: what was not uploaded is gone.                             *)
MachineLost ==
    /\ Mishap
    /\ saves' = [s \in {} |-> "none"] /\ sealed' = [final |-> NoStep, best |-> NoStep] /\ station' = Off
    /\ zips' = NoZips /\ extracted' = NoZip /\ tunings' = NoTunings /\ tuner' = NoTuner
    /\ ended' = [training |-> NoStep, tuning |-> HalfWritten]
    /\ UNCHANGED <<volume, launches>>

WorkstationNext ==
    \/ \E asked \in Asked : LaunchStation(asked)
    \/ StationTrains \/ SaveBegins \/ SaveEnds \/ SaveSeals \/ SavePrunes
    \/ StationExports \/ StationCompletes \/ StationInterrupted \/ EmergencyExport \/ StationDies
    \/ \E steps \in TuningSteps : TuningBegins(steps)
    \/ TunerTrains \/ TunerWrites \/ TunerSeals \/ TunerExports \/ TunerCompletes \/ TunerDies
    \/ MachineLost
WorkstationSpec == WorkstationInit /\ [][WorkstationNext]_workstationVars

--------------------------------------------------------------------------------
(* What can be downloaded is what it says it is, whatever was interrupted, pruned  *)
(* and run again: a package is labelled with the step of its weights; the package  *)
(* of a completed training or tuning holds the weights it ended with.  A tuning's  *)
(* manifest names a directory that is there; and a training that runs is past      *)
(* every whole checkpoint on its disk.                                             *)
Packages == {zips[n] : n \in PackageNames} \union {volume.packages[n] : n \in PackageNames}
LabelledAsIs == \A z \in Packages : z.weights # NoStep => z.label = IF z.tuned # NoStep THEN z.tuned ELSE z.weights
CompletedIsFinal ==
    /\ zips["completed"] # NoZip => zips["completed"].weights = ended.training
    /\ zips["sft completed"] # NoZip =>
          [base |-> zips["sft completed"].weights, step |-> zips["sft completed"].tuned] = ended.tuning
SealedIsThere == tunings.sealed # NoStep => tunings.sealed \in DOMAIN tunings.dirs
GoesOn == station.pc = "train" => \A s \in DOMAIN saves : saves[s] = "whole" => s <= station.step
PackagedAsTrained == LabelledAsIs /\ CompletedIsFinal /\ SealedIsThere /\ GoesOn

(* Expected to fail.  The package step_N of an export, which announces that "Step  *)
(* N checkpoint is ready in /root" (deploy/modal/train_modal.py:530), holds the    *)
(* weights of step N; and a tuning uses "the best available" checkpoint            *)
(* (deploy/modal/sft_modal.py:123), not one that was unpacked before.              *)
NamedAsHeld == \A z \in Packages : z.file # NoStep /\ z.tuned = NoStep => z.weights = z.file
TunesNewest ==
    tuner.pc = "train" /\ tuner.step = NoStep => \A z \in {zips["latest"], zips["completed"]} : z.weights <= tuner.base
================================================================================

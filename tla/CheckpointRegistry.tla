-------------------------- MODULE CheckpointRegistry --------------------------
(* Checkpoints of a job in the workspace: objects uploaded with presigned URLs,   *)
(* artifacts registered once their object was verified, checkpoint versions       *)
(* committed against them, evaluations, promotion, the latest pointer, and the    *)
(* next milestone of a qualification campaign, which the previous job unlocks.    *)
(* Calls run concurrently, each in the steps its awaits make of it.               *)
(*                                                                                *)
(* Abstracted: a checkpoint has one data file, a digest of which stands for it; a *)
(* manifest is named by the digest it lists; sizes and dataset and tokenizer      *)
(* hashes are equal; steps are above the promotion's minimum.                     *)
EXTENDS Integers, FiniteSets

CONSTANTS
    CheckpointSteps,   \* steps that have a checkpoint directory
    Digests,           \* contents of a checkpoint
    Workspace,         \* calls that may run together
    MinimumEvaluations,\* promotion.minimum_completed_evaluations
    MaxUploads,        \* bound: uploads
    MaxEvaluations     \* bound: evaluations committed

ASSUME RegistryAssumption == {MinimumEvaluations, MaxUploads, MaxEvaluations} \subseteq Nat

VARIABLES
    objects,     \* the object store: digest at each path, 0 for none
    artifacts,   \* training_artifacts: the digest registered for each path
    versions,    \* checkpoint_versions, by step
    evaluations, \* evaluation_runs, in no order
    latest,      \* jobs/<job>/checkpoints/latest.json
    operation,   \* the calls in flight
    uploads,     \* uploads so far
    unlocked,    \* the next milestone has been admitted
    witnessed    \* history: what was verified when a version was committed

registryVars == <<objects, artifacts, versions, evaluations, latest, operation, uploads, unlocked, witnessed>>

NoDigest == "none"
Paths == CheckpointSteps \X {"manifest", "file"}
NoVersion == [digest |-> NoDigest, reloaded |-> FALSE, promoted |-> FALSE]
NoPointer == [step |-> 0, digest |-> NoDigest]
NoOperation == [pc |-> "idle", step |-> 0, digest |-> NoDigest, reloaded |-> FALSE, listed |-> <<>>, passing |-> {}]

RegistryInit ==
    /\ objects = [p \in Paths |-> NoDigest]
    /\ artifacts = [p \in Paths |-> NoDigest]
    /\ versions = [s \in CheckpointSteps |-> NoVersion]
    /\ evaluations = {}
    /\ latest = NoPointer
    /\ operation = [o \in Workspace |-> NoOperation]
    /\ uploads = 0
    /\ unlocked = FALSE
    /\ witnessed = {}

Operate(o, new) == operation' = [operation EXCEPT ![o] = new]
EndOperation(o) == Operate(o, NoOperation)
AtOperation(o, pc) == operation[o].pc = pc

--------------------------------------------------------------------------------
(* A worker puts an object, again if its URL is still valid; the registration     *)
(* looks at the object and keeps one row for a URI, with the last digest.         *)
PutObject(p, d) ==
    /\ uploads < MaxUploads
    /\ uploads' = uploads + 1
    /\ objects' = [objects EXCEPT ![p] = d]
    /\ UNCHANGED <<artifacts, versions, evaluations, latest, operation, unlocked, witnessed>>

RegisterBegins(o, p) ==
    /\ AtOperation(o, "idle") /\ objects[p] # NoDigest
    /\ Operate(o, [NoOperation EXCEPT !.pc = "register", !.listed = p, !.digest = objects[p]])
    /\ UNCHANGED <<objects, artifacts, versions, evaluations, latest, uploads, unlocked, witnessed>>

RegisterEnds(o) ==
    /\ AtOperation(o, "register")
    /\ artifacts' = [artifacts EXCEPT ![operation[o].listed] = operation[o].digest]
    /\ EndOperation(o)
    /\ UNCHANGED <<objects, versions, evaluations, latest, uploads, unlocked, witnessed>>

(* commit_checkpoint lists the artifacts, finds its manifest there, downloads it  *)
(* and looks every file it lists up among those artifacts; then it inserts the    *)
(* version, which for a step that has one must have the same manifest.            *)
ManifestVerified(listed, s, d) == listed[<<s, "manifest">>] = d
\* Mutant: only the manifest is verified.
FilesUnverified(listed, s, d) == TRUE
FilesVerified(listed, s, d) == listed[<<s, "file">>] = d

CommitLists(o, s, d) ==
    /\ AtOperation(o, "idle")
    /\ ManifestVerified(artifacts, s, d)
    /\ \E reloaded \in BOOLEAN :
          Operate(o, [NoOperation EXCEPT !.pc = "download", !.step = s, !.digest = d,
                                         !.listed = artifacts, !.reloaded = reloaded])
    /\ UNCHANGED <<objects, artifacts, versions, evaluations, latest, uploads, unlocked, witnessed>>

CommitVerifies(o) ==
    LET me == operation[o] IN
    /\ AtOperation(o, "download")
    /\ IF objects[<<me.step, "manifest">>] = me.digest /\ FilesVerified(me.listed, me.step, me.digest)
       THEN /\ Operate(o, [me EXCEPT !.pc = "insert"])
            /\ witnessed' = witnessed \union {<<me.step, me.listed[<<me.step, "file">>]>>}
       ELSE EndOperation(o) /\ UNCHANGED witnessed
    /\ UNCHANGED <<objects, artifacts, versions, evaluations, latest, uploads, unlocked>>

Inserts(s, d) == versions[s] = NoVersion

CommitInserts(o) ==
    LET me == operation[o] IN
    /\ AtOperation(o, "insert")
    /\ versions' = IF Inserts(me.step, me.digest)
                   THEN [versions EXCEPT ![me.step] = [NoVersion EXCEPT !.digest = me.digest, !.reloaded = me.reloaded]]
                   ELSE versions
    /\ EndOperation(o)
    /\ UNCHANGED <<objects, artifacts, evaluations, latest, uploads, unlocked, witnessed>>

(* commit_evaluation of a report that was uploaded and registered.                *)
CommitEvaluation(s) ==
    /\ versions[s] # NoVersion /\ Cardinality(evaluations) < MaxEvaluations
    /\ \E decision \in {"pass", "block"}, regressed \in BOOLEAN :
          evaluations' = evaluations \union {[id |-> Cardinality(evaluations), step |-> s,
                                              decision |-> decision, regressed |-> regressed]}
    /\ UNCHANGED <<objects, artifacts, versions, latest, operation, uploads, unlocked, witnessed>>

--------------------------------------------------------------------------------
(* promote_checkpoint: the version is read, then the evaluations; the row is      *)
(* marked, and then the pointer put, of what was read.                            *)
Passing(s) == {e \in evaluations : e.step = s /\ e.decision = "pass"}

PromoteReads(o, s) ==
    /\ AtOperation(o, "idle")
    /\ versions[s] # NoVersion /\ versions[s].reloaded
    /\ Operate(o, [NoOperation EXCEPT !.pc = "judge", !.step = s, !.digest = versions[s].digest])
    /\ UNCHANGED <<objects, artifacts, versions, evaluations, latest, uploads, unlocked, witnessed>>

PromoteJudges(o) ==
    LET passing == Passing(operation[o].step) IN
    /\ AtOperation(o, "judge")
    /\ IF Cardinality(passing) >= MinimumEvaluations /\ \A e \in passing : ~e.regressed
       THEN Operate(o, [operation[o] EXCEPT !.pc = "mark", !.passing = passing])
       ELSE EndOperation(o)
    /\ UNCHANGED <<objects, artifacts, versions, evaluations, latest, uploads, unlocked, witnessed>>

PromoteMarks(o) ==
    /\ AtOperation(o, "mark")
    /\ versions' = [versions EXCEPT ![operation[o].step].promoted = TRUE]
    /\ Operate(o, [operation[o] EXCEPT !.pc = "point"])
    /\ UNCHANGED <<objects, artifacts, evaluations, latest, uploads, unlocked, witnessed>>

PromotePoints(o) ==
    /\ AtOperation(o, "point")
    /\ latest' = [step |-> operation[o].step, digest |-> operation[o].digest]
    /\ EndOperation(o)
    /\ UNCHANGED <<objects, artifacts, versions, evaluations, uploads, unlocked, witnessed>>

(* _validate_qualification_predecessor, when a job of the next milestone is       *)
(* created: some checkpoint of the previous job was reloaded, an evaluation       *)
(* passed, and none that did regressed.                                           *)
Unlocks ==
    /\ \E s \in CheckpointSteps : versions[s].reloaded
    /\ \E e \in evaluations : e.decision = "pass"
    /\ \A e \in evaluations : e.decision = "pass" => ~e.regressed

NextMilestone ==
    /\ ~unlocked /\ Unlocks
    /\ unlocked' = TRUE
    /\ UNCHANGED <<objects, artifacts, versions, evaluations, latest, operation, uploads, witnessed>>

(* A gateway ends with a call.                                                    *)
OperationDies(o) ==
    /\ ~AtOperation(o, "idle")
    /\ EndOperation(o)
    /\ UNCHANGED <<objects, artifacts, versions, evaluations, latest, uploads, unlocked, witnessed>>

RegistryNext ==
    \/ \E p \in Paths, d \in Digests : PutObject(p, d)
    \/ \E o \in Workspace :
          \/ \E p \in Paths : RegisterBegins(o, p)
          \/ RegisterEnds(o)
          \/ \E s \in CheckpointSteps, d \in Digests : CommitLists(o, s, d)
          \/ CommitVerifies(o) \/ CommitInserts(o)
          \/ \E s \in CheckpointSteps : PromoteReads(o, s)
          \/ PromoteJudges(o) \/ PromoteMarks(o) \/ PromotePoints(o)
          \/ OperationDies(o)
    \/ \E s \in CheckpointSteps : CommitEvaluation(s)
    \/ NextMilestone

RegistrySpec == RegistryInit /\ [][RegistryNext]_registryVars

--------------------------------------------------------------------------------
(* Types of the rows, the pointer and the calls.                                  *)
RegistryTypeOK ==
    /\ \A p \in Paths : {objects[p], artifacts[p]} \subseteq Digests \union {NoDigest}
    /\ \A s \in CheckpointSteps : versions[s].promoted => versions[s].reloaded
    /\ latest.step \in CheckpointSteps \union {0}

(* A promotion is earned by the very checkpoint: its file was verified against    *)
(* the manifest of the version, it was reloaded, and enough evaluations of it     *)
(* passed, although calls about other steps and contents run in between; and the  *)
(* latest pointer names a promoted version as it stands.                          *)
PromotionEarned ==
    /\ \A s \in CheckpointSteps : versions[s].promoted =>
          /\ <<s, versions[s].digest>> \in witnessed
          /\ versions[s].reloaded
          /\ Cardinality(Passing(s)) >= MinimumEvaluations
    /\ latest # NoPointer => /\ versions[latest.step].promoted
                             /\ versions[latest.step].digest = latest.digest
================================================================================

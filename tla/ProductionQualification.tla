------------------------ MODULE ProductionQualification ------------------------
(* The release decision.  A qualification reads its policy, measures for hours,   *)
(* binds and then loads the evidence of the training chain, and writes a report   *)
(* that names the report before it.  The files of the chain may be produced again *)
(* while it runs, the policy may be edited, and a second qualification may write  *)
(* to the same store.                                                             *)
(*                                                                                *)
(* A file of the chain is a version, whether what it reports passes, the version  *)
(* of the file before it that it is hash bound to, and its age.  The policy is    *)
(* the greatest age it admits.  The checks that read no file of the chain (live   *)
(* services, gates, load, chaos, soak, observability, review, canary) are one     *)
(* outcome.                                                                       *)
EXTENDS Integers, Sequences, FiniteSets

CONSTANTS
    Qualifications,  \* runs of the command, each with the id of its report
    Policies,        \* contents of config/production_qualification.json
    MaxReproductions,\* bound: files produced again
    MaxAge,          \* bound: clock ticks
    MaxPolicyEdits   \* bound: edits of the policy

ASSUME QualificationAssumption == Policies \subseteq Nat /\ Policies # {}

VARIABLES
    chain,         \* the evidence files
    policy,        \* the policy file
    qualification, \* each run: its locals and how far it is
    release,       \* the store: runs/<report-id>/, latest.json
    done           \* files produced, ticks, edits of the policy so far

releaseVars == <<chain, policy, qualification, release, done>>

(* validate_scratch_training_chain: its files in the order they are bound.        *)
Ladder == <<"calibration_200", "calibration_5k", "dataset", "tokenizer", "training">>
Rungs == DOMAIN Ladder
Statuses == {"failed", "blocked", "not_run", "passed"}

NoReport == "no report"
NoQualification == [pc |-> "idle", policy |-> 0, supplied |-> FALSE, bound |-> <<>>, loaded |-> 0,
                    moment |-> <<>>, verdict |-> "blocked", report |-> NoReport]

ReleaseInit ==
    /\ chain = [i \in Rungs |-> [version |-> 1, good |-> TRUE, upstream |-> IF i = 1 THEN 0 ELSE 1, age |-> 0]]
    /\ policy \in Policies
    /\ qualification = [q \in Qualifications |-> NoQualification]
    /\ release = [reports |-> <<>>, latest |-> NoReport]
    /\ done = [reproductions |-> 0, ticks |-> 0, edits |-> 0]

At(q, place) == qualification[q].pc = place
Becomes(q, new) == qualification' = [qualification EXCEPT ![q] = new]

--------------------------------------------------------------------------------
(* The ladder is climbed again from some rung; the policy is edited; time passes. *)
Reproduce(i) ==
    /\ done.reproductions < MaxReproductions
    /\ \E good \in BOOLEAN :
          chain' = [chain EXCEPT ![i] = [version |-> @.version + 1, good |-> good, age |-> 0,
                                         upstream |-> IF i = 1 THEN 0 ELSE chain[i - 1].version]]
    /\ done' = [done EXCEPT !.reproductions = @ + 1]
    /\ UNCHANGED <<policy, qualification, release>>
EditPolicy ==
    /\ done.edits < MaxPolicyEdits
    /\ policy' \in Policies \ {policy}
    /\ done' = [done EXCEPT !.edits = @ + 1]
    /\ UNCHANGED <<chain, qualification, release>>
Tick ==
    /\ done.ticks < MaxAge
    /\ chain' = [i \in Rungs |-> [chain[i] EXCEPT !.age = @ + 1]]
    /\ done' = [done EXCEPT !.ticks = @ + 1]
    /\ UNCHANGED <<policy, qualification, release>>

(* run_qualification: the policy is read; the proofs, gates and load come first.  *)
StartQualification(q) ==
    /\ At(q, "idle")
    /\ \E supplied \in BOOLEAN :
          Becomes(q, [NoQualification EXCEPT !.pc = "bind", !.policy = policy, !.supplied = supplied])
    /\ UNCHANGED <<chain, policy, release, done>>

(* bind_evidence: the age and the hash of the next file; all are bound before any *)
(* is loaded.  An evidence path that was not given blocks the chain.              *)
Judged(q, verdict) == [qualification[q] EXCEPT !.pc = "decide", !.verdict = verdict]
BindsNext(q) ==
    LET d == qualification[q]  i == Len(d.bound) + 1
        bound == [d EXCEPT !.bound = Append(@, chain[i])]
    IN  IF i < Len(Ladder) THEN bound ELSE [bound EXCEPT !.pc = "load", !.moment = chain]
Stale(q) == chain[Len(qualification[q].bound) + 1].age > qualification[q].policy
BindEvidence(q) ==
    /\ At(q, "bind")
    /\ Becomes(q, IF ~qualification[q].supplied THEN Judged(q, "blocked")
                  ELSE IF Stale(q) THEN Judged(q, "failed") ELSE BindsNext(q))
    /\ UNCHANGED <<chain, policy, release, done>>

(* load_json_evidence: a file that no longer hashes as it was bound is refused.   *)
\* Mutant: the file is read without hashing it again.
LoadsAnything(q, i) == TRUE
StillBound(q, i) == chain[i].version = qualification[q].bound[i].version

(* The links: each file passed, and names the version of the one before it.       *)
Linked(b) == \A i \in Rungs : b[i].good /\ (i > 1 => b[i].upstream = b[i - 1].version)

LoadEvidence(q) ==
    LET d == qualification[q]  i == d.loaded + 1
        seen == [d EXCEPT !.loaded = i, !.bound[i] = chain[i]]
    IN  /\ At(q, "load")
        /\ Becomes(q, CASE ~StillBound(q, i) -> Judged(q, "failed")
                        [] StillBound(q, i) /\ i < Len(Ladder) -> seen
                        [] OTHER -> [seen EXCEPT !.pc = "decide",
                                        !.verdict = IF Linked(seen.bound) THEN "passed" ELSE "failed"])
        /\ UNCHANGED <<chain, policy, release, done>>

(* What the other checks can say.  A gate nobody asked for has not run; evidence  *)
(* or a service that is not given blocks its check; a measurement fails it.       *)
Worst(S) == CASE "failed" \in S -> "failed"
              [] "failed" \notin S /\ "blocked" \in S -> "blocked"
              [] S \cap {"failed", "blocked"} = {} /\ "not_run" \in S -> "not_run"
              [] OTHER -> "passed"
LiveRow == {"passed", "failed", "skipped"}
LiveProof(rows) == CASE "failed" \in rows -> "failed"
                     [] "failed" \notin rows /\ "skipped" \in rows -> "blocked"
                     [] OTHER -> "passed"
FunctionalGates == {"not_run", "failed", "passed"}
LoadLadder == {"blocked", "failed", "passed"}
TrainingProofs == {"blocked", "failed", "passed"}
Observability == {"blocked", "failed", "passed"}
SecurityReview == {"blocked", "failed", "passed"}
Canary == {"blocked", "failed", "passed"}
Audited(review, audit) == CASE audit = "failed" -> "failed" [] audit = "skipped" -> "blocked" [] OTHER -> review
OtherChecks ==
    [live : SUBSET LiveRow \ {{}}, functional : FunctionalGates, load : LoadLadder, proofs : TrainingProofs,
     observability : Observability, review : SecurityReview, audit : LiveRow, canary : Canary]
Outcome(c) == Worst({LiveProof(c.live), c.functional, c.load, c.proofs, c.observability,
                     Audited(c.review, c.audit), c.canary})
Outcomes == {Outcome(c) : c \in OtherChecks}

(* The worst of all; the report names the policy file as it is now.               *)
Report(q, outcome) ==
    [status |-> Worst({qualification[q].verdict, outcome}), policy |-> policy, applied |-> qualification[q].policy,
     bound |-> qualification[q].bound, moment |-> qualification[q].moment, previous |-> NoReport, intact |-> TRUE]
Decides(q) ==
    /\ At(q, "decide")
    /\ \E outcome \in Outcomes :
          Becomes(q, [qualification[q] EXCEPT !.pc = "previous", !.report = Report(q, outcome)])
    /\ UNCHANGED <<chain, policy, release, done>>

(* _latest_digest: nothing is decided after a latest report that does not verify. *)
ReadPrevious(q) ==
    LET latest == release.latest IN
    /\ At(q, "previous")
    /\ Becomes(q, IF latest # NoReport /\ ~release.reports[latest].intact
                  THEN [NoQualification EXCEPT !.pc = "raised"]
                  ELSE [qualification[q] EXCEPT !.pc = "write", !.report.previous = latest])
    /\ UNCHANGED <<chain, policy, release, done>>

(* ImmutableQualificationStore.write: the report, then latest.json.               *)
PublishDecision(q) ==
    /\ At(q, "write")
    /\ release' = [release EXCEPT !.reports =
                     [id \in DOMAIN @ \union {q} |-> IF id = q THEN qualification[q].report ELSE @[id]]]
    /\ Becomes(q, [qualification[q] EXCEPT !.pc = "pointer"])
    /\ UNCHANGED <<chain, policy, done>>
MovePointer(q) ==
    /\ At(q, "pointer")
    /\ release' = [release EXCEPT !.latest = q]
    /\ Becomes(q, [NoQualification EXCEPT !.pc = "returned"])
    /\ UNCHANGED <<chain, policy, done>>

QualificationDies(q) ==
    /\ qualification[q].pc \notin {"idle", "returned", "raised"}
    /\ Becomes(q, [NoQualification EXCEPT !.pc = "raised"])
    /\ UNCHANGED <<chain, policy, release, done>>
DamageReport(q) ==
    /\ q \in DOMAIN release.reports /\ release.reports[q].intact
    /\ release' = [release EXCEPT !.reports[q].intact = FALSE]
    /\ UNCHANGED <<chain, policy, qualification, done>>

ReleaseNext ==
    \/ \E i \in Rungs : Reproduce(i)
    \/ EditPolicy \/ Tick
    \/ \E q \in Qualifications :
          \/ StartQualification(q) \/ BindEvidence(q) \/ LoadEvidence(q) \/ Decides(q)
          \/ ReadPrevious(q) \/ PublishDecision(q) \/ MovePointer(q)
          \/ QualificationDies(q) \/ DamageReport(q)

ReleaseSpec == ReleaseInit /\ [][ReleaseNext]_releaseVars

--------------------------------------------------------------------------------
(* Types of the store: pointers and previous reports are reports that were        *)
(* written.                                                                       *)
ReleaseTypeOK ==
    LET reports == release.reports IN
    /\ release.latest \in DOMAIN reports \union {NoReport}
    /\ \A q \in DOMAIN reports : /\ reports[q].status \in Statuses
                                 /\ reports[q].previous \in (DOMAIN reports \union {NoReport}) \ {q}

(* A passed report speaks of one moment: there was an instant at which every file *)
(* it cites was the current one, all passing and each built on the one before it, *)
(* however the ladder was climbed again while the qualification ran.              *)
DecidedOnOneMoment ==
    \A q \in DOMAIN release.reports :
        LET r == release.reports[q] IN
        r.status = "passed" =>
            \A i \in Rungs : /\ r.bound[i].version = r.moment[i].version
                             /\ r.bound[i].good
                             /\ i > 1 => r.bound[i].upstream = r.moment[i - 1].version

(* The policy hash that a decision embeds is that of the policy it applied.       *)
PolicyEmbedded == \A q \in DOMAIN release.reports : release.reports[q].policy = release.reports[q].applied
================================================================================

-------------------------- MODULE ReviewerGovernance --------------------------
(* The reviewers before they review: a governance bundle with an empty roster, a   *)
(* blind qualification pack, the roster an operator fills in and finalises, the    *)
(* packages delivered to two reviewers, the evaluation of their answers, and the   *)
(* preflight of a calibration, which accepts an evaluation for the roster in force.*)
(* Each command reads its files one after another, at a desk of its own, and may   *)
(* die between two of them; the roster and the rubric may be edited meanwhile.     *)
(*                                                                                 *)
(* A file is its content and stands for its hash.  The pack has twenty items, the  *)
(* first ten to be approved; an answer is the set of items a reviewer gets wrong.  *)
EXTENDS Integers, FiniteSets

CONSTANTS
    Desks,          \* commands that may run together
    People,
    Boards, Judges, \* the rosters an operator writes: active reviewers, and an active adjudicator
    Misses,         \* what a reviewer may get wrong
    Accuracies,     \* --minimum-accuracy of an evaluation, as items
    Kappas,         \* --minimum-kappa of an evaluation, in percent
    Rounds,         \* output directories of evaluations
    MaxRosterEdits  \* bound: edits of the roster, and of the rubric

Items == 1..20
Rosters == [reviewers : Boards, adjudicators : {{j} : j \in Judges}]
Minima == [correct : Accuracies, kappa : Kappas]
ASSUME GovernanceAssumption ==
    /\ \A board \in Boards : board \subseteq People
    /\ \A wrong \in Misses : wrong \subseteq Items
    /\ Judges \subseteq People /\ Accuracies \subseteq 0..20 /\ Kappas \subseteq -100..100
    /\ MaxRosterEdits \in Nat

VARIABLES
    bundle,     \* the governance directory: how many of its four files, their contents
    packFiles,  \* how many of the three files of the qualification pack
    delivered,  \* reviewers whose package was written
    answers,    \* the response file of each reviewer
    evaluation, \* the report in each output directory
    desk,       \* the command at each desk
    rosterEdits,
    preflights  \* history: what the preflights accepted, and the rosters they read

governanceVars == <<bundle, packFiles, delivered, answers, evaluation, desk, rosterEdits, preflights>>

EmptyRoster == [reviewers |-> {}, adjudicators |-> {}]
NoManifest == [finalized |-> FALSE, roster |-> EmptyRoster]
NoAnswers == {0}
NoEvaluation == [passed |-> FALSE, roster |-> EmptyRoster, answered |-> <<>>, minima |-> [correct |-> 0, kappa |-> 0]]
DeskFree == [pc |-> "idle", manifest |-> NoManifest, roster |-> EmptyRoster, todo |-> {}, report |-> NoEvaluation]

GovernanceInit ==
    /\ bundle = [files |-> 0, roster |-> EmptyRoster, edited |-> FALSE, manifest |-> NoManifest]
    /\ packFiles = 0
    /\ delivered = {}
    /\ answers = [p \in People |-> NoAnswers]
    /\ evaluation = [r \in Rounds |-> NoEvaluation]
    /\ desk = [d \in Desks |-> DeskFree]
    /\ rosterEdits = 0
    /\ preflights = {}

AtDesk(d, pc) == desk[d].pc = pc
DeskGoes(d, new) == desk' = [desk EXCEPT ![d] = new]
DeskEnds(d) == DeskGoes(d, DeskFree)

--------------------------------------------------------------------------------
(* reviewer_roster_readiness: two reviewers, and an adjudicator who is neither.    *)
RosterReady(r) ==
    /\ Cardinality(r.reviewers) >= 2
    /\ r.adjudicators \ r.reviewers # {}

(* The bundle: rubric, roster, onboarding template and manifest, in this order.    *)
(* One that is there, or was begun, is refused.                                    *)
InitializeBundle(d) ==
    /\ AtDesk(d, "idle") /\ bundle.files = 0
    /\ bundle' = [bundle EXCEPT !.files = 1]
    /\ DeskGoes(d, [DeskFree EXCEPT !.pc = "bundle"])
    /\ UNCHANGED <<packFiles, delivered, answers, evaluation, rosterEdits, preflights>>
WriteBundleFile(d) ==
    /\ AtDesk(d, "bundle")
    /\ bundle' = [bundle EXCEPT !.files = @ + 1]
    /\ IF bundle.files = 3 THEN DeskEnds(d) ELSE UNCHANGED desk
    /\ UNCHANGED <<packFiles, delivered, answers, evaluation, rosterEdits, preflights>>

(* The pack, its answer key and their manifest, likewise.                          *)
InitializePack(d) ==
    /\ AtDesk(d, "idle") /\ packFiles = 0
    /\ packFiles' = 1
    /\ DeskGoes(d, [DeskFree EXCEPT !.pc = "pack"])
    /\ UNCHANGED <<bundle, delivered, answers, evaluation, rosterEdits, preflights>>
WritePackFile(d) ==
    /\ AtDesk(d, "pack")
    /\ packFiles' = packFiles + 1
    /\ IF packFiles = 2 THEN DeskEnds(d) ELSE UNCHANGED desk
    /\ UNCHANGED <<bundle, delivered, answers, evaluation, rosterEdits, preflights>>

(* The operator: the roster at any time, the rubric to something else or back.     *)
EditRoster ==
    /\ bundle.files >= 2 /\ rosterEdits < MaxRosterEdits /\ rosterEdits' = rosterEdits + 1
    /\ \E r \in Rosters \ {bundle.roster} : bundle' = [bundle EXCEPT !.roster = r]
    /\ UNCHANGED <<packFiles, delivered, answers, evaluation, desk, preflights>>
EditRubric ==
    /\ bundle.files >= 1 /\ rosterEdits < MaxRosterEdits /\ rosterEdits' = rosterEdits + 1
    /\ bundle' = [bundle EXCEPT !.edited = ~@]
    /\ UNCHANGED <<packFiles, delivered, answers, evaluation, desk, preflights>>

--------------------------------------------------------------------------------
(* finalize_reviewer_governance_bundle: the roster is read and judged, the rubric  *)
(* compared with the code's; then the roster is hashed, and the manifest written.  *)
FinalizeReads(d) ==
    /\ AtDesk(d, "idle") /\ bundle.files = 4
    /\ RosterReady(bundle.roster) /\ ~bundle.edited
    /\ DeskGoes(d, [DeskFree EXCEPT !.pc = "finalize"])
    /\ UNCHANGED <<bundle, packFiles, delivered, answers, evaluation, rosterEdits, preflights>>
FinalizeBinds(d) ==
    /\ AtDesk(d, "finalize")
    /\ bundle' = [bundle EXCEPT !.manifest = [finalized |-> TRUE, roster |-> bundle.roster]]
    /\ DeskEnds(d)
    /\ UNCHANGED <<packFiles, delivered, answers, evaluation, rosterEdits, preflights>>

(* Deliveries and evaluations begin alike: a manifest that was finalised, and no   *)
(* file it or the pack's manifest binds changed.  The roster is read afterwards.   *)
BoundBundle ==
    /\ bundle.files = 4 /\ packFiles = 3
    /\ bundle.manifest.finalized
    /\ bundle.roster = bundle.manifest.roster /\ ~bundle.edited
TwoReviewers(r) == RosterReady(r) /\ Cardinality(r.reviewers) = 2

(* prepare_reviewer_delivery_packages: refused when a package is there already;    *)
(* one package after the other, without the answer key.                            *)
DeliverBegins(d) ==
    /\ AtDesk(d, "idle") /\ BoundBundle
    /\ DeskGoes(d, [DeskFree EXCEPT !.pc = "deliver"])
    /\ UNCHANGED <<bundle, packFiles, delivered, answers, evaluation, rosterEdits, preflights>>
DeliverReads(d) ==
    /\ AtDesk(d, "deliver")
    /\ LET them == bundle.roster.reviewers IN
       IF TwoReviewers(bundle.roster) /\ them \intersect delivered = {}
       THEN DeskGoes(d, [DeskFree EXCEPT !.pc = "packages", !.todo = them])
       ELSE DeskEnds(d)
    /\ UNCHANGED <<bundle, packFiles, delivered, answers, evaluation, rosterEdits, preflights>>
WritePackage(d) ==
    /\ AtDesk(d, "packages")
    /\ \E p \in desk[d].todo :
          /\ delivered' = delivered \union {p}
          /\ IF desk[d].todo = {p} THEN DeskEnds(d) ELSE DeskGoes(d, [desk[d] EXCEPT !.todo = @ \ {p}])
    /\ UNCHANGED <<bundle, packFiles, answers, evaluation, rosterEdits, preflights>>

(* A reviewer returns all twenty decisions.                                        *)
ReturnAnswers(p) ==
    /\ p \in delivered /\ answers[p] = NoAnswers
    /\ \E wrong \in Misses : answers' = [answers EXCEPT ![p] = wrong]
    /\ UNCHANGED <<bundle, packFiles, delivered, evaluation, desk, rosterEdits, preflights>>

--------------------------------------------------------------------------------
(* Accuracy, and Cohen's kappa of the two reviewers' decisions in whole numbers.   *)
Correct(wrong) == 20 - Cardinality(wrong)
Approved(wrong) == {i \in Items : (i <= 10) # (i \in wrong)}
KappaAtLeast(percent, first, second) ==
    LET agreeing == 20 - Cardinality((first \ second) \union (second \ first))
        a == Cardinality(Approved(first))
        b == Cardinality(Approved(second))
        expected == a * b + (20 - a) * (20 - b)
    IN  expected = 400 \/ 100 * (20 * agreeing - expected) >= percent * (400 - expected)
(* The two reviewers' answers; the kappa of one pair does not depend on its order. *)
Meets(answered, minima) ==
    /\ \A p \in DOMAIN answered : Correct(answered[p]) >= minima.correct
    /\ \A p, q \in DOMAIN answered : p # q => KappaAtLeast(minima.kappa, answered[p], answered[q])

(* evaluate_reviewer_qualification: the hashes of the files, then the roster, the  *)
(* responses of both its reviewers, the scores and the report, which binds what    *)
(* the manifest names; a report that is there is not overwritten.                  *)
EvaluateBinds(d) ==
    /\ AtDesk(d, "idle") /\ BoundBundle
    /\ DeskGoes(d, [DeskFree EXCEPT !.pc = "evaluate", !.manifest = bundle.manifest])
    /\ UNCHANGED <<bundle, packFiles, delivered, answers, evaluation, rosterEdits, preflights>>
EvaluateReports(d) ==
    /\ AtDesk(d, "evaluate")
    /\ LET them == bundle.roster.reviewers
           answered == [p \in them |-> answers[p]]
       IN  \E round \in Rounds, minima \in Minima :
             evaluation' = IF /\ TwoReviewers(bundle.roster)
                              /\ \A p \in them : answers[p] # NoAnswers
                              /\ evaluation[round] = NoEvaluation
                           THEN [evaluation EXCEPT ![round] =
                                   [passed   |-> Meets(answered, minima), roster |-> desk[d].manifest.roster,
                                    answered |-> answered, minima |-> minima]]
                           ELSE evaluation
    /\ DeskEnds(d)
    /\ UNCHANGED <<bundle, packFiles, delivered, answers, rosterEdits, preflights>>

(* _validate_reviewer_qualification of a preflight: the report and the roster are  *)
(* read, and then the roster is hashed.                                            *)
\* Mutant: the hash in the report is taken to be the roster's.
NotBound(report, roster) == TRUE
BoundTo(report, roster) == report.roster = roster
PreflightReads(d, round) ==
    /\ AtDesk(d, "idle") /\ evaluation[round] # NoEvaluation /\ bundle.files >= 2
    /\ DeskGoes(d, [DeskFree EXCEPT !.pc = "preflight", !.roster = bundle.roster, !.report = evaluation[round]])
    /\ UNCHANGED <<bundle, packFiles, delivered, answers, evaluation, rosterEdits, preflights>>
Qualifies(report, loaded, hashed) ==
    /\ report.passed
    /\ BoundTo(report, hashed)
    /\ DOMAIN report.answered = loaded.reviewers
    /\ Meets(report.answered, report.minima)
PreflightDecides(d) ==
    LET me == desk[d] IN
    /\ AtDesk(d, "preflight")
    /\ preflights' = IF RosterReady(me.roster) /\ Qualifies(me.report, me.roster, bundle.roster)
                   THEN preflights \union {[loaded |-> me.roster, hashed |-> bundle.roster, report |-> me.report]}
                   ELSE preflights
    /\ DeskEnds(d)
    /\ UNCHANGED <<bundle, packFiles, delivered, answers, evaluation, rosterEdits>>

GovernorDies(d) ==
    /\ ~AtDesk(d, "idle")
    /\ DeskEnds(d)
    /\ UNCHANGED <<bundle, packFiles, delivered, answers, evaluation, rosterEdits, preflights>>

GovernanceNext ==
    \/ EditRoster \/ EditRubric
    \/ \E p \in People : ReturnAnswers(p)
    \/ \E d \in Desks :
          \/ InitializeBundle(d) \/ WriteBundleFile(d) \/ InitializePack(d) \/ WritePackFile(d)
          \/ FinalizeReads(d) \/ FinalizeBinds(d)
          \/ DeliverBegins(d) \/ DeliverReads(d) \/ WritePackage(d)
          \/ EvaluateBinds(d) \/ EvaluateReports(d)
          \/ PreflightDecides(d) \/ GovernorDies(d)
          \/ \E r \in Rounds : PreflightReads(d, r)
GovernanceSpec == GovernanceInit /\ [][GovernanceNext]_governanceVars

--------------------------------------------------------------------------------
(* Who reviews is qualified: a preflight during which the roster stays as it is    *)
(* accepts an evaluation only of this very roster, in which both its reviewers,    *)
(* and nobody else, answered nineteen of the twenty items and agreed by 0.80,      *)
(* however often roster and rubric were edited, and rosters finalised, between.    *)
QualifiedReviewers ==
    \A a \in preflights :
        a.loaded = a.hashed =>
            /\ a.report.roster = a.loaded
            /\ RosterReady(a.loaded) /\ DOMAIN a.report.answered = a.loaded.reviewers
            /\ Meets(a.report.answered, [correct |-> 19, kappa |-> 80])
================================================================================

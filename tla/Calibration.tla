------------------------------- MODULE Calibration -------------------------------
(* The calibration ladder, 200 -> 5,000 -> the 100,000 build                        *)
(* (learning/calibration_gate.py, and the gates of learning/production_dataset.py   *)
(* that rest on it), over the review authority.  A campaign is one work directory:  *)
(* a run loads the governed files, crawls, enqueues a sample for review and writes  *)
(* a manifest; finalisations of the manifest, any number of times, read the files   *)
(* and the authority again and write a decision to the same path; a later campaign, *)
(* or the build, validates the chain of decisions.  Reviewers, gateway calls and    *)
(* edits of the governed files go on between any two steps.                         *)
(*                                                                                  *)
(* Abstracted: a file is its version and whether it is valid, and a hash of it its  *)
(* version; a decision file is the number of times it was written; rows are the     *)
(* sample drawn from them, and the measures taken of rows alone (counts, quality,   *)
(* source mix, contamination) hold; artifacts are not tampered with.                *)
EXTENDS DatasetReview

CONSTANTS
    Campaigns,     \* work directories
    Runs,          \* bound: the stage a run in a directory is for, and if it is a dev test
    Late,          \* governed files hashed when the manifest is written
    AcceptPercent, \* review.sampled_acceptance_minimum
    KappaPercent,  \* review.reviewer_agreement_minimum
    MaxEdits,      \* bound: edits of governed files
    MaxWrites      \* bound: decisions written for a campaign

Registry == "registry"
Governed == Late \cup {Registry}
None     == "none"
Stage    == {"calibration_200", "calibration_5k"}

ASSUME CalibrationAssumption ==
    /\ {AcceptPercent, KappaPercent} \subseteq 0..100
    /\ {MaxEdits, MaxWrites} \subseteq Nat
    /\ Registry \notin Late
    /\ None \notin Campaigns
    /\ Runs \subseteq Campaigns \X Stage \X BOOLEAN

VARIABLES
    files,     \* version and validity of each governed file
    edits,     \* history: edits of them
    work,      \* the campaigns: their run, then their manifest
    final,     \* the finalisation of each campaign in progress
    decision,  \* calibration_decision.json of each campaign
    build,     \* the 100,000 build in progress
    promoted   \* the campaigns whose decision promoted a build

ladder == <<files, edits, work, final, decision, build, promoted>>
vars   == <<review, ladder>>

----------------------------------------------------------------------------------
(* What the gates measure of a sample, from evidence e on each of its items.        *)

Evidence(i) == [status |-> item[i].status, decision |-> item[i].decision,
                adjudicator |-> item[i].adjudicator]

Paired(e)  == \E r, s \in Deciders(e) : r # s
\* The pair of decisions agreement is measured on: the first two by reviewer.
Nth(e, S)  == e.decision[CHOOSE r \in S : \A s \in S : r <= s]
First(e)   == Nth(e, Deciders(e))
Second(e)  == Nth(e, Deciders(e) \ {CHOOSE r \in Deciders(e) : \A s \in Deciders(e) : r <= s})

\* Cohen's kappa of the pairs is at least KappaPercent, in whole numbers.
Agreement(e, P) ==
    LET n        == Cardinality(P)
        left     == Cardinality({i \in P : First(e[i]) = "approve"})
        right    == Cardinality({i \in P : Second(e[i]) = "approve"})
        observed == n * Cardinality({i \in P : First(e[i]) = Second(e[i])})
        expected == left * right + (n - left) * (n - right)
    IN  IF n = 0 THEN KappaPercent = 0
        ELSE expected >= n * n
             \/ 100 * (observed - expected) >= KappaPercent * (n * n - expected)

Adequate(e, S) ==
    LET approved == Cardinality({i \in S : e[i].status = "approved"})
        rejected == Cardinality({i \in S : e[i].status = "rejected"})
    IN  /\ \A i \in S : Paired(e[i]) /\ e[i].status \in Terminal
        /\ \A i \in S : e[i].adjudicator \notin Deciders(e[i])
        /\ 100 * approved >= AcceptPercent * (approved + rejected)
        /\ approved + rejected = 0 => AcceptPercent = 0
        /\ Agreement(e, S)

Now(S) == [i \in S |-> Evidence(i)]

----------------------------------------------------------------------------------
(* Validation of a decision: everything it rests on is recomputed.                  *)

GovernanceStands(c) ==
    \A f \in Governed : files[f].valid /\ files[f].version = work[c].bound[f]

Stands(c, stage) ==
    /\ decision[c].writes > 0
    /\ decision[c].status = "passed"
    /\ ~work[c].dev
    /\ work[c].stage = stage
    /\ GovernanceStands(c)
    /\ Adequate(Now(work[c].sample), work[c].sample)
    /\ decision[c].evidence = Now(work[c].sample)

\* A fault: an unchanged decision below is taken to be still valid.
PriorUnchanged(c) ==
    work[c].prior # None /\ decision[work[c].prior].writes = work[c].priorHash

PriorStands(c) ==
    LET p == work[c].prior IN
    /\ p # None
    /\ decision[p].writes = work[c].priorHash
    /\ Stands(p, "calibration_200")

Advances(c) == Stands(c, "calibration_5k") /\ PriorStands(c)

----------------------------------------------------------------------------------
(* Campaigns.                                                                       *)

Unread == [i \in {} |-> None]

NoWork == [pc |-> "fresh", stage |-> "calibration_200", dev |-> FALSE, prior |-> None,
           priorHash |-> 0, bound |-> [f \in Governed |-> 0], sample |-> {}, todo |-> {}]
NoDecision == [writes |-> 0, status |-> "failed", evidence |-> Unread]
Idle       == [pc |-> "idle", gates |-> TRUE, pending |-> FALSE, seen |-> Unread, at |-> None]
NoBuild    == [pc |-> "idle", on |-> None, hash |-> 0]

\* A stage past the first validates the decision it builds on.  (A dev test may name
\* one too: nothing ever looks at it.)
Begin(c, stage, dev, p) ==
    /\ <<c, stage, dev>> \in Runs
    /\ work[c].pc = "fresh"
    /\ IF stage = "calibration_5k" /\ ~dev
       THEN p # None /\ Stands(p, "calibration_200")
       ELSE p = None
    /\ work' = [work EXCEPT ![c].pc = "checked", ![c].stage = stage,
                            ![c].dev = dev, ![c].prior = p]
    /\ UNCHANGED <<review, files, edits, final, decision, build, promoted>>

\* Preflight refuses governance that is not valid; the directory, no longer empty,
\* is of no more use.
Refused == [NoWork EXCEPT !.pc = "refused"]

Preflight(c) ==
    /\ work[c].pc = "checked"
    /\ \E f \in Governed : ~files[f].valid
    /\ work' = [work EXCEPT ![c] = Refused]
    /\ UNCHANGED <<review, files, edits, final, decision, build, promoted>>

\* Otherwise the run, which hashes the prior decision only now, loads the files and
\* crawls; a sample of what it keeps is to be reviewed.
Crawl(c, sample) ==
    LET p == work[c].prior IN
    /\ work[c].pc = "checked"
    /\ \A f \in Governed : files[f].valid
    /\ work' = [work EXCEPT
           ![c].pc = "sampling", ![c].sample = sample, ![c].todo = sample,
           ![c].priorHash = IF p = None THEN 0 ELSE decision[p].writes,
           ![c].bound = [f \in Governed |-> files[f].version]]
    /\ UNCHANGED <<review, files, edits, final, decision, build, promoted>>

BindSample(c, i) ==
    /\ work[c].pc = "sampling"
    /\ i \in work[c].todo
    /\ item' = Enqueued(i, TRUE)
    /\ work' = [work EXCEPT ![c].todo = @ \ {i}]
    /\ UNCHANGED <<store, expiries, files, edits, final, decision, build, promoted>>

\* The registry is hashed as it was loaded, every other file as it is by now.
WriteManifest(c) ==
    /\ work[c].pc = "sampling"
    /\ work[c].todo = {}
    /\ work' = [work EXCEPT
           ![c].pc = "awaiting_review",
           ![c].bound = [f \in Governed |->
                            IF f = Registry THEN @[f] ELSE files[f].version]]
    /\ UNCHANGED <<review, files, edits, final, decision, build, promoted>>

RunDies(c) ==
    /\ work[c].pc \in {"checked", "sampling"}
    /\ work' = [work EXCEPT ![c] = Refused]
    /\ UNCHANGED <<review, files, edits, final, decision, build, promoted>>

----------------------------------------------------------------------------------
(* Finalisation of a manifest.                                                      *)

CheckGovernance(c) ==
    /\ work[c].pc = "awaiting_review"
    /\ final[c].pc = "idle"
    /\ decision[c].writes < MaxWrites
    /\ final' = [final EXCEPT ![c].pc = "governance", ![c].gates = GovernanceStands(c)]
    /\ UNCHANGED <<review, files, edits, work, decision, build, promoted>>

\* Then the chain below, and how many items are still under review.
CheckPrior(c) ==
    LET needed == work[c].stage = "calibration_5k" /\ ~work[c].dev IN
    /\ final[c].pc = "governance"
    /\ final' = [final EXCEPT
           ![c].pc = "replay",
           ![c].gates = @ /\ (needed => PriorStands(c)),
           ![c].pending = \E i \in work[c].sample : item[i].status \notin Terminal]
    /\ UNCHANGED <<review, files, edits, work, decision, build, promoted>>

\* The replay reads an item's row, and its decisions in queries of their own.
ReplayRow(c, i) ==
    /\ final[c].pc = "replay"
    /\ final[c].at = None
    /\ i \in work[c].sample \ DOMAIN final[c].seen
    /\ final' = [final EXCEPT
           ![c].at = i,
           ![c].seen = [j \in DOMAIN @ \cup {i} |-> IF j = i THEN Evidence(i) ELSE @[j]]]
    /\ UNCHANGED <<review, files, edits, work, decision, build, promoted>>

ReplayDecisions(c) ==
    LET i == final[c].at IN
    /\ final[c].pc = "replay"
    /\ i # None
    /\ final' = [final EXCEPT
           ![c].at = None,
           ![c].seen[i] = [Evidence(i) EXCEPT !.status = final[c].seen[i].status]]
    /\ UNCHANGED <<review, files, edits, work, decision, build, promoted>>

\* The decision replaces the one written before.  The evidence of one that did not
\* pass is never looked at, and is left out.
Conclude(c) ==
    LET f == final[c]
        passed == f.gates /\ Adequate(f.seen, work[c].sample) IN
    /\ f.pc = "replay"
    /\ f.at = None
    /\ DOMAIN f.seen = work[c].sample
    /\ decision' = [decision EXCEPT ![c] =
           [writes |-> @.writes + 1,
            status |-> IF passed THEN "passed" ELSE IF f.pending THEN "blocked" ELSE "failed",
            evidence |-> IF passed THEN f.seen ELSE Unread]]
    /\ final' = [final EXCEPT ![c] = Idle]
    /\ UNCHANGED <<review, files, edits, work, build, promoted>>

FinalDies(c) ==
    /\ final[c].pc # "idle"
    /\ final' = [final EXCEPT ![c] = Idle]
    /\ UNCHANGED <<review, files, edits, work, decision, build, promoted>>

----------------------------------------------------------------------------------
(* The build, and the files everything is bound to.                                 *)

BuildBegins(c) ==
    /\ build.pc = "idle"
    /\ Advances(c)
    /\ build' = [pc |-> "validated", on |-> c, hash |-> 0]
    /\ UNCHANGED <<review, files, edits, work, final, decision, promoted>>

\* The decision is hashed after it was validated, and the build is written.
BuildWrites ==
    /\ build.pc = "validated"
    /\ build' = [build EXCEPT !.pc = "written", !.hash = decision[build.on].writes]
    /\ UNCHANGED <<review, files, edits, work, final, decision, promoted>>

\* Promotion hashes and validates the decision again.
Promote ==
    /\ build.pc = "written"
    /\ decision[build.on].writes = build.hash
    /\ Advances(build.on)
    /\ promoted' = promoted \cup {build.on}
    /\ UNCHANGED <<review, files, edits, work, final, decision, build>>

Edit(f, valid) ==
    /\ edits < MaxEdits
    /\ edits' = edits + 1
    /\ files' = [files EXCEPT ![f] = [version |-> @.version + 1, valid |-> valid]]
    /\ UNCHANGED <<review, work, final, decision, build, promoted>>

----------------------------------------------------------------------------------
Init ==
    /\ ReviewInit
    /\ store = "sqlite"
    /\ files = [f \in Governed |-> [version |-> 0, valid |-> TRUE]]
    /\ edits = 0
    /\ work = [c \in Campaigns |-> NoWork]
    /\ final = [c \in Campaigns |-> Idle]
    /\ decision = [c \in Campaigns |-> NoDecision]
    /\ build = NoBuild
    /\ promoted = {}

CampaignNext(c) ==
    \/ \E stage \in Stage, dev \in BOOLEAN, p \in Campaigns \cup {None} :
           Begin(c, stage, dev, p)
    \/ Preflight(c)
    \/ \E sample \in SUBSET Items \ {{}} : Crawl(c, sample)
    \/ \E i \in Items : BindSample(c, i)
    \/ WriteManifest(c)
    \/ RunDies(c)

FinalNext(c) ==
    \/ CheckGovernance(c)
    \/ CheckPrior(c)
    \/ \E i \in Items : ReplayRow(c, i)
    \/ ReplayDecisions(c)
    \/ Conclude(c)
    \/ FinalDies(c)

Next ==
    \/ ReviewNext /\ UNCHANGED ladder
    \/ \E c \in Campaigns : CampaignNext(c) \/ FinalNext(c) \/ BuildBegins(c)
    \/ BuildWrites
    \/ Promote
    \/ \E f \in Governed, valid \in BOOLEAN : Edit(f, valid)

Spec == Init /\ [][Next]_vars
----------------------------------------------------------------------------------
(* What the calibration ladder promises.                                            *)

\* The files, campaigns, finalisations, decisions and build have the values the
\* code writes.
LadderTypeOK ==
    /\ ReviewTypeOK
    /\ files \in [Governed -> [version : 0..MaxEdits, valid : BOOLEAN]]
    /\ edits \in 0..MaxEdits
    /\ work \in [Campaigns ->
           [pc : {"fresh", "checked", "sampling", "awaiting_review", "refused"},
            stage : Stage, dev : BOOLEAN, prior : Campaigns \cup {None},
            priorHash : 0..MaxWrites, bound : [Governed -> 0..MaxEdits],
            sample : SUBSET Items, todo : SUBSET Items]]
    /\ \A c \in Campaigns :
           /\ final[c].pc \in {"idle", "governance", "replay"}
           /\ final[c].at \in Items \cup {None}
           /\ DOMAIN final[c].seen \subseteq work[c].sample
           /\ decision[c].writes \in 0..MaxWrites
           /\ decision[c].status \in {"passed", "blocked", "failed"}
    /\ build.pc \in {"idle", "validated", "written"}
    /\ promoted \subseteq Campaigns

\* What a passed decision says of its reviews is true from then on: although the
\* finalisation reads the authority item by item, and a row and its decisions in
\* different transactions, while reviewers work, its evidence is that of one moment
\* and no later call can change it (_replay_manifest_evidence, against claim, decide
\* and adjudicate).
PassedIsFinal ==
    \A c \in Campaigns :
        decision[c].status = "passed" =>
            /\ decision[c].evidence = Now(work[c].sample)
            /\ Adequate(Now(work[c].sample), work[c].sample)

\* A promoted build rests on a 5,000 campaign and, below it, a 200 campaign, neither
\* of them a test: both were bound to the same versions of the governed files, and
\* each item of their samples has a verdict that two people gave, however files,
\* decisions and reviews changed during the two runs, the finalisations and the
\* build.
PromotionIsEarned ==
    \A c \in promoted :
        LET p == work[c].prior IN
        /\ work[c].stage = "calibration_5k"
        /\ p # None /\ work[p].stage = "calibration_200"
        /\ ~work[c].dev /\ ~work[p].dev
        /\ work[c].bound = work[p].bound
        /\ \A i \in work[c].sample \cup work[p].sample :
               item[i].status \in Terminal /\ TwoPeople(item[i])

\* A stage that passed was bound to the same versions as the stage below it: the
\* checks of the one and of the other, made at different moments of a finalisation,
\* cannot each meet governance the other does not.
OneGovernance ==
    \A c \in Campaigns :
        /\ decision[c].status = "passed"
        /\ work[c].prior # None
        => work[c].bound = work[work[c].prior].bound

\* The ladder is sound: passed decisions stay true, rest on one governance, and are
\* what a promotion rests on, whatever is reviewed and edited between their checks.
LadderIsSound == PassedIsFinal /\ OneGovernance /\ PromotionIsEarned

\* Calibration samples always require two independent decisions.
SamplesNeedTwo ==
    \A c \in Campaigns :
        work[c].pc = "awaiting_review" => \A i \in work[c].sample : item[i].high
==================================================================================

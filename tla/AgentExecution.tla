--------------------------- MODULE AgentExecution ---------------------------
(***************************************************************************)
(* POST /v1/agent/execute: up to MaxRevisions + 1 attempts, each with a    *)
(* copy of the repository (the stage) and a task graph whose handlers      *)
(* propose a patch, stage it, gather evidence and decide; an accepted      *)
(* patch is applied to the original and the failures it repairs resolved.  *)
(* Other executions and the patch endpoints work on the same project.      *)
(*                                                                         *)
(* The pool runs a handler once its dependencies have completed and again  *)
(* after a failure, MaxTries times at most: the schedule TaskGraph is      *)
(* shown to implement.  A handler that only reads and judges is one step.  *)
(***************************************************************************)
EXTENDS PatchService

CONSTANTS
    MaxRevisions,      \* max_revisions of the request
    MaxTries,          \* max_attempts of a task
    Edits,             \* the sets of files a patch may edit
    Failures,          \* the normalised failures reviews may report
    Threshold,         \* candidate_threshold
    MaxCalls,          \* bound on the calls of the patch endpoints
    Nothing               \* nothing

ASSUME ExecutionAssumption ==
    /\ Execs \intersect Endpoints = {}
    /\ Edits \subseteq SUBSET File
    /\ Nothing \notin Failures
    /\ Threshold \in Nat

VARIABLES
    phase,       \* where each execution is
    revision,    \* its attempt
    state,       \* the attempt's _AttemptState, with its stage and its graph
    endpointCalls,       \* calls of the patch endpoints so far
    unresolved,  \* failures to resolve once a patch is applied
    resolving,   \* the failure linked last, not yet promoted
    failureRow,  \* failure records
    candidates   \* learning candidates

failureVars == <<unresolved, resolving, failureRow, candidates>>
executionVars == <<patchVars, phase, revision, state, endpointCalls, failureVars>>

Judges == {"test", "security", "performance", "critic", "verify"}
Tasks  == Judges \union {"edit", "summarize"}
Needs  == [edit        |-> {},
           test        |-> {"edit"},
           security    |-> {"edit"},
           performance |-> {"edit"},
           critic      |-> {"test", "security", "performance"},
           verify      |-> {"test", "security", "performance", "critic"},
           summarize   |-> {"verify"}]

Ended == {"accepted", "rejected", "raised", "dead"}

(* A new attempt on a copy of a tree.                                      *)
Fresh(copy) ==
    [stage    |-> copy,                      \* the files of the stage
     proposal |-> 0,                         \* the last proposal: patch, original_patch_id
     editing  |-> "no",                      \* how far the edit handler is
     done     |-> {},                        \* tasks that completed
     tries    |-> [t \in Tasks |-> 0],       \* failures of each task
     evidence |-> [t \in Judges |-> FALSE],  \* passed, accepted or confident
     about    |-> [t \in Judges |-> 0],      \* the proposal each judged
     tested   |-> Nothing,                      \* the tree the tests ran on
     others   |-> {},                        \* files others wrote since the copy
     late     |-> {}]                        \* stage writes of handlers that timed out

ExecutionInit ==
    /\ PatchInit
    /\ phase = [e \in Execs |-> "idle"]
    /\ revision = [e \in Execs |-> 0]
    /\ state = [e \in Execs |-> Fresh(Nothing)]
    /\ endpointCalls = 0
    /\ unresolved = [e \in Execs |-> {}]
    /\ resolving = [e \in Execs |-> Nothing]
    /\ failureRow = [x \in Failures |-> [count |-> 0, seen |-> {}, status |-> "observed", link |-> 0]]
    /\ candidates = <<>>

Goes(e, p) == phase' = [phase EXCEPT ![e] = p]

(* The execution answers or raises; nothing of the attempt is kept.        *)
Ends(e, p) == Goes(e, p) /\ state' = [state EXCEPT ![e] = Fresh(Nothing)] /\ UNCHANGED revision

-----------------------------------------------------------------------------
(* An attempt: a new run and graph, a copy of the repository, a fresh      *)
(* _AttemptState.                                                          *)
StartAttempt(e) ==
    /\ phase[e] \in {"idle", "again"}
    /\ Goes(e, "pool")
    /\ state' = [state EXCEPT ![e] = Fresh(tree)]
    /\ UNCHANGED <<patchVars, revision, failureVars>>

GivenUp(e) == \E t \in Tasks : state[e].tries[t] >= MaxTries
Runnable(e, t) ==
    /\ phase[e] = "pool"
    /\ t \notin state[e].done /\ Needs[t] \subseteq state[e].done
    /\ state[e].tries[t] < MaxTries

(* edit: the coder's proposal becomes state.patch and is previewed against *)
(* the original; previewed against the stage and applied to it; and the    *)
(* stage is indexed.                                                       *)
Propose(e) ==
    /\ Runnable(e, "edit") /\ state[e].editing = "no"
    /\ \E edits \in Edits : Preview(e, edits)
    /\ state' = [state EXCEPT ![e].proposal = Len(patchRow) + 1, ![e].editing = "previewed"]
    /\ UNCHANGED <<tree, hand, faults, phase, revision, failureVars>>

\* Mutant: the stage is tested without the patch.
UnstagedTree(e, p) == state[e].stage
Staged(e, p) == [f \in File |-> IF f \in patchRow[p].edits THEN p ELSE state[e].stage[f]]
StageEdit(e) ==
    /\ Runnable(e, "edit") /\ state[e].editing = "previewed"
    /\ state' = [state EXCEPT ![e].stage = Staged(e, state[e].proposal), ![e].editing = "staged"]
    /\ UNCHANGED <<patchVars, phase, revision, failureVars>>

EditEnds(e) ==
    /\ Runnable(e, "edit") /\ state[e].editing = "staged"
    /\ state' = [state EXCEPT ![e].done = @ \union {"edit"}]
    /\ UNCHANGED <<patchVars, phase, revision, failureVars>>

(* The thread of a timed out edit handler still applies its patch.         *)
LateWrite(e) ==
    /\ phase[e] = "pool"
    /\ \E p \in state[e].late :
          state' = [state EXCEPT ![e].stage = Staged(e, p), ![e].late = @ \ {p}]
    /\ UNCHANGED <<patchVars, phase, revision, failureVars>>

(* What a judge may say: the tests and the reviewers anything; the critic  *)
(* is capped by failed tests and a refused security review; the verifier   *)
(* requires them all.                                                      *)
MaySay(e, t, says) ==
    LET ok == state[e].evidence
    IN  CASE t = "critic" -> says => ok["test"] /\ ok["security"]
          [] t = "verify" -> says = \A j \in Judges \ {"verify"} : ok[j]
          [] OTHER -> TRUE

Judge(e, t) ==
    /\ Runnable(e, t)
    /\ \E says \in BOOLEAN :
          /\ MaySay(e, t, says)
          /\ state' = [state EXCEPT ![e].evidence[t] = says,
                                    ![e].about[t] = state[e].proposal,
                                    ![e].tested = IF t = "test" THEN state[e].stage ELSE @,
                                    ![e].done = @ \union {t}]
    /\ UNCHANGED <<patchVars, phase, revision, failureVars>>

Summarize(e) ==
    /\ Runnable(e, "summarize")
    /\ state' = [state EXCEPT ![e].done = @ \union {"summarize"}]
    /\ UNCHANGED <<patchVars, phase, revision, failureVars>>

(* A handler raises or times out.  A timeout does not stop the thread that *)
(* stages the patch.                                                       *)
StillWrites(e, t) ==
    IF t = "edit" /\ state[e].editing = "previewed" THEN {{}, {state[e].proposal}} ELSE {{}}
TaskFails(e, t) ==
    /\ Runnable(e, t)
    /\ Fault
    /\ \E w \in StillWrites(e, t) :
          state' = [state EXCEPT ![e].tries[t] = @ + 1,
                                 ![e].editing = IF t = "edit" THEN "no" ELSE @,
                                 ![e].late = @ \union w]
    /\ UNCHANGED <<tree, patchRow, hand, phase, revision, failureVars>>

-----------------------------------------------------------------------------
(* The pool returned.  The failures the evidence names are recorded, and   *)
(* the verifier's decision counts if the whole graph completed.            *)
Accepted(e) == state[e].done = Tasks /\ state[e].evidence["verify"]

Observed(e, x) == [failureRow[x] EXCEPT !.count = @ + 1, !.seen = @ \union {state[e].proposal}]
Record(e, X) ==
    /\ X # {} => state[e].done \intersect {"test", "security", "critic"} # {}
    /\ failureRow' = [x \in Failures |-> IF x \in X THEN Observed(e, x) ELSE failureRow[x]]
    /\ unresolved' = [unresolved EXCEPT ![e] = @ \union X]

PoolReturned(e) ==
    /\ phase[e] = "pool"
    /\ state[e].done = Tasks \/ GivenUp(e)
    /\ \E X \in SUBSET Failures : Record(e, X)
    /\ Goes(e, IF Accepted(e) THEN "apply" ELSE "withdraw")
    /\ UNCHANGED <<patchVars, revision, state, resolving, candidates>>

(* The accepted patch is applied.  An endpoint may have applied it before; *)
(* when one has rolled it back, apply raises.                              *)
Mine(e) == patchRow[state[e].proposal].status
ApplyAccepted(e) ==
    /\ phase[e] = "apply" /\ ~Busy(e)
    /\ \/ BeginApply(e, state[e].proposal) /\ UNCHANGED <<phase, revision, state>>
       \/ Mine(e) = "applied" /\ Goes(e, "applied") /\ UNCHANGED <<patchRow, hand, revision, state>>
       \/ Mine(e) = "rolled_back" /\ Ends(e, "raised") /\ UNCHANGED <<patchRow, hand>>
    /\ UNCHANGED <<tree, faults, failureVars>>

(* A request without apply_on_accept ends with the patch in preview.       *)
LeavePreview(e) ==
    /\ phase[e] = "apply" /\ ~Busy(e)
    /\ Ends(e, "accepted")
    /\ UNCHANGED <<patchVars, failureVars>>

(* A rejected patch is rolled back (a preview has nothing to restore); the *)
(* next revision follows, if there is one.                                 *)
Withdrawn(e) ==
    IF revision[e] < MaxRevisions
    THEN /\ Goes(e, "again")
         /\ revision' = [revision EXCEPT ![e] = @ + 1]
         /\ state' = [state EXCEPT ![e] = Fresh(Nothing)]
    ELSE Ends(e, "rejected")
Withdraw(e) ==
    /\ phase[e] = "withdraw" /\ ~Busy(e)
    /\ IF state[e].proposal = 0 \/ Mine(e) = "rolled_back"
       THEN Withdrawn(e) /\ UNCHANGED <<patchRow, hand>>
       ELSE BeginRollback(e, state[e].proposal) /\ UNCHANGED <<phase, revision, state>>
    /\ UNCHANGED <<tree, faults, failureVars>>

(* The patch service works for an execution: when it returns, the          *)
(* execution goes on; when it raises, execute raises.                      *)
Notes(a) == [e \in Execs |-> IF e = a THEN state[e] ELSE
                [state[e] EXCEPT !.others = @ \union {f \in File : tree'[f] # tree[f]}]]

ExecutionWrites(e) ==
    /\ WriteFile(e)
    /\ state' = Notes(e)
    /\ UNCHANGED <<phase, revision, failureVars>>

ExecutionRecords(e) ==
    /\ RecordPatch(e)
    /\ IF phase[e] = "apply" THEN Goes(e, "applied") /\ UNCHANGED <<revision, state>>
                             ELSE Withdrawn(e)
    /\ UNCHANGED failureVars

ExecutionRaises(e) ==
    /\ WriteRaises(e) \/ LeaveApply(e)
    /\ IF Busy(e)' THEN UNCHANGED <<phase, revision, state>> ELSE Ends(e, "raised")
    /\ UNCHANGED failureVars

-----------------------------------------------------------------------------
(* After apply the project is indexed, which may raise; then each          *)
(* unresolved failure is linked to the patch, and one that occurred often  *)
(* enough becomes a learning candidate.                                    *)
IndexRaises(e) ==
    /\ phase[e] = "applied" /\ resolving[e] = Nothing
    /\ Fault
    /\ Ends(e, "raised")
    /\ UNCHANGED <<tree, patchRow, hand, failureVars>>

Link(e) ==
    /\ phase[e] = "applied" /\ resolving[e] = Nothing
    /\ \E x \in unresolved[e] :
          /\ failureRow' = [failureRow EXCEPT ![x].status = "verified", ![x].link = state[e].proposal]
          /\ resolving' = [resolving EXCEPT ![e] = x]
          /\ unresolved' = [unresolved EXCEPT ![e] = @ \ {x}]
    /\ UNCHANGED <<patchVars, phase, revision, state, candidates>>

Recurs(x) == failureRow[x].count >= Threshold
PromoteRepair(e) ==
    /\ phase[e] = "applied" /\ resolving[e] # Nothing
    /\ candidates' = IF Recurs(resolving[e])
                     THEN Append(candidates, [failure |-> resolving[e], patch |-> state[e].proposal])
                     ELSE candidates
    /\ resolving' = [resolving EXCEPT ![e] = Nothing]
    /\ UNCHANGED <<patchVars, phase, revision, state, unresolved, failureRow>>

Answer(e) ==
    /\ phase[e] = "applied" /\ unresolved[e] = {} /\ resolving[e] = Nothing
    /\ Ends(e, "accepted")
    /\ UNCHANGED <<patchVars, failureVars>>

-----------------------------------------------------------------------------
(* The patch endpoints.                                                    *)
ClientBegins(c) ==
    /\ ~Busy(c)
    /\ endpointCalls < MaxCalls /\ endpointCalls' = endpointCalls + 1
    /\ \/ (\E edits \in Edits : Preview(c, edits)) /\ UNCHANGED hand
       \/ \E p \in Number : BeginApply(c, p) \/ BeginRollback(c, p)
    /\ UNCHANGED <<tree, faults, phase, revision, state, failureVars>>

ClientGoesOn(c) ==
    /\ WriteFile(c) \/ WriteRaises(c) \/ RecordPatch(c) \/ LeaveApply(c)
    /\ state' = Notes(c)
    /\ UNCHANGED <<phase, revision, endpointCalls, failureVars>>

(* The gateway dies: files stay as they are, rows as they are.                 *)
Alive(e) == phase[e] \notin Ended \union {"idle"}
Dies ==
    /\ Fault
    /\ \E e \in Execs : Alive(e)
    /\ phase' = [e \in Execs |-> IF Alive(e) THEN "dead" ELSE phase[e]]
    /\ state' = [e \in Execs |-> Fresh(Nothing)]
    /\ hand' = [a \in Actors |-> Free]
    /\ UNCHANGED <<tree, patchRow, revision, endpointCalls, failureVars>>

Executes(e) ==
    \/ StartAttempt(e) \/ Propose(e) \/ StageEdit(e) \/ EditEnds(e) \/ LateWrite(e)
    \/ \E t \in Judges : Judge(e, t)
    \/ Summarize(e)
    \/ \E t \in Tasks : TaskFails(e, t)
    \/ PoolReturned(e) \/ ApplyAccepted(e) \/ LeavePreview(e) \/ Withdraw(e)
    \/ ExecutionWrites(e) \/ ExecutionRecords(e) \/ ExecutionRaises(e)
    \/ IndexRaises(e) \/ Link(e) \/ PromoteRepair(e) \/ Answer(e)

ExecutionNext ==
    \/ \E e \in Execs : Executes(e) /\ UNCHANGED endpointCalls
    \/ \E c \in Endpoints : ClientBegins(c) \/ ClientGoesOn(c)
    \/ Dies

ExecutionSpec == ExecutionInit /\ [][ExecutionNext]_executionVars

(* The event loop and the threads of an execution keep running.            *)
ExecutionFairness == \A e \in Execs : WF_executionVars(Executes(e) /\ UNCHANGED endpointCalls)

-----------------------------------------------------------------------------
(* Types of the tree, the patch rows and the executions.                     *)
ExecutionTypeOK ==
    /\ tree \in [File -> {0} \union Number]
    /\ \A p \in Number : /\ patchRow[p].status \in {"preview", "applied", "rolled_back"}
                         /\ patchRow[p].edits \subseteq File
                         /\ patchRow[p].before \in [File -> 0..p-1]
    /\ \A a \in Actors : hand[a].of \in {0} \union Number /\ hand[a].todo \subseteq File
    /\ \A e \in Execs : /\ state[e].proposal \in {0} \union Number
                        /\ state[e].late \subseteq Number

(* The original workspace changes only after the tests, the reviewers, the   *)
(* critic and the verifier all accepted the same patch: while an execution   *)
(* writes a patch, each of them has accepted that very patch, whatever was   *)
(* retried, timed out or revised before.                                     *)
JudgedBeforeApplied ==
    \A e \in Execs : hand[e].op = "apply" =>
        \A t \in Judges : state[e].evidence[t] /\ state[e].about[t] = hand[e].of

(* What was tested is what is applied: once the patch is applied, a file     *)
(* that no one else wrote since the stage was copied holds what it held when *)
(* the tests ran, unless an edit handler that failed had already staged a    *)
(* proposal over it (the stage is not reset for the retry).                  *)
Leftover(e, f) ==
    /\ state[e].tested[f] \in Number \ {state[e].proposal}
    /\ patchRow[state[e].tested[f]].run = e
TestedIsApplied ==
    \A e \in Execs : phase[e] = "applied" =>
        \A f \in File \ state[e].others : tree[f] = state[e].tested[f] \/ Leftover(e, f)

(* A learning candidate pairs a failure that recurred with a patch that was  *)
(* really applied to the project, not one left in preview or only staged.    *)
CandidateEarned ==
    \A i \in 1..Len(candidates) :
        /\ failureRow[candidates[i].failure].count >= Threshold
        /\ patchRow[candidates[i].patch].status # "preview"

(* An agent run leaves what was judged, what was tested and what was earned. *)
AppliedAsJudged == JudgedBeforeApplied /\ TestedIsApplied /\ CandidateEarned

(* Expected to fail.  "Only a later verified patch can link and promote the  *)
(* resolved experience" (docs/craftly_complete_architecture_manual.md:555):  *)
(* the patch a failure is resolved by is not one of those it was seen in.    *)
LaterPatch ==
    \A x \in Failures : failureRow[x].status = "verified" => failureRow[x].link \notin failureRow[x].seen
=============================================================================

------------------------------ MODULE TrainingControl ------------------------------
(* The control plane of training jobs: the durable job row with its optimistic      *)
(* version, the attempts, the gateway calls that change a job (create, cancel,      *)
(* resume, claim, ingest of a worker's event), and the single controller process    *)
(* that submits queued jobs to a scheduler and follows them.  Every await of the    *)
(* code after which a decision depends on what was read before it is a step         *)
(* boundary: a call, or the controller, keeps the row it read in `seen` and acts on *)
(* it when others have moved on.                                                    *)
(*                                                                                  *)
(* Abstracted: the spec of a job is its scheduler family; an attempt is named by    *)
(* its place in the order of creation, and a binding by the attempt it was          *)
(* submitted for; clocks (back-off, token expiry) are nondeterministic; the stream  *)
(* and archive of events are TrainingEvents; audit rows are left out.               *)
EXTENDS Integers, Sequences, FiniteSets

CONSTANTS
    Jobs,          \* idempotency keys of one owner, each with its stored row
    Released,      \* the jobs with a checkpoint artifact registered as promoted
    Callers,       \* gateway requests that may be in flight together
    MaxActive,     \* cost_quota.maximum_concurrent_jobs_per_owner
    MaxAttempts,   \* retry.maximum_attempts
    Kinds,         \* the kinds of worker events
    MaxIncidents,  \* bound: gateway calls begun and process deaths
    MaxVersion     \* bound: versions up to which credentials are rotated

ASSUME ControlAssumption ==
    /\ MaxActive \in Nat \ {0}
    /\ MaxAttempts \in Nat \ {0}
    /\ {MaxIncidents, MaxVersion} \subseteq Nat
    /\ IsFiniteSet(Callers)
    /\ Kinds \subseteq {"running", "metric", "checkpoint", "evaluation",
                        "completed", "runtime", "quality"}

VARIABLES
    job,        \* the rows of training_jobs
    attempts,   \* the statuses of the attempts of each job, in order of creation
    workload,   \* what the scheduler (or the notebook) runs for each attempt
    call,       \* the gateway calls in flight
    controller, \* the controller process
    requeued,   \* history: times a call queued a job that had ended
    calls,      \* history: calls begun
    crashes,    \* history: processes that died
    orphaned    \* history: the jobs the controller held when its process ended

rows  == <<job, attempts>>
past  == <<requeued, calls, crashes, orphaned>>
vars  == <<rows, workload, call, controller, past>>

------------------------------------------------------------------------------------
(* The state machine of a job.                                                      *)

Terminal  == {"succeeded", "failed", "blocked", "cancelled"}
Following == {"provisioning", "running", "checkpointing", "evaluating"}
Status    == {"validating", "queued"} \cup Following \cup Terminal

Allowed ==
    [validating    |-> {"queued", "blocked", "cancelled"},
     queued        |-> {"provisioning", "cancelled", "blocked"},
     provisioning  |-> {"running", "failed", "blocked", "cancelled"},
     running       |-> {"checkpointing", "evaluating", "succeeded", "failed",
                        "blocked", "cancelled"},
     checkpointing |-> {"running", "evaluating", "failed", "blocked", "cancelled"},
     evaluating    |-> {"running", "succeeded", "failed", "blocked", "cancelled"},
     succeeded     |-> {},
     failed        |-> {"queued"},
     blocked       |-> {},
     cancelled     |-> {"queued"}]

(* A row; attempt 0 is no attempt, binding 0 an empty scheduler_binding, and noted  *)
(* says that the binding carries the notes of a retry, which SchedulerBinding does  *)
(* not accept when it is read back.                                                 *)
Schedulers == {"cluster", "notebook"}
NoRow == [status |-> "absent", version |-> 0, attempt |-> 0, binding |-> 0,
          noted |-> FALSE, scheduler |-> "cluster"]
Row(s) == [NoRow EXCEPT !.status = "validating", !.version = 1, !.scheduler = s]
Stored(j) == job[j] # NoRow
Active(j) == Stored(j) /\ job[j].status \notin Terminal

(* transition_job and update_binding: compare the version, then write.              *)

(* Mutants: the allowed transitions, or the version, not compared.                  *)
MayMoveAnywhere(row, t) == job[row.id].version = row.version
MayMoveLate(row, t)     == t \in Allowed[job[row.id].status]

MayMove(row, t) ==
    job[row.id].version = row.version /\ t \in Allowed[job[row.id].status]

MayBind(row) == job[row.id].version = row.version
Moved(j, t)  == [job[j] EXCEPT !.status = t, !.version = @ + 1]
Bound(j, a)  == [job[j] EXCEPT !.binding = a, !.noted = FALSE, !.version = @ + 1]
Noted(j)     == [job[j] EXCEPT !.noted = TRUE, !.version = @ + 1]

(* create_attempt and update_attempt_status write outside the version.              *)
Mark(j, a, s) ==
    attempts' = IF a = 0 THEN attempts ELSE [attempts EXCEPT ![j][a] = s]

NewAttempt(j) ==
    /\ attempts' = [attempts EXCEPT ![j] = Append(@, "provisioning")]
    /\ job' = [job EXCEPT ![j].attempt = Len(attempts[j]) + 1]

(* The row as a caller keeps it: the stored fields and the job it belongs to.       *)
Seen(j, row) == [id |-> j, status |-> row.status, version |-> row.version,
                 attempt |-> row.attempt, binding |-> row.binding,
                 noted |-> row.noted, scheduler |-> row.scheduler]
Unread(j) == [id |-> j]
Unseen == Unread("none")

------------------------------------------------------------------------------------
(* Gateway calls.  A call that is refused, or that loses a version conflict, ends   *)
(* with an error and no further effect; a call that changes nothing is not modelled.*)

NoEvent == [attempt |-> 0, kind |-> "none"]
NoCall == [op |-> "none", pc |-> "idle", seen |-> Unseen, event |-> NoEvent,
           mark |-> [attempt |-> 0, status |-> "none"]]

At(c, op, pc)   == call[c].op = op /\ call[c].pc = pc
Become(c, new)  == call' = [call EXCEPT ![c] = new]
GoOn(c, pc, row) == Become(c, [call[c] EXCEPT !.pc = pc, !.seen = row])
Finish(c)       == Become(c, NoCall)
MarkNext(c, a, s) == Become(c, [call[c] EXCEPT !.pc = "mark",
                                               !.mark = [attempt |-> a, status |-> s]])

Begin(c, op, pc, row, e) ==
    /\ call[c] = NoCall
    /\ calls + crashes < MaxIncidents
    /\ calls' = calls + 1
    /\ Become(c, [NoCall EXCEPT !.op = op, !.pc = pc, !.seen = row, !.event = e])
    /\ UNCHANGED <<rows, workload, controller, requeued, crashes, orphaned>>

(* create_job: look the key up, count the owner's active jobs, insert, queue.       *)
BeginCreate(c, j, s) == ~Stored(j) /\ Begin(c, "create", "admit", Seen(j, Row(s)), NoEvent)

Admit(c) ==
    /\ At(c, "create", "admit")
    /\ IF Cardinality({j \in Jobs : Active(j)}) < MaxActive
       THEN GoOn(c, "insert", call[c].seen)
       ELSE Finish(c)
    /\ UNCHANGED <<rows, workload, controller, past>>

(* store.create_job keeps the row another request inserted for the same key.  The   *)
(* spec is then filed as an artifact of the id this request had chosen, which no    *)
(* row has (a foreign key): the twin of a request fails here.                       *)
Insert(c) ==
    /\ At(c, "create", "insert")
    /\ LET j == call[c].seen.id IN
       IF Stored(j) THEN Finish(c) /\ UNCHANGED job
       ELSE job' = [job EXCEPT ![j] = Row(call[c].seen.scheduler)]
            /\ GoOn(c, "enqueue", call[c].seen)
    /\ UNCHANGED <<attempts, workload, controller, past>>

(* Queue the row a call has seen, if it is still so.                                *)
Queue(c) ==
    /\ LET row == call[c].seen IN
       IF MayMove(row, "queued")
       THEN /\ job' = [job EXCEPT ![row.id] = Moved(row.id, "queued")]
            /\ requeued' = [requeued EXCEPT ![row.id] =
                                @ + (IF row.status \in Terminal THEN 1 ELSE 0)]
       ELSE UNCHANGED <<job, requeued>>
    /\ Finish(c)
    /\ UNCHANGED <<attempts, workload, controller, calls, crashes, orphaned>>

Enqueue(c) == At(c, "create", "enqueue") /\ Queue(c)

(* cancel_job, as the gateway calls it: without a scheduler, so that the workload   *)
(* is left alone.  The attempt it cancels is the one of the row read at the start.  *)
BeginCancel(c, j) == Active(j) /\ Begin(c, "cancel", "cancel", Seen(j, job[j]), NoEvent)

CancelJob(c) ==
    /\ At(c, "cancel", "cancel")
    /\ LET row == call[c].seen IN
       IF MayMove(row, "cancelled")
       THEN /\ job' = [job EXCEPT ![row.id] = Moved(row.id, "cancelled")]
            /\ MarkNext(c, row.attempt, "cancelled")
       ELSE Finish(c) /\ UNCHANGED job
    /\ UNCHANGED <<attempts, workload, controller, past>>

(* resume_job: a failed or cancelled job with a promoted checkpoint artifact.       *)
BeginResume(c, j) ==
    /\ job[j].status \in {"failed", "cancelled"}
    /\ j \in Released
    /\ Begin(c, "resume", "resume", Seen(j, job[j]), NoEvent)

ResumeJob(c) == At(c, "resume", "resume") /\ Queue(c)

(* claim_notebook_job: four writes, the second and the fourth outside the version.  *)
BeginClaim(c, j) ==
    /\ job[j].status = "queued" /\ job[j].scheduler = "notebook"
    /\ Begin(c, "claim", "provision", Seen(j, job[j]), NoEvent)

ClaimProvision(c) ==
    /\ At(c, "claim", "provision")
    /\ LET row == call[c].seen IN
       IF MayMove(row, "provisioning")
       THEN /\ job' = [job EXCEPT ![row.id] = Moved(row.id, "provisioning")]
            /\ GoOn(c, "attempt", Seen(row.id, Moved(row.id, "provisioning")))
       ELSE Finish(c) /\ UNCHANGED job
    /\ UNCHANGED <<attempts, workload, controller, past>>

ClaimAttempt(c) ==
    /\ At(c, "claim", "attempt")
    /\ LET j == call[c].seen.id IN
       /\ NewAttempt(j)
       /\ workload' = [workload EXCEPT ![j] = Append(@, "none")]
       /\ GoOn(c, "run", [call[c].seen EXCEPT !.attempt = Len(attempts[j]) + 1])
    /\ UNCHANGED <<controller, past>>

ClaimRun(c) ==
    /\ At(c, "claim", "run")
    /\ LET row == call[c].seen IN
       IF MayMove(row, "running")
       THEN /\ job' = [job EXCEPT ![row.id] = Moved(row.id, "running")]
            /\ MarkNext(c, row.attempt, "running")
       ELSE Finish(c) /\ UNCHANGED job
    /\ UNCHANGED <<attempts, workload, controller, past>>

(* ingest_events, for a batch of one event.  The worker keeps an event until a post  *)
(* is answered, so that it may come late, when another attempt runs; it is numbered *)
(* once, so that only one post of it moves the job.  The job is read before the     *)
(* event is numbered, published, and applied with the row read at the start.        *)
BeginIngest(c, j, a, k) ==
    /\ workload[j][a] # "none"
    /\ Begin(c, "ingest", "apply", Seen(j, job[j]), [attempt |-> a, kind |-> k])

(* The status an event asks for, from the status the call has seen.                 *)
Wants(kind, seen) ==
    CASE kind = "checkpoint" /\ seen = "running" -> {"checkpointing"}
      [] kind = "evaluation" /\ seen \in {"running", "checkpointing"} -> {"evaluating"}
      [] kind = "metric" /\ seen \in {"checkpointing", "evaluating"} -> {"running"}
      [] kind = "running" /\ seen = "provisioning" -> {"running"}
      [] kind = "completed" /\ seen \in {"running", "checkpointing", "evaluating"} ->
            {"succeeded"}
      [] kind = "runtime" -> {"failed"}
      [] kind = "quality" -> {"blocked"}
      [] OTHER -> {}

ApplyEvent(c) ==
    /\ At(c, "ingest", "apply")
    /\ LET row == call[c].seen
           event == call[c].event IN
       \/ \E t \in Wants(event.kind, row.status) :
            /\ MayMove(row, t)
            /\ job' = [job EXCEPT ![row.id] = Moved(row.id, t)]
            /\ MarkNext(c, event.attempt, t)
       \/ /\ \A t \in Wants(event.kind, row.status) : ~MayMove(row, t)
          /\ Finish(c)
          /\ UNCHANGED job
    /\ UNCHANGED <<attempts, workload, controller, past>>

(* update_attempt_status, the last write of cancel, claim and ingest.  A claim then *)
(* hands the job to the notebook, whose client starts the workload.                 *)
MarkAttempt(c) ==
    /\ call[c].pc = "mark"
    /\ LET j == call[c].seen.id
           a == call[c].mark.attempt IN
       /\ Mark(j, a, call[c].mark.status)
       /\ workload' = IF call[c].op = "claim" THEN [workload EXCEPT ![j][a] = "running"]
                                              ELSE workload
    /\ Finish(c)
    /\ UNCHANGED <<job, controller, past>>

(* The gateway process dies with a call half done.                                  *)
CallDies(c) ==
    /\ call[c] # NoCall
    /\ calls + crashes < MaxIncidents
    /\ crashes' = crashes + 1
    /\ Finish(c)
    /\ UNCHANGED <<rows, workload, controller, requeued, calls, orphaned>>

CallStep(c) ==
    \/ Admit(c) \/ Insert(c) \/ Enqueue(c)
    \/ CancelJob(c) \/ ResumeJob(c)
    \/ ClaimProvision(c) \/ ClaimAttempt(c) \/ ClaimRun(c)
    \/ ApplyEvent(c)
    \/ MarkAttempt(c)
BeginCall(c) ==
    \E j \in Jobs :
        \/ \E s \in Schedulers : BeginCreate(c, j, s)
        \/ BeginCancel(c, j) \/ BeginResume(c, j) \/ BeginClaim(c, j)
        \/ \E a \in DOMAIN workload[j], k \in Kinds : BeginIngest(c, j, a, k)

------------------------------------------------------------------------------------
(* The schedulers and the workers, as the code sees them.                           *)

EndWorkload(j, a) ==
    /\ workload[j][a] = "running"
    /\ \E end \in {"succeeded", "failed", "cancelled"} :
          workload' = [workload EXCEPT ![j][a] = end]
    /\ UNCHANGED <<rows, call, controller, past>>

------------------------------------------------------------------------------------
(* The controller: reconcile_once over a list of rows read at the start, then the   *)
(* archiver.  `at` is the row reconcile_job holds; after create_attempt its attempt *)
(* is the one just created.                                                         *)

Resting == [pc |-> "idle", at |-> Unseen, todo |-> {}]

On(pc)       == controller.pc = pc
To(pc, row)  == controller' = [controller EXCEPT !.pc = pc, !.at = row]
Leave        == To("pick", Unseen)          \* reconcile_job returns
Refuse       == To("refused", Unread(controller.at.id)) \* a ValueError or RuntimeError while queued
Die          == /\ controller' = [Resting EXCEPT !.pc = "dead"]
                /\ orphaned' = orphaned \cup ({controller.at.id} \cap Jobs)
Raise        == To("rescue", Unread(controller.at.id))  \* an exception reaches reconcile_once

ListJobs ==
    /\ On("idle")
    /\ controller' = [Resting EXCEPT !.pc = "pick",
          !.todo = {Seen(j, job[j]) : j \in {i \in Jobs : /\ Active(i)
                                                          /\ job[i].scheduler = "cluster"}}]
    /\ UNCHANGED <<rows, workload, call, past>>

(* Mutant: a job that writes a checkpoint is not followed.                          *)
PickJobNotCheckpointing ==
    /\ On("pick")
    /\ \E row \in controller.todo :
          LET followed == row.status \in Following \ {"checkpointing"} /\ row.binding # 0 IN
          controller' = [controller EXCEPT
              !.todo = @ \ {row},
              !.at = IF row.status = "queued" \/ followed THEN row ELSE Unseen,
              !.pc = CASE row.status = "queued" -> "validate"
                       [] followed -> IF row.noted THEN "rescue" ELSE "rotate"
                       [] OTHER -> "pick"]
    /\ UNCHANGED <<rows, workload, call, past>>

(* reconcile_job acts on a queued row, and on a followed row that has a binding,    *)
(* which raises when it cannot be read back.  A queued row whose back-off has not   *)
(* elapsed is one the loop reaches later.                                           *)
PickJob ==
    /\ On("pick")
    /\ \E row \in controller.todo :
          LET followed == row.status \in Following /\ row.binding # 0 IN
          controller' = [controller EXCEPT
              !.todo = @ \ {row},
              !.at = IF row.status = "queued" \/ followed THEN row ELSE Unseen,
              !.pc = CASE row.status = "queued" -> "validate"
                       [] followed -> IF row.noted THEN "rescue" ELSE "rotate"
                       [] OTHER -> "pick"]
    /\ UNCHANGED <<rows, workload, call, past>>

(* scheduler.validate passes, refuses, or times out (not one of the caught errors). *)
Validate ==
    /\ On("validate")
    /\ To("provision", controller.at) \/ Refuse \/ Raise
    /\ UNCHANGED <<rows, workload, call, past>>

Provision ==
    /\ On("provision")
    /\ LET row == controller.at IN
       IF MayMove(row, "provisioning")
       THEN /\ job' = [job EXCEPT ![row.id] = Moved(row.id, "provisioning")]
            /\ To("attempt", Seen(row.id, Moved(row.id, "provisioning")))
       ELSE Refuse /\ UNCHANGED job
    /\ UNCHANGED <<attempts, workload, call, past>>

CreateAttempt ==
    /\ On("attempt")
    /\ LET j == controller.at.id IN
       /\ NewAttempt(j)
       /\ workload' = [workload EXCEPT ![j] = Append(@, "none")]
       /\ To("submit", [controller.at EXCEPT !.attempt = Len(attempts[j]) + 1])
    /\ UNCHANGED <<call, past>>

(* Mutant: a submission that times out is left to the next round.                   *)
SubmitUnanswered ==
    /\ On("submit")
    /\ LET submitted == [workload EXCEPT ![controller.at.id][controller.at.attempt] =
                            "running"] IN
       \/ workload' = submitted /\ To("bind", controller.at)
       \/ workload' = workload  /\ Refuse
       \/ workload' \in {workload, submitted} /\ Leave
    /\ UNCHANGED <<rows, call, past>>

(* A workload that waits for resources is one whose end comes later: the controller *)
(* leaves a job alone while the scheduler says neither running nor ended.           *)
(* scheduler.submit: accepted; refused; or timed out, the workload created or not.  *)
Submit ==
    /\ On("submit")
    /\ LET submitted == [workload EXCEPT ![controller.at.id][controller.at.attempt] =
                            "running"] IN
       \/ workload' = submitted /\ To("bind", controller.at)
       \/ workload' = workload  /\ Refuse
       \/ workload' \in {workload, submitted} /\ Raise
    /\ UNCHANGED <<rows, call, past>>

Bind ==
    /\ On("bind")
    /\ LET row == controller.at IN
       IF MayBind(row)
       THEN job' = [job EXCEPT ![row.id] = Bound(row.id, row.attempt)] /\ Leave
       ELSE Refuse /\ UNCHANGED job
    /\ UNCHANGED <<attempts, workload, call, past>>

(* The handler of the caught errors blocks the job, from whatever it has become.    *)
Refused ==
    /\ On("refused")
    /\ LET row == Seen(controller.at.id, job[controller.at.id]) IN
       IF "blocked" \in Allowed[row.status] THEN To("block", row) ELSE Raise
    /\ UNCHANGED <<rows, workload, call, past>>

(* A transition, to be followed by update_attempt_status of the current attempt.    *)
MoveThenMark(t, next) ==
    LET row == controller.at IN
    IF MayMove(row, t)
    THEN /\ job' = [job EXCEPT ![row.id] = Moved(row.id, t)]
         /\ To(next, Seen(row.id, Moved(row.id, t)))
    ELSE Raise /\ UNCHANGED job

Block ==
    /\ On("block")
    /\ MoveThenMark("blocked", "mark")
    /\ UNCHANGED <<attempts, workload, call, past>>

(* rotate_credentials: the token is still good, the scheduler fails, or the binding *)
(* is written anew (which takes a version).                                         *)
Rotate ==
    /\ On("rotate")
    /\ LET row == controller.at IN
       \/ To("observe", row) /\ UNCHANGED job
       \/ Raise /\ UNCHANGED job
       \/ /\ row.version < MaxVersion
          /\ IF MayBind(row)
             THEN /\ job' = [job EXCEPT ![row.id] = Bound(row.id, row.binding)]
                  /\ To("observe", Seen(row.id, Bound(row.id, row.binding)))
             ELSE Raise /\ UNCHANGED job
    /\ UNCHANGED <<attempts, workload, call, past>>

(* scheduler.status of the bound workload, and the transition it maps to.           *)
Observe ==
    /\ On("observe")
    /\ LET row == controller.at
           told == workload[row.id][row.binding] IN
       \/ Raise /\ UNCHANGED job
       \/ /\ told \in Allowed[row.status]
          /\ MoveThenMark(told, IF told = "failed" THEN "markFailed" ELSE "mark")
       \/ told \notin Allowed[row.status] /\ Leave /\ UNCHANGED job
    /\ UNCHANGED <<attempts, workload, call, past>>

MarkCurrent ==
    /\ On("mark") \/ On("markFailed")
    /\ Mark(controller.at.id, controller.at.attempt, controller.at.status)
    /\ IF On("mark") THEN Leave ELSE To("retry", controller.at)
    /\ UNCHANGED <<job, workload, call, past>>

(* A failure the scheduler reported is retried while attempts are left: the binding *)
(* is rewritten with the back-off (it still names the old workload), then queued.   *)
Retry ==
    /\ On("retry")
    /\ LET row == controller.at IN
       IF Len(attempts[row.id]) >= MaxAttempts THEN Leave /\ UNCHANGED job
       ELSE IF MayBind(row)
            THEN /\ job' = [job EXCEPT ![row.id] = Noted(row.id)]
                 /\ To("requeue", Seen(row.id, Noted(row.id)))
            ELSE Raise /\ UNCHANGED job
    /\ UNCHANGED <<attempts, workload, call, past>>

Requeue ==
    /\ On("requeue")
    /\ LET row == controller.at IN
       IF MayMove(row, "queued")
       THEN job' = [job EXCEPT ![row.id] = Moved(row.id, "queued")] /\ Leave
       ELSE Raise /\ UNCHANGED job
    /\ UNCHANGED <<attempts, workload, call, past>>

(* reconcile_once fails the job of an exception, or lets the exception end the loop.*)
Rescue ==
    /\ On("rescue")
    /\ LET row == Seen(controller.at.id, job[controller.at.id]) IN
       IF "failed" \in Allowed[row.status]
       THEN To("fail", row) /\ UNCHANGED orphaned
       ELSE Die
    /\ UNCHANGED <<rows, workload, call, requeued, calls, crashes>>

(* Mutant: a job failed by an exception is retried like one the scheduler failed.   *)
FailAndRetry ==
    /\ On("fail")
    /\ LET row == controller.at IN
       IF MayMove(row, "failed")
       THEN /\ job' = [job EXCEPT ![row.id] = Moved(row.id, "failed")]
            /\ To("markFailed", Seen(row.id, Moved(row.id, "failed")))
            /\ UNCHANGED orphaned
       ELSE Die /\ UNCHANGED job
    /\ UNCHANGED <<attempts, workload, call, requeued, calls, crashes>>

Fail ==
    /\ On("fail")
    /\ LET row == controller.at IN
       IF MayMove(row, "failed")
       THEN /\ job' = [job EXCEPT ![row.id] = Moved(row.id, "failed")]
            /\ To("mark", Seen(row.id, Moved(row.id, "failed")))
            /\ UNCHANGED orphaned
       ELSE Die /\ UNCHANGED job
    /\ UNCHANGED <<attempts, workload, call, requeued, calls, crashes>>

(* The archiver and the sleep follow; they do not touch the rows modelled here.     *)
Sleep ==
    /\ On("pick") /\ controller.todo = {}
    /\ controller' = Resting
    /\ UNCHANGED <<rows, workload, call, past>>

(* The process ends, and its supervisor starts it again (one replica, Recreate).    *)
ControllerDies ==
    /\ ~On("dead") /\ ~On("idle")
    /\ calls + crashes < MaxIncidents
    /\ crashes' = crashes + 1
    /\ Die
    /\ UNCHANGED <<rows, workload, call, requeued, calls>>

Restart ==
    /\ On("dead")
    /\ controller' = Resting
    /\ UNCHANGED <<rows, workload, call, past>>

ControllerStep ==
    \/ ListJobs \/ PickJob \/ Validate \/ Provision \/ CreateAttempt \/ Submit \/ Bind
    \/ Refused \/ Block \/ Rotate \/ Observe \/ MarkCurrent \/ Retry \/ Requeue
    \/ Rescue \/ Fail
    \/ Sleep \/ Restart

------------------------------------------------------------------------------------

(* Some jobs may have been created and queued before.                               *)
Queued(s) == [Row(s) EXCEPT !.status = "queued", !.version = 2]

Init ==
    /\ job \in [Jobs -> {NoRow} \cup {Queued(s) : s \in Schedulers}]
    /\ attempts = [j \in Jobs |-> <<>>]
    /\ workload = [j \in Jobs |-> <<>>]
    /\ call     = [c \in Callers |-> NoCall]
    /\ controller = Resting
    /\ requeued  = [j \in Jobs |-> 0]
    /\ calls    = 0
    /\ crashes  = 0
    /\ orphaned = {}

WorkloadStep ==
    \E j \in Jobs : \E a \in DOMAIN workload[j] :
        EndWorkload(j, a)

Next ==
    \/ \E c \in Callers : BeginCall(c) \/ CallStep(c) \/ CallDies(c)
    \/ WorkloadStep
    \/ ControllerStep
    \/ ControllerDies

(* Handlers run to their end unless they die, the controller loops for ever, and a  *)
(* scheduler runs what it holds to an end.                                          *)
Fairness ==
    /\ \A c \in Callers : WF_vars(CallStep(c))
    /\ WF_vars(ControllerStep)
    /\ \A j \in Jobs : \A a \in 1 .. MaxAttempts + MaxIncidents :
          WF_vars(a \in DOMAIN workload[j] /\ EndWorkload(j, a))

Spec == Init /\ [][Next]_vars /\ Fairness
===============================================================================

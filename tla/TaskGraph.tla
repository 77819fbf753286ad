----------------------------- MODULE TaskGraph -----------------------------
(***************************************************************************)
(* The durable task graph of an agent run: the tasks and task_graphs rows  *)
(* of the SQLite store, the operations of TaskGraphRuntime (advance,       *)
(* complete_task, fail_task, claim_ready_tasks, cancel, report), and the   *)
(* two kinds of actor that call them: AgentWorkerPool coroutines and the   *)
(* clients of the HTTP endpoints.                                          *)
(*                                                                         *)
(* A step is one committed statement or transaction, or one read, of the   *)
(* store.  The Python of one process runs an operation from its first read *)
(* to its last commit without yielding to the event loop, so operations of *)
(* one process never interleave; operations of two processes on the same   *)
(* database file interleave statement by statement.                        *)
(***************************************************************************)
EXTENDS Integers, FiniteSets

CONSTANTS
    NTasks,       \* tasks are 1..NTasks, in insertion (topological) order
    Deps,         \* Deps[t]: the depends_on list of task t
    MaxAttempts,  \* max_attempts of every task
    Pools,        \* AgentWorkerPool instances
    Clients,      \* callers of the HTTP endpoints
    ProcessOf,    \* the operating-system process that runs an actor's calls
    Concurrency,  \* claim limit of a pool
    Expiry,       \* which leases may run out: "never", "orphaned", "any"
    MaxCrashes,   \* bound on process crashes
    NoOne         \* the NULL lease owner

Task == 1..NTasks
Actor == Pools \union Clients

ASSUME GraphAssumption ==
    /\ NTasks \in Nat \ {0}
    /\ Deps \in [Task -> SUBSET Task]
    /\ \A t \in Task : \A d \in Deps[t] : d < t
ASSUME ActorAssumption ==
    /\ MaxAttempts \in Nat \ {0}
    /\ Concurrency \in Nat \ {0}
    /\ MaxCrashes \in Nat
    /\ Pools \intersect Clients = {}
    /\ NoOne \notin Actor
    /\ DOMAIN ProcessOf = Actor
    /\ Expiry \in {"never", "orphaned", "any"}

TaskStatus == {"queued", "running", "completed", "failed", "cancelled"}
Terminal == {"completed", "failed", "cancelled"}

VARIABLES
    status, attempt, lease, stale, cancelReq,  \* tasks rows (stale: deadline passed)
    graph,                                     \* task_graphs.status
    board,          \* tasks whose output is on the blackboard
    pc,             \* the next store access of each actor
    ret,            \* where report returns to
    word,           \* a status read from, or about to be written to, the graph row
    sel,            \* the tasks an operation in progress works on
    tried,          \* next_attempt of a fail_task in progress
    held,           \* tasks an actor has claimed and is executing
    stop,           \* pools whose cancellation_event is set
    crashes,        \* crashes so far
    overrun,        \* whether a lease ran out while its owner still executed the task
    done, broken,   \* history: tasks ever completed, ever out of attempts
    claims          \* history: claims per task, saturating at ClaimCap

rows == <<status, attempt, lease, stale, cancelReq>>
local == <<word, sel, tried>>
env == <<stop, crashes, overrun>>
history == <<done, broken, claims>>
vars == <<status, attempt, lease, stale, cancelReq, graph, board,
          pc, ret, word, sel, tried, held, stop, crashes, overrun,
          done, broken, claims>>

ClaimCap == MaxAttempts + 1

(* Labels at which an actor's coroutine has yielded to the event loop. *)
Resting == {"idle", "await", "poll"}
PCs == Resting \union
       {"reportRecover", "reportList", "reportWrite",
        "reportRead", "claimRead", "claimRecover", "claimList", "claimFailed", "claim",
        "advanceList", "advanceRecover", "advanceRelist", "advanceEarly", "advanceWrite",
        "complete", "fail", "failState", "failAttempt", "failGraph"}

Init ==
    /\ status = [t \in Task |-> "queued"]
    /\ attempt = [t \in Task |-> 0]
    /\ lease = [t \in Task |-> NoOne]
    /\ stale = [t \in Task |-> FALSE]
    /\ cancelReq = {}
    /\ graph = "queued"
    /\ board = {}
    /\ pc = [a \in Actor |-> "idle"]
    /\ ret = [a \in Actor |-> "idle"]
    /\ word = [a \in Actor |-> "none"]
    /\ sel = [a \in Actor |-> {}]
    /\ tried = [a \in Actor |-> 0]
    /\ held = [a \in Actor |-> {}]
    /\ stop = {}
    /\ crashes = 0
    /\ overrun = FALSE
    /\ done = {} /\ broken = {}
    /\ claims = [t \in Task |-> 0]

-----------------------------------------------------------------------------
(* The event loop. *)

(* An actor may take a step only while no other actor of its process is in *)
(* the middle of an operation.                                             *)
Scheduled(a) ==
    \A b \in Actor \ {a} : ProcessOf[b] = ProcessOf[a] => pc[b] \in Resting

At(a, label) == pc[a] = label /\ Scheduled(a)
Goto(a, label) == pc' = [pc EXCEPT ![a] = label]

-----------------------------------------------------------------------------
(* Pieces of the store's statements. *)

(* Mutant: a dependency that was merely started will do. *)
ReadyEarly ==
    {t \in Task : status[t] = "queued" /\ \A d \in Deps[t] : status[d] # "queued"}

Ready == {t \in Task : status[t] = "queued" /\ \A d \in Deps[t] : status[d] = "completed"}

(* The first n of a set of tasks in list order. *)
FirstOf(n, S) == {t \in S : Cardinality({u \in S : u < t}) < n}

(* Mutant: a lease is recovered only while the task could still be retried. *)
ExpiredRetryable ==
    {t \in Task : status[t] = "running" /\ stale[t] /\ attempt[t] + 1 < MaxAttempts}

(* Running tasks whose lease has run out, and those out of attempts. *)
Expired == {t \in Task : status[t] = "running" /\ stale[t] /\ t \notin cancelReq}

(* Mutant: the attempt being used up is not counted. *)
ExhaustedLate == {t \in Expired : attempt[t] >= MaxAttempts}

Exhausted == {t \in Expired : attempt[t] + 1 >= MaxAttempts}

AfterRecovery ==
    [t \in Task |-> IF t \in Exhausted THEN "failed"
                    ELSE IF t \in Expired THEN "queued" ELSE status[t]]

RecoverLeases ==
    /\ status' = AfterRecovery
    /\ attempt' = [t \in Task |-> IF t \in Expired THEN attempt[t] + 1 ELSE attempt[t]]
    /\ lease' = [t \in Task |-> IF t \in Expired THEN NoOne ELSE lease[t]]
    /\ stale' = [t \in Task |-> stale[t] /\ t \notin Expired]
    /\ broken' = broken \union Exhausted

(* UPDATE tasks SET status = s: the lease is dropped with every status but *)
(* running.                                                                *)
SetStatus(t, s) ==
    /\ status' = [status EXCEPT ![t] = s]
    /\ lease' = [lease EXCEPT ![t] = NoOne]
    /\ stale' = [stale EXCEPT ![t] = FALSE]

(* The one transaction of cancel_task_graph. *)
CancelRows ==
    LET open == {t \in Task : status[t] \notin Terminal} IN
    /\ status' = [t \in Task |-> IF t \in open THEN "cancelled" ELSE status[t]]
    /\ lease' = [t \in Task |-> IF t \in open THEN NoOne ELSE lease[t]]
    /\ stale' = [t \in Task |-> stale[t] /\ t \notin open]
    /\ cancelReq' = cancelReq \union open
    /\ graph' = "cancelled"

(* The transaction of claim_tasks on the tasks S: recover, then one        *)
(* compare-and-set per task.                                               *)

(* Mutants: the compare-and-set without its cancel_requested or its status *)
(* condition.                                                              *)
WinnableCancelled(S) == {t \in S : AfterRecovery[t] = "queued"}
WinnableTaken(S) == S \ cancelReq

Winnable(S) == {t \in S : AfterRecovery[t] = "queued" /\ t \notin cancelReq}

ClaimRows(a, won) ==
    /\ status' = [t \in Task |-> IF t \in won THEN "running" ELSE AfterRecovery[t]]
    /\ attempt' = [t \in Task |-> IF t \in Expired THEN attempt[t] + 1 ELSE attempt[t]]
    /\ lease' = [t \in Task |-> IF t \in won THEN a
                                ELSE IF t \in Expired THEN NoOne ELSE lease[t]]
    /\ stale' = [t \in Task |-> stale[t] /\ t \notin Expired]
    /\ broken' = broken \union Exhausted
    /\ claims' = [t \in Task |-> IF t \in won /\ claims[t] < ClaimCap
                                 THEN claims[t] + 1 ELSE claims[t]]
    /\ graph' = IF won = {} THEN graph ELSE "running"

-----------------------------------------------------------------------------
(* report *)

(* The verdict report computes from one listing of the tasks. *)
Verdict(seen) ==
    IF \E t \in Task : status[t] = "failed" THEN "failed"
    ELSE IF \E t \in Task : status[t] = "cancelled" THEN "cancelled"
    ELSE IF \A t \in Task : status[t] = "completed" THEN "completed"
    ELSE IF Ready # {} \/ \E t \in Task : status[t] = "running" THEN "running"
    ELSE seen

(* Where the caller of report goes on: a pool's loop claims unless the     *)
(* graph is over; a handler's coroutine ends, and the last one of a batch  *)
(* lets gather return to the loop.                                         *)
AfterReport(a, verdict) ==
    IF ret[a] = "poll" THEN IF verdict \in Terminal THEN "idle" ELSE "claimRead"
    ELSE IF ret[a] = "handler" THEN IF held[a] = {} THEN "poll" ELSE "await"
    ELSE "idle"

ReportRead(a) ==
    /\ At(a, "reportRead")
    /\ word' = [word EXCEPT ![a] = graph]
    /\ Goto(a, "reportRecover")
    /\ UNCHANGED <<rows, graph, board, ret, sel, tried, held, env, history>>

ReportRecover(a) ==
    /\ At(a, "reportRecover")
    /\ RecoverLeases
    /\ Goto(a, "reportList")
    /\ UNCHANGED <<cancelReq, graph, board, ret, local, held, env, done, claims>>

ReportList(a) ==
    /\ At(a, "reportList")
    /\ LET v == Verdict(word[a]) IN
         IF v = word[a]
         THEN Goto(a, AfterReport(a, v)) /\ word' = [word EXCEPT ![a] = "none"]
         ELSE Goto(a, "reportWrite") /\ word' = [word EXCEPT ![a] = v]
    /\ UNCHANGED <<rows, graph, board, ret, sel, tried, held, env, history>>

ReportWrite(a) ==
    /\ At(a, "reportWrite")
    /\ graph' = word[a]
    /\ word' = [word EXCEPT ![a] = "none"]
    /\ Goto(a, AfterReport(a, word[a]))
    /\ UNCHANGED <<rows, board, ret, sel, tried, held, env, history>>

-----------------------------------------------------------------------------
(* claim_ready_tasks, called by a pool's loop and by advance *)

Limit(a) == IF a \in Pools THEN Concurrency ELSE 1

(* An empty claim ends a pool's run ("blocked"); advance goes on to see    *)
(* whether the listing it made before the claim was all completed.         *)

AfterNoClaim(a) == IF word[a] = "completed" THEN "advanceWrite" ELSE "idle"

ClaimRead(a) ==
    /\ At(a, "claimRead")
    /\ Goto(a, IF graph \in Terminal THEN AfterNoClaim(a) ELSE "claimRecover")
    /\ UNCHANGED <<rows, graph, board, ret, local, held, env, history>>

ClaimRecover(a) ==
    /\ At(a, "claimRecover")
    /\ RecoverLeases
    /\ Goto(a, "claimList")
    /\ UNCHANGED <<cancelReq, graph, board, ret, local, held, env, done, claims>>

ClaimList(a) ==
    /\ At(a, "claimList")
    /\ IF \E t \in Task : status[t] = "failed"
       THEN Goto(a, "claimFailed") /\ UNCHANGED sel
       ELSE /\ sel' = [sel EXCEPT ![a] = FirstOf(Limit(a), Ready)]
            /\ Goto(a, IF Ready = {} THEN AfterNoClaim(a) ELSE "claim")
    /\ UNCHANGED <<rows, graph, board, ret, word, tried, held, env, history>>

ClaimFailed(a) ==
    /\ At(a, "claimFailed")
    /\ graph' = "failed"
    /\ Goto(a, AfterNoClaim(a))
    /\ UNCHANGED <<rows, board, ret, local, held, env, history>>

Claim(a) ==
    /\ At(a, "claim")
    /\ LET won == Winnable(sel[a]) IN
         /\ ClaimRows(a, won)
         /\ held' = [held EXCEPT ![a] = @ \union won]
         /\ Goto(a, IF won = {} THEN AfterNoClaim(a)
                    ELSE IF a \in Pools THEN "await" ELSE "idle")
         /\ word' = IF won = {} THEN word ELSE [word EXCEPT ![a] = "none"]
    /\ sel' = [sel EXCEPT ![a] = {}]
    /\ UNCHANGED <<cancelReq, board, ret, tried, env, done>>

-----------------------------------------------------------------------------
(* advance, called by a client and at the end of its complete and fail *)

AdvanceList(a) ==
    /\ a \in Clients
    /\ At(a, "advanceList") \/ At(a, "idle")
    /\ Goto(a, IF \E t \in Task : status[t] = "failed" THEN "advanceEarly" ELSE "advanceRecover")
    /\ word' = [word EXCEPT ![a] = IF \E t \in Task : status[t] = "failed"
                                   THEN "failed" ELSE "none"]
    /\ UNCHANGED <<rows, graph, board, ret, sel, tried, held, env, history>>

AdvanceRecover(a) ==
    /\ At(a, "advanceRecover")
    /\ RecoverLeases
    /\ Goto(a, "advanceRelist")
    /\ UNCHANGED <<cancelReq, graph, board, ret, local, held, env, done, claims>>

AdvanceRelist(a) ==
    /\ At(a, "advanceRelist")
    /\ LET Some(s) == \E t \in Task : status[t] = s IN
         /\ Goto(a, IF Some("failed") \/ Some("cancelled") THEN "advanceEarly"
                    ELSE IF Some("running") THEN "idle" ELSE "claimRead")
         /\ word' = [word EXCEPT ![a] =
                IF Some("failed") THEN "failed"
                ELSE IF Some("cancelled") THEN "cancelled"
                ELSE IF \A t \in Task : status[t] = "completed" THEN "completed" ELSE "none"]
    /\ UNCHANGED <<rows, graph, board, ret, sel, tried, held, env, history>>

(* The status advance writes last, on a failed or cancelled listing before *)
(* the claim or on a completed one after it.                               *)
AdvanceWrite(a) ==
    /\ At(a, "advanceEarly") \/ At(a, "advanceWrite")
    /\ graph' = word[a]
    /\ word' = [word EXCEPT ![a] = "none"]
    /\ Goto(a, "idle")
    /\ UNCHANGED <<rows, board, ret, sel, tried, held, env, history>>

-----------------------------------------------------------------------------
(* complete_task and fail_task *)

(* A client's call goes on to advance (claim_next), a handler's to report. *)

AfterUpdate(a) == IF a \in Clients THEN "advanceList" ELSE "reportRead"

CompleteWrite(a) ==
    /\ At(a, "complete")
    /\ \E t \in sel[a] : SetStatus(t, "completed")
    /\ done' = done \union sel[a]
    /\ sel' = [sel EXCEPT ![a] = {}]
    /\ Goto(a, AfterUpdate(a))
    /\ UNCHANGED <<attempt, cancelReq, graph, board, ret, word, tried, held, env, broken, claims>>

FailRead(a) ==
    /\ At(a, "fail")
    /\ \E t \in sel[a] : tried' = [tried EXCEPT ![a] = attempt[t] + 1]
    /\ Goto(a, "failState")
    /\ UNCHANGED <<rows, graph, board, ret, word, sel, held, env, history>>

Retries(a) == tried[a] < MaxAttempts

FailState(a) ==
    /\ At(a, "failState")
    /\ \E t \in sel[a] : SetStatus(t, IF Retries(a) THEN "queued" ELSE "failed")
    /\ broken' = IF Retries(a) THEN broken ELSE broken \union sel[a]
    /\ Goto(a, "failAttempt")
    /\ UNCHANGED <<attempt, cancelReq, graph, board, ret, local, held, env, done, claims>>

FailAttempt(a) ==
    /\ At(a, "failAttempt")
    /\ \E t \in sel[a] : attempt' = [attempt EXCEPT ![t] = tried[a]]
    /\ sel' = [sel EXCEPT ![a] = {}]
    /\ Goto(a, "failGraph")
    /\ UNCHANGED <<status, lease, stale, cancelReq, graph, board, ret, word, tried, held, env, history>>

FailGraph(a) ==
    /\ At(a, "failGraph")
    /\ graph' = IF Retries(a) THEN "running" ELSE "failed"
    /\ tried' = [tried EXCEPT ![a] = 0]
    /\ Goto(a, IF Retries(a) THEN AfterUpdate(a) ELSE "reportRead")
    /\ UNCHANGED <<rows, board, ret, word, sel, held, env, history>>

-----------------------------------------------------------------------------
(* The clients: they advance, and complete or fail what an advance of      *)
(* theirs claimed.                                                         *)

ClientComplete(c, t) ==
    /\ At(c, "idle") /\ t \in held[c]
    /\ held' = [held EXCEPT ![c] = @ \ {t}]
    /\ sel' = [sel EXCEPT ![c] = {t}]
    /\ Goto(c, "complete")
    /\ UNCHANGED <<rows, graph, board, ret, word, tried, env, history>>

ClientFail(c, t) ==
    /\ At(c, "idle") /\ t \in held[c]
    /\ held' = [held EXCEPT ![c] = @ \ {t}]
    /\ sel' = [sel EXCEPT ![c] = {t}]
    /\ Goto(c, "fail")
    /\ UNCHANGED <<rows, graph, board, ret, word, tried, env, history>>

ClientCancel(c) ==
    /\ At(c, "idle")
    /\ CancelRows
    /\ ret' = [ret EXCEPT ![c] = "idle"]
    /\ Goto(c, "reportRead")
    /\ UNCHANGED <<attempt, board, local, held, env, history>>

-----------------------------------------------------------------------------
(* The pool: run_until_blocked_or_complete and its handlers *)

PoolStart(p) ==
    /\ At(p, "idle")
    /\ Goto(p, "poll")
    /\ stop' = stop \ {p}
    /\ UNCHANGED <<rows, graph, board, ret, local, held, crashes, overrun, history>>

(* The top of the loop: a set cancellation event cancels the graph and     *)
(* ends the run, otherwise report decides whether to go on.                *)
Poll(p) ==
    /\ At(p, "poll") /\ p \notin stop
    /\ ret' = [ret EXCEPT ![p] = "poll"]
    /\ Goto(p, "reportRead")
    /\ UNCHANGED <<rows, graph, board, local, held, env, history>>

PollCancelled(p) ==
    /\ At(p, "poll") /\ p \in stop
    /\ CancelRows
    /\ ret' = [ret EXCEPT ![p] = "idle"]
    /\ Goto(p, "reportRead")
    /\ UNCHANGED <<attempt, board, local, held, env, history>>

(* The blackboard entry of an output is created with expected_version 0:   *)
(* when an earlier execution already wrote one the conflict raises, and    *)
(* the result is recorded as a failure.                                    *)
RecordOutcome(t) == IF t \in board THEN "fail" ELSE "complete"

(* The handler of t returned a result. *)
HandlerReturns(p, t) ==
    /\ At(p, "await") /\ t \in held[p]
    /\ board' = board \union {t}
    /\ Goto(p, RecordOutcome(t))
    /\ held' = [held EXCEPT ![p] = @ \ {t}]
    /\ sel' = [sel EXCEPT ![p] = {t}]
    /\ ret' = [ret EXCEPT ![p] = "handler"]
    /\ UNCHANGED <<rows, graph, word, tried, env, history>>

(* It raised, timed out, or had no registration. *)
HandlerFails(p, t) ==
    /\ At(p, "await") /\ t \in held[p]
    /\ Goto(p, "fail")
    /\ held' = [held EXCEPT ![p] = @ \ {t}]
    /\ sel' = [sel EXCEPT ![p] = {t}]
    /\ ret' = [ret EXCEPT ![p] = "handler"]
    /\ UNCHANGED <<rows, graph, board, word, tried, env, history>>

(* The cancellation event won: the handler is cancelled, then the graph. *)
HandlerStopped(p, t) ==
    /\ At(p, "await") /\ t \in held[p] /\ p \in stop
    /\ CancelRows
    /\ held' = [held EXCEPT ![p] = @ \ {t}]
    /\ ret' = [ret EXCEPT ![p] = "handler"]
    /\ Goto(p, "reportRead")
    /\ UNCHANGED <<attempt, board, local, env, history>>

(* One beat of _renew_lease; a lease that is lost stays lost. *)
RenewLease(p, t) ==
    /\ At(p, "await") /\ t \in held[p]
    /\ status[t] = "running" /\ lease[t] = p /\ t \notin cancelReq
    /\ stale[t]
    /\ stale' = [stale EXCEPT ![t] = FALSE]
    /\ UNCHANGED <<status, attempt, lease, cancelReq, graph, board, pc, ret, local, held,
                   env, history>>

-----------------------------------------------------------------------------
(* The environment *)

SignalStop(p) ==
    /\ pc[p] # "idle" /\ p \notin stop
    /\ stop' = stop \union {p}
    /\ UNCHANGED <<rows, graph, board, pc, ret, local, held, crashes, overrun, history>>

(* The deadline of t's lease passes.  An orphaned lease is one whose owner *)
(* no longer executes the task; a pool renews the others, a client's is    *)
(* never renewed.                                                          *)
Orphaned(t) == t \notin held[lease[t]] \union sel[lease[t]]

LeaseExpires(t) ==
    /\ status[t] = "running" /\ ~stale[t] /\ lease[t] # NoOne
    /\ Expiry = "any" \/ (Expiry = "orphaned" /\ Orphaned(t))
    /\ stale' = [stale EXCEPT ![t] = TRUE]
    /\ overrun' = (overrun \/ ~Orphaned(t))
    /\ UNCHANGED <<status, attempt, lease, cancelReq, graph, board, pc, ret, local, held,
                   stop, crashes, history>>

(* A process dies: its operations stop where they are and its pools lose   *)
(* their handlers; a client outlives the server and keeps its task.        *)
Crash(h) ==
    LET dead == {a \in Actor : ProcessOf[a] = h} IN
    /\ crashes < MaxCrashes
    /\ \E a \in dead : pc[a] # "idle"
    /\ crashes' = crashes + 1
    /\ pc' = [a \in Actor |-> IF a \in dead THEN "idle" ELSE pc[a]]
    /\ word' = [a \in Actor |-> IF a \in dead THEN "none" ELSE word[a]]
    /\ sel' = [a \in Actor |-> IF a \in dead THEN {} ELSE sel[a]]
    /\ tried' = [a \in Actor |-> IF a \in dead THEN 0 ELSE tried[a]]
    /\ held' = [a \in Actor |-> IF a \in dead \intersect Pools THEN {} ELSE held[a]]
    /\ stop' = stop \ dead
    /\ UNCHANGED <<rows, graph, board, ret, overrun, history>>

-----------------------------------------------------------------------------
Operation(a) ==
    \/ ReportRead(a) \/ ReportRecover(a) \/ ReportList(a) \/ ReportWrite(a)
    \/ ClaimRead(a) \/ ClaimRecover(a) \/ ClaimList(a) \/ ClaimFailed(a) \/ Claim(a)
    \/ AdvanceRecover(a) \/ AdvanceRelist(a) \/ AdvanceWrite(a)
    \/ CompleteWrite(a)
    \/ FailRead(a) \/ FailState(a) \/ FailAttempt(a) \/ FailGraph(a)

ClientStep(c) ==
    \/ AdvanceList(c) \/ ClientCancel(c)
    \/ \E t \in Task : ClientComplete(c, t) \/ ClientFail(c, t)

HandlerEnds(p) ==
    \E t \in Task : HandlerReturns(p, t) \/ HandlerFails(p, t) \/ HandlerStopped(p, t)

PoolStep(p) ==
    \/ PoolStart(p) \/ Poll(p) \/ PollCancelled(p) \/ HandlerEnds(p) \/ SignalStop(p)
    \/ \E t \in Task : RenewLease(p, t)

Next ==
    \/ \E a \in Actor : Operation(a)
    \/ \E c \in Clients : ClientStep(c)
    \/ \E p \in Pools : PoolStep(p)
    \/ \E t \in Task : LeaseExpires(t)
    \/ \E a \in Actor : Crash(ProcessOf[a])

Spec == Init /\ [][Next]_vars

(* Fairness: the event loop runs every ready coroutine; every handler has  *)
(* an absolute timeout.                                                    *)
PoolRuns(p) == Poll(p) \/ PollCancelled(p) \/ HandlerEnds(p)
AdvanceGoesOn(c) == pc[c] = "advanceList" /\ AdvanceList(c)

FairSpec ==
    /\ Spec
    /\ \A a \in Actor : SF_vars(Operation(a))
    /\ \A c \in Clients : SF_vars(AdvanceGoesOn(c))
    /\ \A p \in Pools : SF_vars(PoolRuns(p))

(* A supervised deployment also starts a pool again on a graph that is     *)
(* open, and time passes.                                                  *)
SupervisedSpec ==
    /\ FairSpec
    /\ \A p \in Pools : SF_vars(PoolStart(p))
    /\ \A t \in Task : WF_vars(LeaseExpires(t))

-----------------------------------------------------------------------------
(* What the task graph runtime must guarantee.                             *)

(* The rows and the actors' local state have the types the store's columns *)
(* and the code's variables give them.                                     *)
TypeOK ==
    /\ status \in [Task -> TaskStatus]
    /\ attempt \in [Task -> Nat]
    /\ lease \in [Task -> Actor \union {NoOne}]
    /\ stale \in [Task -> BOOLEAN]
    /\ cancelReq \in SUBSET Task
    /\ graph \in TaskStatus
    /\ board \in SUBSET Task
    /\ pc \in [Actor -> PCs]
    /\ ret \in [Actor -> {"idle", "poll", "handler"}]
    /\ word \in [Actor -> TaskStatus \union {"none"}]
    /\ sel \in [Actor -> SUBSET Task]
    /\ tried \in [Actor -> Nat]
    /\ held \in [Actor -> SUBSET Task]
    /\ stop \in SUBSET Pools
    /\ crashes \in Nat
    /\ overrun \in BOOLEAN
    /\ done \in SUBSET Task
    /\ broken \in SUBSET Task
    /\ claims \in [Task -> 0..ClaimCap]

(* No task can be stranded: whoever crashed or lost a race, a running task *)
(* has a lease and no cancellation request, so lease recovery or the end   *)
(* of its execution can always move it on (recovery skips rows without a   *)
(* lease and rows with cancel_requested).                                  *)
RunningIsRecoverable ==
    \A t \in Task : status[t] = "running" => lease[t] # NoOne /\ t \notin cancelReq

(* The cancel_requested mark is final for execution: once a task was       *)
(* cancelled no process starts it again, although completions and failures *)
(* of its old execution still rewrite the row.                             *)
CancelledNeverRestarts ==
    [][\A t \in cancelReq : status'[t] # "running" /\ claims'[t] = claims[t]]_vars

(* A task is handed out only after each of its dependencies completed,     *)
(* however late the listing that found it ready was made.                  *)
DependencyOrder ==
    \A t \in Task : claims[t] > 0 => Deps[t] \subseteq done

(* A graph is reported completed only after every task completed, and      *)
(* failed only after some task ran out of attempts, whatever stale         *)
(* listings the writers of the graph row worked from.                      *)
GraphVerdict ==
    /\ graph = "completed" => done = Task
    /\ graph = "failed" => broken # {}

(* A task is claimed at most once per attempt it has used, so at most      *)
(* max_attempts times, unless a process died between fail_task's commits   *)
(* of the status and of the attempt.                                       *)
RetryBudget ==
    crashes = 0 => \A t \in Task : claims[t] <= attempt[t] + 1 /\ claims[t] <= MaxAttempts

(* While leases outlive executions, no task is executed by two actors,     *)
(* although several processes claim from listings made earlier.            *)
OneExecutor ==
    ~overrun => \A a, b \in Actor : a # b => held[a] \intersect held[b] = {}

(* "Cancellation marks all queued/running nodes cancelled and stops        *)
(* in-flight asyncio handlers": a cancelled task stays cancelled.          *)
CancelledStays ==
    [][\A t \in Task : status[t] = "cancelled" => status'[t] = "cancelled"]_vars

(* Under supervision no graph is left open for ever, whatever crashes.     *)
GraphSettles == <>(graph \in Terminal)

(* The graph executes as a DAG: the operations and their races implement   *)
(* the schedule of DagExecution.                                           *)
Started == {t \in Task : claims[t] > 0}
Dag == INSTANCE DagExecution WITH started <- Started, verdict <- graph
ImplementsDag == Dag!Spec
=============================================================================

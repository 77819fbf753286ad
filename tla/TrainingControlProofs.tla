----------------------- MODULE TrainingControlProofs -----------------------
(* Proofs about TrainingControl.  Everything rests on one fact: a row that a call  *)
(* or the controller keeps agrees with the stored row while their versions are     *)
(* equal, and is older otherwise.  It is carried through every step by a frame     *)
(* (Advances) that says how the rows of a step may change.                         *)
EXTENDS TrainingControlProperties, FiniteSetTheorems, TLAPS

WorkStates == {"none", "running", "succeeded", "failed", "cancelled"}
RowTypes ==
    [status : Status \cup {"absent"}, version : Nat, attempt : Nat, binding : Nat,
     noted : BOOLEAN, scheduler : Schedulers]
FullRows ==
    [id : Jobs, status : Status, version : Nat, attempt : Nat, binding : Nat,
     noted : BOOLEAN, scheduler : Schedulers]
KeptRows == FullRows \cup {Unread(j) : j \in Jobs} \cup {Unseen}

(* A stored row: an absent job has nothing, version 1 is the row as inserted.      *)
RowInv(j) ==
    /\ Len(workload[j]) = Len(attempts[j])
    /\ job[j].attempt <= Len(attempts[j])
    /\ job[j].binding <= Len(attempts[j])
    /\ job[j].status = "absent" => job[j] = NoRow /\ Len(attempts[j]) = 0
    /\ job[j].version = 0 => job[j].status = "absent"
    /\ job[j].version = 1 => job[j].status = "validating" /\ job[j].binding = 0
RowsInv ==
    /\ job \in [Jobs -> RowTypes]
    /\ attempts \in [Jobs -> Seq(Status)]
    /\ workload \in [Jobs -> Seq(WorkStates)]
    /\ requeued \in [Jobs -> Nat]
    /\ orphaned \subseteq Jobs
    /\ \A j \in Jobs : RowInv(j)

(* The row r kept by somebody, beside the stored row and its n attempts.           *)
AgreesWith(r, row, n) ==
    /\ r.version <= row.version
    /\ r.version = row.version => r.status = row.status /\ r.binding = row.binding
    /\ r.scheduler = row.scheduler
    /\ r.attempt <= n /\ r.binding <= n
Agrees(r) == r \in FullRows /\ AgreesWith(r, job[r.id], Len(attempts[r.id]))

Ops == {"none", "create", "cancel", "resume", "claim", "ingest"}
Pcs == {"idle", "admit", "insert", "enqueue", "cancel", "resume", "provision", "attempt",
        "run", "apply", "mark"}
CallRecords ==
    [op : Ops, pc : Pcs, seen : FullRows \cup {Unseen},
     event : [attempt : Nat, kind : Kinds \cup {"none"}],
     mark : [attempt : Nat, status : Status \cup {"none"}]]

(* What a call in flight knows.                                                    *)
Creating(k) ==
    /\ k.op = "create" /\ k.pc \in {"admit", "insert"}
    /\ \E j \in Jobs, s \in Schedulers : k.seen = Seen(j, Row(s))
Knows(k) ==
    /\ Agrees(k.seen)
    /\ \/ k.op = "create" /\ k.pc = "enqueue" /\ k.seen.status = "validating"
       \/ k.op = "cancel" /\ k.pc = "cancel"
       \/ k.op = "resume" /\ k.pc = "resume" /\ k.seen.id \in Released
       \/ k.op = "claim" /\ k.pc = "provision" /\ k.seen.scheduler = "notebook"
       \/ k.op = "claim" /\ k.pc = "attempt" /\ k.seen.scheduler = "notebook"
       \/ /\ k.op = "claim" /\ k.pc = "run" /\ k.seen.scheduler = "notebook"
          /\ k.seen.attempt # 0
       \/ /\ k.op = "ingest" /\ k.pc = "apply"
          /\ k.event.attempt <= Len(attempts[k.seen.id])
       \/ /\ k.op \in {"cancel", "claim", "ingest"} /\ k.pc = "mark"
          /\ k.mark.attempt <= Len(attempts[k.seen.id])
          /\ k.mark.status \in Status
          /\ k.op = "claim" => k.mark.attempt # 0 /\ k.seen.scheduler = "notebook"
SoundCall(k) == k \in CallRecords /\ (k = NoCall \/ Creating(k) \/ Knows(k))
CallsInv == call \in [Callers -> CallRecords] /\ \A c \in Callers : SoundCall(call[c])

Holding == {"validate", "provision", "attempt", "submit", "bind", "block", "rotate",
            "observe", "mark", "markFailed", "retry", "requeue", "fail"}
Naming == {"refused", "rescue"}
ControllerRecords ==
    [pc : Holding \cup Naming \cup {"idle", "pick", "dead"}, at : KeptRows,
     todo : SUBSET FullRows]

(* What the controller knows: it deals with cluster jobs only.                     *)
SoundController(h) ==
    /\ h \in ControllerRecords
    /\ \A r \in h.todo : Agrees(r) /\ r.scheduler = "cluster"
    /\ h.pc \in Holding => Agrees(h.at) /\ h.at.scheduler = "cluster"
    /\ h.pc \in Naming =>
         /\ h.at.id \in Jobs
         /\ job[h.at.id].status # "absent" /\ job[h.at.id].scheduler = "cluster"
    /\ h.pc \in {"submit", "bind"} =>
         h.at.attempt # 0 /\ h.at.attempt = job[h.at.id].attempt
    /\ h.pc \in {"rotate", "observe"} => h.at.binding # 0
    /\ h.pc \in {"markFailed", "retry", "requeue"} => h.at.status = "failed"
ControlInv == SoundController(controller)

KnowledgeInv == RowsInv /\ CallsInv /\ ControlInv
Launching == {"attempt", "submit", "bind", "refused", "block", "rescue", "fail"}
Watched(j) ==
    job[j].status \in Following /\ job[j].scheduler = "cluster" /\ j \notin orphaned
    => \/ job[j].binding = job[j].attempt /\ job[j].attempt # 0
       \/ Held(j) /\ controller.pc \in Launching
WatchedInv == \A j \in Jobs : Watched(j)

-----------------------------------------------------------------------------
(* How rows may change: a new version, or nothing that a kept row speaks of.       *)

Advances(old, new) ==
    \/ /\ new.version = old.version /\ new.scheduler = old.scheduler
       /\ new.status = old.status /\ new.binding = old.binding
    \/ new.version = old.version + 1 /\ new.scheduler = old.scheduler
    \/ old.version = 0
RowsAdvance ==
    \A j \in Jobs : /\ Advances(job[j], job'[j])
                    /\ Len(attempts[j]) <= Len(attempts'[j])
RowsStep == RowsInv' /\ RowsAdvance

(* The state machine, as far as the proofs need it.                                *)
LEMMA AllowedFacts ==
    \A s \in Status :
        /\ Allowed[s] \subseteq Status \ {"validating"}
        /\ "queued" \in Allowed[s] => s \in {"validating", "failed", "cancelled"}
        /\ \A t \in Following \cap Allowed[s] :
              IF t = "provisioning" THEN s = "queued" ELSE s \in Following
BY DEF Allowed, Status, Following, Terminal

(* A row that agrees is the row of a stored job.                                   *)
LEMMA AgreedIsStored ==
    ASSUME RowsInv, NEW r, Agrees(r)
    PROVE  /\ r.id \in Jobs /\ r.status \in Status
           /\ job[r.id] \in RowTypes /\ job[r.id].status \in Status
           /\ job[r.id].version \in Nat \ {0}
           /\ job[r.id].scheduler = r.scheduler
           /\ Len(attempts[r.id]) \in Nat
           /\ r.attempt \in 0 .. Len(attempts[r.id]) /\ r.binding \in 0 .. Len(attempts[r.id])
           /\ r.version = job[r.id].version =>
                 r.status = job[r.id].status /\ r.binding = job[r.id].binding
<1>1. r \in FullRows /\ AgreesWith(r, job[r.id], Len(attempts[r.id]))
  BY DEF Agrees
<1>2. r.id \in Jobs /\ r.status \in Status /\ {r.version, r.attempt, r.binding} \subseteq Nat
  BY <1>1 DEF FullRows
<1>3. /\ job[r.id] \in RowTypes /\ RowInv(r.id) /\ attempts[r.id] \in Seq(Status)
  BY <1>2 DEF RowsInv
<1>4. job[r.id].status \in Status \cup {"absent"} /\ job[r.id].version \in Nat
  BY <1>3 DEF RowTypes
<1>5. Len(attempts[r.id]) \in Nat
  BY <1>3
<1>6. job[r.id].status # "absent"
  <2> SUFFICES ASSUME job[r.id].status = "absent" PROVE FALSE
    OBVIOUS
  <2>1. job[r.id].version = 0
    BY <1>3 DEF RowInv, NoRow
  <2>2. r.status = "absent"
    BY <2>1, <1>1, <1>2 DEF AgreesWith
  <2> QED
    BY <2>2, <1>2 DEF Status, Following, Terminal
<1> QED
  BY <1>1, <1>2, <1>3, <1>4, <1>5, <1>6 DEF AgreesWith, RowInv

(* What agreed before an advance agrees after it.                                  *)
LEMMA AgreesStays ==
    ASSUME RowsInv, RowsInv', RowsAdvance
    PROVE  \A r \in FullRows :
              AgreesWith(r, job[r.id], Len(attempts[r.id]))
              => AgreesWith(r, job'[r.id], Len(attempts'[r.id]))
<1> SUFFICES ASSUME NEW r \in FullRows, AgreesWith(r, job[r.id], Len(attempts[r.id]))
             PROVE  AgreesWith(r, job'[r.id], Len(attempts'[r.id]))
  OBVIOUS
<1>1. job[r.id].version \in Nat \ {0} /\ r.id \in Jobs /\ Len(attempts[r.id]) \in Nat
  BY AgreedIsStored DEF Agrees
<1>2. {r.version, r.attempt, r.binding} \subseteq Nat
  BY DEF FullRows
<1>3. Advances(job[r.id], job'[r.id]) /\ Len(attempts[r.id]) <= Len(attempts'[r.id])
  BY <1>1 DEF RowsAdvance
<1>4. Len(attempts'[r.id]) \in Nat
  BY <1>1 DEF RowsInv
<1> QED
  BY <1>1, <1>2, <1>3, <1>4 DEF AgreesWith, Advances

-----------------------------------------------------------------------------
(* What each way of writing the rows does to them.                                 *)

Histories == requeued' \in [Jobs -> Nat] /\ orphaned' \subseteq Jobs

(* Nothing but the state of workloads changes.                                     *)
LEMMA RowsKept ==
    ASSUME RowsInv, Histories, UNCHANGED <<job, attempts>>,
           workload' \in [Jobs -> Seq(WorkStates)],
           \A j \in Jobs : Len(workload'[j]) = Len(workload[j])
    PROVE  RowsStep
<1>1. RowsInv'
  BY DEF RowsInv, RowInv, Histories
<1>2. RowsAdvance
  BY DEF RowsAdvance, Advances, RowsInv
<1> QED
  BY <1>1, <1>2 DEF RowsStep

(* The status of an attempt is written.                                            *)
LEMMA RowsMarked ==
    ASSUME RowsInv, Histories, UNCHANGED job, NEW j \in Jobs, NEW a \in Nat, NEW s \in Status,
           a <= Len(attempts[j]), Mark(j, a, s),
           workload' \in [Jobs -> Seq(WorkStates)],
           \A i \in Jobs : Len(workload'[i]) = Len(workload[i])
    PROVE  RowsStep
<1>1. attempts[j] \in Seq(Status)
  BY DEF RowsInv
<1>2. attempts' \in [Jobs -> Seq(Status)] /\ \A i \in Jobs : Len(attempts'[i]) = Len(attempts[i])
  <2>1. CASE a = 0
    BY <2>1 DEF Mark, RowsInv
  <2>2. CASE a # 0
    <3>1. attempts' = [attempts EXCEPT ![j] = [attempts[j] EXCEPT ![a] = s]]
      BY <2>2 DEF Mark
    <3>2. [attempts[j] EXCEPT ![a] = s] \in Seq(Status)
          /\ Len([attempts[j] EXCEPT ![a] = s]) = Len(attempts[j])
      BY <1>1, <2>2
    <3> QED
      BY <3>1, <3>2 DEF RowsInv
  <2> QED
    BY <2>1, <2>2
<1>3. RowsInv'
  BY <1>2 DEF RowsInv, RowInv, Histories
<1>4. RowsAdvance
  BY <1>2 DEF RowsAdvance, Advances, RowsInv
<1> QED
  BY <1>3, <1>4 DEF RowsStep

(* A row is written anew, with the next version, over one that agrees.             *)
LEMMA RowsWritten ==
    ASSUME RowsInv, Histories, UNCHANGED <<attempts, workload>>,
           NEW r, Agrees(r), NEW new \in RowTypes, new.status \in Status,
           new.version = job[r.id].version + 1, new.scheduler = job[r.id].scheduler,
           new.attempt = job[r.id].attempt, new.binding <= Len(attempts[r.id]),
           job' = [job EXCEPT ![r.id] = new]
    PROVE  RowsStep /\ job'[r.id] = new /\ \A j \in Jobs \ {r.id} : job'[j] = job[j]
<1>1. r.id \in Jobs /\ job[r.id].version \in Nat \ {0}
  BY AgreedIsStored
<1>2. job' \in [Jobs -> RowTypes] /\ job'[r.id] = new /\ \A j \in Jobs \ {r.id} : job'[j] = job[j]
  BY <1>1 DEF RowsInv
<1>3. RowInv(r.id)'
  BY <1>1, <1>2 DEF RowsInv, RowInv, Status, Following, Terminal
<1>4. \A j \in Jobs \ {r.id} : RowInv(j)'
  BY <1>2 DEF RowsInv, RowInv
<1>5. RowsInv'
  BY <1>2, <1>3, <1>4 DEF RowsInv, Histories
<1>6. RowsAdvance
  BY <1>1, <1>2 DEF RowsAdvance, Advances, RowsInv
<1> QED
  BY <1>2, <1>5, <1>6 DEF RowsStep

(* The fields of a row that has moved, and of one that was bound.                  *)
LEMMA MovedFacts ==
    ASSUME NEW row \in RowTypes, NEW t \in Status
    PROVE  LET new == [row EXCEPT !.status = t, !.version = @ + 1] IN
           /\ new \in RowTypes
           /\ new.status = t /\ new.version = row.version + 1
           /\ new.scheduler = row.scheduler /\ new.attempt = row.attempt
           /\ new.binding = row.binding /\ new.noted = row.noted
<1> DEFINE v == row.version + 1
<1>1. v \in Nat
  BY DEF RowTypes
<1> HIDE DEF v
<1>2. LET new == [row EXCEPT !.status = t, !.version = v] IN
      /\ new \in RowTypes
      /\ new.status = t /\ new.version = v
      /\ new.scheduler = row.scheduler /\ new.attempt = row.attempt
      /\ new.binding = row.binding /\ new.noted = row.noted
  BY <1>1 DEF RowTypes
<1> QED
  BY <1>2 DEF v

LEMMA BoundFacts ==
    ASSUME NEW row \in RowTypes, NEW a \in Nat, NEW n \in BOOLEAN
    PROVE  LET new == [row EXCEPT !.binding = a, !.noted = n, !.version = @ + 1] IN
           /\ new \in RowTypes
           /\ new.status = row.status /\ new.version = row.version + 1
           /\ new.scheduler = row.scheduler /\ new.attempt = row.attempt
           /\ new.binding = a /\ new.noted = n
<1> DEFINE v == row.version + 1
<1>1. v \in Nat
  BY DEF RowTypes
<1> HIDE DEF v
<1>2. LET new == [row EXCEPT !.binding = a, !.noted = n, !.version = v] IN
      /\ new \in RowTypes
      /\ new.status = row.status /\ new.version = v
      /\ new.scheduler = row.scheduler /\ new.attempt = row.attempt
      /\ new.binding = a /\ new.noted = n
  BY <1>1 DEF RowTypes
<1> QED
  BY <1>2 DEF v

LEMMA NotedFacts ==
    ASSUME NEW row \in RowTypes
    PROVE  LET new == [row EXCEPT !.noted = TRUE, !.version = @ + 1] IN
           /\ new \in RowTypes
           /\ new.status = row.status /\ new.version = row.version + 1
           /\ new.scheduler = row.scheduler /\ new.attempt = row.attempt
           /\ new.binding = row.binding
<1> DEFINE v == row.version + 1
<1>1. v \in Nat
  BY DEF RowTypes
<1> HIDE DEF v
<1>2. LET new == [row EXCEPT !.noted = TRUE, !.version = v] IN
      /\ new \in RowTypes
      /\ new.status = row.status /\ new.version = v
      /\ new.scheduler = row.scheduler /\ new.attempt = row.attempt
      /\ new.binding = row.binding
  BY <1>1 DEF RowTypes
<1> QED
  BY <1>2 DEF v

(* A row just written is one that agrees, for whoever keeps it.                    *)
LEMMA FreshAgrees ==
    ASSUME RowsInv', NEW j \in Jobs, job'[j].status \in Status
    PROVE  Agrees(Seen(j, job[j]))'
<1>1. /\ job'[j] \in RowTypes
      /\ job'[j].attempt <= Len(attempts'[j]) /\ job'[j].binding <= Len(attempts'[j])
  BY DEF RowsInv, RowInv
<1>2. Seen(j, job'[j]) \in FullRows
  BY <1>1 DEF Seen, FullRows, RowTypes
<1>3. AgreesWith(Seen(j, job'[j]), job'[j], Len(attempts'[j]))
  BY <1>1 DEF AgreesWith, Seen, RowTypes
<1> QED
  BY <1>2, <1>3 DEF Agrees, Seen

(* transition_job.                                                                 *)
MovedTo(r, t) ==
    /\ RowsStep
    /\ r.status = job[r.id].status /\ t \in Allowed[job[r.id].status] /\ t \in Status
    /\ job'[r.id] = Moved(r.id, t)
    /\ job'[r.id].status = t /\ job'[r.id].binding = job[r.id].binding
    /\ job'[r.id].attempt = job[r.id].attempt
    /\ job'[r.id].scheduler = job[r.id].scheduler
    /\ job'[r.id].version # job[r.id].version
    /\ Agrees(Seen(r.id, job[r.id]))'
    /\ \A j \in Jobs \ {r.id} : job'[j] = job[j]

LEMMA RowsMoved ==
    ASSUME RowsInv, Histories, UNCHANGED <<attempts, workload>>,
           NEW r, Agrees(r), NEW t, MayMove(r, t),
           job' = [job EXCEPT ![r.id] = Moved(r.id, t)]
    PROVE  MovedTo(r, t)
<1>1. /\ r.id \in Jobs /\ job[r.id] \in RowTypes /\ job[r.id].status \in Status
      /\ r.status = job[r.id].status
  BY AgreedIsStored DEF MayMove
<1>2. t \in Allowed[job[r.id].status] /\ t \in Status
  BY <1>1, AllowedFacts DEF MayMove
<1>3. /\ Moved(r.id, t) \in RowTypes
      /\ Moved(r.id, t).status = t
      /\ Moved(r.id, t).version = job[r.id].version + 1
      /\ Moved(r.id, t).scheduler = job[r.id].scheduler
      /\ Moved(r.id, t).attempt = job[r.id].attempt
      /\ Moved(r.id, t).binding = job[r.id].binding
  BY <1>1, <1>2, MovedFacts DEF Moved
<1>4. job[r.id].binding <= Len(attempts[r.id])
  BY <1>1 DEF RowsInv, RowInv
<1>5. RowsStep /\ job'[r.id] = Moved(r.id, t) /\ \A j \in Jobs \ {r.id} : job'[j] = job[j]
  BY <1>1, <1>2, <1>3, <1>4, RowsWritten, ZenonT(40)
<1>6. Agrees(Seen(r.id, job[r.id]))'
  BY <1>1, <1>2, <1>3, <1>5, FreshAgrees DEF RowsStep
<1>7. job'[r.id].version # job[r.id].version
  BY <1>1, <1>3, <1>5 DEF RowTypes
<1> QED
  BY <1>1, <1>2, <1>3, <1>5, <1>6, <1>7 DEF MovedTo

(* update_binding, by the controller's submission or rotation, and by a retry.     *)
BoundTo(r, a) ==
    /\ RowsStep
    /\ r.status = job[r.id].status /\ job'[r.id].status = job[r.id].status
    /\ job'[r.id] = Bound(r.id, a)
    /\ job'[r.id].binding = a /\ job'[r.id].attempt = job[r.id].attempt
    /\ job'[r.id].scheduler = job[r.id].scheduler
    /\ job'[r.id].version # job[r.id].version
    /\ Agrees(Seen(r.id, job[r.id]))'
    /\ \A j \in Jobs \ {r.id} : job'[j] = job[j]

LEMMA RowsBound ==
    ASSUME RowsInv, Histories, UNCHANGED <<attempts, workload>>,
           NEW r, Agrees(r), NEW a \in Nat, a <= Len(attempts[r.id]), MayBind(r),
           job' = [job EXCEPT ![r.id] = Bound(r.id, a)]
    PROVE  BoundTo(r, a)
<1>1. /\ r.id \in Jobs /\ job[r.id] \in RowTypes /\ job[r.id].status \in Status
      /\ r.status = job[r.id].status /\ job[r.id].version \in Nat
  BY AgreedIsStored DEF MayBind
<1>2. /\ Bound(r.id, a) \in RowTypes /\ Bound(r.id, a).status = job[r.id].status
      /\ Bound(r.id, a).version = job[r.id].version + 1
      /\ Bound(r.id, a).scheduler = job[r.id].scheduler
      /\ Bound(r.id, a).attempt = job[r.id].attempt /\ Bound(r.id, a).binding = a
  BY <1>1, BoundFacts, ZenonT(40) DEF Bound
<1>3. /\ RowsStep /\ job'[r.id] = Bound(r.id, a)
      /\ \A j \in Jobs \ {r.id} : job'[j] = job[j]
  BY <1>1, <1>2, RowsWritten
<1>4. Agrees(Seen(r.id, job[r.id]))'
  BY <1>1, <1>2, <1>3, FreshAgrees DEF RowsStep
<1> QED
  BY <1>1, <1>2, <1>3, <1>4 DEF BoundTo

NotedTo(r) ==
    /\ RowsStep
    /\ r.status = job[r.id].status /\ job'[r.id].status = job[r.id].status
    /\ job'[r.id] = Noted(r.id)
    /\ job'[r.id].binding = job[r.id].binding /\ job'[r.id].attempt = job[r.id].attempt
    /\ job'[r.id].scheduler = job[r.id].scheduler
    /\ job'[r.id].version # job[r.id].version
    /\ Agrees(Seen(r.id, job[r.id]))'
    /\ \A j \in Jobs \ {r.id} : job'[j] = job[j]

LEMMA RowsNoted ==
    ASSUME RowsInv, Histories, UNCHANGED <<attempts, workload>>,
           NEW r, Agrees(r), MayBind(r), job' = [job EXCEPT ![r.id] = Noted(r.id)]
    PROVE  NotedTo(r)
<1>1. /\ r.id \in Jobs /\ job[r.id] \in RowTypes /\ job[r.id].status \in Status
      /\ r.status = job[r.id].status /\ job[r.id].version \in Nat
  BY AgreedIsStored DEF MayBind
<1>2. /\ Noted(r.id) \in RowTypes /\ Noted(r.id).status = job[r.id].status
      /\ Noted(r.id).version = job[r.id].version + 1
      /\ Noted(r.id).scheduler = job[r.id].scheduler
      /\ Noted(r.id).attempt = job[r.id].attempt /\ Noted(r.id).binding = job[r.id].binding
  BY <1>1, NotedFacts DEF Noted
<1>3. job[r.id].binding <= Len(attempts[r.id])
  BY <1>1 DEF RowsInv, RowInv
<1>4. /\ RowsStep /\ job'[r.id] = Noted(r.id)
      /\ \A j \in Jobs \ {r.id} : job'[j] = job[j]
  BY <1>1, <1>2, <1>3, RowsWritten
<1>5. Agrees(Seen(r.id, job[r.id]))'
  BY <1>1, <1>2, <1>4, FreshAgrees DEF RowsStep
<1> QED
  BY <1>1, <1>2, <1>4, <1>5 DEF NotedTo

(* create_attempt.                                                                 *)
TriedTo(r) ==
    /\ RowsStep
    /\ Len(attempts'[r.id]) = Len(attempts[r.id]) + 1
    /\ \A j \in Jobs \ {r.id} : job'[j] = job[j]
    /\ job'[r.id].status = job[r.id].status
    /\ job'[r.id].binding = job[r.id].binding
    /\ job'[r.id].scheduler = job[r.id].scheduler
    /\ job'[r.id].version = job[r.id].version
    /\ job'[r.id].attempt = Len(attempts[r.id]) + 1

LEMMA RowsTried ==
    ASSUME RowsInv, Histories, NEW r, Agrees(r), NewAttempt(r.id),
           workload' = [workload EXCEPT ![r.id] = Append(@, "none")]
    PROVE  TriedTo(r)
<1> DEFINE n == Len(attempts[r.id]) + 1
<1>1. /\ r.id \in Jobs /\ job[r.id] \in RowTypes /\ job[r.id].status \in Status
      /\ job[r.id].version \in Nat \ {0}
  BY AgreedIsStored
<1>2. /\ attempts[r.id] \in Seq(Status) /\ workload[r.id] \in Seq(WorkStates) /\ RowInv(r.id)
      /\ n \in Nat
  BY <1>1 DEF RowsInv
<1>3. /\ Append(attempts[r.id], "provisioning") \in Seq(Status)
      /\ Len(Append(attempts[r.id], "provisioning")) = n
      /\ Append(workload[r.id], "none") \in Seq(WorkStates)
      /\ Len(Append(workload[r.id], "none")) = Len(workload[r.id]) + 1
  BY <1>2 DEF Status, Following, WorkStates
<1>4. /\ attempts' = [attempts EXCEPT ![r.id] = Append(attempts[r.id], "provisioning")]
      /\ job' = [job EXCEPT ![r.id] = [job[r.id] EXCEPT !.attempt = n]]
  BY DEF NewAttempt
<1> HIDE DEF n
<1>5. [job[r.id] EXCEPT !.attempt = n] \in RowTypes
  BY <1>1, <1>2 DEF RowTypes
<1>6. /\ job' \in [Jobs -> RowTypes] /\ attempts' \in [Jobs -> Seq(Status)]
      /\ workload' \in [Jobs -> Seq(WorkStates)]
  BY <1>1, <1>3, <1>4, <1>5 DEF RowsInv
<1>7. /\ \A j \in Jobs \ {r.id} : /\ job'[j] = job[j] /\ attempts'[j] = attempts[j]
                                  /\ workload'[j] = workload[j]
      /\ Len(attempts'[r.id]) = n /\ Len(workload'[r.id]) = Len(workload[r.id]) + 1
      /\ job'[r.id] = [job[r.id] EXCEPT !.attempt = n]
  BY <1>1, <1>3, <1>4 DEF RowsInv
<1>8. /\ job'[r.id].status = job[r.id].status /\ job'[r.id].binding = job[r.id].binding
      /\ job'[r.id].scheduler = job[r.id].scheduler
      /\ job'[r.id].version = job[r.id].version /\ job'[r.id].attempt = n
  BY <1>1, <1>7 DEF RowTypes
<1>9. RowInv(r.id)'
  BY <1>1, <1>2, <1>7, <1>8 DEF RowInv, n, RowTypes, Status, Following, Terminal
<1>10. \A j \in Jobs \ {r.id} : RowInv(j)'
  BY <1>7 DEF RowsInv, RowInv
<1>11. RowsInv'
  BY <1>6, <1>9, <1>10 DEF RowsInv, Histories
<1>12. RowsAdvance
  <2>1. Advances(job[r.id], job'[r.id]) /\ Len(attempts[r.id]) <= Len(attempts'[r.id])
    BY <1>2, <1>7, <1>8 DEF Advances, n
  <2>2. \A j \in Jobs \ {r.id} : Advances(job[j], job'[j]) /\ Len(attempts[j]) <= Len(attempts'[j])
    BY <1>7 DEF Advances, RowsInv
  <2> QED
    BY <2>1, <2>2 DEF RowsAdvance
<1> QED
  BY <1>7, <1>8, <1>11, <1>12 DEF RowsStep, n, TriedTo

(* store.create_job, of a key that no row has.                                     *)
LEMMA RowsInserted ==
    ASSUME RowsInv, Histories, UNCHANGED <<attempts, workload>>,
           NEW j \in Jobs, NEW s \in Schedulers, ~Stored(j),
           job' = [job EXCEPT ![j] = Row(s)]
    PROVE  /\ RowsStep /\ job'[j] = Row(s)
           /\ Agrees(Seen(j, Row(s)))' /\ Seen(j, Row(s)).status = "validating"
           /\ \A i \in Jobs \ {j} : job'[i] = job[i]
<1>1. /\ Row(s) \in RowTypes /\ Row(s).version = 1 /\ Row(s).status = "validating"
      /\ Row(s).attempt = 0 /\ Row(s).binding = 0
  BY DEF Row, NoRow, RowTypes, Status, Schedulers
<1>2. /\ job' \in [Jobs -> RowTypes] /\ job'[j] = Row(s) /\ \A i \in Jobs \ {j} : job'[i] = job[i]
  BY <1>1 DEF RowsInv
<1>3. RowInv(j)'
  BY <1>1, <1>2 DEF RowsInv, RowInv
<1>4. \A i \in Jobs \ {j} : RowInv(i)'
  BY <1>2 DEF RowsInv, RowInv
<1>5. RowsInv'
  BY <1>2, <1>3, <1>4 DEF RowsInv, Histories
<1>6. RowsAdvance
  BY <1>2 DEF RowsAdvance, Advances, RowsInv, Stored, NoRow
<1>7. Agrees(Seen(j, job[j]))'
  BY <1>1, <1>2, <1>5, FreshAgrees DEF Status
<1>8. Agrees(Seen(j, Row(s)))'
  BY <1>2, <1>7 DEF Agrees, Seen, Row, NoRow
<1> QED
  BY <1>1, <1>2, <1>5, <1>6, <1>8 DEF RowsStep, Seen

-----------------------------------------------------------------------------
(* What others know stays sound while the rows advance.                            *)

LEMMA CallsStay ==
    ASSUME RowsInv, RowsStep, NEW c \in Callers, SoundCall(call[c]), call'[c] = call[c]
    PROVE  SoundCall(call[c])'
<1>1. CASE call[c] = NoCall \/ Creating(call[c])
  BY <1>1 DEF SoundCall, Creating
<1>2. CASE Knows(call[c])
  <2>1. Agrees(call[c].seen)'
    BY <1>2, AgreesStays DEF Knows, Agrees, RowsStep
  <2>2. Len(attempts[call[c].seen.id]) <= Len(attempts'[call[c].seen.id])
    BY <1>2, AgreedIsStored DEF Knows, RowsStep, RowsAdvance
  <2>3. /\ Len(attempts[call[c].seen.id]) \in Nat /\ Len(attempts'[call[c].seen.id]) \in Nat
    BY <1>2, AgreedIsStored DEF Knows, RowsStep, RowsInv
  <2>4. call[c].event.attempt \in Nat /\ call[c].mark.attempt \in Nat
    BY DEF SoundCall, CallRecords
  <2>5. /\ call[c].event.attempt <= Len(attempts[call[c].seen.id]) =>
             call[c].event.attempt <= Len(attempts'[call[c].seen.id])
        /\ call[c].mark.attempt <= Len(attempts[call[c].seen.id]) =>
             call[c].mark.attempt <= Len(attempts'[call[c].seen.id])
    <3> DEFINE n == Len(attempts[call[c].seen.id])
               m == Len(attempts'[call[c].seen.id])
               a == call[c].event.attempt
               b == call[c].mark.attempt
    <3>1. n <= m /\ n \in Nat /\ m \in Nat /\ a \in Nat /\ b \in Nat
      BY <2>2, <2>3, <2>4
    <3> HIDE DEF n, m, a, b
    <3>2. (a <= n => a <= m) /\ (b <= n => b <= m)
      BY <3>1
    <3> QED
      BY <3>2 DEF n, m, a, b
  <2>6. Knows(call[c])'
    BY <1>2, <2>1, <2>5 DEF Knows
  <2> QED
    BY <2>6 DEF SoundCall
<1> QED
  BY <1>1, <1>2 DEF SoundCall

(* A step of one call leaves the others' knowledge sound.                          *)
LEMMA OneCallSteps ==
    ASSUME RowsInv, CallsInv, RowsStep, NEW c \in Callers, NEW k \in CallRecords,
           call' = [call EXCEPT ![c] = k], SoundCall(k)'
    PROVE  CallsInv'
<1>1. call' \in [Callers -> CallRecords] /\ call'[c] = k
  BY DEF CallsInv
<1>2. SoundCall(call[c])'
  BY <1>1
<1>3. ASSUME NEW d \in Callers \ {c} PROVE SoundCall(call[d])'
  BY CallsStay, call'[d] = call[d] DEF CallsInv
<1> QED
  BY <1>1, <1>2, <1>3 DEF CallsInv

LEMMA NoCallSteps ==
    ASSUME RowsInv, CallsInv, RowsStep, UNCHANGED call
    PROVE  CallsInv'
BY CallsStay DEF CallsInv

(* The controller holds its cluster job: only itself gives the job attempts.       *)
LEMMA ControlStays ==
    ASSUME RowsInv, ControlInv, RowsStep, UNCHANGED controller,
           \A j \in Jobs : job[j].scheduler = "cluster" /\ Stored(j)
                           => job'[j].attempt = job[j].attempt
    PROVE  ControlInv'
<1>1. /\ SoundController(controller) /\ controller \in ControllerRecords
  BY DEF ControlInv, SoundController
<1>2. \A r \in FullRows : Agrees(r) => Agrees(r)'
  BY AgreesStays DEF Agrees, RowsStep
<1>3. \A r \in controller.todo : Agrees(r)' /\ r.scheduler = "cluster"
  BY <1>1, <1>2 DEF SoundController, ControllerRecords
<1>4. controller.pc \in Holding => Agrees(controller.at)' /\ controller.at.scheduler = "cluster"
  BY <1>1, AgreesStays DEF Agrees, SoundController, RowsStep
<1>5. ASSUME controller.pc \in Naming
      PROVE  /\ job'[controller.at.id].status # "absent"
             /\ job'[controller.at.id].scheduler = "cluster"
  <2>1. /\ controller.at.id \in Jobs /\ job[controller.at.id].status # "absent"
        /\ job[controller.at.id].scheduler = "cluster" /\ job[controller.at.id] \in RowTypes
    BY <1>1, <1>5 DEF SoundController, RowsInv
  <2>2. job[controller.at.id].version \in Nat \ {0}
    BY <2>1 DEF RowsInv, RowInv, RowTypes
  <2>3. /\ Advances(job[controller.at.id], job'[controller.at.id])
        /\ job'[controller.at.id].version \in Nat /\ RowInv(controller.at.id)'
    BY <2>1 DEF RowsStep, RowsAdvance, RowsInv, RowTypes
  <2> QED
    BY <2>1, <2>2, <2>3 DEF Advances, RowInv, NoRow
<1>6. controller.pc \in {"submit", "bind"} =>
        controller.at.attempt # 0 /\ controller.at.attempt = job'[controller.at.id].attempt
  <2> SUFFICES ASSUME controller.pc \in {"submit", "bind"}
               PROVE  controller.at.attempt # 0
                      /\ controller.at.attempt = job'[controller.at.id].attempt
    OBVIOUS
  <2>1. Agrees(controller.at) /\ controller.at.scheduler = "cluster"
    BY <1>1 DEF SoundController, Holding
  <2>2. /\ job[controller.at.id].scheduler = "cluster" /\ controller.at.id \in Jobs
        /\ job[controller.at.id].status \in Status
    BY <2>1, AgreedIsStored
  <2>3. Stored(controller.at.id)
    BY <2>2 DEF Stored, NoRow, Status, Following, Terminal
  <2> QED
    BY <1>1, <2>2, <2>3 DEF SoundController
<1> QED
  BY <1>1, <1>3, <1>4, <1>5, <1>6 DEF ControlInv, SoundController

-----------------------------------------------------------------------------
(* Gateway calls.                                                                  *)

LEMMA GoOnFacts ==
    ASSUME call \in [Callers -> CallRecords], NEW c \in Callers, NEW p \in Pcs,
           NEW row \in FullRows, GoOn(c, p, row)
    PROVE  \E new \in CallRecords :
              /\ call' = [call EXCEPT ![c] = new] /\ call'[c] = new
              /\ new.op = call[c].op /\ new.pc = p /\ new.seen = row
              /\ new.event = call[c].event /\ new.mark = call[c].mark
<1> DEFINE new == [call[c] EXCEPT !.pc = p, !.seen = row]
<1>1. call' = [call EXCEPT ![c] = new] /\ call[c] \in CallRecords
  BY DEF GoOn, Become
<1>2. /\ new \in CallRecords /\ new.op = call[c].op /\ new.pc = p /\ new.seen = row
      /\ new.event = call[c].event /\ new.mark = call[c].mark
  BY <1>1 DEF CallRecords
<1> QED
  BY <1>1, <1>2

LEMMA MarkNextFacts ==
    ASSUME call \in [Callers -> CallRecords], NEW c \in Callers, NEW a \in Nat,
           NEW s \in Status, MarkNext(c, a, s)
    PROVE  \E new \in CallRecords :
              /\ call' = [call EXCEPT ![c] = new] /\ call'[c] = new
              /\ new.op = call[c].op /\ new.pc = "mark" /\ new.seen = call[c].seen
              /\ new.event = call[c].event
              /\ new.mark.attempt = a /\ new.mark.status = s
<1> DEFINE m == [attempt |-> a, status |-> s]
           new == [call[c] EXCEPT !.pc = "mark", !.mark = m]
<1>1. call' = [call EXCEPT ![c] = new] /\ call[c] \in CallRecords
  BY DEF MarkNext, Become
<1>2. m \in [attempt : Nat, status : Status \cup {"none"}] /\ m.attempt = a /\ m.status = s
  OBVIOUS
<1> HIDE DEF m
<1>3. /\ new \in CallRecords /\ new.op = call[c].op /\ new.pc = "mark"
      /\ new.seen = call[c].seen
      /\ new.event = call[c].event /\ new.mark = m
  BY <1>1, <1>2 DEF CallRecords, Pcs
<1> QED
  BY <1>1, <1>2, <1>3

Begun(o, p, row, e) == [NoCall EXCEPT !.op = o, !.pc = p, !.seen = row, !.event = e]

LEMMA BeginFacts ==
    ASSUME NEW o \in Ops, NEW p \in Pcs, NEW row \in FullRows,
           NEW e \in [attempt : Nat, kind : Kinds \cup {"none"}]
    PROVE  LET new == Begun(o, p, row, e) IN
           /\ new \in CallRecords /\ new.op = o /\ new.pc = p /\ new.seen = row
           /\ new.event = e
<1>1. NoCall \in CallRecords
  BY DEF NoCall, NoEvent, CallRecords, Ops, Pcs
<1> HIDE DEF NoCall
<1> QED
  BY <1>1 DEF CallRecords, Begun

LEMMA NoCallFacts ==
    /\ NoCall \in CallRecords /\ NoCall.pc = "idle" /\ SoundCall(NoCall) /\ SoundCall(NoCall)'
BY DEF NoCall, NoEvent, CallRecords, Ops, Pcs, SoundCall

(* What the step of a call c may do to the row of j.                               *)
CallEffect(c, j) ==
    \/ job'[j] = job[j]
    \/ /\ ~Stored(j) /\ job'[j].status = "validating"
    \/ /\ call[c].seen.id = j /\ job[j].status \in Status
       /\ job'[j].scheduler = job[j].scheduler /\ job'[j].binding = job[j].binding
       /\ \/ job'[j].version = job[j].version
          \/ call'[c] # call[c] /\ call[c].seen.version = job[j].version
       /\ job[j].scheduler = "cluster" =>
            /\ job'[j].attempt = job[j].attempt
            /\ job'[j].status \in Following => job[j].status \in Following
       /\ job[j].status \in Terminal /\ job'[j].status = "queued" =>
            j \in Released /\ Resumes(j)
CallOutcome(c) ==
    RowsStep /\ CallsInv' /\ UNCHANGED <<controller, orphaned>>
    /\ \A j \in Jobs : CallEffect(c, j)

LEMMA BeginSteps ==
    ASSUME KnowledgeInv, NEW c \in Callers, NEW o \in Ops, NEW p \in Pcs, NEW row \in FullRows,
           NEW e \in [attempt : Nat, kind : Kinds \cup {"none"}],
           Begin(c, o, p, row, e),
           \A k \in CallRecords : k.op = o /\ k.pc = p /\ k.seen = row /\ k.event = e
                                  => Creating(k) \/ Knows(k)'
    PROVE  CallOutcome(c)
<1> DEFINE new == Begun(o, p, row, e)
<1>1. new \in CallRecords /\ (Creating(new) \/ Knows(new)')
  <2>1. new \in CallRecords /\ new.op = o /\ new.pc = p /\ new.seen = row /\ new.event = e
    BY BeginFacts
  <2> HIDE DEF new
  <2> QED
    BY <2>1
<1>2. /\ call' = [call EXCEPT ![c] = new]
      /\ UNCHANGED <<job, attempts, workload, controller, requeued, orphaned>>
  BY DEF Begin, Become, rows, Begun
<1> HIDE DEF new
<1>3. RowsStep
  BY <1>2, RowsKept DEF KnowledgeInv, RowsInv, Histories
<1>4. SoundCall(new)'
  BY <1>1 DEF SoundCall, Creating
<1>5. CallsInv'
  BY <1>1, <1>2, <1>3, <1>4, OneCallSteps DEF KnowledgeInv
<1> QED
  BY <1>2, <1>3, <1>5 DEF CallOutcome, CallEffect

LEMMA StoredAgrees ==
    ASSUME RowsInv, NEW j \in Jobs, Stored(j)
    PROVE  /\ job[j].status \in Status /\ job[j].scheduler \in Schedulers
           /\ Agrees(Seen(j, job[j])) /\ Seen(j, job[j]).id = j
           /\ Seen(j, job[j]).scheduler = job[j].scheduler
           /\ Seen(j, job[j]).status = job[j].status
           /\ Seen(j, job[j]).binding = job[j].binding
<1>1. /\ job[j] \in RowTypes /\ job[j].status # "absent"
      /\ job[j].attempt <= Len(attempts[j]) /\ job[j].binding <= Len(attempts[j])
  BY DEF RowsInv, RowInv, Stored
<1>2. Seen(j, job[j]) \in FullRows
  BY <1>1 DEF Seen, FullRows, RowTypes
<1>3. AgreesWith(Seen(j, job[j]), job[j], Len(attempts[j]))
  BY <1>1 DEF AgreesWith, Seen, RowTypes
<1> QED
  BY <1>1, <1>2, <1>3 DEF Agrees, Seen, RowTypes

LEMMA BegunSteps ==
    ASSUME KnowledgeInv, NEW c \in Callers, BeginCall(c)
    PROVE  CallOutcome(c)
<1>0. NoEvent \in [attempt : Nat, kind : Kinds \cup {"none"}]
  BY DEF NoEvent
<1> SUFFICES ASSUME NEW j \in Jobs,
                    \/ \E s \in Schedulers : BeginCreate(c, j, s)
                    \/ BeginCancel(c, j) \/ BeginResume(c, j) \/ BeginClaim(c, j)
                    \/ \E a \in DOMAIN workload[j], k \in Kinds : BeginIngest(c, j, a, k)
             PROVE  CallOutcome(c)
  BY DEF BeginCall
<1>1. ASSUME NEW s \in Schedulers, BeginCreate(c, j, s) PROVE CallOutcome(c)
  <2>1. Seen(j, Row(s)) \in FullRows
    BY DEF Seen, Row, NoRow, FullRows, Status
  <2>2. "create" \in Ops /\ "admit" \in Pcs
    BY DEF Ops, Pcs
  <2>3. Begin(c, "create", "admit", Seen(j, Row(s)), NoEvent)
    BY <1>1 DEF BeginCreate
  <2>4. ASSUME NEW k \in CallRecords, k.op = "create", k.pc = "admit", k.seen = Seen(j, Row(s))
        PROVE  Creating(k)
    BY <2>4 DEF Creating
  <2> QED
    BY <1>0, <2>1, <2>2, <2>3, <2>4, BeginSteps
<1>2. ASSUME Stored(j), NEW o \in {"cancel", "resume", "claim", "ingest"}, NEW p \in Pcs,
             NEW e \in [attempt : Nat, kind : Kinds \cup {"none"}],
             Begin(c, o, p, Seen(j, job[j]), e),
             \/ o = "cancel" /\ p = "cancel"
             \/ o = "resume" /\ p = "resume" /\ j \in Released
             \/ o = "claim" /\ p = "provision" /\ job[j].scheduler = "notebook"
             \/ o = "ingest" /\ p = "apply" /\ e.attempt <= Len(attempts[j])
      PROVE  CallOutcome(c)
  <2>1. UNCHANGED <<job, attempts>>
    BY <1>2 DEF Begin, rows
  <2>2. PICK r : r = Seen(j, job[j])
    OBVIOUS
  <2>3. r \in FullRows /\ Agrees(r) /\ r.id = j /\ r.scheduler = job[j].scheduler
    BY <1>2, <2>2, StoredAgrees DEF Agrees, KnowledgeInv
  <2>4. Agrees(r)'
    BY <2>1, <2>3 DEF Agrees
  <2>5. ASSUME NEW k \in CallRecords, k.op = o, k.pc = p, k.seen = r, k.event = e
        PROVE  Knows(k)'
    BY <1>2, <2>1, <2>3, <2>4, <2>5 DEF Knows
  <2>6. o \in Ops /\ Begin(c, o, p, r, e)
    BY <1>2, <2>2 DEF Ops
  <2> QED
    BY <2>3, <2>5, <2>6, BeginSteps
<1>3. CASE BeginCancel(c, j)
  BY <1>0, <1>2, <1>3 DEF BeginCancel, Active, Pcs
<1>4. CASE BeginResume(c, j)
  BY <1>0, <1>2, <1>4 DEF BeginResume, Stored, NoRow, Pcs
<1>5. CASE BeginClaim(c, j)
  BY <1>0, <1>2, <1>5 DEF BeginClaim, Stored, NoRow, Pcs
<1>6. ASSUME NEW a \in DOMAIN workload[j], NEW k \in Kinds, BeginIngest(c, j, a, k)
      PROVE  CallOutcome(c)
  <2>1. workload[j] \in Seq(WorkStates) /\ RowInv(j) /\ attempts[j] \in Seq(Status)
    BY DEF KnowledgeInv, RowsInv
  <2>2. a \in Nat \ {0} /\ a <= Len(attempts[j])
    BY <2>1 DEF RowInv
  <2>3. Stored(j)
    BY <2>1, <2>2 DEF RowInv, Stored, NoRow
  <2> QED
    BY <1>2, <1>6, <2>2, <2>3 DEF BeginIngest, Pcs
<1> QED
  BY <1>1, <1>3, <1>4, <1>5, <1>6

LEMMA CallEnds ==
    ASSUME RowsInv, CallsInv, RowsStep, NEW c \in Callers, call[c].pc # "idle", Finish(c)
    PROVE  CallsInv' /\ call'[c] # call[c]
<1>1. call' = [call EXCEPT ![c] = NoCall]
  BY DEF Finish, Become
<1>2. call'[c] = NoCall
  BY <1>1 DEF CallsInv
<1> QED
  BY <1>1, <1>2, NoCallFacts, OneCallSteps

(* A call that loses its race, or ends without a write of a row.                   *)
LEMMA CallGivesUp ==
    ASSUME KnowledgeInv, NEW c \in Callers, call[c].pc # "idle", Finish(c),
           UNCHANGED <<job, attempts, workload, controller, requeued, orphaned>>
    PROVE  CallOutcome(c)
<1>1. RowsStep
  BY RowsKept DEF KnowledgeInv, RowsInv, Histories
<1> QED
  BY <1>1, CallEnds DEF CallOutcome, CallEffect, KnowledgeInv

(* A call that moves the job it has seen.                                          *)
LEMMA CallMoves ==
    ASSUME KnowledgeInv, NEW c \in Callers, NEW r, r = call[c].seen, Agrees(r),
           NEW t, MayMove(r, t), job' = [job EXCEPT ![r.id] = Moved(r.id, t)],
           UNCHANGED <<attempts, workload, controller, orphaned>>,
           requeued' \in [Jobs -> Nat],
           t = "provisioning" => r.scheduler = "notebook",
           t = "queued" => r.status \notin Terminal \/ (r.id \in Released /\ Resumes(r.id)),
           call'[c] # call[c], RowsStep => CallsInv'
    PROVE  CallOutcome(c)
<1>0. Histories /\ UNCHANGED <<attempts, workload>> /\ RowsInv
  BY DEF Histories, KnowledgeInv, RowsInv
<1>1. /\ RowsStep
      /\ r.status = job[r.id].status /\ t \in Allowed[job[r.id].status] /\ t \in Status
      /\ job'[r.id].status = t /\ job'[r.id].binding = job[r.id].binding
      /\ job'[r.id].attempt = job[r.id].attempt
      /\ job'[r.id].scheduler = job[r.id].scheduler
      /\ \A j \in Jobs \ {r.id} : job'[j] = job[j]
  <2>1. MovedTo(r, t)
    BY <1>0, RowsMoved
  <2> QED
    BY <2>1 DEF MovedTo
<1>2. r.id \in Jobs /\ job[r.id].status \in Status /\ r.scheduler = job[r.id].scheduler
  BY AgreedIsStored DEF KnowledgeInv
<1>3. t \in Following /\ r.scheduler = "cluster" => job[r.id].status \in Following
  BY <1>1, <1>2, AllowedFacts
<1>4. CallEffect(c, r.id)
  BY <1>1, <1>2, <1>3 DEF CallEffect, MayMove
<1> QED
  BY <1>1, <1>4 DEF CallOutcome, CallEffect

LEMMA AdmitSteps ==
    ASSUME KnowledgeInv, NEW c \in Callers, Admit(c)
    PROVE  CallOutcome(c)
<1>1. /\ call[c] \in CallRecords /\ call[c].op = "create" /\ call[c].pc = "admit"
      /\ UNCHANGED <<job, attempts, workload, controller, requeued, orphaned>>
      /\ SoundCall(call[c])
  BY DEF Admit, At, KnowledgeInv, CallsInv, rows, past
<1>2. PICK j \in Jobs, s \in Schedulers : call[c].seen = Seen(j, Row(s))
  BY <1>1, NoCallFacts DEF SoundCall, Creating, Knows
<1>3. CASE Finish(c)
  BY <1>1, <1>3, CallGivesUp
<1>4. CASE GoOn(c, "insert", call[c].seen)
  <2>1. call[c].seen \in FullRows /\ "insert" \in Pcs
    BY <1>2 DEF Seen, Row, NoRow, FullRows, Status, Pcs
  <2>2. PICK new \in CallRecords :
           /\ call' = [call EXCEPT ![c] = new]
           /\ new.op = "create" /\ new.pc = "insert" /\ new.seen = Seen(j, Row(s))
    BY <1>1, <1>2, <1>4, <2>1, GoOnFacts DEF KnowledgeInv, CallsInv
  <2>4. SoundCall(new)'
    BY <2>2 DEF SoundCall, Creating
  <2>6. RowsStep
    BY <1>1, RowsKept DEF KnowledgeInv, RowsInv, Histories
  <2> QED
    BY <1>1, <2>2, <2>4, <2>6, OneCallSteps DEF KnowledgeInv, CallOutcome, CallEffect
<1> QED
  BY <1>3, <1>4 DEF Admit

LEMMA InsertSteps ==
    ASSUME KnowledgeInv, NEW c \in Callers, Insert(c)
    PROVE  CallOutcome(c)
<1>1. /\ call[c] \in CallRecords /\ call[c].op = "create" /\ call[c].pc = "insert"
      /\ UNCHANGED <<attempts, workload, controller, requeued, orphaned>>
      /\ SoundCall(call[c]) /\ RowsInv
  BY DEF Insert, At, KnowledgeInv, CallsInv, past
<1>2. PICK j \in Jobs, s \in Schedulers : call[c].seen = Seen(j, Row(s))
  BY <1>1, NoCallFacts DEF SoundCall, Creating, Knows
<1>3. call[c].seen.id = j /\ call[c].seen.scheduler = s
  BY <1>2 DEF Seen, Row, NoRow
<1>4. CASE Stored(j)
  BY <1>1, <1>3, <1>4, CallGivesUp DEF Insert
<1>5. CASE ~Stored(j)
  <2>1. job' = [job EXCEPT ![j] = Row(s)] /\ GoOn(c, "enqueue", call[c].seen)
    BY <1>3, <1>5 DEF Insert
  <2>2. Histories
    BY <1>1 DEF RowsInv, Histories
  <2>3. /\ RowsStep /\ job'[j] = Row(s)
        /\ Agrees(Seen(j, Row(s)))' /\ Seen(j, Row(s)).status = "validating"
        /\ \A i \in Jobs \ {j} : job'[i] = job[i]
    BY <1>1, <1>5, <2>1, <2>2, RowsInserted
  <2>4. call[c].seen \in FullRows /\ "enqueue" \in Pcs
    BY <1>2 DEF Seen, Row, NoRow, FullRows, Status, Pcs
  <2>5. PICK new \in CallRecords :
           /\ call' = [call EXCEPT ![c] = new]
           /\ new.op = "create" /\ new.pc = "enqueue" /\ new.seen = Seen(j, Row(s))
    BY <1>1, <1>2, <2>1, <2>4, GoOnFacts DEF KnowledgeInv, CallsInv
  <2>6. PICK r : r = Seen(j, Row(s))
    OBVIOUS
  <2>7. Agrees(r)'
    BY <2>3, <2>6 DEF Agrees, Seen, Row
  <2>8. SoundCall(new)'
    BY <2>3, <2>5, <2>6, <2>7 DEF SoundCall, Knows
  <2>9. CallsInv'
    BY <2>3, <2>5, <2>8, OneCallSteps DEF KnowledgeInv
  <2>10. job'[j].status = "validating"
    BY <2>3 DEF Row, NoRow
  <2> QED
    BY <1>1, <1>5, <2>3, <2>9, <2>10 DEF CallOutcome, CallEffect
<1> QED
  BY <1>4, <1>5

(* create_job and resume_job queue the row they have seen.                         *)
LEMMA QueueSteps ==
    ASSUME KnowledgeInv, NEW c \in Callers, Queue(c), Agrees(call[c].seen),
           \/ call[c].pc = "enqueue" /\ call[c].seen.status = "validating"
           \/ At(c, "resume", "resume") /\ call[c].seen.id \in Released
    PROVE  CallOutcome(c)
<1>1. PICK r : r = call[c].seen
  OBVIOUS
<1>2. /\ Agrees(r) /\ r.id \in Jobs /\ Finish(c) /\ call[c].pc # "idle"
      /\ UNCHANGED <<attempts, workload, controller, orphaned>>
  BY <1>1, AgreedIsStored DEF Queue, KnowledgeInv, At
<1>3. CASE MayMove(r, "queued")
  <2>1. /\ job' = [job EXCEPT ![r.id] = Moved(r.id, "queued")]
        /\ requeued' = [requeued EXCEPT ![r.id] =
                          @ + (IF r.status \in Terminal THEN 1 ELSE 0)]
    BY <1>1, <1>3 DEF Queue
  <2>2. requeued' \in [Jobs -> Nat]
    BY <2>1, <1>2 DEF KnowledgeInv, RowsInv
  <2>3. RowsStep => CallsInv' /\ call'[c] # call[c]
    BY <1>2, CallEnds DEF KnowledgeInv
  <2>4. call' = [call EXCEPT ![c] = NoCall] /\ call'[c] = NoCall /\ call'[c] # call[c]
    BY <1>2, NoCallFacts DEF Finish, Become, KnowledgeInv, CallsInv
  <2>5. r.status \notin Terminal \/ (r.id \in Released /\ Resumes(r.id))
    BY <1>1, <2>4 DEF Resumes, Terminal
  <2> QED
    BY <1>1, <1>2, <1>3, <2>1, <2>2, <2>3, <2>4, <2>5, CallMoves
<1>4. CASE ~MayMove(r, "queued")
  BY <1>1, <1>2, <1>4, CallGivesUp DEF Queue
<1> QED
  BY <1>3, <1>4

LEMMA EnqueueSteps ==
    ASSUME KnowledgeInv, NEW c \in Callers, Enqueue(c) \/ ResumeJob(c)
    PROVE  CallOutcome(c)
<1>1. SoundCall(call[c]) /\ call[c] # NoCall /\ ~Creating(call[c])
  BY NoCallFacts DEF Enqueue, ResumeJob, At, KnowledgeInv, CallsInv, Creating
<1>2. Knows(call[c])
  BY <1>1 DEF SoundCall
<1> QED
  BY <1>2, QueueSteps DEF Enqueue, ResumeJob, At, Knows

(* What a call knows, by the place it is at.                                       *)
LEMMA KnownAt ==
    ASSUME KnowledgeInv, NEW c \in Callers, call[c].pc \notin {"idle", "admit", "insert"}
    PROVE  /\ call[c] \in CallRecords /\ call \in [Callers -> CallRecords]
           /\ Knows(call[c]) /\ Agrees(call[c].seen)
           /\ call[c].seen.id \in Jobs /\ call[c].seen \in FullRows
           /\ call[c].seen.attempt \in 0 .. Len(attempts[call[c].seen.id])
           /\ Len(attempts[call[c].seen.id]) \in Nat
<1>1. SoundCall(call[c]) /\ call[c] # NoCall /\ call \in [Callers -> CallRecords]
  BY NoCallFacts DEF KnowledgeInv, CallsInv
<1>2. Knows(call[c]) /\ call[c] \in CallRecords
  BY <1>1 DEF SoundCall, Creating
<1>3. Agrees(call[c].seen)
  BY <1>2 DEF Knows
<1> QED
  BY <1>1, <1>2, <1>3, AgreedIsStored DEF KnowledgeInv, Agrees

(* A call that has moved its job goes on to mark an attempt.                       *)
LEMMA CallMovesAndMarks ==
    ASSUME KnowledgeInv, NEW c \in Callers, call[c].pc \notin {"idle", "admit", "insert", "mark"},
           call[c].op \in {"cancel", "claim", "ingest"},
           NEW t, MayMove(call[c].seen, t), t \in Status \ {"queued", "provisioning"},
           job' = [job EXCEPT ![call[c].seen.id] = Moved(call[c].seen.id, t)],
           UNCHANGED <<attempts, workload, controller, requeued, orphaned>>,
           NEW a \in Nat, a <= Len(attempts[call[c].seen.id]),
           call[c].op = "claim" => a # 0,
           MarkNext(c, a, t)
    PROVE  CallOutcome(c)
<1>1. PICK r : r = call[c].seen
  OBVIOUS
<1>2. /\ call[c] \in CallRecords /\ call \in [Callers -> CallRecords]
      /\ Agrees(r) /\ r.id \in Jobs /\ Len(attempts[r.id]) \in Nat
  BY <1>1, KnownAt
<1>3. PICK new \in CallRecords :
              /\ call' = [call EXCEPT ![c] = new] /\ call'[c] = new
              /\ new.op = call[c].op /\ new.pc = "mark" /\ new.seen = call[c].seen
              /\ new.mark.attempt = a /\ new.mark.status = t
  BY <1>2, MarkNextFacts
<1>4. ASSUME RowsStep PROVE CallsInv'
  <2>1. Agrees(r)'
    BY <1>2, <1>4, AgreesStays DEF Agrees, KnowledgeInv, RowsStep
  <2>2. SoundCall(new)'
    <3>1. call[c].op = "claim" => r.scheduler = "notebook"
      BY <1>1, KnownAt DEF Knows
    <3> QED
      BY <1>1, <1>3, <2>1, <3>1 DEF SoundCall, Knows
  <2> QED
    BY <1>3, <1>4, <2>2, OneCallSteps DEF KnowledgeInv
<1>5. requeued' \in [Jobs -> Nat]
  BY DEF KnowledgeInv, RowsInv
<1> QED
  BY <1>1, <1>2, <1>3, <1>4, <1>5, CallMoves

LEMMA CancelSteps ==
    ASSUME KnowledgeInv, NEW c \in Callers, CancelJob(c)
    PROVE  CallOutcome(c)
<1>1. /\ call[c].pc = "cancel" /\ call[c].op = "cancel"
      /\ UNCHANGED <<attempts, workload, controller, requeued, orphaned>>
  BY DEF CancelJob, At, past
<1>2. call[c].seen.attempt \in 0 .. Len(attempts[call[c].seen.id])
  BY <1>1, KnownAt
<1>3. CASE MayMove(call[c].seen, "cancelled")
  <2>1. /\ job' = [job EXCEPT ![call[c].seen.id] = Moved(call[c].seen.id, "cancelled")]
        /\ MarkNext(c, call[c].seen.attempt, "cancelled")
    BY <1>3 DEF CancelJob
  <2>2. "cancelled" \in Status \ {"queued", "provisioning"}
    BY DEF Status, Terminal
  <2>3. call[c].seen.attempt \in Nat /\ call[c].seen.attempt <= Len(attempts[call[c].seen.id])
    BY <1>2
  <2> QED
    BY <1>1, <1>3, <2>1, <2>2, <2>3, CallMovesAndMarks
<1>4. CASE ~MayMove(call[c].seen, "cancelled")
  BY <1>1, <1>4, CallGivesUp DEF CancelJob
<1> QED
  BY <1>3, <1>4

LEMMA ApplySteps ==
    ASSUME KnowledgeInv, NEW c \in Callers, ApplyEvent(c)
    PROVE  CallOutcome(c)
<1>1. /\ call[c].pc = "apply" /\ call[c].op = "ingest"
      /\ UNCHANGED <<attempts, workload, controller, requeued, orphaned>>
  BY DEF ApplyEvent, At, past
<1>2. call[c].event.attempt \in Nat /\ call[c].event.attempt <= Len(attempts[call[c].seen.id])
  BY <1>1, KnownAt DEF CallRecords, Knows
<1>3. ASSUME NEW t \in Wants(call[c].event.kind, call[c].seen.status), MayMove(call[c].seen, t),
             job' = [job EXCEPT ![call[c].seen.id] = Moved(call[c].seen.id, t)],
             MarkNext(c, call[c].event.attempt, t)
      PROVE  CallOutcome(c)
  <2>1. t \in Status \ {"queued", "provisioning"}
    BY <1>3 DEF Wants, Status, Terminal, Following
  <2> QED
    BY <1>1, <1>2, <1>3, <2>1, CallMovesAndMarks
<1>4. CASE Finish(c) /\ UNCHANGED job
  BY <1>1, <1>4, CallGivesUp
<1> QED
  BY <1>3, <1>4 DEF ApplyEvent

LEMMA ClaimRunSteps ==
    ASSUME KnowledgeInv, NEW c \in Callers, ClaimRun(c)
    PROVE  CallOutcome(c)
<1>1. /\ call[c].pc = "run" /\ call[c].op = "claim"
      /\ UNCHANGED <<attempts, workload, controller, requeued, orphaned>>
  BY DEF ClaimRun, At, past
<1>2. /\ call[c].seen.attempt \in Nat /\ call[c].seen.attempt <= Len(attempts[call[c].seen.id])
      /\ call[c].seen.attempt # 0
  BY <1>1, KnownAt DEF Knows
<1>3. CASE MayMove(call[c].seen, "running")
  <2>1. /\ job' = [job EXCEPT ![call[c].seen.id] = Moved(call[c].seen.id, "running")]
        /\ MarkNext(c, call[c].seen.attempt, "running")
    BY <1>3 DEF ClaimRun
  <2>2. "running" \in Status \ {"queued", "provisioning"}
    BY DEF Status, Following
  <2> QED
    BY <1>1, <1>2, <1>3, <2>1, <2>2, CallMovesAndMarks
<1>4. CASE ~MayMove(call[c].seen, "running")
  BY <1>1, <1>4, CallGivesUp DEF ClaimRun
<1> QED
  BY <1>3, <1>4

LEMMA ClaimProvisionSteps ==
    ASSUME KnowledgeInv, NEW c \in Callers, ClaimProvision(c)
    PROVE  CallOutcome(c)
<1>1. PICK r : r = call[c].seen
  OBVIOUS
<1>2. /\ call[c].pc = "provision" /\ call[c].op = "claim" /\ "attempt" \in Pcs
      /\ UNCHANGED <<attempts, workload, controller, requeued, orphaned>>
      /\ requeued' \in [Jobs -> Nat]
  BY DEF ClaimProvision, At, past, Pcs, KnowledgeInv, RowsInv
<1>3. /\ call \in [Callers -> CallRecords] /\ Agrees(r) /\ r.id \in Jobs /\ r.scheduler = "notebook"
  BY <1>1, <1>2, KnownAt DEF Knows
<1>4. CASE MayMove(r, "provisioning")
  <2>1. /\ job' = [job EXCEPT ![r.id] = Moved(r.id, "provisioning")]
        /\ GoOn(c, "attempt", Seen(r.id, Moved(r.id, "provisioning")))
    BY <1>1, <1>4 DEF ClaimProvision
  <2>2. MovedTo(r, "provisioning")
    BY <1>2, <1>3, <1>4, <2>1, RowsMoved DEF KnowledgeInv, Histories, RowsInv
  <2>3. PICK m : m = Seen(r.id, Moved(r.id, "provisioning"))
    OBVIOUS
  <2>4. Agrees(m)' /\ m \in FullRows /\ m.scheduler = "notebook"
    <3>1. m = Seen(r.id, job'[r.id])
      BY <2>2, <2>3 DEF MovedTo
    <3>2. Agrees(m)' /\ m \in FullRows
      BY <2>2, <3>1 DEF MovedTo, Agrees, Seen
    <3>3. m.scheduler = job[r.id].scheduler
      BY <2>2, <3>1 DEF MovedTo, Seen
    <3> QED
      BY <1>3, <3>2, <3>3, AgreedIsStored DEF KnowledgeInv
  <2>5. PICK new \in CallRecords :
              /\ call' = [call EXCEPT ![c] = new] /\ call'[c] = new
              /\ new.op = "claim" /\ new.pc = "attempt" /\ new.seen = m
    BY <1>2, <1>3, <2>1, <2>3, <2>4, GoOnFacts
  <2>6. SoundCall(new)'
    BY <2>4, <2>5 DEF SoundCall, Knows
  <2>7. RowsStep => CallsInv'
    BY <2>5, <2>6, OneCallSteps DEF KnowledgeInv
  <2>8. call'[c] # call[c]
    BY <1>2, <2>5
  <2> QED
    BY <1>1, <1>2, <1>3, <1>4, <2>1, <2>7, <2>8, CallMoves
<1>5. CASE ~MayMove(r, "provisioning")
  BY <1>1, <1>2, <1>5, CallGivesUp DEF ClaimProvision
<1> QED
  BY <1>4, <1>5

LEMMA ClaimAttemptSteps ==
    ASSUME KnowledgeInv, NEW c \in Callers, ClaimAttempt(c)
    PROVE  CallOutcome(c)
<1>1. PICK r : r = call[c].seen
  OBVIOUS
<1>2. /\ call[c].pc = "attempt" /\ call[c].op = "claim" /\ "run" \in Pcs
      /\ UNCHANGED <<controller, requeued, orphaned>>
      /\ NewAttempt(r.id) /\ workload' = [workload EXCEPT ![r.id] = Append(@, "none")]
      /\ GoOn(c, "run", [r EXCEPT !.attempt = Len(attempts[r.id]) + 1])
  BY <1>1 DEF ClaimAttempt, At, past, Pcs
<1>3. /\ call \in [Callers -> CallRecords] /\ Agrees(r) /\ r.id \in Jobs /\ r \in FullRows
      /\ r.scheduler = "notebook" /\ Len(attempts[r.id]) \in Nat
  BY <1>1, <1>2, KnownAt DEF Knows
<1>4. /\ RowsStep
      /\ Len(attempts'[r.id]) = Len(attempts[r.id]) + 1
      /\ \A j \in Jobs \ {r.id} : job'[j] = job[j]
      /\ job'[r.id].status = job[r.id].status
      /\ job'[r.id].binding = job[r.id].binding
      /\ job'[r.id].scheduler = job[r.id].scheduler
      /\ job'[r.id].version = job[r.id].version
  BY <1>2, <1>3, RowsTried DEF KnowledgeInv, Histories, RowsInv, TriedTo
<1>5. PICK m : m = [r EXCEPT !.attempt = Len(attempts[r.id]) + 1]
  OBVIOUS
<1>6. Agrees(m)' /\ m \in FullRows /\ m.scheduler = "notebook" /\ m.attempt # 0 /\ m.id = r.id
  <2>1. /\ m \in FullRows /\ m.scheduler = "notebook" /\ m.id = r.id
        /\ m.attempt = Len(attempts[r.id]) + 1
        /\ m.version = r.version /\ m.status = r.status /\ m.binding = r.binding
        /\ m.scheduler = r.scheduler
    <3> DEFINE n == Len(attempts[r.id]) + 1
    <3>1. n \in Nat /\ m = [r EXCEPT !.attempt = n]
      BY <1>3, <1>5
    <3> HIDE DEF n
    <3>2. /\ m \in FullRows /\ m.scheduler = r.scheduler /\ m.id = r.id /\ m.attempt = n
          /\ m.version = r.version /\ m.status = r.status /\ m.binding = r.binding
      BY <1>3, <3>1 DEF FullRows
    <3> QED
      BY <1>3, <3>2 DEF n
  <2>2. AgreesWith(r, job'[r.id], Len(attempts'[r.id]))
    BY <1>3, <1>4, AgreesStays DEF Agrees, KnowledgeInv, RowsStep
  <2>3. AgreesWith(m, job'[r.id], Len(attempts'[r.id]))
    BY <1>3, <1>4, <2>1, <2>2 DEF AgreesWith
  <2> QED
    BY <1>3, <2>1, <2>3 DEF Agrees
<1>7. PICK new \in CallRecords :
              /\ call' = [call EXCEPT ![c] = new] /\ call'[c] = new
              /\ new.op = "claim" /\ new.pc = "run" /\ new.seen = m
  BY <1>2, <1>3, <1>5, <1>6, GoOnFacts
<1>8. SoundCall(new)'
  BY <1>6, <1>7 DEF SoundCall, Knows
<1>9. CallsInv'
  BY <1>4, <1>7, <1>8, OneCallSteps DEF KnowledgeInv
<1>10. job[r.id].status \in Status /\ job[r.id].scheduler = "notebook"
  BY <1>3, AgreedIsStored DEF KnowledgeInv
<1>11. CallEffect(c, r.id)
  BY <1>1, <1>4, <1>10 DEF CallEffect, Terminal
<1> QED
  BY <1>2, <1>4, <1>9, <1>11 DEF CallOutcome, CallEffect

LEMMA MarkAttemptSteps ==
    ASSUME KnowledgeInv, NEW c \in Callers, MarkAttempt(c)
    PROVE  CallOutcome(c)
<1> DEFINE j == call[c].seen.id
           a == call[c].mark.attempt
           s == call[c].mark.status
<1>1. call[c].pc = "mark" /\ UNCHANGED <<job, controller, requeued, orphaned>> /\ Finish(c)
      /\ Mark(j, a, s)
  BY DEF MarkAttempt, past
<1>2. /\ call[c] \in CallRecords /\ Knows(call[c]) /\ j \in Jobs
  BY <1>1, KnownAt
<1>3. /\ a \in Nat /\ a <= Len(attempts[j]) /\ s \in Status
      /\ call[c].op = "claim" => a # 0
  BY <1>1, <1>2 DEF Knows, CallRecords
<1>4. /\ workload' \in [Jobs -> Seq(WorkStates)]
      /\ \A i \in Jobs : Len(workload'[i]) = Len(workload[i])
  <2>1. CASE call[c].op = "claim"
    <3>1. workload' = [workload EXCEPT ![j] = [workload[j] EXCEPT ![a] = "running"]]
      BY <2>1 DEF MarkAttempt
    <3>2. /\ workload[j] \in Seq(WorkStates) /\ Len(workload[j]) = Len(attempts[j])
          /\ workload \in [Jobs -> Seq(WorkStates)] /\ "running" \in WorkStates
      BY <1>2 DEF KnowledgeInv, RowsInv, RowInv, WorkStates
    <3>3. a \in 1 .. Len(workload[j])
      BY <1>3, <2>1, <3>2
    <3>4. /\ [workload[j] EXCEPT ![a] = "running"] \in Seq(WorkStates)
          /\ Len([workload[j] EXCEPT ![a] = "running"]) = Len(workload[j])
      BY <3>2, <3>3
    <3> QED
      BY <1>2, <3>1, <3>2, <3>4
  <2>2. CASE call[c].op # "claim"
    BY <2>2 DEF MarkAttempt, KnowledgeInv, RowsInv
  <2> QED
    BY <2>1, <2>2
<1>5. RowsStep
  BY <1>1, <1>2, <1>3, <1>4, RowsMarked DEF KnowledgeInv, Histories, RowsInv
<1>6. CallsInv'
  BY <1>1, <1>5, CallEnds DEF KnowledgeInv
<1> QED
  BY <1>1, <1>5, <1>6 DEF CallOutcome, CallEffect

LEMMA CallSteps ==
    ASSUME KnowledgeInv, NEW c \in Callers, BeginCall(c) \/ CallStep(c) \/ CallDies(c)
    PROVE  CallOutcome(c)
<1>1. CASE CallDies(c)
  <2>1. call[c].pc # "idle"
    BY <1>1, NoCallFacts DEF CallDies, KnowledgeInv, CallsInv, SoundCall, Creating, Knows
  <2> QED
    BY <1>1, <2>1, CallGivesUp DEF CallDies, rows
<1> QED
  BY <1>1, BegunSteps, AdmitSteps, InsertSteps, EnqueueSteps, CancelSteps, ClaimProvisionSteps,
     ClaimAttemptSteps, ClaimRunSteps, ApplySteps, MarkAttemptSteps DEF CallStep

LEMMA CallsKeep ==
    ASSUME KnowledgeInv, NEW c \in Callers, CallOutcome(c)
    PROVE  /\ KnowledgeInv'
           /\ \A j \in Jobs : Watched(j) => Watched(j)'
<1>1. \A j \in Jobs : job[j].scheduler = "cluster" /\ Stored(j)
                      => job'[j].attempt = job[j].attempt
  BY DEF CallOutcome, CallEffect
<1>2. ControlInv'
  BY <1>1, ControlStays DEF CallOutcome, KnowledgeInv
<1>3. ASSUME NEW j \in Jobs, Watched(j) PROVE Watched(j)'
  <2>1. Held(j)' <=> Held(j)
    BY DEF CallOutcome, Held
  <2> QED
    BY <1>3, <2>1 DEF CallOutcome, CallEffect, Watched, Following
<1> QED
  BY <1>2, <1>3 DEF CallOutcome, RowsStep, KnowledgeInv

-----------------------------------------------------------------------------
(* The controller.                                                                 *)

Places == Holding \cup Naming \cup {"idle", "pick", "dead"}

(* What a step of the controller may do to the row of j.                           *)
ControlEffect(j) ==
    /\ Watched(j) => Watched(j)'
    /\ job'[j].version # job[j].version =>
         /\ controller' # controller
         /\ controller.at.id = j /\ controller.at.version = job[j].version
    /\ job[j].status \in Terminal /\ job'[j].status = "queued" =>
         job[j].status = "failed" /\ On("requeue") /\ Held(j)
ControlOutcome ==
    RowsStep /\ ControlInv' /\ UNCHANGED call /\ \A j \in Jobs : ControlEffect(j)

LEMMA HoldFacts ==
    ASSUME KnowledgeInv, controller.pc \in Holding
    PROVE  /\ Agrees(controller.at) /\ controller.at.id \in Jobs
           /\ controller.at \in FullRows
           /\ job[controller.at.id].scheduler = "cluster" /\ controller.at.scheduler = "cluster"
           /\ job[controller.at.id].status \in Status /\ Stored(controller.at.id)
           /\ controller.at.attempt \in 0 .. Len(attempts[controller.at.id])
           /\ controller.at.binding \in 0 .. Len(attempts[controller.at.id])
<1>1. Agrees(controller.at) /\ controller.at.scheduler = "cluster" /\ RowsInv
  BY DEF KnowledgeInv, ControlInv, SoundController
<1>2. job[controller.at.id].status \in Status => Stored(controller.at.id)
  BY DEF Stored, NoRow, Status, Following, Terminal
<1> QED
  BY <1>1, <1>2, AgreedIsStored DEF Agrees

LEMMA TodoStays ==
    ASSUME KnowledgeInv, RowsStep
    PROVE  \A r \in controller.todo : r \in FullRows /\ Agrees(r)' /\ r.scheduler = "cluster"
<1>1. \A r \in controller.todo : r \in FullRows /\ Agrees(r) /\ r.scheduler = "cluster"
  BY DEF KnowledgeInv, ControlInv, SoundController, ControllerRecords
<1> QED
  BY <1>1, AgreesStays DEF Agrees, RowsStep, KnowledgeInv

LEMMA ToFacts ==
    ASSUME controller \in ControllerRecords, NEW p \in Places, NEW row \in KeptRows, To(p, row)
    PROVE  /\ controller' \in ControllerRecords
           /\ controller'.pc = p /\ controller'.at = row /\ controller'.todo = controller.todo
BY DEF To, ControllerRecords, Places

(* The controller goes on with a row of which it knows what its next place needs.  *)
LEMMA ControlGoes ==
    ASSUME KnowledgeInv, RowsStep, NEW p \in Places, NEW row \in KeptRows, To(p, row),
           p \in Holding => Agrees(row)' /\ row.scheduler = "cluster",
           p \in Naming => /\ row.id \in Jobs /\ job'[row.id].status # "absent"
                           /\ job'[row.id].scheduler = "cluster",
           p \in {"submit", "bind"} => row.attempt # 0 /\ row.attempt = job'[row.id].attempt,
           p \in {"rotate", "observe"} => row.binding # 0,
           p \in {"markFailed", "retry", "requeue"} => row.status = "failed"
    PROVE  ControlInv' /\ controller'.pc = p /\ controller'.at = row
<1>1. /\ controller' \in ControllerRecords
      /\ controller'.pc = p /\ controller'.at = row /\ controller'.todo = controller.todo
  BY ToFacts DEF KnowledgeInv, ControlInv, SoundController
<1>2. \A r \in controller'.todo : Agrees(r)' /\ r.scheduler = "cluster"
  BY <1>1, TodoStays
<1> QED
  BY <1>1, <1>2 DEF ControlInv, SoundController

(* What keeps a job watched.                                                       *)
LEMMA WatchKept ==
    ASSUME NEW j \in Jobs, orphaned \subseteq orphaned',
           \/ controller'.at.id = j /\ controller'.pc \in Launching
           \/ /\ ~(Held(j) /\ controller.pc \in Launching)
              /\ job'[j].scheduler = job[j].scheduler
              /\ job'[j].status \in Following => job[j].status \in Following
              /\ job'[j].binding = job[j].binding /\ job'[j].attempt = job[j].attempt
           \/ job'[j].status \notin Following
           \/ j \in orphaned'
           \/ job'[j].binding = job'[j].attempt /\ job'[j].attempt # 0
    PROVE  Watched(j) => Watched(j)'
BY DEF Watched, Held

LEMMA ResterFacts ==
    /\ Resting \in ControllerRecords /\ Resting.todo = {} /\ Resting.pc = "idle"
    /\ [Resting EXCEPT !.pc = "dead"] \in ControllerRecords
    /\ [Resting EXCEPT !.pc = "dead"].todo = {}
    /\ [Resting EXCEPT !.pc = "dead"].pc = "dead"
BY DEF Resting, ControllerRecords, KeptRows, Holding, Naming

(* The controller reads, or writes outside the rows, and goes on.                  *)
LEMMA ControlReads ==
    ASSUME KnowledgeInv, RowsStep, UNCHANGED <<job, call, orphaned>>,
           NEW p \in Places, NEW row \in KeptRows, To(p, row),
           p \in Holding => Agrees(row) /\ row.scheduler = "cluster",
           p \in Naming => /\ row.id \in Jobs /\ job[row.id].status # "absent"
                           /\ job[row.id].scheduler = "cluster",
           p \in {"submit", "bind"} => row.attempt # 0 /\ row.attempt = job[row.id].attempt,
           p \in {"rotate", "observe"} => row.binding # 0,
           p \in {"markFailed", "retry", "requeue"} => row.status = "failed",
           controller.pc \in Launching => p \in Launching /\ row.id = controller.at.id
    PROVE  ControlOutcome
<1>1. p \in Holding => Agrees(row)'
  BY AgreesStays DEF Agrees, RowsStep, KnowledgeInv
<1>2. ControlInv' /\ controller'.pc = p /\ controller'.at = row
  BY <1>1, ControlGoes
<1>3. ASSUME NEW j \in Jobs PROVE ControlEffect(j)
  <2>1. Watched(j) => Watched(j)'
    BY <1>2, WatchKept DEF Held
  <2> QED
    BY <2>1 DEF ControlEffect, Terminal
<1> QED
  BY <1>2, <1>3 DEF ControlOutcome

(* Where the controller may go, keeping row, when it has moved the job of r to t.  *)
Onward(p, row, r, t) ==
    /\ p \in Places /\ row \in KeptRows /\ p # controller.pc
    /\ p \in Holding => row = Seen(r.id, Moved(r.id, t))
    /\ p \notin Naming /\ p \notin {"submit", "bind"} /\ p \notin {"rotate", "observe"}
    /\ p \in {"markFailed", "retry", "requeue"} => t = "failed"
    /\ t = "queued" => controller.pc = "requeue"
    /\ t \in Following => \/ p \in Launching /\ p \in Holding
                          \/ controller.pc \notin Launching /\ t # "provisioning"

(* The controller moves the job it holds.                                          *)
LEMMA ControlMoves ==
    ASSUME KnowledgeInv, controller.pc \in Holding, NEW r, r = controller.at,
           NEW t, MayMove(r, t), job' = [job EXCEPT ![r.id] = Moved(r.id, t)],
           UNCHANGED <<attempts, workload, call, requeued, orphaned>>,
           NEW p, NEW row, To(p, row), Onward(p, row, r, t)
    PROVE  ControlOutcome
<1> USE DEF Onward
<1>1. Agrees(r) /\ r.id \in Jobs /\ job[r.id].scheduler = "cluster" /\ job[r.id].status \in Status
  BY HoldFacts
<1>2. MovedTo(r, t)
  <2>1. Histories /\ RowsInv /\ UNCHANGED <<attempts, workload>>
    BY DEF KnowledgeInv, RowsInv, Histories
  <2> QED
    BY <1>1, <2>1, RowsMoved
<1>3. /\ RowsStep /\ r.status = job[r.id].status /\ t \in Allowed[job[r.id].status]
      /\ job'[r.id].status = t /\ job'[r.id].binding = job[r.id].binding
      /\ job'[r.id].attempt = job[r.id].attempt /\ job'[r.id].scheduler = "cluster"
      /\ \A j \in Jobs \ {r.id} : job'[j] = job[j]
  BY <1>1, <1>2 DEF MovedTo
<1>4. p \in Holding => /\ Agrees(row)' /\ row.scheduler = "cluster" /\ row.status = t
                       /\ row.id = r.id
  <2>1. Seen(r.id, Moved(r.id, t)) = Seen(r.id, job'[r.id])
    BY <1>2 DEF MovedTo
  <2>2. Agrees(Seen(r.id, job[r.id]))'
    BY <1>2 DEF MovedTo
  <2> QED
    BY <1>3, <2>1, <2>2, SMTT(30) DEF Agrees, Seen
<1>5. ControlInv' /\ controller'.pc = p /\ controller'.at = row
  <2>1. p \in {"markFailed", "retry", "requeue"} => row.status = "failed"
    BY <1>4 DEF Holding
  <2>2. p \notin Naming /\ p \notin {"submit", "bind"} /\ p \notin {"rotate", "observe"}
    OBVIOUS
  <2>3. p \in Places /\ row \in KeptRows
    OBVIOUS
  <2> HIDE DEF Onward
  <2> QED
    BY <1>3, <1>4, <2>1, <2>2, <2>3, ControlGoes
<1>6. ASSUME NEW j \in Jobs \ {r.id} PROVE ControlEffect(j)
  <2>1. Watched(j) => Watched(j)'
    BY <1>3, <1>6, WatchKept DEF Held
  <2> QED
    BY <1>3, <2>1 DEF ControlEffect, Terminal
<1>7. ControlEffect(r.id)
  <2>1. t \in Following /\ t # "provisioning" => job[r.id].status \in Following
    BY <1>1, <1>3, AllowedFacts
  <2>2. Watched(r.id) => Watched(r.id)'
    BY <1>1, <1>3, <1>4, <1>5, <2>1, WatchKept
  <2>3. controller' # controller /\ r.version = job[r.id].version
    BY <1>5 DEF MayMove
  <2>4. job[r.id].status \in Terminal /\ t = "queued" => job[r.id].status = "failed"
    BY <1>3 DEF KnowledgeInv, ControlInv, SoundController
  <2> QED
    BY <1>1, <1>3, <2>2, <2>3, <2>4 DEF ControlEffect, On, Held
<1> QED
  BY <1>3, <1>5, <1>6, <1>7 DEF ControlOutcome

LEMMA PlaceFacts ==
    /\ Holding \cup Naming \cup {"idle", "pick", "dead"} \subseteq Places
    /\ Unseen \in KeptRows /\ FullRows \subseteq KeptRows
    /\ \A j \in Jobs : Unread(j) \in KeptRows /\ Unread(j).id = j
BY DEF Places, KeptRows, Unread

(* From any place where the controller holds a row, giving it up with an error.    *)
LEMMA RaiseSteps ==
    ASSUME KnowledgeInv, RowsStep, UNCHANGED <<job, call, orphaned>>,
           controller.pc \in Holding, Raise \/ Refuse
    PROVE  ControlOutcome
<1>1. PICK row : row = Unread(controller.at.id)
  OBVIOUS
<1>2. PICK p \in Naming : To(p, row)
  BY <1>1 DEF Raise, Refuse, Naming
<1>3. /\ controller.at.id \in Jobs /\ job[controller.at.id].scheduler = "cluster"
      /\ job[controller.at.id].status # "absent"
  BY HoldFacts DEF Status, Following, Terminal
<1>4. row \in KeptRows /\ row.id = controller.at.id /\ p \in Places
  BY <1>1, <1>3, PlaceFacts
<1>5. p \notin Holding /\ p \in Launching
  BY DEF Holding, Naming, Launching
<1> QED
  BY <1>2, <1>3, <1>4, <1>5, ControlReads DEF Holding

LEMMA StillRows ==
    ASSUME KnowledgeInv, UNCHANGED <<job, attempts, workload, requeued>>, orphaned' \subseteq Jobs
    PROVE  RowsStep
BY RowsKept DEF KnowledgeInv, RowsInv, Histories

(* Where the controller leaves the job alone.                                      *)
LEMMA LeaveSteps ==
    ASSUME KnowledgeInv, RowsStep, UNCHANGED <<job, call, orphaned>>,
           controller.pc \notin Launching, Leave
    PROVE  ControlOutcome
<1>1. To("pick", Unseen) /\ "pick" \in Places /\ Unseen \in KeptRows
  BY PlaceFacts DEF Leave
<1> QED
  BY <1>1, ControlReads DEF Holding, Naming

LEMMA ValidateSteps ==
    ASSUME KnowledgeInv, Validate PROVE ControlOutcome
<1>1. /\ controller.pc = "validate" /\ UNCHANGED <<job, attempts, workload, call, requeued, orphaned>>
  BY DEF Validate, On, rows, past
<1>2. RowsStep /\ controller.pc \in Holding
  BY <1>1, StillRows DEF Holding, KnowledgeInv, RowsInv
<1>3. CASE To("provision", controller.at)
  <2>1. Agrees(controller.at) /\ controller.at.scheduler = "cluster" /\ controller.at \in KeptRows
    BY <1>2, HoldFacts, PlaceFacts
  <2>2. PICK row : row = controller.at
    OBVIOUS
  <2>3. "provision" \in Places /\ controller.pc \notin Launching
    BY <1>1 DEF Places, Holding, Launching
  <2> QED
    BY <1>1, <1>2, <1>3, <2>1, <2>2, <2>3, ControlReads DEF Holding, Naming
<1> QED
  BY <1>1, <1>2, <1>3, RaiseSteps DEF Validate

LEMMA ProvisionSteps ==
    ASSUME KnowledgeInv, Provision PROVE ControlOutcome
<1>1. /\ controller.pc = "provision" /\ UNCHANGED <<attempts, workload, call, requeued, orphaned>>
  BY DEF Provision, On, past
<1>2. controller.pc \in Holding
  BY <1>1 DEF Holding
<1>3. PICK r : r = controller.at
  OBVIOUS
<1>4. CASE MayMove(r, "provisioning")
  <2>1. PICK row : row = Seen(r.id, Moved(r.id, "provisioning"))
    OBVIOUS
  <2>2. job' = [job EXCEPT ![r.id] = Moved(r.id, "provisioning")] /\ To("attempt", row)
    BY <1>3, <1>4, <2>1 DEF Provision
  <2>3. Agrees(r)
    BY <1>2, <1>3, HoldFacts
  <2>4. MovedTo(r, "provisioning")
    <3>1. Histories /\ RowsInv /\ UNCHANGED <<attempts, workload>>
      BY <1>1 DEF KnowledgeInv, RowsInv, Histories
    <3> QED
      BY <1>4, <2>2, <2>3, <3>1, RowsMoved
  <2>5. row \in KeptRows
    BY <2>1, <2>4, PlaceFacts DEF MovedTo, Agrees, Seen
  <2>6. Onward("attempt", row, r, "provisioning")
    BY <1>1, <2>1, <2>5 DEF Onward, Places, Holding, Launching, Naming
  <2> QED
    BY <1>1, <1>2, <1>3, <1>4, <2>2, <2>6, ControlMoves
<1>5. CASE ~MayMove(r, "provisioning")
  <2>1. Refuse /\ UNCHANGED job
    BY <1>3, <1>5 DEF Provision
  <2>2. RowsStep
    BY <1>1, <2>1, StillRows DEF KnowledgeInv, RowsInv
  <2> QED
    BY <1>1, <1>2, <2>1, <2>2, RaiseSteps
<1> QED
  BY <1>4, <1>5

(* The jobs the controller does not hold are left alone.                           *)
LEMMA OthersKept ==
    ASSUME NEW j \in Jobs, controller.at.id # j, job'[j] = job[j], orphaned \subseteq orphaned'
    PROVE  ControlEffect(j)
<1>1. Watched(j) => Watched(j)'
  BY WatchKept DEF Held
<1> QED
  BY <1>1 DEF ControlEffect, Terminal

LEMMA CreateAttemptSteps ==
    ASSUME KnowledgeInv, CreateAttempt PROVE ControlOutcome
<1>1. PICK r : r = controller.at
  OBVIOUS
<1>2. /\ controller.pc = "attempt" /\ controller.pc \in Holding
      /\ UNCHANGED <<call, requeued, orphaned>>
      /\ NewAttempt(r.id) /\ workload' = [workload EXCEPT ![r.id] = Append(@, "none")]
      /\ To("submit", [r EXCEPT !.attempt = Len(attempts[r.id]) + 1])
  BY <1>1 DEF CreateAttempt, On, past, Holding
<1>3. /\ Agrees(r) /\ r.id \in Jobs /\ r \in FullRows
      /\ r.scheduler = "cluster" /\ Len(attempts[r.id]) \in Nat
  BY <1>1, <1>2, HoldFacts, AgreedIsStored DEF KnowledgeInv
<1>4. TriedTo(r)
  BY <1>2, <1>3, RowsTried DEF KnowledgeInv, Histories, RowsInv
<1>5. PICK m : m = [r EXCEPT !.attempt = Len(attempts[r.id]) + 1]
  OBVIOUS
<1>6. /\ Agrees(m)' /\ m \in FullRows /\ m.scheduler = "cluster" /\ m.id = r.id
      /\ m.attempt # 0 /\ m.attempt = job'[r.id].attempt
  <2>1. /\ m \in FullRows /\ m.id = r.id /\ m.attempt = Len(attempts[r.id]) + 1
        /\ m.version = r.version /\ m.status = r.status /\ m.binding = r.binding
        /\ m.scheduler = r.scheduler
    <3> DEFINE n == Len(attempts[r.id]) + 1
    <3>1. n \in Nat /\ m = [r EXCEPT !.attempt = n]
      BY <1>3, <1>5
    <3> HIDE DEF n
    <3>2. /\ m \in FullRows /\ m.scheduler = r.scheduler /\ m.id = r.id /\ m.attempt = n
          /\ m.version = r.version /\ m.status = r.status /\ m.binding = r.binding
      BY <1>3, <3>1 DEF FullRows
    <3> QED
      BY <3>2 DEF n
  <2>2. AgreesWith(r, job'[r.id], Len(attempts'[r.id]))
    BY <1>3, <1>4, AgreesStays DEF Agrees, KnowledgeInv, RowsStep, TriedTo
  <2>3. AgreesWith(m, job'[r.id], Len(attempts'[r.id]))
    BY <1>3, <1>4, <2>1, <2>2 DEF AgreesWith, TriedTo
  <2> QED
    BY <1>3, <1>4, <2>1, <2>3 DEF Agrees, TriedTo
<1>7. ControlInv' /\ controller'.pc = "submit" /\ controller'.at = m
  <2>1. "submit" \in Places /\ "submit" \notin Naming /\ m \in KeptRows
    BY <1>6, PlaceFacts DEF Places, Holding, Naming
  <2> QED
    BY <1>2, <1>4, <1>5, <1>6, <2>1, ControlGoes DEF TriedTo
<1>8. ASSUME NEW j \in Jobs \ {r.id} PROVE ControlEffect(j)
  BY <1>1, <1>2, <1>4, <1>8, OthersKept DEF TriedTo
<1>9. ControlEffect(r.id)
  <2>1. Watched(r.id) => Watched(r.id)'
    BY <1>2, <1>3, <1>6, <1>7, WatchKept DEF Launching
  <2> QED
    BY <1>4, <2>1 DEF ControlEffect, TriedTo, Terminal
<1> QED
  BY <1>2, <1>4, <1>7, <1>8, <1>9 DEF ControlOutcome, TriedTo

(* Where only what the schedulers run has changed, the rows are kept.              *)
LEMMA WorkloadSteps ==
    ASSUME KnowledgeInv, UNCHANGED <<job, attempts, requeued>>, orphaned' \subseteq Jobs,
           NEW j \in Jobs, NEW a \in Nat \ {0}, a <= Len(attempts[j]), NEW s \in WorkStates,
           workload' \in {workload, [workload EXCEPT ![j][a] = s]}
    PROVE  RowsStep
<1>1. /\ workload[j] \in Seq(WorkStates) /\ Len(workload[j]) = Len(attempts[j])
      /\ workload \in [Jobs -> Seq(WorkStates)]
  BY DEF KnowledgeInv, RowsInv, RowInv
<1>2. /\ [workload[j] EXCEPT ![a] = s] \in Seq(WorkStates)
      /\ Len([workload[j] EXCEPT ![a] = s]) = Len(workload[j])
  BY <1>1
<1>3. \/ workload' = workload
      \/ workload' = [workload EXCEPT ![j] = [workload[j] EXCEPT ![a] = s]]
  OBVIOUS
<1>4. /\ workload' \in [Jobs -> Seq(WorkStates)]
      /\ \A i \in Jobs : Len(workload'[i]) = Len(workload[i])
  BY <1>1, <1>2, <1>3
<1> QED
  BY <1>4, RowsKept DEF KnowledgeInv, RowsInv, Histories

LEMMA SubmitSteps ==
    ASSUME KnowledgeInv, Submit PROVE ControlOutcome
<1>1. PICK r : r = controller.at
  OBVIOUS
<1>2. /\ controller.pc = "submit" /\ controller.pc \in Holding
      /\ UNCHANGED <<job, attempts, call, requeued, orphaned>>
      /\ workload' \in {workload, [workload EXCEPT ![r.id][r.attempt] = "running"]}
      /\ To("bind", r) \/ Refuse \/ Raise
  BY <1>1 DEF Submit, On, rows, past, Holding
<1>3. /\ Agrees(r) /\ r.id \in Jobs /\ r.scheduler = "cluster" /\ r \in KeptRows
      /\ r.attempt \in Nat \ {0} /\ r.attempt <= Len(attempts[r.id])
      /\ r.attempt = job[r.id].attempt /\ Len(attempts[r.id]) \in Nat
  BY <1>1, <1>2, HoldFacts, AgreedIsStored, PlaceFacts
     DEF KnowledgeInv, ControlInv, SoundController
<1>4. RowsStep
  <2>1. "running" \in WorkStates /\ orphaned' \subseteq Jobs
    BY <1>2 DEF WorkStates, KnowledgeInv, RowsInv
  <2> QED
    BY <1>2, <1>3, <2>1, WorkloadSteps
<1>5. CASE To("bind", r)
  <2>1. "bind" \in Places /\ "bind" \notin Naming /\ "bind" \in Launching
    BY DEF Places, Holding, Naming, Launching
  <2> QED
    BY <1>1, <1>2, <1>3, <1>4, <1>5, <2>1, ControlReads
<1> QED
  BY <1>2, <1>4, <1>5, RaiseSteps

(* The controller writes the binding of the job it holds.                          *)
LEMMA ControlWrites ==
    ASSUME KnowledgeInv, controller.pc \in Holding, NEW r, r = controller.at, RowsStep,
           UNCHANGED <<call, orphaned>>, \A j \in Jobs \ {r.id} : job'[j] = job[j],
           job'[r.id].status = job[r.id].status, job'[r.id].scheduler = job[r.id].scheduler,
           MayBind(r), ControlInv', controller'.pc # controller.pc,
           \/ job'[r.id].binding = job'[r.id].attempt /\ job'[r.id].attempt # 0
           \/ job'[r.id].status \notin Following
           \/ /\ controller.pc \notin Launching
              /\ job'[r.id].binding = job[r.id].binding
              /\ job'[r.id].attempt = job[r.id].attempt
    PROVE  ControlOutcome
<1>1. ASSUME NEW j \in Jobs \ {r.id} PROVE ControlEffect(j)
  BY <1>1, OthersKept
<1>2. ControlEffect(r.id)
  <2>1. r.id \in Jobs
    BY HoldFacts
  <2>2. Watched(r.id) => Watched(r.id)'
    BY <2>1, WatchKept
  <2>3. controller' # controller /\ r.version = job[r.id].version
    BY DEF MayBind
  <2> QED
    BY <2>1, <2>2, <2>3 DEF ControlEffect, Terminal
<1> QED
  BY <1>1, <1>2 DEF ControlOutcome

LEMMA BindSteps ==
    ASSUME KnowledgeInv, Bind PROVE ControlOutcome
<1>1. PICK r : r = controller.at
  OBVIOUS
<1>2. /\ controller.pc = "bind" /\ controller.pc \in Holding
      /\ UNCHANGED <<attempts, workload, call, requeued, orphaned>>
  BY DEF Bind, On, past, Holding
<1>3. /\ Agrees(r) /\ r.id \in Jobs
      /\ r.attempt \in Nat \ {0} /\ r.attempt <= Len(attempts[r.id])
      /\ r.attempt = job[r.id].attempt
  BY <1>1, <1>2, HoldFacts, AgreedIsStored DEF KnowledgeInv, ControlInv, SoundController
<1>4. CASE MayBind(r)
  <2>1. job' = [job EXCEPT ![r.id] = Bound(r.id, r.attempt)] /\ To("pick", Unseen)
    BY <1>1, <1>4 DEF Bind, Leave
  <2>2. BoundTo(r, r.attempt)
    BY <1>2, <1>3, <1>4, <2>1, RowsBound DEF KnowledgeInv, RowsInv, Histories
  <2>3. "pick" \in Places /\ "pick" \notin Holding \cup Naming /\ Unseen \in KeptRows
    BY PlaceFacts DEF Places, Holding, Naming
  <2>4. ControlInv' /\ controller'.pc = "pick"
    BY <2>1, <2>2, <2>3, ControlGoes DEF BoundTo
  <2> QED
    BY <1>1, <1>2, <1>3, <1>4, <2>2, <2>4, ControlWrites DEF BoundTo
<1>5. CASE ~MayBind(r)
  <2>1. Refuse /\ UNCHANGED job
    BY <1>1, <1>5 DEF Bind
  <2>2. RowsStep
    BY <1>2, <2>1, StillRows DEF KnowledgeInv, RowsInv
  <2> QED
    BY <1>2, <2>1, <2>2, RaiseSteps
<1> QED
  BY <1>4, <1>5

LEMMA RotateSteps ==
    ASSUME KnowledgeInv, Rotate PROVE ControlOutcome
<1>1. PICK r : r = controller.at
  OBVIOUS
<1>2. /\ controller.pc = "rotate" /\ controller.pc \in Holding /\ controller.pc \notin Launching
      /\ UNCHANGED <<attempts, workload, call, requeued, orphaned>>
  BY DEF Rotate, On, past, Holding, Launching
<1>3. /\ Agrees(r) /\ r.id \in Jobs /\ r.scheduler = "cluster" /\ r \in KeptRows
      /\ r.binding \in Nat \ {0} /\ r.binding <= Len(attempts[r.id])
  BY <1>1, <1>2, HoldFacts, AgreedIsStored, PlaceFacts
     DEF KnowledgeInv, ControlInv, SoundController
<1>4. "observe" \in Places /\ "observe" \notin Naming
      /\ "observe" \notin {"submit", "bind"} /\ "observe" \notin {"markFailed", "retry", "requeue"}
  BY DEF Places, Holding, Naming
<1>5. UNCHANGED job => RowsStep
  BY <1>2, StillRows DEF KnowledgeInv, RowsInv
<1>6. CASE To("observe", r) /\ UNCHANGED job
  BY <1>1, <1>2, <1>3, <1>4, <1>5, <1>6, ControlReads
<1>7. CASE Raise /\ UNCHANGED job
  BY <1>2, <1>5, <1>7, RaiseSteps
<1>8. CASE MayBind(r) /\ job' = [job EXCEPT ![r.id] = Bound(r.id, r.binding)]
           /\ To("observe", Seen(r.id, Bound(r.id, r.binding)))
  <2>1. BoundTo(r, r.binding)
    BY <1>2, <1>3, <1>8, RowsBound DEF KnowledgeInv, RowsInv, Histories
  <2>2. PICK m : m = Seen(r.id, Bound(r.id, r.binding))
    OBVIOUS
  <2>3. m = Seen(r.id, job'[r.id])
    BY <2>1, <2>2 DEF BoundTo
  <2>4. /\ Agrees(m)' /\ m \in KeptRows
        /\ m.scheduler = job[r.id].scheduler /\ m.binding = r.binding
    BY <2>1, <2>3, PlaceFacts DEF BoundTo, Agrees, Seen
  <2>5. m.scheduler = "cluster"
    BY <1>1, <1>2, <2>4, HoldFacts
  <2>6. ControlInv' /\ controller'.pc = "observe"
    BY <1>3, <1>4, <1>8, <2>1, <2>2, <2>4, <2>5, ControlGoes DEF BoundTo
  <2>7. r.binding = job[r.id].binding
    BY <1>3, <1>8, AgreedIsStored DEF MayBind, KnowledgeInv
  <2> QED
    BY <1>1, <1>2, <1>8, <2>1, <2>6, <2>7, ControlWrites DEF BoundTo
<1> QED
  BY <1>1, <1>6, <1>7, <1>8 DEF Rotate

LEMMA RetrySteps ==
    ASSUME KnowledgeInv, Retry PROVE ControlOutcome
<1>1. PICK r : r = controller.at
  OBVIOUS
<1>2. /\ controller.pc = "retry" /\ controller.pc \in Holding /\ controller.pc \notin Launching
      /\ UNCHANGED <<attempts, workload, call, requeued, orphaned>>
  BY DEF Retry, On, past, Holding, Launching
<1>3. Agrees(r) /\ r.id \in Jobs /\ r.scheduler = "cluster" /\ r.status = "failed"
  BY <1>1, <1>2, HoldFacts DEF KnowledgeInv, ControlInv, SoundController
<1>4. UNCHANGED job => RowsStep
  BY <1>2, StillRows DEF KnowledgeInv, RowsInv
<1>5. CASE Leave /\ UNCHANGED job
  BY <1>2, <1>4, <1>5, LeaveSteps
<1>6. CASE Raise /\ UNCHANGED job
  BY <1>2, <1>4, <1>6, RaiseSteps
<1>7. CASE MayBind(r) /\ job' = [job EXCEPT ![r.id] = Noted(r.id)]
           /\ To("requeue", Seen(r.id, Noted(r.id)))
  <2>1. NotedTo(r)
    BY <1>2, <1>3, <1>7, RowsNoted DEF KnowledgeInv, RowsInv, Histories
  <2>2. PICK m : m = Seen(r.id, Noted(r.id))
    OBVIOUS
  <2>3. m = Seen(r.id, job'[r.id])
    BY <2>1, <2>2 DEF NotedTo
  <2>4. /\ Agrees(m)' /\ m \in KeptRows
        /\ m.scheduler = job[r.id].scheduler /\ m.status = r.status
    BY <2>1, <2>3, PlaceFacts DEF NotedTo, Agrees, Seen
  <2>5. m.scheduler = "cluster"
    BY <1>1, <1>2, <2>4, HoldFacts
  <2>6. "requeue" \in Places /\ "requeue" \notin Naming
        /\ "requeue" \notin {"submit", "bind"} /\ "requeue" \notin {"rotate", "observe"}
    BY DEF Places, Holding, Naming
  <2>7. ControlInv' /\ controller'.pc = "requeue"
    BY <1>3, <1>7, <2>1, <2>2, <2>4, <2>5, <2>6, ControlGoes DEF NotedTo
  <2> QED
    BY <1>1, <1>2, <1>7, <2>1, <2>7, ControlWrites DEF NotedTo
<1> QED
  BY <1>1, <1>5, <1>6, <1>7 DEF Retry

(* A transition followed by a mark, and its conflict.                              *)
LEMMA MoveThenMarkSteps ==
    ASSUME KnowledgeInv, controller.pc \in Holding, NEW t \in Status, t # "queued",
           t \in Following => controller.pc \notin Launching /\ t # "provisioning",
           NEW p \in {"mark", "markFailed"}, p # controller.pc, p = "markFailed" => t = "failed",
           UNCHANGED <<attempts, workload, call, requeued, orphaned>>, MoveThenMark(t, p)
    PROVE  ControlOutcome
<1>1. PICK r : r = controller.at
  OBVIOUS
<1>2. CASE MayMove(r, t)
  <2>1. PICK row : row = Seen(r.id, Moved(r.id, t))
    OBVIOUS
  <2>2. job' = [job EXCEPT ![r.id] = Moved(r.id, t)] /\ To(p, row)
    BY <1>1, <1>2, <2>1 DEF MoveThenMark
  <2>3. Agrees(r)
    BY <1>1, HoldFacts
  <2>4. MovedTo(r, t)
    <3>1. Histories /\ RowsInv /\ UNCHANGED <<attempts, workload>>
      BY DEF KnowledgeInv, RowsInv, Histories
    <3> QED
      BY <1>2, <2>2, <2>3, <3>1, RowsMoved
  <2>5. row \in KeptRows
    BY <2>1, <2>4, PlaceFacts DEF MovedTo, Agrees, Seen
  <2>6. Onward(p, row, r, t)
    BY <2>1, <2>5 DEF Onward, Places, Holding, Naming
  <2> QED
    BY <1>1, <1>2, <2>2, <2>6, ControlMoves
<1>3. CASE ~MayMove(r, t)
  <2>1. Raise /\ UNCHANGED job
    BY <1>1, <1>3 DEF MoveThenMark
  <2>2. RowsStep
    BY <2>1, StillRows DEF KnowledgeInv, RowsInv
  <2> QED
    BY <2>1, <2>2, RaiseSteps
<1> QED
  BY <1>2, <1>3

LEMMA BlockSteps ==
    ASSUME KnowledgeInv, Block PROVE ControlOutcome
<1>1. /\ controller.pc = "block" /\ controller.pc \in Holding
      /\ UNCHANGED <<attempts, workload, call, requeued, orphaned>>
      /\ MoveThenMark("blocked", "mark")
  BY DEF Block, On, past, Holding
<1>2. "blocked" \in Status \ Following
  BY DEF Status, Following, Terminal
<1> QED
  BY <1>1, <1>2, MoveThenMarkSteps

LEMMA ObserveSteps ==
    ASSUME KnowledgeInv, Observe PROVE ControlOutcome
<1>1. PICK r : r = controller.at
  OBVIOUS
<1>2. PICK told : told = workload[r.id][r.binding]
  OBVIOUS
<1>3. /\ controller.pc = "observe" /\ controller.pc \in Holding /\ controller.pc \notin Launching
      /\ UNCHANGED <<attempts, workload, call, requeued, orphaned>>
  BY DEF Observe, On, past, Holding, Launching
<1>4. UNCHANGED job => RowsStep
  BY <1>3, StillRows DEF KnowledgeInv, RowsInv
<1>5. CASE Raise /\ UNCHANGED job
  BY <1>3, <1>4, <1>5, RaiseSteps
<1>6. CASE Leave /\ UNCHANGED job
  BY <1>3, <1>4, <1>6, LeaveSteps
<1>7. CASE told \in Allowed[r.status]
           /\ MoveThenMark(told, IF told = "failed" THEN "markFailed" ELSE "mark")
  <2>1. r.id \in Jobs /\ r.binding \in Nat \ {0} /\ r.binding <= Len(workload[r.id])
        /\ r.status \in Status
    BY <1>1, <1>3, HoldFacts, AgreedIsStored
       DEF KnowledgeInv, ControlInv, SoundController, RowsInv, RowInv
  <2>2. told \in WorkStates
    BY <1>2, <2>1 DEF KnowledgeInv, RowsInv
  <2>3. told \in Status /\ told # "queued" /\ told # "provisioning"
    BY <1>7, <2>1, <2>2, AllowedFacts DEF WorkStates
  <2>4. PICK p \in {"mark", "markFailed"} :
              MoveThenMark(told, p) /\ (p = "markFailed" => told = "failed")
    BY <1>7
  <2> QED
    BY <1>3, <2>3, <2>4, MoveThenMarkSteps
<1> QED
  BY <1>1, <1>2, <1>5, <1>6, <1>7 DEF Observe

LEMMA MarkCurrentSteps ==
    ASSUME KnowledgeInv, MarkCurrent PROVE ControlOutcome
<1>1. PICK r : r = controller.at
  OBVIOUS
<1>2. /\ controller.pc \in {"mark", "markFailed"}
      /\ controller.pc \in Holding /\ controller.pc \notin Launching
      /\ UNCHANGED <<job, workload, call, requeued, orphaned>>
      /\ Mark(r.id, r.attempt, r.status)
  BY <1>1 DEF MarkCurrent, On, past, Holding, Launching
<1>3. /\ Agrees(r) /\ r.id \in Jobs /\ r.scheduler = "cluster" /\ r.status \in Status
      /\ r.attempt \in Nat /\ r.attempt <= Len(attempts[r.id]) /\ r \in KeptRows
  BY <1>1, <1>2, HoldFacts, AgreedIsStored, PlaceFacts DEF KnowledgeInv
<1>4. RowsStep
  BY <1>2, <1>3, RowsMarked DEF KnowledgeInv, RowsInv, Histories
<1>5. CASE controller.pc = "mark"
  BY <1>2, <1>4, <1>5, LeaveSteps DEF MarkCurrent, On
<1>6. CASE controller.pc = "markFailed"
  <2>1. To("retry", r) /\ r.status = "failed"
    BY <1>1, <1>6 DEF MarkCurrent, On, KnowledgeInv, ControlInv, SoundController
  <2>2. "retry" \in Places /\ "retry" \notin Naming
    BY DEF Places, Holding, Naming
  <2> QED
    BY <1>1, <1>2, <1>3, <1>4, <2>1, <2>2, ControlReads
<1> QED
  BY <1>2, <1>5, <1>6

LEMMA RequeueSteps ==
    ASSUME KnowledgeInv, Requeue PROVE ControlOutcome
<1>1. PICK r : r = controller.at
  OBVIOUS
<1>2. /\ controller.pc = "requeue" /\ controller.pc \in Holding
      /\ UNCHANGED <<attempts, workload, call, requeued, orphaned>>
  BY DEF Requeue, On, past, Holding
<1>3. CASE MayMove(r, "queued")
  <2>1. job' = [job EXCEPT ![r.id] = Moved(r.id, "queued")] /\ To("pick", Unseen)
    BY <1>1, <1>3 DEF Requeue, Leave
  <2>2. Onward("pick", Unseen, r, "queued")
    BY <1>2, PlaceFacts DEF Onward, Places, Holding, Naming, Following
  <2> QED
    BY <1>1, <1>2, <1>3, <2>1, <2>2, ControlMoves
<1>4. CASE ~MayMove(r, "queued")
  <2>1. Raise /\ UNCHANGED job
    BY <1>1, <1>4 DEF Requeue
  <2>2. RowsStep
    BY <1>2, <2>1, StillRows DEF KnowledgeInv, RowsInv
  <2> QED
    BY <1>2, <2>1, <2>2, RaiseSteps
<1> QED
  BY <1>3, <1>4

(* The row the controller reads again when an error made it give up.               *)
LEMMA NamedFacts ==
    ASSUME KnowledgeInv, controller.pc \in Naming
    PROVE  LET row == Seen(controller.at.id, job[controller.at.id]) IN
           /\ controller.at.id \in Jobs /\ job[controller.at.id].scheduler = "cluster"
           /\ job[controller.at.id].status # "absent"
           /\ Agrees(row) /\ row.id = controller.at.id /\ row.scheduler = "cluster"
           /\ row \in KeptRows
<1>1. /\ controller.at.id \in Jobs /\ job[controller.at.id].scheduler = "cluster"
      /\ job[controller.at.id].status # "absent"
  BY DEF KnowledgeInv, ControlInv, SoundController
<1>2. Stored(controller.at.id)
  BY <1>1 DEF Stored, NoRow
<1> QED
  BY <1>1, <1>2, StoredAgrees, PlaceFacts DEF KnowledgeInv, Agrees

(* The process ends, and leaves what it held.                                      *)
LEMMA DieSteps ==
    ASSUME KnowledgeInv, UNCHANGED <<job, attempts, workload, call, requeued>>, Die
    PROVE  ControlOutcome
<1>1. /\ controller'.pc = "dead" /\ controller'.todo = {} /\ controller' \in ControllerRecords
      /\ orphaned' = orphaned \cup ({controller.at.id} \cap Jobs)
  BY ResterFacts DEF Die
<1>2. RowsStep
  BY <1>1, StillRows DEF KnowledgeInv, RowsInv
<1>3. ControlInv'
  BY <1>1 DEF ControlInv, SoundController, Holding, Naming
<1>4. ASSUME NEW j \in Jobs PROVE ControlEffect(j)
  <2>1. Watched(j) => Watched(j)'
    BY <1>1, WatchKept DEF Held
  <2> QED
    BY <2>1 DEF ControlEffect, Terminal
<1> QED
  BY <1>2, <1>3, <1>4 DEF ControlOutcome

LEMMA RefusedSteps ==
    ASSUME KnowledgeInv, Refused PROVE ControlOutcome
<1>1. /\ controller.pc = "refused" /\ controller.pc \in Naming
      /\ UNCHANGED <<job, attempts, workload, call, requeued, orphaned>>
  BY DEF Refused, On, rows, past, Naming
<1>2. RowsStep
  BY <1>1, StillRows DEF KnowledgeInv, RowsInv
<1>3. PICK row : row = Seen(controller.at.id, job[controller.at.id])
  OBVIOUS
<1>4. /\ Agrees(row) /\ row.id = controller.at.id /\ row.scheduler = "cluster"
      /\ row \in KeptRows
      /\ controller.at.id \in Jobs /\ job[controller.at.id].scheduler = "cluster"
      /\ job[controller.at.id].status # "absent"
  BY <1>1, <1>3, NamedFacts
<1>5. CASE To("block", row)
  <2>1. "block" \in Places /\ "block" \in Launching /\ "block" \notin Naming
    BY DEF Places, Holding, Naming, Launching
  <2> QED
    BY <1>1, <1>2, <1>4, <1>5, <2>1, ControlReads
<1>6. CASE Raise
  <2>1. "rescue" \in Places /\ "rescue" \in Launching /\ "rescue" \notin Holding
    BY DEF Places, Holding, Naming, Launching
  <2>2. PICK named : named = Unread(controller.at.id)
    OBVIOUS
  <2>3. named \in KeptRows /\ named.id = controller.at.id /\ To("rescue", named)
    BY <1>4, <1>6, <2>2, PlaceFacts DEF Raise
  <2> QED
    BY <1>1, <1>2, <1>4, <2>1, <2>3, ControlReads
<1> QED
  BY <1>3, <1>5, <1>6 DEF Refused

LEMMA RescueSteps ==
    ASSUME KnowledgeInv, Rescue PROVE ControlOutcome
<1>1. /\ controller.pc = "rescue" /\ controller.pc \in Naming
      /\ UNCHANGED <<job, attempts, workload, call, requeued>>
  BY DEF Rescue, On, rows, Naming
<1>2. PICK row : row = Seen(controller.at.id, job[controller.at.id])
  OBVIOUS
<1>3. /\ Agrees(row) /\ row.id = controller.at.id /\ row.scheduler = "cluster"
      /\ row \in KeptRows
  BY <1>1, <1>2, NamedFacts
<1>4. CASE To("fail", row) /\ UNCHANGED orphaned
  <2>1. RowsStep
    BY <1>1, <1>4, StillRows DEF KnowledgeInv, RowsInv
  <2>2. "fail" \in Places /\ "fail" \in Launching /\ "fail" \notin Naming
    BY DEF Places, Holding, Naming, Launching
  <2> QED
    BY <1>1, <1>3, <1>4, <2>1, <2>2, ControlReads
<1> QED
  BY <1>1, <1>2, <1>4, DieSteps DEF Rescue

LEMMA FailSteps ==
    ASSUME KnowledgeInv, Fail PROVE ControlOutcome
<1>1. /\ controller.pc = "fail" /\ controller.pc \in Holding
      /\ UNCHANGED <<attempts, workload, call, requeued>>
  BY DEF Fail, On, Holding
<1>2. CASE MayMove(controller.at, "failed")
  <2>1. MoveThenMark("failed", "mark") /\ UNCHANGED orphaned
    BY <1>2 DEF Fail, MoveThenMark
  <2>2. "failed" \in Status \ Following
    BY DEF Status, Following, Terminal
  <2> QED
    BY <1>1, <2>1, <2>2, MoveThenMarkSteps
<1>3. CASE ~MayMove(controller.at, "failed")
  BY <1>1, <1>3, DieSteps DEF Fail
<1> QED
  BY <1>2, <1>3

-----------------------------------------------------------------------------
(* The round of the controller.                                                    *)

LEMMA QuietSteps ==
    ASSUME KnowledgeInv, UNCHANGED <<job, attempts, workload, call, requeued, orphaned>>,
           controller.pc \notin Launching, ControlInv'
    PROVE  ControlOutcome
<1>1. RowsStep
  BY StillRows DEF KnowledgeInv, RowsInv
<1>2. ASSUME NEW j \in Jobs PROVE ControlEffect(j)
  <2>1. Watched(j) => Watched(j)'
    BY WatchKept
  <2> QED
    BY <2>1 DEF ControlEffect, Terminal
<1> QED
  BY <1>1, <1>2 DEF ControlOutcome

LEMMA RestSteps ==
    ASSUME KnowledgeInv, Sleep \/ Restart PROVE ControlOutcome
<1>1. /\ controller.pc \notin Launching /\ controller' = Resting
      /\ UNCHANGED <<job, attempts, workload, call, requeued, orphaned>>
  BY DEF Sleep, Restart, On, rows, past, Launching
<1>2. ControlInv'
  BY <1>1, ResterFacts DEF ControlInv, SoundController, Holding, Naming
<1> QED
  BY <1>1, <1>2, QuietSteps

LEMMA ListSteps ==
    ASSUME KnowledgeInv, ListJobs PROVE ControlOutcome
<1>1. PICK found : found = {Seen(j, job[j]) : j \in {i \in Jobs : /\ Active(i)
                                                                 /\ job[i].scheduler = "cluster"}}
  OBVIOUS
<1>2. /\ controller.pc \notin Launching
      /\ controller' = [Resting EXCEPT !.pc = "pick", !.todo = found]
      /\ UNCHANGED <<job, attempts, workload, call, requeued, orphaned>>
  BY <1>1 DEF ListJobs, On, rows, past, Launching
<1>3. \A r \in found : r \in FullRows /\ Agrees(r) /\ r.scheduler = "cluster"
  BY <1>1, StoredAgrees DEF KnowledgeInv, Active, Agrees
<1>4. /\ controller' \in ControllerRecords /\ controller'.pc = "pick"
      /\ controller'.todo = found
  <2>1. Resting.at \in KeptRows /\ "pick" \in Places /\ found \in SUBSET FullRows
    BY <1>3, PlaceFacts DEF Resting, Places
  <2> QED
    BY <1>2, <2>1 DEF Resting, ControllerRecords, Places
<1>5. \A r \in found : Agrees(r)'
  BY <1>2, <1>3 DEF Agrees
<1>6. ControlInv'
  BY <1>3, <1>4, <1>5 DEF ControlInv, SoundController, Holding, Naming
<1> QED
  BY <1>2, <1>6, QuietSteps

LEMMA PickSteps ==
    ASSUME KnowledgeInv, PickJob PROVE ControlOutcome
<1>1. /\ controller.pc = "pick" /\ controller.pc \notin Launching
      /\ UNCHANGED <<job, attempts, workload, call, requeued, orphaned>>
  BY DEF PickJob, On, rows, past, Launching
<1>2. PICK row \in controller.todo :
         \E p \in {"validate", "rescue", "rotate", "pick"}, at \in {row, Unseen} :
            /\ controller' = [controller EXCEPT !.todo = @ \ {row}, !.at = at, !.pc = p]
            /\ p # "pick" => at = row
            /\ p = "rotate" => row.binding # 0
  BY DEF PickJob
<1>3. PICK p \in {"validate", "rescue", "rotate", "pick"}, at \in {row, Unseen} :
            /\ controller' = [controller EXCEPT !.todo = @ \ {row}, !.at = at, !.pc = p]
            /\ p # "pick" => at = row
            /\ p = "rotate" => row.binding # 0
  BY <1>2
<1>4. \A r \in controller.todo : r \in FullRows /\ Agrees(r) /\ r.scheduler = "cluster"
  BY DEF KnowledgeInv, ControlInv, SoundController, ControllerRecords
<1>5. /\ controller' \in ControllerRecords
      /\ controller'.pc = p /\ controller'.at = at /\ controller'.todo \subseteq controller.todo
  <2>1. controller \in ControllerRecords /\ at \in KeptRows /\ p \in Places
    BY <1>4, PlaceFacts DEF KnowledgeInv, ControlInv, SoundController, Places, Holding, Naming
  <2> QED
    BY <1>3, <2>1 DEF ControllerRecords, Places
<1>6. \A r \in controller'.todo : Agrees(r)' /\ r.scheduler = "cluster"
  BY <1>1, <1>4, <1>5 DEF Agrees
<1>7. p # "pick" => /\ Agrees(at)' /\ at.scheduler = "cluster" /\ at.id \in Jobs
                    /\ job'[at.id].status # "absent" /\ job'[at.id].scheduler = "cluster"
  <2>1. /\ Agrees(row) /\ row.scheduler = "cluster" /\ row.id \in Jobs
        /\ job[row.id].status \in Status /\ job[row.id].scheduler = "cluster"
    BY <1>2, <1>4, AgreedIsStored DEF KnowledgeInv
  <2>2. job[row.id].status # "absent" /\ Agrees(row)'
    BY <1>1, <2>1 DEF Agrees, Status, Following, Terminal
  <2> QED
    BY <1>1, <1>3, <2>1, <2>2
<1>8. ControlInv'
  BY <1>3, <1>5, <1>6, <1>7 DEF ControlInv, SoundController, Holding, Naming
<1> QED
  BY <1>1, <1>8, QuietSteps

-----------------------------------------------------------------------------
(* Every step.                                                                     *)

LEMMA ControllerSteps ==
    ASSUME KnowledgeInv, ControllerStep \/ ControllerDies PROVE ControlOutcome
<1>1. CASE ControllerDies
  BY <1>1, DieSteps DEF ControllerDies, rows
<1> QED
  BY <1>1, ListSteps, PickSteps, ValidateSteps, ProvisionSteps, CreateAttemptSteps, SubmitSteps,
     BindSteps, RefusedSteps, BlockSteps, RotateSteps, ObserveSteps, MarkCurrentSteps,
     RetrySteps, RequeueSteps, RescueSteps, FailSteps, RestSteps
  DEF ControllerStep

LEMMA ControllerKeeps ==
    ASSUME KnowledgeInv, ControlOutcome
    PROVE  KnowledgeInv' /\ \A j \in Jobs : Watched(j) => Watched(j)'
BY NoCallSteps DEF ControlOutcome, ControlEffect, KnowledgeInv, RowsStep

LEMMA WorkloadKeeps ==
    ASSUME KnowledgeInv, WorkloadStep \/ UNCHANGED vars
    PROVE  /\ KnowledgeInv' /\ UNCHANGED job
           /\ \A j \in Jobs : Watched(j) => Watched(j)'
<1>1. UNCHANGED <<job, attempts, call, controller, requeued, orphaned>>
  BY DEF WorkloadStep, EndWorkload, vars, rows, past
<1>2. RowsStep
  <2>1. orphaned' \subseteq Jobs
    BY <1>1 DEF KnowledgeInv, RowsInv
  <2>2. CASE WorkloadStep
    <3>0. PICK j \in Jobs : \E a \in DOMAIN workload[j] : EndWorkload(j, a)
      BY <2>2 DEF WorkloadStep
    <3>1. PICK a \in DOMAIN workload[j] : EndWorkload(j, a)
      BY <3>0
    <3>2. PICK s \in WorkStates : workload' = [workload EXCEPT ![j][a] = s]
      BY <3>1 DEF EndWorkload, WorkStates
    <3>3. a \in Nat \ {0} /\ a <= Len(attempts[j])
      BY <3>1 DEF KnowledgeInv, RowsInv, RowInv
    <3> QED
      BY <1>1, <2>1, <3>2, <3>3, WorkloadSteps
  <2>3. CASE UNCHANGED vars
    BY <1>1, <2>1, <2>3, StillRows DEF vars
  <2> QED
    BY <2>2, <2>3
<1>3. ControlInv' /\ CallsInv'
  BY <1>1, <1>2, ControlStays, NoCallSteps DEF KnowledgeInv
<1>4. ASSUME NEW j \in Jobs, Watched(j) PROVE Watched(j)'
  BY <1>1, <1>4 DEF Watched, Held
<1> QED
  BY <1>1, <1>2, <1>3, <1>4 DEF KnowledgeInv, RowsStep

(* A step is one of a call, of the controller, or of neither.                      *)
LEMMA Outcomes ==
    ASSUME KnowledgeInv, [Next]_vars
    PROVE  \/ \E c \in Callers : CallOutcome(c)
           \/ ControlOutcome
           \/ WorkloadStep \/ UNCHANGED vars
BY CallSteps, ControllerSteps DEF Next

LEMMA KnowledgeKept ==
    ASSUME KnowledgeInv, [Next]_vars
    PROVE  KnowledgeInv' /\ \A j \in Jobs : Watched(j) => Watched(j)'
BY Outcomes, CallsKeep, ControllerKeeps, WorkloadKeeps

LEMMA InitialKnowledge ==
    ASSUME Init PROVE KnowledgeInv /\ WatchedInv
<1>1. ASSUME NEW j \in Jobs
      PROVE  /\ job[j] \in RowTypes /\ RowInv(j) /\ job[j].status \notin Following
             /\ attempts[j] \in Seq(Status) /\ workload[j] \in Seq(WorkStates)
  <2>1. job[j] = NoRow \/ \E s \in Schedulers : job[j] = Queued(s)
    BY <1>1 DEF Init
  <2>2. attempts[j] = <<>> /\ workload[j] = <<>>
    BY <1>1 DEF Init
  <2>3. CASE job[j] = NoRow
    BY <2>2, <2>3 DEF NoRow, RowTypes, RowInv, Status, Following, Schedulers
  <2>4. ASSUME NEW s \in Schedulers, job[j] = Queued(s)
        PROVE  /\ job[j] \in RowTypes /\ RowInv(j) /\ job[j].status \notin Following
    <3>1. job[j] = [status |-> "queued", version |-> 2, attempt |-> 0, binding |-> 0,
                    noted |-> FALSE, scheduler |-> s]
      BY <2>4 DEF Queued, Row, NoRow
    <3>2. job[j] \in RowTypes /\ job[j].status \notin Following
      BY <3>1 DEF RowTypes, Status, Following
    <3> QED
      BY <2>2, <3>1, <3>2 DEF RowInv
  <2> QED
    BY <2>1, <2>2, <2>3, <2>4
<1>2. RowsInv
  BY <1>1 DEF Init, RowsInv
<1>3. CallsInv
  <2>1. NoCall \in CallRecords
    BY DEF NoCall, NoEvent, CallRecords, Ops, Pcs
  <2> QED
    BY <2>1 DEF Init, CallsInv, SoundCall
<1>4. ControlInv
  BY ResterFacts DEF Init, ControlInv, SoundController, Holding, Naming
<1>5. WatchedInv
  BY <1>1 DEF WatchedInv, Watched
<1> QED
  BY <1>2, <1>3, <1>4, <1>5 DEF KnowledgeInv

-----------------------------------------------------------------------------
(* The theorems.                                                                   *)

(* Kept rows agree with the stored ones, and followed jobs are watched, always.    *)
THEOREM KnowledgeIsSound == Spec => [](KnowledgeInv /\ WatchedInv)
<1>1. Init => KnowledgeInv /\ WatchedInv
  BY InitialKnowledge
<1>2. KnowledgeInv /\ WatchedInv /\ [Next]_vars => (KnowledgeInv /\ WatchedInv)'
  <2> SUFFICES ASSUME KnowledgeInv, WatchedInv, [Next]_vars
               PROVE  KnowledgeInv' /\ WatchedInv'
    OBVIOUS
  <2> QED
    BY KnowledgeKept DEF WatchedInv
<1> QED
  BY <1>1, <1>2, PTL DEF Spec

(* Rows, attempts and workloads of a job keep their types and stay in step.        *)
THEOREM TypeCorrect == Spec => []TypeOK
<1>1. KnowledgeInv => TypeOK
  <2> SUFFICES ASSUME KnowledgeInv PROVE TypeOK
    OBVIOUS
  <2>1. ASSUME NEW j \in Jobs
        PROVE  /\ job[j] = NoRow \/ job[j].status \in Status
               /\ job[j].scheduler \in Schedulers
               /\ {job[j].attempt, job[j].binding} \subseteq 0 .. Len(attempts[j])
               /\ Len(workload[j]) = Len(attempts[j])
               /\ \A a \in DOMAIN attempts[j] :
                     /\ attempts[j][a] \in Status
                     /\ workload[j][a] \in
                           {"none", "running", "succeeded", "failed", "cancelled"}
    <3>1. /\ job[j] \in RowTypes /\ RowInv(j)
          /\ attempts[j] \in Seq(Status) /\ workload[j] \in Seq(WorkStates)
      BY <2>1 DEF KnowledgeInv, RowsInv
    <3>2. /\ job[j].status \in Status \cup {"absent"} /\ job[j].scheduler \in Schedulers
          /\ {job[j].attempt, job[j].binding} \subseteq Nat
      BY <3>1 DEF RowTypes
    <3>3. /\ Len(workload[j]) = Len(attempts[j]) /\ Len(attempts[j]) \in Nat
          /\ job[j].attempt <= Len(attempts[j]) /\ job[j].binding <= Len(attempts[j])
          /\ job[j].status = "absent" => job[j] = NoRow
      BY <3>1 DEF RowInv
    <3>4. \A a \in DOMAIN attempts[j] : attempts[j][a] \in Status /\ workload[j][a] \in WorkStates
      BY <3>1, <3>3
    <3> QED
      BY <3>2, <3>3, <3>4 DEF WorkStates
  <2>2. KeptRows \subseteq SeenRows /\ FullRows \cup {Unseen} \subseteq SeenRows
    BY DEF KeptRows, FullRows, SeenRows
  <2>3. ASSUME NEW c \in Callers PROVE call[c].seen \in SeenRows
    BY <2>2 DEF KnowledgeInv, CallsInv, CallRecords
  <2>4. controller.at \in SeenRows /\ controller.todo \subseteq SeenRows
    <3>1. controller \in ControllerRecords
      BY DEF KnowledgeInv, ControlInv, SoundController
    <3> QED
      BY <2>2, <3>1 DEF ControllerRecords
  <2> QED
    BY <2>1, <2>3, <2>4 DEF TypeOK, KnowledgeInv, RowsInv
<1> QED
  BY <1>1, KnowledgeIsSound, PTL

(* A cluster job set going is bound to its current attempt, unless the controller  *)
(* is at work on it or its process ended holding it.                               *)
THEOREM WatchesTheCurrentRun == Spec => []WatchesCurrent
<1>1. WatchedInv => WatchesCurrent
  BY DEF WatchedInv, Watched, WatchesCurrent
<1> QED
  BY <1>1, KnowledgeIsSound, PTL

(* transition_job and update_binding only replace the version their caller read.   *)
THEOREM OverwritesAreSeen == Spec => NoSilentOverwrite
<1>1. ASSUME KnowledgeInv, [Next]_vars, NEW j \in Jobs,
             Stored(j), job'[j].version # job[j].version
      PROVE  \E row \in ActedFrom : row.id = j /\ row.version = job[j].version
  <2>1. CASE \E c \in Callers : CallOutcome(c)
    <3>1. PICK c \in Callers : CallEffect(c, j)
      BY <2>1 DEF CallOutcome
    <3>2. /\ call[c].seen.id = j /\ call'[c] # call[c]
          /\ call[c].seen.version = job[j].version
      BY <1>1, <3>1 DEF CallEffect
    <3> QED
      BY <3>2 DEF ActedFrom
  <2>2. CASE ControlOutcome
    BY <1>1, <2>2 DEF ControlOutcome, ControlEffect, ActedFrom
  <2>3. CASE WorkloadStep \/ UNCHANGED vars
    BY <1>1, <2>3, WorkloadKeeps
  <2> QED
    BY <1>1, <2>1, <2>2, <2>3, Outcomes
<1>2. KnowledgeInv /\ [Next]_vars =>
      [\A j \in Jobs :
          Stored(j) /\ job'[j].version # job[j].version
          => \E row \in ActedFrom : row.id = j /\ row.version = job[j].version]_vars
  BY <1>1
<1> QED
  BY <1>2, KnowledgeIsSound, PTL DEF Spec, NoSilentOverwrite

(* A job that ended is queued again by a resume, or by the retry of a failure.     *)
THEOREM RequeuesAreResumes == Spec => RequeueNeedsCheckpoint
<1>1. ASSUME KnowledgeInv, [Next]_vars, NEW j \in Jobs,
             job[j].status \in Terminal, job'[j].status = "queued"
      PROVE  \/ j \in Released /\ Resumes(j)
             \/ job[j].status = "failed" /\ On("requeue") /\ Held(j)
  <2>1. Stored(j) /\ job'[j] # job[j]
    BY <1>1 DEF Stored, NoRow, Terminal
  <2>2. CASE \E c \in Callers : CallOutcome(c)
    BY <1>1, <2>1, <2>2 DEF CallOutcome, CallEffect
  <2>3. CASE ControlOutcome
    BY <1>1, <2>3 DEF ControlOutcome, ControlEffect
  <2>4. CASE WorkloadStep \/ UNCHANGED vars
    BY <1>1, <2>1, <2>4, WorkloadKeeps
  <2> QED
    BY <1>1, <2>2, <2>3, <2>4, Outcomes
<1>2. KnowledgeInv /\ [Next]_vars =>
      [\A j \in Jobs :
          job[j].status \in Terminal /\ job'[j].status = "queued"
          => \/ j \in Released /\ Resumes(j)
             \/ job[j].status = "failed" /\ On("requeue") /\ Held(j)]_vars
  BY <1>1
<1> QED
  BY <1>2, KnowledgeIsSound, PTL DEF Spec, RequeueNeedsCheckpoint

-----------------------------------------------------------------------------
(* Runs.  A claim of a notebook job and the controller at "attempt" hold a permit  *)
(* to start a run of their job.                                                    *)

AtClaim(k, j) == k.op = "claim" /\ k.pc = "attempt" /\ k.seen.id = j
Claiming(j) == {c \in Callers : AtClaim(call[c], j)}
Starting(j) == controller.pc = "attempt" /\ Held(j)

(* Statuses of a job for which no run was started yet, or none is left.            *)
Waiting == {"absent", "validating", "queued"}
Quiet   == {"attempt", "submit", "markFailed", "retry", "requeue"}
Fresh   == {"attempt", "submit"}
NotebookOnce(j) ==
    job[j].scheduler = "notebook" =>
        /\ job[j].status \in Waiting => Len(attempts[j]) = 0 /\ Claiming(j) = {}
        /\ Len(attempts[j]) <= 1
        /\ Claiming(j) # {} => Len(attempts[j]) = 0
        /\ \A c, d \in Claiming(j) : c = d
ClusterOnce(j) ==
    job[j].scheduler = "cluster" =>
        /\ Live(j) \subseteq {Len(attempts[j])}
        /\ job[j].status \in Waiting => Live(j) = {}
        /\ Held(j) /\ controller.pc \in Quiet => Live(j) = {}
        /\ Held(j) /\ controller.pc \in Fresh => job[j].status \notin Waiting
RunOnce(j) == j \notin orphaned /\ requeued[j] = 0 => NotebookOnce(j) /\ ClusterOnce(j)
AttemptIsLast(j) == job[j].attempt = Len(attempts[j])
RetryIsWithin == controller.pc = "requeue" => Len(attempts[controller.at.id]) < MaxAttempts
RunsInv == (\A j \in Jobs : AttemptIsLast(j) /\ RunOnce(j)) /\ RetryIsWithin

LEMMA ClaimsAfter ==
    ASSUME call \in [Callers -> CallRecords], NEW c \in Callers, NEW new \in CallRecords,
           call' = [call EXCEPT ![c] = new]
    PROVE  \A j : Claiming(j)' = IF AtClaim(new, j) THEN Claiming(j) \cup {c}
                                                   ELSE Claiming(j) \ {c}
<1> SUFFICES ASSUME NEW j, NEW d
             PROVE  d \in Claiming(j)' <=>
                    d \in (IF AtClaim(new, j) THEN Claiming(j) \cup {c} ELSE Claiming(j) \ {c})
  OBVIOUS
<1>1. d \in Callers => call'[d] = IF d = c THEN new ELSE call[d]
  OBVIOUS
<1>2. d \in Claiming(j)' <=> d \in Callers /\ AtClaim(call'[d], j)
  BY DEF Claiming, AtClaim
<1>3. d \in Claiming(j) <=> d \in Callers /\ AtClaim(call[d], j)
  BY DEF Claiming
<1> HIDE DEF Claiming
<1> QED
  BY <1>1, <1>2, <1>3 DEF Claiming

(* Only notebook jobs are claimed.                                                 *)
LEMMA ClaimedIsNotebook ==
    ASSUME KnowledgeInv, NEW j \in Jobs
    PROVE  /\ \A c \in Claiming(j) : c \in Callers /\ call[c].pc = "attempt"
           /\ Claiming(j) # {} => job[j].scheduler = "notebook"
           /\ IsFiniteSet(Claiming(j)) /\ Cardinality(Claiming(j)) \in Nat
<1>1. ASSUME NEW c \in Claiming(j)
      PROVE  c \in Callers /\ call[c].pc = "attempt" /\ job[j].scheduler = "notebook"
  <2>1. c \in Callers /\ call[c].pc = "attempt" /\ call[c].op = "claim" /\ call[c].seen.id = j
    BY DEF Claiming, AtClaim
  <2>2. Knows(call[c]) /\ Agrees(call[c].seen)
    BY <2>1, KnownAt
  <2> QED
    BY <2>1, <2>2, AgreedIsStored DEF Knows, KnowledgeInv
<1>2. IsFiniteSet(Callers) /\ Claiming(j) \subseteq Callers
  BY ControlAssumption DEF Claiming
<1>3. IsFiniteSet(Claiming(j))
  BY <1>2, FS_Subset
<1> QED
  BY <1>1, <1>3, FS_CardinalityType

(* What keeps a job to one run, when its row is not written in a way that matters. *)
LEMMA RunKept ==
    ASSUME NEW j \in Jobs, orphaned \subseteq orphaned',
           requeued'[j] # 0 \/ requeued'[j] = requeued[j],
           job'[j].scheduler = job[j].scheduler, job'[j].attempt = job[j].attempt,
           Len(attempts'[j]) = Len(attempts[j]),
           requeued'[j] # 0 \/ (job'[j].status \in Waiting <=> job[j].status \in Waiting)
              \/ job'[j].status \notin Waiting,
           workload'[j] = workload[j] \/ job[j].scheduler = "notebook",
           Claiming(j)' \subseteq Claiming(j),
           Held(j)' /\ controller'.pc \in Quiet =>
              \/ Held(j) /\ controller.pc \in Quiet
              \/ j \notin orphaned /\ requeued[j] = 0 => Live(j) = {},
           Held(j)' /\ controller'.pc \in Fresh => Held(j) /\ controller.pc \in Fresh,
           AttemptIsLast(j), RunOnce(j)
    PROVE  AttemptIsLast(j)' /\ RunOnce(j)'
<1>1. AttemptIsLast(j)'
  BY DEF AttemptIsLast
<1>2. SUFFICES ASSUME j \notin orphaned', requeued'[j] = 0
               PROVE  NotebookOnce(j)' /\ ClusterOnce(j)'
  BY <1>1 DEF RunOnce
<1>3. NotebookOnce(j) /\ ClusterOnce(j)
  BY <1>2 DEF RunOnce
<1>4. NotebookOnce(j)'
  BY <1>2, <1>3 DEF NotebookOnce
<1>5. ClusterOnce(j)'
  <2>1. SUFFICES ASSUME job[j].scheduler = "cluster" PROVE ClusterOnce(j)'
    BY DEF ClusterOnce
  <2>2. Live(j)' = Live(j)
    BY <2>1 DEF Live
  <2>3. j \notin orphaned /\ requeued[j] = 0
    BY <1>2
  <2> QED
    BY <1>2, <1>3, <2>1, <2>2, <2>3 DEF ClusterOnce
<1> QED
  BY <1>1, <1>4, <1>5

-----------------------------------------------------------------------------
(* Steps of the promised lifecycle.                                                *)

Kept(i) == /\ job'[i].status = job[i].status /\ Permits(i)' = Permits(i)
           /\ Len(attempts'[i]) = Len(attempts[i]) /\ requeued'[i] = requeued[i]

(* What a step may do to one job.                                                  *)
LifeEffect(j) ==
    \/ Kept(j)
    \/ /\ Lifecycle!Follows(job[j].status, job'[j].status) /\ job'[j].status \in Status
       /\ Permits(j)' = Permits(j)
       /\ Len(attempts'[j]) = Len(attempts[j]) /\ requeued'[j] = requeued[j]
    \/ /\ job[j].status = "queued" /\ job'[j].status = "provisioning"
       /\ Permits(j)' = Permits(j) + 1
       /\ Len(attempts'[j]) = Len(attempts[j]) /\ requeued'[j] = requeued[j]
    \/ /\ Permits(j) > 0 /\ Permits(j)' = Permits(j) - 1
       /\ Len(attempts'[j]) \in {Len(attempts[j]), Len(attempts[j]) + 1}
       /\ job'[j].status = job[j].status /\ requeued'[j] = requeued[j]
    \/ /\ job[j].status = "failed" /\ job'[j].status = "queued"
       /\ Len(attempts[j]) + Permits(j) < MaxAttempts /\ Permits(j)' = Permits(j)
       /\ Len(attempts'[j]) = Len(attempts[j]) /\ requeued'[j] = requeued[j]
    \/ /\ job[j].status \in {"failed", "cancelled"} /\ job'[j].status = "queued"
       /\ requeued'[j] = requeued[j] + 1
       /\ Len(attempts'[j]) = Len(attempts[j]) /\ Permits(j)' = Permits(j)
LifeStep == \/ \A i \in Jobs : Kept(i)
            \/ \E j \in Jobs : LifeEffect(j) /\ \A i \in Jobs \ {j} : Kept(i)

LEMMA LifeSteps ==
    ASSUME RowsInv, RowsInv', LifeStep
    PROVE  [Lifecycle!Next]_(Lifecycle!vars)
<1>2. PICK s, s1 : s = [i \in Jobs |-> job[i].status] /\ s1 = [i \in Jobs |-> job'[i].status]
  OBVIOUS
<1>3. PICK p, p1 : p = [i \in Jobs |-> Permits(i)] /\ p1 = [i \in Jobs |-> Permits(i)']
  OBVIOUS
<1>4. PICK t, t1 : /\ t = [i \in Jobs |-> Len(attempts[i])]
                   /\ t1 = [i \in Jobs |-> Len(attempts'[i])]
  OBVIOUS
<1>5. requeued = [i \in Jobs |-> requeued[i]] /\ requeued' = [i \in Jobs |-> requeued'[i]]
  BY DEF RowsInv
<1>8. /\ Lifecycle!vars = <<s, p, t, requeued>> /\ Lifecycle!vars' = <<s1, p1, t1, requeued'>>
  BY <1>2, <1>3, <1>4 DEF Lifecycle!vars
<1>0. CASE \A i \in Jobs : Kept(i)
  BY <1>0, <1>2, <1>3, <1>4, <1>5, <1>8 DEF Kept
<1>1. SUFFICES ASSUME NEW j \in Jobs, LifeEffect(j), \A i \in Jobs \ {j} : Kept(i)
               PROVE  [Lifecycle!Next]_(Lifecycle!vars)
  BY <1>0 DEF LifeStep
<1>6. /\ s1 = [s EXCEPT ![j] = job'[j].status]
      /\ p1 = [p EXCEPT ![j] = Permits(j)']
      /\ t1 = [t EXCEPT ![j] = Len(attempts'[j])]
      /\ requeued' = [requeued EXCEPT ![j] = requeued'[j]]
  BY <1>1, <1>2, <1>3, <1>4, <1>5 DEF Kept
<1>7. /\ s[j] = job[j].status /\ p[j] = Permits(j) /\ t[j] = Len(attempts[j])
      /\ job'[j].status = job[j].status => s1 = s
      /\ Permits(j)' = Permits(j) => p1 = p
      /\ Len(attempts'[j]) = Len(attempts[j]) => t1 = t
      /\ requeued'[j] = requeued[j] => requeued' = requeued
  BY <1>2, <1>3, <1>4, <1>5, <1>6
<1>9. job[j].status \in Status \cup {"absent"} /\ Lifecycle!Ended \cup Lifecycle!Begun \cup {"validating", "queued"} = Status
  BY DEF RowsInv, RowTypes, Lifecycle!Ended, Lifecycle!Begun, Status, Following, Terminal
<1>10. CASE Kept(j)
  BY <1>7, <1>8, <1>10 DEF Kept
<1>11. CASE /\ Lifecycle!Follows(job[j].status, job'[j].status) /\ job'[j].status \in Status
             /\ Permits(j)' = Permits(j)
             /\ Len(attempts'[j]) = Len(attempts[j]) /\ requeued'[j] = requeued[j]
  <2>1. p1 = p /\ t1 = t /\ requeued' = requeued
    BY <1>7, <1>11
  <2>2. Lifecycle!Move(j)
    BY <1>2, <1>3, <1>4, <1>6, <1>7, <1>9, <1>11, <2>1 DEF Lifecycle!Move
  <2> QED
    BY <2>2 DEF Lifecycle!Next
<1>12. CASE /\ job[j].status = "queued" /\ job'[j].status = "provisioning"
            /\ Permits(j)' = Permits(j) + 1
            /\ Len(attempts'[j]) = Len(attempts[j]) /\ requeued'[j] = requeued[j]
  <2>1. Lifecycle!Take(j)
    BY <1>2, <1>3, <1>4, <1>6, <1>7, <1>12 DEF Lifecycle!Take
  <2> QED
    BY <2>1 DEF Lifecycle!Next
<1>13. CASE /\ Permits(j) > 0 /\ Permits(j)' = Permits(j) - 1
            /\ Len(attempts'[j]) = Len(attempts[j]) + 1
            /\ job'[j].status = job[j].status /\ requeued'[j] = requeued[j]
  <2>1. Lifecycle!Try(j)
    BY <1>2, <1>3, <1>4, <1>6, <1>7, <1>13 DEF Lifecycle!Try
  <2> QED
    BY <2>1 DEF Lifecycle!Next
<1>14. CASE /\ Permits(j) > 0 /\ Permits(j)' = Permits(j) - 1
            /\ Len(attempts'[j]) = Len(attempts[j])
            /\ job'[j].status = job[j].status /\ requeued'[j] = requeued[j]
  <2>1. Lifecycle!Forget(j)
    BY <1>2, <1>3, <1>4, <1>6, <1>7, <1>14 DEF Lifecycle!Forget
  <2> QED
    BY <2>1 DEF Lifecycle!Next
<1>15. CASE /\ job[j].status = "failed" /\ job'[j].status = "queued"
            /\ Len(attempts[j]) + Permits(j) < MaxAttempts /\ Permits(j)' = Permits(j)
            /\ Len(attempts'[j]) = Len(attempts[j]) /\ requeued'[j] = requeued[j]
  <2>1. Lifecycle!Retry(j)
    BY <1>2, <1>3, <1>4, <1>6, <1>7, <1>15 DEF Lifecycle!Retry
  <2> QED
    BY <2>1 DEF Lifecycle!Next
<1>16. CASE /\ job[j].status \in {"failed", "cancelled"} /\ job'[j].status = "queued"
            /\ requeued'[j] = requeued[j] + 1
            /\ Len(attempts'[j]) = Len(attempts[j]) /\ Permits(j)' = Permits(j)
  <2>1. Lifecycle!Resume(j)
    BY <1>2, <1>3, <1>4, <1>6, <1>7, <1>16 DEF Lifecycle!Resume
  <2> QED
    BY <2>1 DEF Lifecycle!Next
<1> QED
  BY <1>1, <1>10, <1>11, <1>12, <1>13, <1>14, <1>15, <1>16 DEF LifeEffect

(* The permits of a job, after the claims and the controller's place have changed. *)
LEMMA PermitsAfter ==
    ASSUME KnowledgeInv, KnowledgeInv', NEW j \in Jobs
    PROVE  /\ Permits(j) = Cardinality(Claiming(j)) + (IF Starting(j) THEN 1 ELSE 0)
           /\ Permits(j)' = Cardinality(Claiming(j)') + (IF Starting(j)' THEN 1 ELSE 0)
           /\ Cardinality(Claiming(j)) \in Nat /\ Permits(j) \in Nat
           /\ Claiming(j)' = Claiming(j) /\ (Starting(j)' <=> Starting(j))
                 => Permits(j)' = Permits(j)
           /\ Claiming(j)' = Claiming(j) /\ Starting(j) /\ ~Starting(j)'
                 => Permits(j) > 0 /\ Permits(j)' = Permits(j) - 1
           /\ Claiming(j)' = Claiming(j) /\ ~Starting(j) /\ Starting(j)'
                 => Permits(j)' = Permits(j) + 1
           /\ \A c \in Claiming(j) :
                 Claiming(j)' = Claiming(j) \ {c} /\ (Starting(j)' <=> Starting(j))
                 => Permits(j) > 0 /\ Permits(j)' = Permits(j) - 1
           /\ \A c : /\ c \notin Claiming(j) /\ Claiming(j)' = Claiming(j) \cup {c}
                     /\ (Starting(j)' <=> Starting(j))
                 => Permits(j)' = Permits(j) + 1
<1>1. /\ IsFiniteSet(Claiming(j)) /\ Cardinality(Claiming(j)) \in Nat
  BY ClaimedIsNotebook
<1>2. /\ Permits(j) = Cardinality(Claiming(j)) + (IF Starting(j) THEN 1 ELSE 0)
      /\ Permits(j)' = Cardinality(Claiming(j)') + (IF Starting(j)' THEN 1 ELSE 0)
  BY DEF Permits, Claiming, AtClaim, At, Starting, On, Held
<1>3. \A c \in Claiming(j) : /\ Cardinality(Claiming(j) \ {c}) = Cardinality(Claiming(j)) - 1
                             /\ Cardinality(Claiming(j)) > 0
  <2> TAKE c \in Claiming(j)
  <2>1. Cardinality(Claiming(j) \ {c}) = Cardinality(Claiming(j)) - 1
    BY <1>1, FS_RemoveElement
  <2>2. Cardinality(Claiming(j)) # 0
    BY <1>1, FS_EmptySet
  <2> QED
    BY <1>1, <2>1, <2>2
<1>4. \A c : c \notin Claiming(j) =>
              Cardinality(Claiming(j) \cup {c}) = Cardinality(Claiming(j)) + 1
  BY <1>1, FS_AddElement
<1> QED
  BY <1>1, <1>2, <1>3, <1>4

(* Where the state machine of the code leads, for the promised one.                *)
LEMMA AllowedFollows ==
    \A s \in Status : \A t \in Allowed[s] :
        /\ t \in Status \ {"validating"} /\ t # "absent"
        /\ t = "provisioning" => s = "queued"
        /\ t # "provisioning" =>
              \/ Lifecycle!Follows(s, t)
              \/ t = "queued" /\ s \in {"failed", "cancelled"}
        /\ t = "queued" => s \in {"validating", "failed", "cancelled"}
        /\ t \in Waiting => t = "queued"
BY DEF Allowed, Status, Following, Terminal, Waiting, Lifecycle!Follows, Lifecycle!Begun

RunStep == RunsInv' /\ LifeStep

(* A call goes on, or ends, without a write that matters.                          *)
LEMMA CallRests ==
    ASSUME KnowledgeInv, KnowledgeInv', RunsInv, NEW c \in Callers, NEW new \in CallRecords,
           call' = [call EXCEPT ![c] = new], new.pc # "attempt",
           UNCHANGED <<job, controller, requeued, orphaned>>,
           \A j \in Jobs : /\ Len(attempts'[j]) = Len(attempts[j])
                           /\ workload'[j] = workload[j] \/ job[j].scheduler = "notebook"
    PROVE  RunStep
<1>1. \A j : Claiming(j)' = Claiming(j) \ {c}
  <2>1. call \in [Callers -> CallRecords] /\ \A j : ~AtClaim(new, j)
    BY DEF AtClaim, KnowledgeInv, CallsInv
  <2> QED
    BY <2>1, ClaimsAfter
<1>2. \A j \in Jobs : AttemptIsLast(j)' /\ RunOnce(j)'
  BY <1>1, RunKept DEF RunsInv, Held
<1>3. RetryIsWithin'
  <2>1. controller.pc = "requeue" => controller.at.id \in Jobs
    BY HoldFacts DEF Holding
  <2> QED
    BY <2>1 DEF RunsInv, RetryIsWithin
<1>4. \A j \in Jobs : Starting(j)' <=> Starting(j)
  BY DEF Starting, Held
<1>5. ASSUME NEW j \in Jobs, c \notin Claiming(j) PROVE Kept(j)
  <2>1. Claiming(j)' = Claiming(j)
    BY <1>1, <1>5
  <2> QED
    BY <1>4, <2>1, PermitsAfter DEF Kept
<1>6. ASSUME NEW j \in Jobs, c \in Claiming(j) PROVE LifeEffect(j)
  BY <1>1, <1>4, <1>6, PermitsAfter DEF LifeEffect
<1>7. \A i, j : c \in Claiming(i) /\ c \in Claiming(j) => i = j
  BY DEF Claiming, AtClaim
<1>8. LifeStep
  BY <1>5, <1>6, <1>7 DEF LifeStep
<1> QED
  BY <1>2, <1>3, <1>8 DEF RunStep, RunsInv

(* A call moves the job it has seen, other than to take it.                        *)
LEMMA CallWrites ==
    ASSUME KnowledgeInv, KnowledgeInv', RunsInv, NEW c \in Callers, NEW new \in CallRecords,
           call' = [call EXCEPT ![c] = new], new.pc # "attempt", call[c].pc # "attempt",
           NEW r, Agrees(r), NEW t, MayMove(r, t), t # "provisioning",
           job' = [job EXCEPT ![r.id] = Moved(r.id, t)],
           UNCHANGED <<attempts, workload, controller, orphaned>>,
           requeued' = IF t = "queued" /\ r.status \in Terminal
                       THEN [requeued EXCEPT ![r.id] = @ + 1] ELSE requeued
    PROVE  RunStep
<1>1. \A j : Claiming(j)' = Claiming(j)
  BY ClaimsAfter DEF AtClaim, KnowledgeInv, CallsInv, Claiming
<1>2. /\ r.id \in Jobs /\ job[r.id] \in RowTypes /\ job[r.id].status \in Status
      /\ r.status = job[r.id].status /\ requeued \in [Jobs -> Nat] /\ job \in [Jobs -> RowTypes]
  BY AgreedIsStored DEF MayMove, KnowledgeInv, RowsInv
<1>3. t \in Allowed[job[r.id].status] /\ t \in Status
  BY <1>2, AllowedFacts DEF MayMove
<1>4. /\ job'[r.id] = Moved(r.id, t) /\ job'[r.id].status = t
      /\ job'[r.id].scheduler = job[r.id].scheduler
      /\ job'[r.id].attempt = job[r.id].attempt
      /\ \A j \in Jobs \ {r.id} : job'[j] = job[j]
  BY <1>2, <1>3, MovedFacts DEF Moved
<1>5. /\ \A j \in Jobs \ {r.id} : requeued'[j] = requeued[j]
      /\ IF t = "queued" /\ r.status \in Terminal
         THEN requeued'[r.id] = requeued[r.id] + 1 /\ requeued'[r.id] # 0
         ELSE requeued'[r.id] = requeued[r.id]
  BY <1>2
<1>6. ASSUME NEW j \in Jobs \ {r.id} PROVE AttemptIsLast(j)' /\ RunOnce(j)' /\ Kept(j)
  <2>1. AttemptIsLast(j)' /\ RunOnce(j)'
    BY <1>1, <1>4, <1>5, RunKept DEF RunsInv, Held
  <2>2. Starting(j)' <=> Starting(j)
    BY DEF Starting, Held
  <2> QED
    BY <1>1, <1>4, <1>5, <2>1, <2>2, PermitsAfter DEF Kept
<1>7. t \in Waiting => t = "queued" /\ job[r.id].status \in {"validating"} \cup Terminal
  BY <1>2, <1>3, AllowedFollows DEF Terminal
<1>8. AttemptIsLast(r.id)' /\ RunOnce(r.id)'
  <2>1. \/ requeued'[r.id] # 0 \/ job'[r.id].status \notin Waiting
        \/ (job'[r.id].status \in Waiting <=> job[r.id].status \in Waiting)
    BY <1>2, <1>4, <1>5, <1>7 DEF Waiting
  <2> QED
    BY <1>1, <1>2, <1>4, <1>5, <2>1, RunKept DEF RunsInv, Held
<1>9. LifeEffect(r.id)
  <2>1. Permits(r.id)' = Permits(r.id)
    BY <1>1, <1>2, PermitsAfter DEF Starting, Held
  <2>2. CASE t = "queued" /\ r.status \in Terminal
    <3>1. job[r.id].status \in {"failed", "cancelled"}
      BY <1>2, <1>3, <2>2, AllowedFollows DEF Terminal
    <3> QED
      BY <1>4, <1>5, <2>1, <2>2, <3>1 DEF LifeEffect
  <2>3. CASE ~(t = "queued" /\ r.status \in Terminal)
    <3>1. Lifecycle!Follows(job[r.id].status, t)
      BY <1>2, <1>3, <2>3, AllowedFollows DEF Terminal
    <3> QED
      BY <1>3, <1>4, <1>5, <2>1, <2>3, <3>1 DEF LifeEffect
  <2> QED
    BY <2>2, <2>3
<1>10. RetryIsWithin'
  <2>1. controller.pc = "requeue" => controller.at.id \in Jobs
    BY HoldFacts DEF Holding
  <2> QED
    BY <2>1 DEF RunsInv, RetryIsWithin
<1> QED
  BY <1>2, <1>6, <1>8, <1>9, <1>10 DEF RunStep, RunsInv, LifeStep

(* claim_notebook_job takes the job from the queue.                                *)
LEMMA ClaimTakes ==
    ASSUME KnowledgeInv, KnowledgeInv', RunsInv, NEW c \in Callers, ClaimProvision(c)
    PROVE  RunStep
<1>1. PICK r : r = call[c].seen
  OBVIOUS
<1>2. /\ call[c].pc = "provision" /\ call[c].op = "claim" /\ "attempt" \in Pcs
      /\ UNCHANGED <<attempts, workload, controller, requeued, orphaned>>
      /\ call \in [Callers -> CallRecords]
  BY DEF ClaimProvision, At, past, Pcs, KnowledgeInv, CallsInv
<1>3. Agrees(r) /\ r.id \in Jobs /\ r.scheduler = "notebook"
  BY <1>1, <1>2, KnownAt DEF Knows
<1>4. CASE ~MayMove(r, "provisioning")
  <2>1. call' = [call EXCEPT ![c] = NoCall] /\ UNCHANGED job
    BY <1>1, <1>4 DEF ClaimProvision, Finish, Become
  <2> QED
    BY <1>2, <2>1, CallRests, NoCallFacts
<1>5. CASE MayMove(r, "provisioning")
  <2>1. /\ job' = [job EXCEPT ![r.id] = Moved(r.id, "provisioning")]
        /\ GoOn(c, "attempt", Seen(r.id, Moved(r.id, "provisioning")))
    BY <1>1, <1>5 DEF ClaimProvision
  <2>2. /\ MovedTo(r, "provisioning") /\ job[r.id].scheduler = "notebook"
        /\ job[r.id].status \in Status
    BY <1>2, <1>3, <1>5, <2>1, RowsMoved, AgreedIsStored DEF KnowledgeInv, Histories, RowsInv
  <2>3. PICK m : m = Seen(r.id, Moved(r.id, "provisioning"))
    OBVIOUS
  <2>4. m \in FullRows /\ m.id = r.id
    <3>1. m = Seen(r.id, job'[r.id])
      BY <2>2, <2>3 DEF MovedTo
    <3> QED
      BY <2>2, <3>1 DEF MovedTo, Agrees, Seen
  <2>5. PICK new \in CallRecords :
              /\ call' = [call EXCEPT ![c] = new]
              /\ new.op = "claim" /\ new.pc = "attempt" /\ new.seen = m
    BY <1>2, <2>1, <2>3, <2>4, GoOnFacts
  <2>6. job[r.id].status = "queued" /\ job'[r.id].status = "provisioning"
    BY <2>2, AllowedFollows DEF MovedTo
  <2>7. /\ \A j : c \notin Claiming(j)
        /\ \A j : j # r.id => Claiming(j)' = Claiming(j)
        /\ Claiming(r.id)' = Claiming(r.id) \cup {c}
    <3>1. \A j : AtClaim(new, j) <=> j = r.id
      BY <2>4, <2>5 DEF AtClaim
    <3>2. \A j : c \notin Claiming(j)
      BY <1>2 DEF Claiming, AtClaim
    <3>3. \A j : Claiming(j)' = IF AtClaim(new, j) THEN Claiming(j) \cup {c}
                                                  ELSE Claiming(j) \ {c}
      BY <1>2, <2>5, ClaimsAfter
    <3> QED
      BY <3>1, <3>2, <3>3
  <2>8. ASSUME NEW j \in Jobs \ {r.id} PROVE AttemptIsLast(j)' /\ RunOnce(j)' /\ Kept(j)
    <3>1. job'[j] = job[j] /\ Claiming(j)' = Claiming(j)
      BY <2>2, <2>7 DEF MovedTo
    <3>2. AttemptIsLast(j)' /\ RunOnce(j)'
      BY <1>2, <3>1, RunKept DEF RunsInv, Held
    <3> QED
      BY <1>2, <3>1, <3>2, PermitsAfter DEF Kept, Starting, Held
  <2>9. AttemptIsLast(r.id)' /\ RunOnce(r.id)'
    <3>1. /\ AttemptIsLast(r.id) /\ RunOnce(r.id) /\ UNCHANGED <<attempts, requeued, orphaned>>
          /\ job'[r.id].attempt = job[r.id].attempt /\ job'[r.id].scheduler = "notebook"
      BY <1>2, <1>3, <2>2 DEF RunsInv, MovedTo
    <3>2. RunOnce(r.id)'
      BY <2>2, <2>6, <2>7, <3>1 DEF RunOnce, NotebookOnce, ClusterOnce, Waiting
    <3> QED
      BY <3>1, <3>2 DEF AttemptIsLast
  <2>10. LifeEffect(r.id)
    BY <1>2, <1>3, <2>6, <2>7, PermitsAfter DEF LifeEffect, Starting, Held
  <2>11. RetryIsWithin'
    BY <1>2 DEF RunsInv, RetryIsWithin
  <2> QED
    BY <1>3, <2>8, <2>9, <2>10, <2>11 DEF RunStep, RunsInv, LifeStep
<1> QED
  BY <1>4, <1>5

(* claim_notebook_job starts the attempt it took the job for.                      *)
LEMMA ClaimTries ==
    ASSUME KnowledgeInv, KnowledgeInv', RunsInv, NEW c \in Callers, ClaimAttempt(c)
    PROVE  RunStep
<1>1. PICK r : r = call[c].seen
  OBVIOUS
<1>2. /\ call[c].pc = "attempt" /\ call[c].op = "claim" /\ "run" \in Pcs
      /\ UNCHANGED <<controller, requeued, orphaned>>
      /\ NewAttempt(r.id) /\ workload' = [workload EXCEPT ![r.id] = Append(@, "none")]
      /\ GoOn(c, "run", [r EXCEPT !.attempt = Len(attempts[r.id]) + 1])
      /\ call \in [Callers -> CallRecords]
  BY <1>1 DEF ClaimAttempt, At, past, Pcs, KnowledgeInv, CallsInv
<1>3. /\ Agrees(r) /\ r.id \in Jobs /\ r \in FullRows
      /\ r.scheduler = "notebook" /\ Len(attempts[r.id]) \in Nat
      /\ job[r.id].scheduler = "notebook" /\ job[r.id].status \in Status
  BY <1>1, <1>2, KnownAt, AgreedIsStored DEF Knows, KnowledgeInv
<1>4. TriedTo(r)
  BY <1>2, <1>3, RowsTried DEF KnowledgeInv, Histories, RowsInv
<1>5. \A j \in Jobs \ {r.id} : attempts'[j] = attempts[j] /\ workload'[j] = workload[j]
  BY <1>2, <1>3 DEF NewAttempt, KnowledgeInv, RowsInv
<1>6. PICK n \in Nat : n = Len(attempts[r.id]) + 1
  BY <1>3
<1>7. [r EXCEPT !.attempt = n] \in FullRows
  BY <1>3 DEF FullRows
<1>8. PICK new \in CallRecords : call' = [call EXCEPT ![c] = new] /\ new.pc = "run"
  BY <1>2, <1>6, <1>7, GoOnFacts
<1>9. /\ c \in Claiming(r.id) /\ \A j : j # r.id => c \notin Claiming(j)
      /\ \A j : Claiming(j)' = Claiming(j) \ {c}
  <2>1. c \in Claiming(r.id) /\ \A j : j # r.id => c \notin Claiming(j)
    BY <1>1, <1>2 DEF Claiming, AtClaim
  <2>2. \A j : ~AtClaim(new, j)
    BY <1>8 DEF AtClaim
  <2> QED
    BY <1>2, <1>8, <2>1, <2>2, ClaimsAfter
<1>10. ASSUME NEW j \in Jobs \ {r.id} PROVE AttemptIsLast(j)' /\ RunOnce(j)' /\ Kept(j)
  <2>1. job'[j] = job[j] /\ Claiming(j)' = Claiming(j)
    BY <1>4, <1>9 DEF TriedTo
  <2>2. AttemptIsLast(j)' /\ RunOnce(j)'
    BY <1>2, <1>5, <2>1, RunKept DEF RunsInv, Held
  <2> QED
    BY <1>2, <1>5, <2>1, <2>2, PermitsAfter DEF Kept, Starting, Held
<1>11. AttemptIsLast(r.id)' /\ RunOnce(r.id)'
  <2>1. AttemptIsLast(r.id)'
    BY <1>4 DEF TriedTo, AttemptIsLast
  <2>2. SUFFICES ASSUME r.id \notin orphaned', requeued'[r.id] = 0
                 PROVE  NotebookOnce(r.id)' /\ ClusterOnce(r.id)'
    BY <2>1 DEF RunOnce
  <2>3. NotebookOnce(r.id)
    BY <1>2, <1>3, <2>2 DEF RunsInv, RunOnce
  <2>4. /\ job[r.id].status \notin Waiting /\ Len(attempts[r.id]) = 0
        /\ \A d \in Claiming(r.id) : d = c
    BY <1>3, <1>9, <2>3 DEF NotebookOnce
  <2>5. /\ job'[r.id].status = job[r.id].status /\ job'[r.id].scheduler = "notebook"
        /\ Len(attempts'[r.id]) = 1 /\ Claiming(r.id)' = {}
    BY <1>3, <1>4, <1>9, <2>4 DEF TriedTo
  <2> QED
    BY <2>4, <2>5 DEF NotebookOnce, ClusterOnce
<1>12. LifeEffect(r.id)
  BY <1>2, <1>3, <1>4, <1>9, PermitsAfter DEF LifeEffect, Starting, Held, TriedTo
<1>13. RetryIsWithin'
  <2>1. controller.pc = "requeue" => controller.at.id \in Jobs \ {r.id}
    BY <1>3, HoldFacts DEF Holding
  <2> QED
    BY <1>2, <1>5, <2>1 DEF RunsInv, RetryIsWithin
<1> QED
  BY <1>3, <1>10, <1>11, <1>12, <1>13 DEF RunStep, RunsInv, LifeStep

(* store.create_job inserts a row nobody has run anything for.                     *)
LEMMA InsertRuns ==
    ASSUME KnowledgeInv, KnowledgeInv', RunsInv, NEW c \in Callers, Insert(c)
    PROVE  RunStep
<1>1. /\ call[c] \in CallRecords /\ call[c].op = "create" /\ call[c].pc = "insert"
      /\ UNCHANGED <<attempts, workload, controller, requeued, orphaned>>
      /\ SoundCall(call[c]) /\ RowsInv /\ call \in [Callers -> CallRecords]
  BY DEF Insert, At, KnowledgeInv, CallsInv, past
<1>2. PICK j \in Jobs, s \in Schedulers : call[c].seen = Seen(j, Row(s))
  BY <1>1, NoCallFacts DEF SoundCall, Creating, Knows
<1>3. call[c].seen.id = j /\ call[c].seen.scheduler = s
  BY <1>2 DEF Seen, Row, NoRow
<1>4. CASE Stored(j)
  <2>1. call' = [call EXCEPT ![c] = NoCall] /\ UNCHANGED job
    BY <1>3, <1>4 DEF Insert, Finish, Become
  <2> QED
    BY <1>1, <2>1, CallRests, NoCallFacts
<1>5. CASE ~Stored(j)
  <2>1. job' = [job EXCEPT ![j] = Row(s)] /\ GoOn(c, "enqueue", call[c].seen)
    BY <1>3, <1>5 DEF Insert
  <2>2. /\ job'[j] = Row(s) /\ \A i \in Jobs \ {j} : job'[i] = job[i]
    BY <1>1, <2>1 DEF RowsInv
  <2>3. call[c].seen \in FullRows /\ "enqueue" \in Pcs
    BY <1>2 DEF Seen, Row, NoRow, FullRows, Status, Pcs
  <2>4. PICK new \in CallRecords : call' = [call EXCEPT ![c] = new] /\ new.pc = "enqueue"
    BY <1>1, <2>1, <2>3, GoOnFacts
  <2>5. \A i : Claiming(i)' = Claiming(i)
    <3>1. \A i : c \notin Claiming(i) /\ ~AtClaim(new, i)
      BY <1>1, <2>4 DEF Claiming, AtClaim
    <3>2. \A i : Claiming(i)' = Claiming(i) \ {c}
      BY <1>1, <2>4, <3>1, ClaimsAfter
    <3> QED
      BY <3>1, <3>2
  <2>6. /\ job[j].status = "absent" /\ job[j].scheduler = "cluster" /\ job[j].attempt = 0
        /\ job'[j].status = "validating" /\ job'[j].attempt = 0
        /\ job'[j].scheduler \in Schedulers
        /\ Len(attempts[j]) = 0 /\ Len(workload[j]) = 0 /\ workload[j] \in Seq(WorkStates)
    <3>1. job[j] = NoRow /\ RowInv(j)
      BY <1>5 DEF Stored, KnowledgeInv, RowsInv
    <3>2. /\ job[j].status = "absent" /\ job[j].scheduler = "cluster" /\ job[j].attempt = 0
      BY <3>1 DEF NoRow
    <3>3. Row(s).status = "validating" /\ Row(s).attempt = 0 /\ Row(s).scheduler = s
      BY DEF Row, NoRow
    <3> QED
      BY <1>1, <2>2, <3>1, <3>2, <3>3 DEF RowInv, RowsInv
  <2>7. Claiming(j) = {} /\ Live(j) = {}
    BY <2>6, ClaimedIsNotebook DEF Live
  <2>8. ~(Held(j) /\ controller.pc \in Quiet)
    BY <1>5, HoldFacts DEF Quiet, Holding, Held
  <2>9. AttemptIsLast(j)' /\ RunOnce(j)'
    BY <1>1, <2>5, <2>6, <2>7, <2>8
    DEF AttemptIsLast, RunOnce, NotebookOnce, ClusterOnce, Live, Held, Quiet, Fresh
  <2>10. ASSUME NEW i \in Jobs \ {j} PROVE AttemptIsLast(i)' /\ RunOnce(i)' /\ Kept(i)
    <3>1. AttemptIsLast(i)' /\ RunOnce(i)'
      BY <1>1, <2>2, <2>5, RunKept DEF RunsInv, Held
    <3> QED
      BY <1>1, <2>2, <2>5, <3>1, PermitsAfter DEF Kept, Starting, Held
  <2>11. Permits(j)' = Permits(j)
    BY <1>1, <2>5, PermitsAfter DEF Starting, Held
  <2>12. Lifecycle!Follows(job[j].status, job'[j].status) /\ job'[j].status \in Status
    BY <2>6 DEF Lifecycle!Follows, Status
  <2>13. LifeEffect(j)
    BY <1>1, <2>11, <2>12 DEF LifeEffect
  <2>14. RetryIsWithin'
    BY <1>1 DEF RunsInv, RetryIsWithin
  <2> QED
    BY <2>9, <2>10, <2>13, <2>14 DEF RunStep, RunsInv, LifeStep
<1> QED
  BY <1>4, <1>5

LEMMA EndedRests ==
    ASSUME KnowledgeInv, KnowledgeInv', RunsInv, NEW c \in Callers, Finish(c),
           UNCHANGED <<job, attempts, workload, controller, requeued, orphaned>>
    PROVE  RunStep
BY CallRests, NoCallFacts DEF Finish, Become

LEMMA QueueRuns ==
    ASSUME KnowledgeInv, KnowledgeInv', RunsInv, NEW c \in Callers, Enqueue(c) \/ ResumeJob(c)
    PROVE  RunStep
<1>1. PICK r : r = call[c].seen
  OBVIOUS
<1>2. /\ call[c].pc \notin {"idle", "admit", "insert", "attempt"} /\ Queue(c)
  BY DEF Enqueue, ResumeJob, At
<1>3. /\ Agrees(r) /\ r.id \in Jobs /\ Finish(c)
      /\ UNCHANGED <<attempts, workload, controller, orphaned>>
  BY <1>1, <1>2, KnownAt DEF Queue
<1>4. CASE ~MayMove(r, "queued")
  BY <1>1, <1>2, <1>3, <1>4, EndedRests DEF Queue
<1>5. CASE MayMove(r, "queued")
  <2>1. /\ job' = [job EXCEPT ![r.id] = Moved(r.id, "queued")]
        /\ requeued' = [requeued EXCEPT ![r.id] =
                          @ + (IF r.status \in Terminal THEN 1 ELSE 0)]
    BY <1>1, <1>2, <1>5 DEF Queue
  <2>2. requeued' = IF r.status \in Terminal
                    THEN [requeued EXCEPT ![r.id] = @ + 1] ELSE requeued
    <3>1. requeued \in [Jobs -> Nat]
      BY DEF KnowledgeInv, RowsInv
    <3>2. requeued[r.id] + 0 = requeued[r.id]
      BY <1>3, <3>1
    <3>3. CASE r.status \in Terminal
      BY <2>1, <3>3
    <3>4. CASE r.status \notin Terminal
      BY <2>1, <3>1, <3>2, <3>4
    <3> QED
      BY <3>3, <3>4
  <2>3. call' = [call EXCEPT ![c] = NoCall]
    BY <1>3 DEF Finish, Become
  <2> QED
    BY <1>2, <1>3, <1>5, <2>1, <2>2, <2>3, NoCallFacts, CallWrites
<1> QED
  BY <1>4, <1>5

(* cancel_job, the claim's last transition, and an ingested event.                 *)
LEMMA MarkingRuns ==
    ASSUME KnowledgeInv, KnowledgeInv', RunsInv, NEW c \in Callers,
           call[c].pc \notin {"idle", "admit", "insert", "attempt"},
           NEW t \in Status \ {"queued", "provisioning"}, MayMove(call[c].seen, t),
           job' = [job EXCEPT ![call[c].seen.id] = Moved(call[c].seen.id, t)],
           UNCHANGED <<attempts, workload, controller, requeued, orphaned>>,
           NEW a \in Nat, MarkNext(c, a, t)
    PROVE  RunStep
<1>1. PICK r : r = call[c].seen
  OBVIOUS
<1>2. call \in [Callers -> CallRecords] /\ Agrees(r)
  BY <1>1, KnownAt
<1>3. PICK new \in CallRecords : call' = [call EXCEPT ![c] = new] /\ new.pc = "mark"
  <2>1. PICK m : m = [attempt |-> a, status |-> t]
    OBVIOUS
  <2>2. PICK new : new = [call[c] EXCEPT !.pc = "mark", !.mark = m]
    OBVIOUS
  <2>3. call' = [call EXCEPT ![c] = new]
    BY <2>1, <2>2 DEF MarkNext, Become
  <2>4. call[c] \in CallRecords /\ new = call'[c] /\ call'[c] \in CallRecords
    BY <1>2, <2>3 DEF KnowledgeInv, CallsInv
  <2>5. new.pc = "mark"
    BY <2>2, <2>4 DEF CallRecords
  <2> QED
    BY <2>3, <2>4, <2>5
<1> QED
  BY <1>1, <1>2, <1>3, CallWrites

LEMMA CancelRuns ==
    ASSUME KnowledgeInv, KnowledgeInv', RunsInv, NEW c \in Callers, CancelJob(c)
    PROVE  RunStep
<1>1. /\ call[c].pc = "cancel"
      /\ UNCHANGED <<attempts, workload, controller, requeued, orphaned>>
  BY DEF CancelJob, At, past
<1>2. call[c].seen.attempt \in Nat
  BY <1>1, KnownAt
<1>3. "cancelled" \in Status \ {"queued", "provisioning"}
  BY DEF Status, Terminal
<1>4. CASE MayMove(call[c].seen, "cancelled")
  BY <1>1, <1>2, <1>3, <1>4, MarkingRuns DEF CancelJob
<1> QED
  BY <1>1, <1>4, EndedRests DEF CancelJob

LEMMA ClaimRuns ==
    ASSUME KnowledgeInv, KnowledgeInv', RunsInv, NEW c \in Callers, ClaimRun(c)
    PROVE  RunStep
<1>1. /\ call[c].pc = "run"
      /\ UNCHANGED <<attempts, workload, controller, requeued, orphaned>>
  BY DEF ClaimRun, At, past
<1>2. call[c].seen.attempt \in Nat
  BY <1>1, KnownAt
<1>3. "running" \in Status \ {"queued", "provisioning"}
  BY DEF Status, Following
<1>4. CASE MayMove(call[c].seen, "running")
  BY <1>1, <1>2, <1>3, <1>4, MarkingRuns DEF ClaimRun
<1> QED
  BY <1>1, <1>4, EndedRests DEF ClaimRun

LEMMA ApplyRuns ==
    ASSUME KnowledgeInv, KnowledgeInv', RunsInv, NEW c \in Callers, ApplyEvent(c)
    PROVE  RunStep
<1>1. /\ call[c].pc = "apply"
      /\ UNCHANGED <<attempts, workload, controller, requeued, orphaned>>
  BY DEF ApplyEvent, At, past
<1>2. call[c].event.attempt \in Nat
  BY <1>1, KnownAt DEF CallRecords
<1>3. ASSUME NEW t \in Wants(call[c].event.kind, call[c].seen.status), MayMove(call[c].seen, t),
             job' = [job EXCEPT ![call[c].seen.id] = Moved(call[c].seen.id, t)],
             MarkNext(c, call[c].event.attempt, t)
      PROVE  RunStep
  <2>1. t \in Status \ {"queued", "provisioning"}
    BY <1>3 DEF Wants, Status, Terminal, Following
  <2> QED
    BY <1>1, <1>2, <1>3, <2>1, MarkingRuns
<1>4. CASE Finish(c) /\ UNCHANGED job
  BY <1>1, <1>4, EndedRests
<1> QED
  BY <1>3, <1>4 DEF ApplyEvent

(* The status of an attempt, and the start of the notebook's workload.             *)
LEMMA LensKept ==
    ASSUME RowsInv, NEW j \in Jobs, NEW a \in Nat, NEW s, Mark(j, a, s)
    PROVE  \A i \in Jobs : Len(attempts'[i]) = Len(attempts[i])
<1>1. attempts[j] \in Seq(Status) /\ attempts \in [Jobs -> Seq(Status)]
  BY DEF RowsInv
<1>2. Len([attempts[j] EXCEPT ![a] = s]) = Len(attempts[j])
  BY <1>1
<1> QED
  BY <1>1, <1>2 DEF Mark

LEMMA MarkRuns ==
    ASSUME KnowledgeInv, KnowledgeInv', RunsInv, NEW c \in Callers, MarkAttempt(c)
    PROVE  RunStep
<1>1. PICK j, a, s : j = call[c].seen.id /\ a = call[c].mark.attempt /\ s = call[c].mark.status
  OBVIOUS
<1>2. /\ call[c].pc = "mark" /\ Mark(j, a, s) /\ call' = [call EXCEPT ![c] = NoCall]
      /\ workload' = IF call[c].op = "claim" THEN [workload EXCEPT ![j][a] = "running"]
                                             ELSE workload
      /\ UNCHANGED <<job, controller, requeued, orphaned>>
  BY <1>1 DEF MarkAttempt, past, Finish, Become
<1>3. /\ Knows(call[c]) /\ j \in Jobs /\ a \in Nat /\ Agrees(call[c].seen)
  BY <1>1, <1>2, KnownAt DEF CallRecords
<1>4. \A i \in Jobs : Len(attempts'[i]) = Len(attempts[i])
  BY <1>2, <1>3, LensKept DEF KnowledgeInv
<1>5. call[c].op = "claim" => job[j].scheduler = "notebook"
  BY <1>1, <1>2, <1>3, AgreedIsStored DEF Knows, KnowledgeInv
<1>6. \A i \in Jobs : workload'[i] = workload[i] \/ job[i].scheduler = "notebook"
  <2>1. workload \in [Jobs -> Seq(WorkStates)]
    BY DEF KnowledgeInv, RowsInv
  <2> QED
    BY <1>2, <1>5, <2>1
<1> QED
  BY <1>2, <1>4, <1>6, CallRests, NoCallFacts

LEMMA CallRuns ==
    ASSUME KnowledgeInv, KnowledgeInv', RunsInv, NEW c \in Callers,
           BeginCall(c) \/ CallStep(c) \/ CallDies(c)
    PROVE  RunStep
<1>1. CASE CallDies(c)
  BY <1>1, EndedRests DEF CallDies, rows
<1>2. CASE BeginCall(c)
  <2>1. ASSUME NEW o, NEW p \in {"admit", "cancel", "resume", "provision", "apply"},
               NEW row, NEW e, Begin(c, o, p, row, e)
        PROVE  RunStep
    <3>1. PICK new : new = Begun(o, p, row, e)
      OBVIOUS
    <3>2. /\ call' = [call EXCEPT ![c] = new]
          /\ UNCHANGED <<job, attempts, workload, controller, requeued, orphaned>>
      BY <2>1, <3>1 DEF Begin, Become, rows, Begun
    <3>3. new.pc = p
      BY <3>1 DEF Begun, NoCall
    <3>4. call \in [Callers -> CallRecords] /\ call' \in [Callers -> CallRecords]
      BY DEF KnowledgeInv, CallsInv
    <3>5. new \in CallRecords
      BY <3>2, <3>4
    <3> QED
      BY <3>2, <3>3, <3>5, CallRests
  <2> QED
    BY <1>2, <2>1
    DEF BeginCall, BeginCreate, BeginCancel, BeginResume, BeginClaim, BeginIngest
<1>3. CASE Admit(c)
  <2>1. /\ call \in [Callers -> CallRecords] /\ call' \in [Callers -> CallRecords]
        /\ UNCHANGED <<job, attempts, workload, controller, requeued, orphaned>>
    BY <1>3 DEF KnowledgeInv, CallsInv, Admit, rows, past
  <2>2. CASE GoOn(c, "insert", call[c].seen)
    <3>1. PICK new : new = [call[c] EXCEPT !.pc = "insert", !.seen = call[c].seen]
      OBVIOUS
    <3>2. call' = [call EXCEPT ![c] = new] /\ new.pc = "insert"
      BY <2>1, <2>2, <3>1 DEF GoOn, Become, CallRecords
    <3>3. new \in CallRecords
      BY <2>1, <3>2
    <3> QED
      BY <2>1, <3>2, <3>3, CallRests
  <2> QED
    BY <1>3, <2>1, <2>2, EndedRests DEF Admit
<1> QED
  BY <1>1, <1>2, <1>3, InsertRuns, QueueRuns, CancelRuns, ClaimTakes, ClaimTries, ClaimRuns,
     ApplyRuns, MarkRuns DEF CallStep

-----------------------------------------------------------------------------
(* The controller.                                                                 *)

LEMMA Goes ==
    ASSUME KnowledgeInv, NEW p, NEW row, To(p, row)
    PROVE  controller'.pc = p /\ controller'.at = row
<1>1. controller \in ControllerRecords
  BY DEF KnowledgeInv, ControlInv, SoundController
<1> QED
  BY <1>1 DEF To, ControllerRecords

(* A step after which the controller is at no place that matters, or keeps to it.  *)
GoesQuietly ==
    /\ controller'.pc \notin Fresh
    /\ controller'.pc \in Quiet => /\ controller.pc \in Quiet
                                   /\ controller'.at.id = controller.at.id
LEMMA ControlRests ==
    ASSUME KnowledgeInv, KnowledgeInv', RunsInv, UNCHANGED <<job, call, workload, requeued>>,
           orphaned \subseteq orphaned',
           \A j \in Jobs : Len(attempts'[j]) = Len(attempts[j]),
           GoesQuietly, controller'.pc # "requeue"
    PROVE  RunStep
<1>1. \A j : Claiming(j)' = Claiming(j)
  BY DEF Claiming
<1>2. \A j \in Jobs : ~Starting(j)'
  BY DEF Starting, GoesQuietly, Fresh
<1>3. ASSUME NEW j \in Jobs PROVE AttemptIsLast(j)' /\ RunOnce(j)'
  <2>1. /\ Held(j)' /\ controller'.pc \in Quiet => Held(j) /\ controller.pc \in Quiet
        /\ controller'.pc \notin Fresh
    BY DEF GoesQuietly, Held
  <2> QED
    BY <1>1, <2>1, RunKept DEF RunsInv
<1>4. ASSUME NEW j \in Jobs PROVE IF Starting(j) THEN LifeEffect(j) ELSE Kept(j)
  BY <1>1, <1>2, PermitsAfter DEF LifeEffect, Kept
<1>5. \A i, j : Starting(i) /\ Starting(j) => i = j
  BY DEF Starting, Held
<1>6. LifeStep
  BY <1>4, <1>5 DEF LifeStep
<1> QED
  BY <1>3, <1>6 DEF RunStep, RunsInv, RetryIsWithin

(* The controller writes the row of the job it holds, and starts no run.           *)
LEMMA ControlTouches ==
    ASSUME KnowledgeInv, KnowledgeInv', RunsInv, NEW j \in Jobs, Held(j),
           controller.pc # "attempt", controller'.pc \notin Fresh,
           UNCHANGED <<attempts, workload, call, requeued>>, orphaned \subseteq orphaned',
           \A i \in Jobs \ {j} : job'[i] = job[i],
           job'[j].scheduler = job[j].scheduler, job'[j].attempt = job[j].attempt,
           \/ job'[j].status = job[j].status
           \/ /\ job'[j].status \in Status \ Waiting
              /\ Lifecycle!Follows(job[j].status, job'[j].status),
           controller'.pc \in Quiet =>
              /\ controller'.at.id = j
              /\ \/ controller.pc \in Quiet
                 \/ j \notin orphaned /\ requeued[j] = 0 => Live(j) = {},
           controller'.pc = "requeue" => Len(attempts[j]) < MaxAttempts
    PROVE  RunStep
<1>1. \A i : Claiming(i)' = Claiming(i)
  BY DEF Claiming
<1>2. \A i \in Jobs : ~Starting(i)' /\ ~Starting(i)
  BY DEF Starting, Fresh
<1>3. ASSUME NEW i \in Jobs \ {j} PROVE AttemptIsLast(i)' /\ RunOnce(i)' /\ Kept(i)
  <2>1. AttemptIsLast(i)' /\ RunOnce(i)'
    BY <1>1, RunKept DEF RunsInv, Held
  <2> QED
    BY <1>1, <1>2, <2>1, PermitsAfter DEF Kept
<1>4. AttemptIsLast(j)' /\ RunOnce(j)'
  BY <1>1, RunKept DEF RunsInv
<1>5. LifeEffect(j)
  BY <1>1, <1>2, PermitsAfter DEF LifeEffect, Kept
<1>6. RetryIsWithin'
  BY DEF RetryIsWithin, Quiet
<1> QED
  BY <1>3, <1>4, <1>5, <1>6 DEF RunStep, RunsInv, LifeStep

(* The controller moves the job it holds, neither from nor to the queue.           *)
LEMMA ControlMovesOn ==
    ASSUME KnowledgeInv, KnowledgeInv', RunsInv, controller.pc \in Holding \ {"attempt"},
           NEW t, MayMove(controller.at, t), t \notin {"provisioning", "queued"},
           job' = [job EXCEPT ![controller.at.id] = Moved(controller.at.id, t)],
           UNCHANGED <<attempts, workload, call, requeued, orphaned>>,
           controller'.pc \notin {"attempt", "submit", "retry", "requeue"},
           controller'.pc = "markFailed" =>
              /\ controller'.at.id = controller.at.id
              /\ controller.at.id \notin orphaned => Live(controller.at.id) = {}
                 \/ ~ClusterOnce(controller.at.id)
    PROVE  RunStep
<1>1. PICK r : r = controller.at
  OBVIOUS
<1>2. /\ Agrees(r) /\ r.id \in Jobs /\ RowsInv /\ Histories
      /\ job[r.id].scheduler = "cluster"
  BY <1>1, HoldFacts DEF KnowledgeInv, RowsInv, Histories
<1>3. MovedTo(r, t)
  BY <1>1, <1>2, RowsMoved
<1>4. /\ job[r.id].status \in Status /\ t \in Status \ Waiting
      /\ Lifecycle!Follows(job[r.id].status, t)
  <2>1. /\ job[r.id].status \in Status /\ t \in Allowed[job[r.id].status]
    BY <1>2, <1>3, AgreedIsStored DEF MovedTo
  <2> QED
    BY <2>1, AllowedFollows
<1>5. r.id \notin orphaned /\ requeued[r.id] = 0 => ClusterOnce(r.id)
  BY <1>2 DEF RunsInv, RunOnce
<1>6. Held(r.id)
  BY <1>1 DEF Held
<1> QED
  BY <1>1, <1>2, <1>3, <1>4, <1>5, <1>6, ControlTouches DEF MovedTo, Quiet, Fresh

(* From wherever it is, the controller gives up, reads, or rests.                  *)
LEMMA GivesUp ==
    ASSUME KnowledgeInv, KnowledgeInv', RunsInv, UNCHANGED <<job, call, workload, requeued>>,
           orphaned \subseteq orphaned',
           \A j \in Jobs : Len(attempts'[j]) = Len(attempts[j]),
           NEW p \in Places \ Quiet, NEW row, To(p, row)
    PROVE  RunStep
<1>1. controller'.pc \notin Quiet
  BY Goes
<1> QED
  BY <1>1, ControlRests DEF GoesQuietly, Quiet, Fresh

LEMMA Resigns ==
    ASSUME KnowledgeInv, KnowledgeInv', RunsInv,
           UNCHANGED <<rows, call, workload, requeued, orphaned>>, Raise \/ Refuse \/ Leave
    PROVE  RunStep
BY GivesUp DEF Raise, Refuse, Leave, rows, Places, Naming, Quiet

LEMMA Dies ==
    ASSUME KnowledgeInv, KnowledgeInv', RunsInv, UNCHANGED <<rows, call, workload, requeued>>, Die
    PROVE  RunStep
<1>1. controller'.pc = "dead" /\ orphaned \subseteq orphaned'
  BY DEF Die, Resting
<1> QED
  BY <1>1, ControlRests DEF GoesQuietly, Fresh, Quiet, rows

LEMMA ReadingRuns ==
    ASSUME KnowledgeInv, KnowledgeInv', RunsInv,
           \/ ListJobs \/ PickJob \/ Validate \/ Refused \/ Rescue \/ Sleep \/ Restart
           \/ ControllerDies
    PROVE  RunStep
<1>0. controller \in ControllerRecords
  BY DEF KnowledgeInv, ControlInv, SoundController
<1>1. CASE ListJobs \/ PickJob \/ Sleep \/ Restart
  <2>1. controller'.pc \notin Quiet
    <3>0. CASE ListJobs
      <4>1. \E todo : controller' = [Resting EXCEPT !.pc = "pick", !.todo = todo]
        BY <3>0, Zenon DEF ListJobs
      <4> QED
        BY <4>1 DEF Resting, Quiet
    <3>1. CASE Sleep \/ Restart
      BY <3>1 DEF Sleep, Restart, Resting, Quiet
    <3>2. CASE PickJob
      <4>1. PICK row \in controller.todo :
              LET followed == row.status \in Following /\ row.binding # 0 IN
              controller' = [controller EXCEPT
                  !.todo = @ \ {row},
                  !.at = IF row.status = "queued" \/ followed THEN row ELSE Unseen,
                  !.pc = CASE row.status = "queued" -> "validate"
                           [] followed -> IF row.noted THEN "rescue" ELSE "rotate"
                           [] OTHER -> "pick"]
        BY <3>2 DEF PickJob
      <4>2. PICK t, w, p :
              LET followed == row.status \in Following /\ row.binding # 0 IN
              /\ t = controller.todo \ {row}
              /\ w = IF row.status = "queued" \/ followed THEN row ELSE Unseen
              /\ p = CASE row.status = "queued" -> "validate"
                       [] followed -> IF row.noted THEN "rescue" ELSE "rotate"
                       [] OTHER -> "pick"
        OBVIOUS
      <4>3. p \in {"validate", "rescue", "rotate", "pick"}
        BY <4>2
      <4>4. controller' = [controller EXCEPT !.todo = t, !.at = w, !.pc = p]
        BY <4>1, <4>2
      <4> QED
        BY <1>0, <4>3, <4>4 DEF Quiet, ControllerRecords
    <3> QED
      BY <1>1, <3>0, <3>1, <3>2
  <2> QED
    BY <1>1, <2>1, ControlRests
    DEF ListJobs, PickJob, Sleep, Restart, GoesQuietly, Fresh, Quiet, rows, past
<1>2. CASE Validate \/ Refused
  BY <1>2, GivesUp, Resigns DEF Validate, Refused, rows, past, Places, Holding, Quiet
<1>3. CASE Rescue
  BY <1>3, GivesUp, Dies DEF Rescue, rows, Places, Holding, Quiet
<1>4. CASE ControllerDies
  BY <1>4, Dies DEF ControllerDies, rows
<1> QED
  BY <1>1, <1>2, <1>3, <1>4

(* The controller takes a job from the queue.                                      *)
LEMMA ProvisionRuns ==
    ASSUME KnowledgeInv, KnowledgeInv', RunsInv, Provision
    PROVE  RunStep
<1>1. PICK r : r = controller.at
  OBVIOUS
<1>2. controller.pc = "provision" /\ UNCHANGED <<attempts, workload, call, requeued, orphaned>>
  BY DEF Provision, On, past
<1>3. CASE ~MayMove(r, "provisioning")
  BY <1>1, <1>2, <1>3, Resigns DEF Provision, rows
<1>4. CASE MayMove(r, "provisioning")
  <2>1. /\ job' = [job EXCEPT ![r.id] = Moved(r.id, "provisioning")]
        /\ controller'.pc = "attempt" /\ controller'.at.id = r.id
    BY <1>1, <1>4, Goes DEF Provision, Seen
  <2>2. /\ Agrees(r) /\ r.id \in Jobs /\ RowsInv /\ Histories /\ Held(r.id)
        /\ job[r.id].scheduler = "cluster" /\ job[r.id].status \in Status
    BY <1>1, <1>2, HoldFacts DEF KnowledgeInv, RowsInv, Histories, Holding, Held
  <2>3. MovedTo(r, "provisioning")
    BY <1>2, <1>4, <2>1, <2>2, RowsMoved
  <2>4. job[r.id].status = "queued" /\ job'[r.id].status = "provisioning"
    BY <2>2, <2>3, AllowedFollows DEF MovedTo
  <2>5. \A i : Claiming(i)' = Claiming(i)
    BY <1>2 DEF Claiming
  <2>6. \A i : /\ ~Starting(i) /\ (Starting(i)' <=> i = r.id)
               /\ (Held(i)' <=> i = r.id)
    BY <1>2, <2>1 DEF Starting, Held
  <2>7. ASSUME NEW i \in Jobs \ {r.id} PROVE AttemptIsLast(i)' /\ RunOnce(i)' /\ Kept(i)
    <3>1. /\ ~Starting(i) /\ ~Starting(i)' /\ ~Held(i)' /\ job'[i] = job[i]
          /\ Claiming(i)' = Claiming(i)
      <4>1. job'[i] = job[i]
        BY <2>3 DEF MovedTo
      <4>2. i # r.id
        OBVIOUS
      <4> QED
        BY <2>5, <2>6, <4>1, <4>2
    <3>2. AttemptIsLast(i)' /\ RunOnce(i)'
      BY <1>2, <3>1, RunKept DEF RunsInv
    <3> QED
      BY <1>2, <3>1, <3>2, PermitsAfter DEF Kept
  <2>8. AttemptIsLast(r.id)' /\ RunOnce(r.id)'
    <3>1. /\ AttemptIsLast(r.id) /\ RunOnce(r.id)
          /\ job'[r.id].attempt = job[r.id].attempt /\ job'[r.id].scheduler = "cluster"
      BY <2>2, <2>3 DEF RunsInv, MovedTo
    <3>2. Live(r.id)' = Live(r.id)
      BY <1>2 DEF Live
    <3>3. RunOnce(r.id)'
      BY <1>2, <2>2, <2>4, <3>1, <3>2 DEF RunOnce, NotebookOnce, ClusterOnce, Waiting
    <3> QED
      BY <1>2, <3>1, <3>3 DEF AttemptIsLast
  <2>9. LifeEffect(r.id)
    BY <1>2, <2>2, <2>4, <2>5, <2>6, PermitsAfter DEF LifeEffect
  <2> QED
    BY <2>1, <2>2, <2>7, <2>8, <2>9 DEF RunStep, RunsInv, LifeStep, RetryIsWithin
<1> QED
  BY <1>3, <1>4

(* The controller creates the attempt.                                             *)
LEMMA CreateRuns ==
    ASSUME KnowledgeInv, KnowledgeInv', RunsInv, CreateAttempt
    PROVE  RunStep
<1>1. PICK r : r = controller.at
  OBVIOUS
<1>2. /\ controller.pc = "attempt" /\ UNCHANGED <<call, requeued, orphaned>>
      /\ NewAttempt(r.id) /\ workload' = [workload EXCEPT ![r.id] = Append(@, "none")]
      /\ To("submit", [r EXCEPT !.attempt = Len(attempts[r.id]) + 1])
  BY <1>1 DEF CreateAttempt, On, past
<1>3. /\ Agrees(r) /\ r.id \in Jobs /\ r \in FullRows /\ RowsInv /\ Histories /\ Held(r.id)
      /\ job[r.id].scheduler = "cluster" /\ job[r.id].status \in Status
      /\ job \in [Jobs -> RowTypes] /\ workload \in [Jobs -> Seq(WorkStates)]
      /\ attempts \in [Jobs -> Seq(Status)] /\ Len(workload[r.id]) = Len(attempts[r.id])
  BY <1>1, <1>2, HoldFacts DEF KnowledgeInv, RowsInv, RowInv, Histories, Holding, Held
<1>4. TriedTo(r)
  BY <1>2, <1>3, RowsTried
<1>5. \A j \in Jobs \ {r.id} : attempts'[j] = attempts[j] /\ workload'[j] = workload[j]
  BY <1>2, <1>3 DEF NewAttempt
<1>6. controller'.pc = "submit" /\ controller'.at.id = r.id
  BY <1>2, <1>3, Goes DEF FullRows
<1>7. \A i : Claiming(i)' = Claiming(i)
  BY <1>2 DEF Claiming
<1>8. \A i : /\ ~Starting(i)' /\ (Starting(i) <=> i = r.id)
             /\ (Held(i)' <=> i = r.id) /\ (Held(i) <=> i = r.id)
  BY <1>1, <1>2, <1>6 DEF Starting, Held
<1>9. ASSUME NEW i \in Jobs \ {r.id} PROVE AttemptIsLast(i)' /\ RunOnce(i)' /\ Kept(i)
  <2>1. AttemptIsLast(i)' /\ RunOnce(i)'
    BY <1>2, <1>4, <1>5, <1>7, <1>8, RunKept DEF RunsInv, TriedTo
  <2> QED
    BY <1>2, <1>4, <1>5, <1>7, <1>8, <2>1, PermitsAfter DEF Kept, TriedTo
<1>10. AttemptIsLast(r.id)' /\ RunOnce(r.id)'
  <2>1. AttemptIsLast(r.id)'
    BY <1>4 DEF TriedTo, AttemptIsLast
  <2>2. SUFFICES ASSUME r.id \notin orphaned', requeued'[r.id] = 0
                 PROVE  NotebookOnce(r.id)' /\ ClusterOnce(r.id)'
    BY <2>1 DEF RunOnce
  <2>3. ClusterOnce(r.id)
    BY <1>2, <1>3, <2>2 DEF RunsInv, RunOnce
  <2>4. Live(r.id) = {} /\ job[r.id].status \notin Waiting
    BY <1>2, <1>3, <2>3 DEF ClusterOnce, Quiet, Fresh
  <2>5. Live(r.id)' = {}
    <3>1. workload'[r.id] = Append(workload[r.id], "none") /\ workload[r.id] \in Seq(WorkStates)
      BY <1>2, <1>3
    <3> QED
      BY <2>4, <3>1 DEF Live
  <2>6. job'[r.id].status = job[r.id].status /\ job'[r.id].scheduler = "cluster"
    BY <1>3, <1>4 DEF TriedTo
  <2> QED
    BY <2>4, <2>5, <2>6 DEF NotebookOnce, ClusterOnce
<1>11. LifeEffect(r.id)
  BY <1>2, <1>3, <1>4, <1>7, <1>8, PermitsAfter DEF LifeEffect, TriedTo
<1> QED
  BY <1>3, <1>6, <1>9, <1>10, <1>11 DEF RunStep, RunsInv, LifeStep, RetryIsWithin

(* The controller submits the attempt it created, the last of its job.             *)
LEMMA SubmitRuns ==
    ASSUME KnowledgeInv, KnowledgeInv', RunsInv, Submit
    PROVE  RunStep
<1>1. PICK r : r = controller.at
  OBVIOUS
<1>2. /\ controller.pc = "submit" /\ UNCHANGED <<job, attempts, call, requeued, orphaned>>
      /\ workload' \in {workload, [workload EXCEPT ![r.id][r.attempt] = "running"]}
  BY <1>1 DEF Submit, On, past, rows
<1>3. controller'.pc \notin Quiet
  BY Goes DEF Submit, Raise, Refuse, Quiet
<1>4. /\ r.id \in Jobs /\ Held(r.id) /\ job[r.id].scheduler = "cluster"
      /\ job[r.id].status \in Status
      /\ r.attempt # 0 /\ r.attempt = job[r.id].attempt
      /\ workload[r.id] \in Seq(WorkStates) /\ workload \in [Jobs -> Seq(WorkStates)]
      /\ Len(workload[r.id]) = Len(attempts[r.id]) /\ Len(attempts[r.id]) \in Nat
  BY <1>1, <1>2, HoldFacts DEF KnowledgeInv, RowsInv, RowInv, Holding, Held,
     ControlInv, SoundController
<1>5. r.attempt = Len(attempts[r.id])
  BY <1>4 DEF RunsInv, AttemptIsLast
<1>6. CASE workload' = workload
  BY <1>2, <1>3, <1>6, ControlRests DEF GoesQuietly, Fresh, Quiet
<1>7. CASE workload' = [workload EXCEPT ![r.id][r.attempt] = "running"]
  <2>1. /\ \A i \in Jobs \ {r.id} : workload'[i] = workload[i]
        /\ workload'[r.id] = [workload[r.id] EXCEPT ![r.attempt] = "running"]
    BY <1>4, <1>7
  <2>2. \A i : Claiming(i)' = Claiming(i)
    BY <1>2 DEF Claiming
  <2>3. \A i : ~Starting(i)' /\ ~Starting(i)
    BY <1>2, <1>3 DEF Starting, Quiet
  <2>4. \A i \in Jobs : Kept(i)
    BY <1>2, <2>2, <2>3, PermitsAfter DEF Kept
  <2>5. ASSUME NEW i \in Jobs \ {r.id} PROVE AttemptIsLast(i)' /\ RunOnce(i)'
    BY <1>2, <1>3, <2>1, <2>2, RunKept DEF RunsInv, Quiet, Fresh
  <2>6. AttemptIsLast(r.id)' /\ RunOnce(r.id)'
    <3>1. AttemptIsLast(r.id)'
      BY <1>2, <1>4 DEF RunsInv, AttemptIsLast
    <3>2. SUFFICES ASSUME r.id \notin orphaned', requeued'[r.id] = 0
                   PROVE  NotebookOnce(r.id)' /\ ClusterOnce(r.id)'
      BY <3>1 DEF RunOnce
    <3>3. ClusterOnce(r.id)
      BY <1>2, <1>4, <3>2 DEF RunsInv, RunOnce
    <3>4. Live(r.id) = {} /\ job[r.id].status \notin Waiting
      BY <1>2, <1>4, <3>3 DEF ClusterOnce, Quiet, Fresh
    <3>5. Live(r.id)' \subseteq {Len(attempts[r.id])}
      BY <1>4, <1>5, <2>1, <3>4 DEF Live
    <3> QED
      BY <1>2, <1>3, <1>4, <3>4, <3>5 DEF NotebookOnce, ClusterOnce, Quiet, Fresh
  <2> QED
    BY <1>3, <2>4, <2>5, <2>6 DEF RunStep, RunsInv, LifeStep, RetryIsWithin, Quiet
<1> QED
  BY <1>2, <1>6, <1>7

(* The controller binds the job, or renews its credentials.                        *)
LEMMA BindingRuns ==
    ASSUME KnowledgeInv, KnowledgeInv', RunsInv, controller.pc \in {"bind", "rotate"},
           MayBind(controller.at), NEW a \in Nat, a <= Len(attempts[controller.at.id]),
           job' = [job EXCEPT ![controller.at.id] = Bound(controller.at.id, a)],
           UNCHANGED <<attempts, workload, call, requeued, orphaned>>,
           controller'.pc \notin Quiet
    PROVE  RunStep
<1>1. PICK r : r = controller.at
  OBVIOUS
<1>2. /\ Agrees(r) /\ r.id \in Jobs /\ RowsInv /\ Histories /\ Held(r.id)
  BY <1>1, HoldFacts DEF KnowledgeInv, RowsInv, Histories, Holding, Held
<1>3. BoundTo(r, a)
  BY <1>1, <1>2, RowsBound
<1> QED
  BY <1>2, <1>3, ControlTouches DEF BoundTo, Quiet, Fresh

LEMMA BindRuns ==
    ASSUME KnowledgeInv, KnowledgeInv', RunsInv, Bind \/ Rotate
    PROVE  RunStep
<1>1. /\ controller.pc \in {"bind", "rotate"}
      /\ UNCHANGED <<attempts, workload, call, requeued, orphaned>>
  BY DEF Bind, Rotate, On, past
<1>2. /\ controller.at.attempt \in Nat
      /\ controller.at.attempt <= Len(attempts[controller.at.id])
      /\ controller.at.binding \in Nat
      /\ controller.at.binding <= Len(attempts[controller.at.id])
  BY <1>1, HoldFacts DEF Holding
<1>3. CASE Bind
  <2>1. CASE MayBind(controller.at)
    <3>1. controller'.pc \notin Quiet
      BY <1>3, <2>1, Goes DEF Bind, Leave, Quiet
    <3> QED
      BY <1>1, <1>2, <1>3, <2>1, <3>1, BindingRuns DEF Bind
  <2> QED
    BY <1>1, <1>3, <2>1, Resigns DEF Bind, rows
<1>4. CASE Rotate
  <2>1. CASE /\ MayBind(controller.at)
             /\ job' = [job EXCEPT ![controller.at.id] =
                            Bound(controller.at.id, controller.at.binding)]
             /\ To("observe", Seen(controller.at.id,
                                   Bound(controller.at.id, controller.at.binding)))
    <3>1. controller'.pc \notin Quiet
      BY <2>1, Goes DEF Quiet
    <3> QED
      BY <1>1, <1>2, <2>1, <3>1, BindingRuns
  <2>2. CASE Raise /\ UNCHANGED job
    BY <1>1, <2>2, Resigns DEF rows
  <2>3. CASE To("observe", controller.at) /\ UNCHANGED job
    BY <1>1, <2>3, GivesUp DEF Places, Holding, Quiet
  <2> QED
    BY <1>4, <2>1, <2>2, <2>3 DEF Rotate
<1> QED
  BY <1>3, <1>4

(* The controller blocks a job, or fails it.                                       *)
LEMMA EndingRuns ==
    ASSUME KnowledgeInv, KnowledgeInv', RunsInv, Block \/ Fail
    PROVE  RunStep
<1>1. /\ controller.pc \in {"block", "fail"}
      /\ UNCHANGED <<attempts, workload, call, requeued>>
  BY DEF Block, Fail, On, past
<1>2. CASE \E t \in {"blocked", "failed"} :
              /\ MayMove(controller.at, t)
              /\ job' = [job EXCEPT ![controller.at.id] = Moved(controller.at.id, t)]
              /\ To("mark", Seen(controller.at.id, Moved(controller.at.id, t)))
              /\ UNCHANGED orphaned
  <2>1. controller'.pc = "mark"
    BY <1>2, Goes
  <2> QED
    BY <1>1, <1>2, <2>1, ControlMovesOn DEF Holding
<1>3. CASE UNCHANGED job /\ (Die \/ (Raise /\ UNCHANGED orphaned))
  BY <1>1, <1>3, Dies, Resigns DEF rows
<1> QED
  BY <1>1, <1>2, <1>3 DEF Block, Fail, MoveThenMark, past

(* A failure that the scheduler reports is of the job's last run: it is watched.   *)
LEMMA FailureIsLast ==
    ASSUME KnowledgeInv, WatchedInv, RunsInv, controller.pc = "observe",
           MayMove(controller.at, "failed"), controller.at.id \notin orphaned,
           workload[controller.at.id][controller.at.binding] = "failed",
           ClusterOnce(controller.at.id)
    PROVE  Live(controller.at.id) = {}
<1>1. PICK r : r = controller.at
  OBVIOUS
<1>2. /\ Agrees(r) /\ r.id \in Jobs /\ job[r.id].scheduler = "cluster"
      /\ job[r.id].status \in Status
      /\ r.status = job[r.id].status /\ r.binding = job[r.id].binding
  BY <1>1, HoldFacts, AgreedIsStored DEF KnowledgeInv, Holding, MayMove
<1>3. job[r.id].status \in Following
  <2>1. "failed" \in Allowed[job[r.id].status]
    BY <1>1, <1>2 DEF MayMove
  <2> QED
    BY <1>2, <2>1 DEF Allowed, Status, Following, Terminal
<1>4. job[r.id].binding = job[r.id].attempt /\ job[r.id].attempt # 0
  BY <1>1, <1>2, <1>3 DEF WatchedInv, Watched, Launching
<1>5. job[r.id].attempt = Len(attempts[r.id])
  BY <1>2 DEF RunsInv, AttemptIsLast
<1>6. Live(r.id) \subseteq {Len(attempts[r.id])}
  BY <1>1, <1>2 DEF ClusterOnce
<1> QED
  BY <1>1, <1>2, <1>4, <1>5, <1>6 DEF Live

LEMMA ObserveRuns ==
    ASSUME KnowledgeInv, KnowledgeInv', WatchedInv, RunsInv, Observe
    PROVE  RunStep
<1>1. PICK r, told : r = controller.at /\ told = workload[r.id][r.binding]
  OBVIOUS
<1>2. /\ controller.pc = "observe"
      /\ UNCHANGED <<attempts, workload, call, requeued, orphaned>>
  BY DEF Observe, On, past
<1>3. told \in WorkStates
  <2>1. /\ r.id \in Jobs /\ r.binding \in 0 .. Len(attempts[r.id]) /\ r.binding # 0
        /\ workload[r.id] \in Seq(WorkStates) /\ Len(workload[r.id]) = Len(attempts[r.id])
    BY <1>1, <1>2, HoldFacts
    DEF Holding, KnowledgeInv, ControlInv, SoundController, RowsInv, RowInv
  <2> QED
    BY <1>1, <2>1
<1>4. CASE UNCHANGED job /\ (Raise \/ Leave)
  BY <1>2, <1>4, Resigns DEF rows
<1>5. ASSUME NEW p \in {"markFailed", "mark"}, (p = "markFailed") <=> (told = "failed"),
             MayMove(r, told), job' = [job EXCEPT ![r.id] = Moved(r.id, told)],
             To(p, Seen(r.id, Moved(r.id, told)))
      PROVE  RunStep
  <2>1. controller'.pc = p /\ controller'.at.id = r.id
    BY <1>5, Goes DEF Seen
  <2>2. p = "markFailed" /\ r.id \notin orphaned => Live(r.id) = {} \/ ~ClusterOnce(r.id)
    BY <1>1, <1>2, <1>5, FailureIsLast
  <2>3. told \notin {"provisioning", "queued"}
    BY <1>3 DEF WorkStates
  <2> QED
    BY <1>1, <1>2, <1>5, <2>1, <2>2, <2>3, ControlMovesOn DEF Holding
<1>6. \/ UNCHANGED job /\ (Raise \/ Leave)
      \/ \E p \in {"markFailed", "mark"} :
            /\ (p = "markFailed") <=> (told = "failed")
            /\ MayMove(r, told) /\ job' = [job EXCEPT ![r.id] = Moved(r.id, told)]
            /\ To(p, Seen(r.id, Moved(r.id, told)))
  BY <1>1 DEF Observe, MoveThenMark
<1> QED
  BY <1>4, <1>5, <1>6

LEMMA MarkingCurrentRuns ==
    ASSUME KnowledgeInv, KnowledgeInv', RunsInv, MarkCurrent
    PROVE  RunStep
<1>1. /\ controller.pc \in {"mark", "markFailed"}
      /\ UNCHANGED <<job, workload, call, requeued, orphaned>>
      /\ Mark(controller.at.id, controller.at.attempt, controller.at.status)
  BY DEF MarkCurrent, On, past
<1>2. \A j \in Jobs : Len(attempts'[j]) = Len(attempts[j])
  BY <1>1, HoldFacts, LensKept DEF Holding, KnowledgeInv, FullRows
<1>3. CASE Leave
  BY <1>1, <1>2, <1>3, GivesUp DEF Leave, Places, Quiet
<1>4. CASE controller.pc = "markFailed" /\ To("retry", controller.at)
  BY <1>1, <1>2, <1>4, Goes, ControlRests DEF GoesQuietly, Fresh, Quiet
<1> QED
  BY <1>1, <1>3, <1>4 DEF MarkCurrent, On

(* The automatic retry, while attempts are left.                                   *)
LEMMA RetryRuns ==
    ASSUME KnowledgeInv, KnowledgeInv', RunsInv, Retry
    PROVE  RunStep
<1>1. PICK r : r = controller.at
  OBVIOUS
<1>2. /\ controller.pc = "retry"
      /\ UNCHANGED <<attempts, workload, call, requeued, orphaned>>
  BY DEF Retry, On, past
<1>3. /\ Agrees(r) /\ r.id \in Jobs /\ RowsInv /\ Histories /\ Held(r.id)
      /\ Len(attempts[r.id]) \in Nat
  BY <1>1, <1>2, HoldFacts DEF KnowledgeInv, RowsInv, Histories, Holding, Held
<1>4. CASE UNCHANGED job /\ (Raise \/ Leave)
  BY <1>2, <1>4, Resigns DEF rows
<1>5. CASE /\ Len(attempts[r.id]) < MaxAttempts /\ MayBind(r)
           /\ job' = [job EXCEPT ![r.id] = Noted(r.id)]
           /\ To("requeue", Seen(r.id, Noted(r.id)))
  <2>1. NotedTo(r)
    BY <1>2, <1>3, <1>5, RowsNoted
  <2>2. controller'.pc = "requeue" /\ controller'.at.id = r.id
    BY <1>5, Goes DEF Seen
  <2> QED
    BY <1>2, <1>3, <1>5, <2>1, <2>2, ControlTouches DEF NotedTo, Quiet, Fresh
<1> QED
  BY <1>1, <1>3, <1>4, <1>5, ControlAssumption DEF Retry

LEMMA RequeueRuns ==
    ASSUME KnowledgeInv, KnowledgeInv', RunsInv, Requeue
    PROVE  RunStep
<1>1. PICK r : r = controller.at
  OBVIOUS
<1>2. /\ controller.pc = "requeue"
      /\ UNCHANGED <<attempts, workload, call, requeued, orphaned>>
  BY DEF Requeue, On, past
<1>3. CASE UNCHANGED job /\ Raise
  BY <1>2, <1>3, Resigns DEF rows
<1>4. CASE /\ MayMove(r, "queued") /\ job' = [job EXCEPT ![r.id] = Moved(r.id, "queued")]
           /\ Leave
  <2>1. /\ Agrees(r) /\ r.id \in Jobs /\ RowsInv /\ Histories /\ Held(r.id)
        /\ job[r.id].scheduler = "cluster" /\ job[r.id].status \in Status
        /\ Len(attempts[r.id]) \in Nat /\ r.status = "failed"
    BY <1>1, <1>2, HoldFacts
    DEF KnowledgeInv, RowsInv, Histories, Holding, Held, ControlInv, SoundController
  <2>2. MovedTo(r, "queued")
    BY <1>2, <1>4, <2>1, RowsMoved
  <2>3. /\ job[r.id].status = "failed" /\ job'[r.id].status = "queued"
        /\ job'[r.id].attempt = job[r.id].attempt /\ job'[r.id].scheduler = "cluster"
        /\ \A i \in Jobs \ {r.id} : job'[i] = job[i]
    BY <2>1, <2>2 DEF MovedTo
  <2>4. controller'.pc = "pick"
    BY <1>4, Goes DEF Leave
  <2>5. /\ \A i : Claiming(i)' = Claiming(i)
        /\ \A i : ~Starting(i) /\ ~Starting(i)'
    BY <1>2, <2>4 DEF Claiming, Starting
  <2>6. ASSUME NEW i \in Jobs \ {r.id} PROVE AttemptIsLast(i)' /\ RunOnce(i)' /\ Kept(i)
    <3>1. job'[i] = job[i] /\ Claiming(i)' = Claiming(i) /\ ~Starting(i) /\ ~Starting(i)'
      BY <2>3, <2>5
    <3>2. AttemptIsLast(i)' /\ RunOnce(i)'
      BY <1>2, <2>4, <3>1, RunKept DEF RunsInv, Quiet, Fresh
    <3> QED
      BY <1>2, <3>1, <3>2, PermitsAfter DEF Kept
  <2>7. AttemptIsLast(r.id)' /\ RunOnce(r.id)'
    <3>1. AttemptIsLast(r.id)'
      BY <1>2, <2>1, <2>3 DEF RunsInv, AttemptIsLast
    <3>2. Live(r.id)' = Live(r.id)
      BY <1>2 DEF Live
    <3>3. RunOnce(r.id)'
      BY <1>2, <2>1, <2>3, <2>4, <3>2
      DEF RunsInv, RunOnce, NotebookOnce, ClusterOnce, Quiet, Fresh
    <3> QED
      BY <3>1, <3>3
  <2>8. LifeEffect(r.id)
    <3>1. Permits(r.id) = 0 /\ Permits(r.id)' = Permits(r.id)
      BY <2>1, <2>5, PermitsAfter, ClaimedIsNotebook, FS_EmptySet
    <3>2. Len(attempts[r.id]) < MaxAttempts
      BY <1>1, <1>2 DEF RunsInv, RetryIsWithin
    <3> QED
      BY <1>2, <2>1, <2>3, <3>1, <3>2 DEF LifeEffect
  <2> QED
    BY <2>1, <2>4, <2>6, <2>7, <2>8 DEF RunStep, RunsInv, LifeStep, RetryIsWithin
<1> QED
  BY <1>1, <1>3, <1>4 DEF Requeue

LEMMA ControllerRuns ==
    ASSUME KnowledgeInv, KnowledgeInv', WatchedInv, RunsInv, ControllerStep \/ ControllerDies
    PROVE  RunStep
BY ReadingRuns, ProvisionRuns, CreateRuns, SubmitRuns, BindRuns, EndingRuns, ObserveRuns,
   MarkingCurrentRuns, RetryRuns, RequeueRuns DEF ControllerStep

(* A workload that ends is one less.                                               *)
LEMMA WorkloadRuns ==
    ASSUME KnowledgeInv, KnowledgeInv', RunsInv, WorkloadStep \/ UNCHANGED vars
    PROVE  RunStep
<1>1. UNCHANGED <<job, attempts, call, controller, requeued, orphaned>>
  BY DEF WorkloadStep, EndWorkload, vars, rows, past
<1>2. ASSUME NEW i \in Jobs PROVE Live(i)' \subseteq Live(i)
  <2>1. CASE UNCHANGED vars
    BY <2>1 DEF vars, Live
  <2>2. ASSUME NEW j \in Jobs, NEW a \in DOMAIN workload[j], EndWorkload(j, a)
        PROVE  Live(i)' \subseteq Live(i)
    <3>1. PICK s : s # "running" /\ workload' = [workload EXCEPT ![j][a] = s]
      BY <2>2 DEF EndWorkload
    <3>2. workload \in [Jobs -> Seq(WorkStates)] /\ workload[j] \in Seq(WorkStates)
      BY <2>2 DEF KnowledgeInv, RowsInv
    <3>3. CASE i # j
      BY <3>1, <3>2, <3>3 DEF Live
    <3>4. CASE i = j
      <4>1. workload'[i] = [workload[i] EXCEPT ![a] = s]
        BY <3>1, <3>2, <3>4
      <4> QED
        BY <2>2, <3>1, <3>4, <4>1 DEF Live
    <3> QED
      BY <3>3, <3>4
  <2> QED
    BY <2>1, <2>2 DEF WorkloadStep
<1>3. /\ \A i : Claiming(i)' = Claiming(i) /\ (Held(i)' <=> Held(i))
      /\ \A i : Starting(i)' <=> Starting(i)
  BY <1>1 DEF Claiming, Starting, Held
<1>4. ASSUME NEW i \in Jobs PROVE AttemptIsLast(i)' /\ RunOnce(i)' /\ Kept(i)
  <2>1. Kept(i)
    BY <1>1, <1>3, PermitsAfter DEF Kept
  <2>2. AttemptIsLast(i)'
    BY <1>1 DEF RunsInv, AttemptIsLast
  <2>3. NotebookOnce(i) => NotebookOnce(i)'
    BY <1>1, <1>3 DEF NotebookOnce
  <2>4. ClusterOnce(i) => ClusterOnce(i)'
    <3>1. Live(i)' \subseteq Live(i)
      BY <1>2
    <3> QED
      BY <1>1, <1>3, <3>1 DEF ClusterOnce
  <2> QED
    BY <1>1, <2>1, <2>2, <2>3, <2>4 DEF RunsInv, RunOnce
<1> QED
  BY <1>1, <1>4 DEF RunStep, RunsInv, LifeStep, RetryIsWithin

LEMMA RunsKept ==
    ASSUME KnowledgeInv, WatchedInv, RunsInv, [Next]_vars
    PROVE  KnowledgeInv' /\ WatchedInv' /\ RunStep
<1>1. KnowledgeInv' /\ WatchedInv'
  BY KnowledgeKept DEF WatchedInv
<1> QED
  BY <1>1, CallRuns, ControllerRuns, WorkloadRuns DEF Next

LEMMA InitialRuns ==
    ASSUME Init
    PROVE  RunsInv /\ \A j \in Jobs : job[j].status \in {"absent", "queued"} /\ Permits(j) = 0
<1>1. controller.pc = "idle"
  BY ResterFacts DEF Init
<1>2. ASSUME NEW j \in Jobs
      PROVE  /\ job[j].status \in {"absent", "queued"} /\ job[j].attempt = 0
             /\ attempts[j] = <<>> /\ workload[j] = <<>>
  <2>1. job[j] = NoRow \/ \E s \in Schedulers : job[j] = Queued(s)
    BY <1>2 DEF Init
  <2>2. /\ NoRow.status = "absent" /\ NoRow.attempt = 0
        /\ \A s : Queued(s).status = "queued" /\ Queued(s).attempt = 0
    BY DEF NoRow, Queued, Row
  <2> QED
    BY <1>2, <2>1, <2>2 DEF Init
<1>3. \A j : Claiming(j) = {}
  BY DEF Init, Claiming, AtClaim, NoCall
<1>4. ASSUME NEW j \in Jobs PROVE Permits(j) = 0
  <2>1. {c \in Callers : At(c, "claim", "attempt") /\ call[c].seen.id = j} = Claiming(j)
    BY DEF Claiming, AtClaim, At
  <2> QED
    BY <1>1, <1>3, <2>1, FS_EmptySet DEF Permits, On
<1>5. ASSUME NEW j \in Jobs PROVE AttemptIsLast(j) /\ RunOnce(j)
  <2>1. Live(j) = {} /\ Len(attempts[j]) = 0
    BY <1>2 DEF Live
  <2> QED
    BY <1>1, <1>2, <1>3, <2>1
    DEF AttemptIsLast, RunOnce, NotebookOnce, ClusterOnce, Quiet, Fresh
<1> QED
  BY <1>1, <1>2, <1>4, <1>5 DEF RunsInv, RetryIsWithin

(* A job nobody resumed, and that the controller's process never ended holding, is *)
(* run once at a time.                                                             *)
THEOREM RunsAreSound == Spec => [](KnowledgeInv /\ WatchedInv /\ RunsInv)
<1>1. Init => KnowledgeInv /\ WatchedInv /\ RunsInv
  BY InitialKnowledge, InitialRuns
<1>2. KnowledgeInv /\ WatchedInv /\ RunsInv /\ [Next]_vars
      => (KnowledgeInv /\ WatchedInv /\ RunsInv)'
  <2> SUFFICES ASSUME KnowledgeInv, WatchedInv, RunsInv, [Next]_vars
               PROVE  KnowledgeInv' /\ WatchedInv' /\ RunsInv'
    OBVIOUS
  <2> QED
    BY RunsKept DEF RunStep
<1> QED
  BY <1>1, <1>2, PTL DEF Spec

(* Automatic retries never start a second workload while one is live.              *)
THEOREM RunsOnce == Spec => []OneLiveRun
<1>1. KnowledgeInv /\ RunsInv => OneLiveRun
  <2> SUFFICES ASSUME KnowledgeInv, RunsInv, NEW j \in Jobs \ orphaned, requeued[j] = 0
               PROVE  Cardinality(Live(j)) <= 1
    BY DEF OneLiveRun
  <2>1. NotebookOnce(j) /\ ClusterOnce(j)
    BY DEF RunsInv, RunOnce
  <2>2. /\ job[j].scheduler \in {"cluster", "notebook"}
        /\ Len(workload[j]) = Len(attempts[j]) /\ workload[j] \in Seq(WorkStates)
        /\ Len(attempts[j]) \in Nat
    BY DEF KnowledgeInv, RowsInv, RowInv, RowTypes, Schedulers
  <2>3. PICK n : Live(j) \subseteq {n}
    <3>1. CASE job[j].scheduler = "cluster"
      BY <2>1, <3>1 DEF ClusterOnce
    <3>2. CASE job[j].scheduler = "notebook"
      <4>1. Live(j) \subseteq {1}
        BY <2>1, <2>2, <3>2 DEF NotebookOnce, Live
      <4> QED
        BY <4>1
    <3> QED
      BY <2>2, <3>1, <3>2
  <2>4. IsFiniteSet({n}) /\ Cardinality({n}) = 1
    BY FS_Singleton
  <2>5. PICK S : S = {n}
    OBVIOUS
  <2>6. Cardinality(Live(j)) <= Cardinality(S)
    BY <2>3, <2>4, <2>5, FS_Subset
  <2> QED
    BY <2>4, <2>5, <2>6
<1> QED
  BY <1>1, RunsAreSound, PTL

(* The rows, calls and controller of the code keep to the lifecycle promised.      *)
THEOREM LifecycleIsKept == Spec => ImplementsLifecycle
<1>1. Init => Lifecycle!Init
  <2> SUFFICES ASSUME Init PROVE Lifecycle!Init
    OBVIOUS
  <2>1. \A j \in Jobs : /\ job[j].status \in {"absent", "queued"} /\ Permits(j) = 0
                        /\ Len(attempts[j]) = 0
    BY InitialRuns DEF Init
  <2> QED
    BY <2>1 DEF Lifecycle!Init, Init
<1>2. KnowledgeInv /\ WatchedInv /\ RunsInv /\ [Next]_vars
      => [Lifecycle!Next]_(Lifecycle!vars)
  <2> SUFFICES ASSUME KnowledgeInv, WatchedInv, RunsInv, [Next]_vars
               PROVE  [Lifecycle!Next]_(Lifecycle!vars)
    OBVIOUS
  <2>1. KnowledgeInv' /\ LifeStep
    BY RunsKept DEF RunStep
  <2> QED
    BY <2>1, LifeSteps DEF KnowledgeInv
<1> QED
  BY <1>1, <1>2, RunsAreSound, PTL DEF Spec, ImplementsLifecycle, Lifecycle!Spec
==========================================================================

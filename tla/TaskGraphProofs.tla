-------------------------- MODULE TaskGraphProofs --------------------------
(* Proofs about TaskGraph, for every graph, every set of pools and clients *)
(* on any number of processes, any expiry of leases and any crashes.       *)
EXTENDS TaskGraph, TLAPS

(* The statements that recover leases keep the rows' types. *)
LEMMA RecoverLeasesType ==
    ASSUME TypeOK, RecoverLeases
    PROVE  /\ status' \in [Task -> TaskStatus]
           /\ attempt' \in [Task -> Nat]
           /\ lease' \in [Task -> Actor \union {NoOne}]
           /\ stale' \in [Task -> BOOLEAN]
           /\ broken' \in SUBSET Task
  BY DEF TypeOK, RecoverLeases, AfterRecovery, Exhausted, Expired, TaskStatus

LEMMA ClaimRowsType ==
    ASSUME TypeOK, NEW a \in Actor, NEW won \in SUBSET Task, ClaimRows(a, won)
    PROVE  /\ status' \in [Task -> TaskStatus]
           /\ attempt' \in [Task -> Nat]
           /\ lease' \in [Task -> Actor \union {NoOne}]
           /\ stale' \in [Task -> BOOLEAN]
           /\ broken' \in SUBSET Task
           /\ claims' \in [Task -> 0..ClaimCap]
           /\ graph' \in TaskStatus
  BY ActorAssumption
     DEF TypeOK, ClaimRows, AfterRecovery, Exhausted, Expired, TaskStatus, ClaimCap

LEMMA CancelRowsType ==
    ASSUME TypeOK, CancelRows
    PROVE  /\ status' \in [Task -> TaskStatus]
           /\ lease' \in [Task -> Actor \union {NoOne}]
           /\ stale' \in [Task -> BOOLEAN]
           /\ cancelReq' \in SUBSET Task
           /\ graph' \in TaskStatus
  BY DEF TypeOK, CancelRows, TaskStatus

LEMMA SetStatusType ==
    ASSUME TypeOK, NEW t \in Task, NEW s \in TaskStatus, SetStatus(t, s)
    PROVE  /\ status' \in [Task -> TaskStatus]
           /\ lease' \in [Task -> Actor \union {NoOne}]
           /\ stale' \in [Task -> BOOLEAN]
  BY DEF TypeOK, SetStatus

(* At these labels an actor holds a status for the graph row. *)
WordLabels == {"reportRecover", "reportList", "reportWrite", "advanceEarly", "advanceWrite"}
WordSet == \A a \in Actor : pc[a] \in WordLabels => word[a] \in TaskStatus
TypeInv == TypeOK /\ WordSet

(* Where the branches of the operations lead. *)
LEMMA Labels ==
    ASSUME TypeOK, NEW a \in Actor, NEW v
    PROVE  /\ AfterReport(a, v) \in PCs \ WordLabels
           /\ AfterNoClaim(a) \in PCs
           /\ AfterNoClaim(a) \in WordLabels => word[a] = "completed"
           /\ AfterUpdate(a) \in PCs \ WordLabels
           /\ \A t \in Task : RecordOutcome(t) \in PCs \ WordLabels
           /\ \A seen \in TaskStatus : Verdict(seen) \in TaskStatus
           /\ \A n : FirstOf(n, Ready) \in SUBSET Task
  BY DEF AfterReport, AfterNoClaim, AfterUpdate, RecordOutcome, PCs, Resting,
         Verdict, TaskStatus, FirstOf, Ready, WordLabels

(* Type correctness is inductive together with WordSet: report and advance *)
(* write to the graph row only a status they computed or read.             *)
THEOREM TypeInvariant == Spec => []TypeInv
<1>1. ASSUME Init PROVE TypeInv
  <2> USE <1>1 DEF Init
  <2>1. /\ status \in [Task -> TaskStatus] /\ attempt \in [Task -> Nat]
        /\ lease \in [Task -> Actor \union {NoOne}] /\ stale \in [Task -> BOOLEAN]
        /\ cancelReq \in SUBSET Task /\ graph \in TaskStatus /\ board \in SUBSET Task
    BY DEF TaskStatus
  <2>3. /\ pc \in [Actor -> PCs] /\ ret \in [Actor -> {"idle", "poll", "handler"}]
        /\ word \in [Actor -> TaskStatus \union {"none"}] /\ sel \in [Actor -> SUBSET Task]
        /\ tried \in [Actor -> Nat] /\ held \in [Actor -> SUBSET Task]
    BY DEF PCs, Resting
  <2>4. overrun \in BOOLEAN /\ stop \in SUBSET Pools /\ crashes \in Nat
    OBVIOUS
  <2>5. done \in SUBSET Task /\ broken \in SUBSET Task /\ claims \in [Task -> 0..ClaimCap]
    BY ActorAssumption DEF ClaimCap
  <2>2. WordSet
    BY <1>1 DEF Init, WordSet, WordLabels
  <2> QED
    BY <2>1, <2>2, <2>3, <2>4, <2>5 DEF TypeInv, TypeOK
<1>2. TypeInv /\ [Next]_vars => TypeInv'
  <2> SUFFICES ASSUME TypeInv, [Next]_vars PROVE TypeInv'
    OBVIOUS
  <2> USE DEF At, Goto, TypeInv, WordSet
  <2>1. ASSUME NEW a \in Actor, Operation(a) PROVE TypeInv'
    <3>1. CASE ReportRead(a)
      BY <3>1 DEF ReportRead, TypeOK, rows, env, history, PCs, Resting, WordLabels
    <3>2. CASE ReportRecover(a)
      BY <3>2, RecoverLeasesType
         DEF ReportRecover, TypeOK, local, env, PCs, Resting, WordLabels
    <3>3. CASE ReportList(a)
      <4> DEFINE v == Verdict(word[a])
      <4>1. pc' \in [Actor -> PCs]
        BY <3>3, Labels DEF ReportList, TypeOK, PCs
      <4>2. v \in TaskStatus \/ v = word[a]
        BY DEF Verdict, TaskStatus
      <4>3. word' \in [Actor -> TaskStatus \union {"none"}]
        BY <3>3, <4>2 DEF ReportList, TypeOK
      <4>4. word[a] \in TaskStatus
        BY <3>3 DEF ReportList, WordLabels
      <4>5. AfterReport(a, v) \notin WordLabels /\ v \in TaskStatus
        BY <4>4, Labels
      <4>6. WordSet'
        BY <3>3, <4>5 DEF ReportList, TypeOK, WordLabels
      <4> QED
        BY <3>3, <4>1, <4>3, <4>6 DEF ReportList, TypeOK, rows, env, history
    <3>4. CASE ReportWrite(a)
      <4>1. word[a] \in TaskStatus
        BY <3>4 DEF ReportWrite, WordLabels
      <4>2. AfterReport(a, word[a]) \in PCs \ WordLabels
        BY Labels
      <4> QED
        BY <3>4, <4>1, <4>2 DEF ReportWrite, TypeOK, rows, env, history
    <3>5. CASE ClaimRead(a)
      BY <3>5, Labels DEF ClaimRead, TypeOK, rows, local, env, history, PCs, Resting, WordLabels
    <3>6. CASE ClaimRecover(a)
      BY <3>6, RecoverLeasesType
         DEF ClaimRecover, TypeOK, local, env, PCs, Resting, WordLabels
    <3>7. CASE ClaimList(a)
      <4>1. AfterNoClaim(a) \in PCs /\ (AfterNoClaim(a) \in WordLabels => word[a] = "completed")
        BY Labels
      <4>2. FirstOf(Limit(a), Ready) \in SUBSET Task
        BY Labels
      <4>3. TypeOK'
        BY <3>7, <4>1, <4>2 DEF ClaimList, TypeOK, rows, env, history, PCs
      <4>4. WordSet'
        BY <3>7, <4>1 DEF ClaimList, TypeOK, WordLabels, TaskStatus
      <4> QED
        BY <4>3, <4>4
    <3>8. CASE ClaimFailed(a)
      BY <3>8, Labels DEF ClaimFailed, TypeOK, rows, local, env, history, TaskStatus
    <3>9. CASE Claim(a)
      <4> DEFINE won == Winnable(sel[a])
      <4>1. won \in SUBSET Task
        BY DEF TypeOK, Winnable
      <4>2. ClaimRows(a, won)
        BY <3>9 DEF Claim
      <4>3. pc' \in [Actor -> PCs]
        BY <3>9, Labels DEF Claim, TypeOK, PCs, Resting, WordLabels
      <4>4. /\ held' \in [Actor -> SUBSET Task]
            /\ word' \in [Actor -> TaskStatus \union {"none"}]
            /\ sel' \in [Actor -> SUBSET Task]
        BY <3>9, <4>1 DEF Claim, TypeOK
      <4>5. TypeOK'
        BY <3>9, <4>1, <4>2, <4>3, <4>4, ClaimRowsType DEF Claim, TypeOK, env
      <4>6. AfterNoClaim(a) \in WordLabels => word[a] = "completed"
        BY Labels
      <4>7. WordSet'
        BY <3>9, <4>6 DEF Claim, TypeOK, WordLabels, TaskStatus
      <4> QED
        BY <4>5, <4>7
    <3>10. CASE AdvanceRecover(a)
      BY <3>10, RecoverLeasesType
         DEF AdvanceRecover, TypeOK, local, env, PCs, Resting, WordLabels
    <3>11. CASE AdvanceRelist(a)
      BY <3>11 DEF AdvanceRelist, TypeOK, rows, env, history, PCs, Resting, WordLabels, TaskStatus
    <3>12. CASE AdvanceWrite(a)
      BY <3>12 DEF AdvanceWrite, TypeOK, rows, env, history, PCs, Resting, WordLabels
    <3>13. CASE CompleteWrite(a)
      <4>1. PICK t \in Task : SetStatus(t, "completed")
        BY <3>13 DEF CompleteWrite, TypeOK
      <4> QED
        BY <3>13, <4>1, SetStatusType, Labels
           DEF CompleteWrite, TypeOK, env, TaskStatus
    <3>14. CASE FailRead(a)
      BY <3>14 DEF FailRead, TypeOK, rows, env, history, PCs, Resting, WordLabels
    <3>15. CASE FailState(a)
      <4>1. PICK t \in Task : SetStatus(t, IF Retries(a) THEN "queued" ELSE "failed")
        BY <3>15 DEF FailState, TypeOK
      <4>2. (IF Retries(a) THEN "queued" ELSE "failed") \in TaskStatus
        BY DEF TaskStatus
      <4>3. /\ status' \in [Task -> TaskStatus]
            /\ lease' \in [Task -> Actor \union {NoOne}]
            /\ stale' \in [Task -> BOOLEAN]
        BY <4>1, <4>2, SetStatusType
      <4> QED
        BY <3>15, <4>3 DEF FailState, TypeOK, local, env, PCs, Resting, WordLabels
    <3>16. CASE FailAttempt(a)
      BY <3>16 DEF FailAttempt, TypeOK, env, history, PCs, Resting, WordLabels
    <3>17. CASE FailGraph(a)
      BY <3>17, Labels DEF FailGraph, TypeOK, rows, env, history, PCs, Resting, WordLabels, TaskStatus
    <3> QED
      BY <2>1, <3>1, <3>2, <3>3, <3>4, <3>5, <3>6, <3>7, <3>8, <3>9, <3>10, <3>11,
         <3>12, <3>13, <3>14, <3>15, <3>16, <3>17 DEF Operation
  <2>2. ASSUME NEW c \in Clients, ClientStep(c) PROVE TypeInv'
    <3>0. c \in Actor
      BY DEF Actor
    <3>1. CASE AdvanceList(c)
      BY <3>0, <3>1 DEF AdvanceList, TypeOK, rows, env, history, PCs, Resting, WordLabels, TaskStatus
    <3>2. CASE ClientCancel(c)
      BY <3>0, <3>2, CancelRowsType DEF ClientCancel, TypeOK, local, env, history, PCs, Resting, WordLabels
    <3>3. ASSUME NEW t \in Task, ClientComplete(c, t) \/ ClientFail(c, t) PROVE TypeInv'
      BY <3>0, <3>3
         DEF ClientComplete, ClientFail, TypeOK, rows, env, history, PCs, Resting, WordLabels
    <3> QED
      BY <2>2, <3>1, <3>2, <3>3 DEF ClientStep
  <2>3. ASSUME NEW p \in Pools, PoolStep(p) PROVE TypeInv'
    <3>0. p \in Actor
      BY DEF Actor
    <3>1. CASE PoolStart(p) \/ Poll(p) \/ SignalStop(p)
      BY <3>0, <3>1
         DEF PoolStart, Poll, SignalStop, TypeOK, rows, local, env, history, PCs, Resting, WordLabels
    <3>2. CASE PollCancelled(p)
      BY <3>0, <3>2, CancelRowsType
         DEF PollCancelled, TypeOK, local, env, history, PCs, Resting, WordLabels
    <3>3. ASSUME NEW t \in Task, HandlerReturns(p, t) \/ HandlerFails(p, t) PROVE TypeInv'
      <4>1. RecordOutcome(t) \in PCs \ WordLabels /\ "fail" \in PCs \ WordLabels
        BY <3>0, Labels DEF PCs, WordLabels
      <4>2. PICK l \in PCs \ WordLabels : Goto(p, l)
        BY <3>3, <4>1 DEF HandlerReturns, HandlerFails
      <4> QED
        BY <3>0, <3>3, <4>2
           DEF HandlerReturns, HandlerFails, TypeOK, rows, env, history
    <3>4. ASSUME NEW t \in Task, HandlerStopped(p, t) PROVE TypeInv'
      BY <3>0, <3>4, CancelRowsType
         DEF HandlerStopped, TypeOK, local, env, history, PCs, Resting, WordLabels
    <3>5. ASSUME NEW t \in Task, RenewLease(p, t) PROVE TypeInv'
      BY <3>5 DEF RenewLease, TypeOK, local, env, history
    <3> QED
      BY <2>3, <3>1, <3>2, <3>3, <3>4, <3>5 DEF PoolStep, HandlerEnds
  <2>4. ASSUME NEW t \in Task, LeaseExpires(t) PROVE TypeInv'
    BY <2>4 DEF LeaseExpires, TypeOK, local, env, history
  <2>5. ASSUME NEW a \in Actor, Crash(ProcessOf[a]) PROVE TypeInv'
    BY <2>5 DEF Crash, TypeOK, rows, history, PCs, Resting, WordLabels
  <2>6. CASE UNCHANGED vars
    BY <2>6 DEF vars, TypeOK
  <2> QED
    BY <2>1, <2>2, <2>3, <2>4, <2>5, <2>6 DEF Next
<1> QED
  BY <1>1, <1>2, PTL DEF Spec

(* Type correctness. *)
THEOREM TypeCorrect == Spec => []TypeOK
<1>1. TypeInv => TypeOK
  BY DEF TypeInv
<1> QED
  BY <1>1, TypeInvariant, PTL

-----------------------------------------------------------------------------
(* What the rows and the actors' local state say about the history: a      *)
(* status, a claim, a word or a selection, however stale, was justified at *)
(* some earlier time, and the history never shrinks.                       *)
TaskHistory ==
    \A t \in Task :
        /\ status[t] = "running" => lease[t] # NoOne /\ t \notin cancelReq /\ claims[t] > 0
        /\ status[t] = "completed" => t \in done
        /\ status[t] = "failed" => t \in broken
        /\ t \in done \union broken => claims[t] > 0
        /\ claims[t] > 0 => Deps[t] \subseteq done

Selected == {"complete", "fail", "failState", "failAttempt"}

ActorHistoryOf(a) ==
    /\ word[a] = "completed" => done = Task
    /\ word[a] = "failed" => broken # {}
    /\ \A t \in held[a] : claims[t] > 0
    /\ pc[a] = "claim" => \A t \in sel[a] : Deps[t] \subseteq done
    /\ pc[a] \in Selected => \E t \in Task : sel[a] = {t} /\ claims[t] > 0
    /\ pc[a] = "claimFailed" => broken # {}
    /\ pc[a] \in {"failAttempt", "failGraph"} /\ ~Retries(a) => broken # {}

ActorHistory == \A a \in Actor : ActorHistoryOf(a)

HistoryInv == TaskHistory /\ ActorHistory /\ GraphVerdict

(* Recovery only moves running tasks, and records the ones it gives up. *)
LEMMA RecoverLeasesHistory ==
    ASSUME TypeOK, HistoryInv, RecoverLeases, UNCHANGED <<cancelReq, done, claims>>
    PROVE  /\ TaskHistory'
           /\ broken \subseteq broken'
           /\ broken' \ broken \subseteq Exhausted
  BY DEF TypeOK, HistoryInv, TaskHistory, RecoverLeases, AfterRecovery, Exhausted, Expired

(* Every labelled branch avoids the labels that need a selection. *)
LEMMA LabelsHistory ==
    ASSUME NEW a \in Actor, NEW v
    PROVE  /\ AfterReport(a, v) \in {"idle", "claimRead", "poll", "await"}
           /\ AfterNoClaim(a) \in {"idle", "advanceWrite"}
           /\ AfterUpdate(a) \in {"advanceList", "reportRead"}
  BY DEF AfterReport, AfterNoClaim, AfterUpdate

LEMMA HistoryStep ==
    ASSUME TypeOK, TypeOK', HistoryInv, [Next]_vars
    PROVE  HistoryInv'
<1> USE DEF At, Goto, HistoryInv
<1>a. (\A t \in Task : status[t] = "completed") => done = Task
  <2>1. done \subseteq Task
    BY DEF TypeOK
  <2>2. (\A t \in Task : status[t] = "completed") => Task \subseteq done
    BY DEF TaskHistory
  <2> QED
    BY <2>1, <2>2
<1>b. (\E t \in Task : status[t] = "failed") => broken # {}
  BY DEF TaskHistory
<1>1. ASSUME NEW a \in Actor, Operation(a) PROVE HistoryInv'
  <2> DEFINE Recovers(l) == /\ RecoverLeases
                            /\ Goto(a, l)
                            /\ UNCHANGED <<cancelReq, graph, local, held, done, claims>>
  <2>0. ASSUME NEW l \in {"reportList", "claimList", "advanceRelist"}, Recovers(l)
        PROVE  HistoryInv'
    <3>1. TaskHistory' /\ broken \subseteq broken'
      BY <2>0, RecoverLeasesHistory
    <3>2. ActorHistory'
      BY <2>0, <3>1 DEF ActorHistory, ActorHistoryOf, TypeOK, local, Selected, Retries
    <3>3. GraphVerdict'
      BY <2>0, <3>1 DEF GraphVerdict
    <3> QED
      BY <3>1, <3>2, <3>3
  <2>1. CASE ReportRead(a)
    BY <2>1 DEF ReportRead, TypeOK, TaskHistory, ActorHistory, ActorHistoryOf, GraphVerdict, Selected,
                Retries, rows, history
  <2>2. CASE ReportRecover(a)
    BY <2>2, <2>0 DEF ReportRecover
  <2>3. CASE ReportList(a)
    <3> DEFINE v == Verdict(word[a])
    <3>1. (v = "completed" => done = Task) /\ (v = "failed" => broken # {})
      <4>1. (word[a] = "completed" => done = Task) /\ (word[a] = "failed" => broken # {})
        BY DEF ActorHistory, ActorHistoryOf
      <4> QED
        BY <4>1, <1>a, <1>b DEF Verdict
    <3>2. word'[a] \in {v, "none"} /\ \A b \in Actor \ {a} : word'[b] = word[b]
      BY <2>3 DEF ReportList, TypeOK
    <3>3. /\ pc'[a] \in {"idle", "claimRead", "poll", "await", "reportWrite"}
          /\ \A b \in Actor \ {a} : pc'[b] = pc[b]
      BY <2>3, LabelsHistory DEF ReportList, TypeOK
    <3>4. ActorHistory'
      BY <2>3, <3>1, <3>2, <3>3
         DEF ReportList, ActorHistory, ActorHistoryOf, Selected, Retries, history
    <3> QED
      BY <2>3, <3>4 DEF ReportList, TaskHistory, GraphVerdict, rows, history
  <2>4. CASE ReportWrite(a)
    <3>1. ActorHistory'
      BY <2>4, LabelsHistory DEF ReportWrite, TypeOK, ActorHistory, ActorHistoryOf, Selected, Retries, history
    <3>2. GraphVerdict'
      BY <2>4 DEF ReportWrite, ActorHistory, ActorHistoryOf, GraphVerdict, history
    <3> QED
      BY <2>4, <3>1, <3>2 DEF ReportWrite, TaskHistory, rows, history
  <2>5. CASE ClaimRead(a)
    <3>1. ActorHistory'
      BY <2>5, LabelsHistory
         DEF ClaimRead, TypeOK, ActorHistory, ActorHistoryOf, Selected, Retries, local, history
    <3> QED
      BY <2>5, <3>1 DEF ClaimRead, TaskHistory, GraphVerdict, rows, history
  <2>6. CASE ClaimRecover(a)
    BY <2>6, <2>0 DEF ClaimRecover
  <2>7. CASE ClaimList(a)
    <3>1. \A t \in FirstOf(Limit(a), Ready) : Deps[t] \subseteq done
      BY GraphAssumption DEF FirstOf, Ready, TaskHistory
    <3>3. /\ pc'[a] \in {"idle", "advanceWrite", "claimFailed", "claim"}
          /\ pc'[a] = "claimFailed" => broken # {}
          /\ pc'[a] = "claim" => sel'[a] = FirstOf(Limit(a), Ready)
          /\ \A b \in Actor \ {a} : pc'[b] = pc[b] /\ sel'[b] = sel[b]
      BY <2>7, <1>b, LabelsHistory, ZenonT(40) DEF ClaimList, TypeOK
    <3>4. ActorHistory'
      BY <2>7, <3>1, <3>3
         DEF ClaimList, ActorHistory, ActorHistoryOf, Selected, Retries, history
    <3> QED
      BY <2>7, <3>4 DEF ClaimList, TaskHistory, GraphVerdict, rows, history
  <2>8. CASE ClaimFailed(a)
    <3>1. ActorHistory'
      BY <2>8, LabelsHistory
         DEF ClaimFailed, TypeOK, ActorHistory, ActorHistoryOf, Selected, Retries, local, history
    <3>2. GraphVerdict'
      BY <2>8 DEF ClaimFailed, ActorHistory, ActorHistoryOf, GraphVerdict, history
    <3> QED
      BY <2>8, <3>1, <3>2 DEF ClaimFailed, TaskHistory, rows, history
  <2>9. CASE Claim(a)
    <3> DEFINE won == Winnable(sel[a])
    <3>1. /\ ClaimRows(a, won) /\ UNCHANGED <<cancelReq, done>>
          /\ won \in SUBSET Task /\ won \intersect cancelReq = {}
          /\ \A t \in won : Deps[t] \subseteq done
      BY <2>9 DEF Claim, Winnable, ActorHistory, ActorHistoryOf, TypeOK
    <3>2. /\ broken \subseteq broken'
          /\ \A t \in Task : claims[t] > 0 \/ t \in won <=> claims'[t] > 0
      BY <3>1, ActorAssumption DEF ClaimRows, TypeOK, ClaimCap
    <3>3. TaskHistory'
      BY <3>1, <3>2, ActorAssumption
         DEF ClaimRows, TypeOK, TaskHistory, AfterRecovery, Exhausted, Expired
    <3>4. /\ pc'[a] \in {"idle", "advanceWrite", "await"}
          /\ word'[a] \in {word[a], "none"}
          /\ held'[a] = held[a] \union won
          /\ \A b \in Actor \ {a} : /\ pc'[b] = pc[b] /\ word'[b] = word[b]
                                   /\ sel'[b] = sel[b] /\ held'[b] = held[b]
      BY <2>9, LabelsHistory, ZenonT(40) DEF Claim, TypeOK
    <3>5. UNCHANGED <<done, tried>>
      BY <2>9 DEF Claim
    <3>6. ActorHistory'
      <4> SUFFICES ASSUME NEW b \in Actor PROVE ActorHistoryOf(b)'
        BY DEF ActorHistory
      <4>1. ActorHistoryOf(b)
        BY DEF ActorHistory
      <4>2. CASE b = a
        BY <4>1, <4>2, <3>1, <3>2, <3>4, <3>5 DEF ActorHistoryOf, Selected, TypeOK
      <4>3. CASE b # a
        BY <4>1, <4>3, <3>2, <3>4, <3>5 DEF ActorHistoryOf, Retries, TypeOK
      <4> QED
        BY <4>2, <4>3
    <3>7. GraphVerdict'
      BY <3>1, <3>2 DEF ClaimRows, GraphVerdict
    <3> QED
      BY <3>3, <3>6, <3>7
  <2>10. CASE AdvanceRecover(a)
    BY <2>10, <2>0 DEF AdvanceRecover
  <2>11. CASE AdvanceRelist(a)
    <3>2. /\ pc'[a] \in {"idle", "advanceEarly", "claimRead"}
          /\ \A b \in Actor \ {a} : pc'[b] = pc[b] /\ word'[b] = word[b]
      BY <2>11 DEF AdvanceRelist, TypeOK
    <3>3. (word'[a] = "completed" => done = Task) /\ (word'[a] = "failed" => broken # {})
      BY <2>11, <1>a, <1>b DEF AdvanceRelist, TypeOK
    <3>4. ActorHistory'
      BY <2>11, <3>2, <3>3
         DEF AdvanceRelist, ActorHistory, ActorHistoryOf, Selected, Retries, history
    <3> QED
      BY <2>11, <3>4 DEF AdvanceRelist, TaskHistory, GraphVerdict, rows, history
  <2>12. CASE AdvanceWrite(a)
    <3>1. ActorHistory'
      BY <2>12 DEF AdvanceWrite, TypeOK, ActorHistory, ActorHistoryOf, Selected, Retries, history
    <3>2. GraphVerdict'
      BY <2>12 DEF AdvanceWrite, ActorHistory, ActorHistoryOf, GraphVerdict, history
    <3> QED
      BY <2>12, <3>1, <3>2 DEF AdvanceWrite, TaskHistory, rows, history
  <2>13. CASE CompleteWrite(a)
    <3>1. PICK t \in Task : sel[a] = {t} /\ claims[t] > 0
      BY <2>13 DEF CompleteWrite, ActorHistory, ActorHistoryOf, Selected
    <3>2. SetStatus(t, "completed") /\ done' = done \union {t}
      BY <2>13, <3>1 DEF CompleteWrite
    <3>3. TaskHistory'
      BY <2>13, <3>1, <3>2 DEF CompleteWrite, SetStatus, TypeOK, TaskHistory
    <3>4. ActorHistory'
      BY <2>13, <3>2, LabelsHistory, ZenonT(40)
         DEF CompleteWrite, TypeOK, ActorHistory, ActorHistoryOf, Selected, Retries
    <3>5. GraphVerdict'
      BY <2>13, <3>2 DEF CompleteWrite, TypeOK, GraphVerdict
    <3> QED
      BY <3>3, <3>4, <3>5
  <2>14. CASE FailRead(a)
    <3>1. ActorHistory'
      BY <2>14 DEF FailRead, TypeOK, ActorHistory, ActorHistoryOf, Selected, Retries, history
    <3> QED
      BY <2>14, <3>1 DEF FailRead, TaskHistory, GraphVerdict, rows, history
  <2>15. CASE FailState(a)
    <3>1. PICK t \in Task : sel[a] = {t} /\ claims[t] > 0
      BY <2>15 DEF FailState, ActorHistory, ActorHistoryOf, Selected
    <3>2. /\ SetStatus(t, IF Retries(a) THEN "queued" ELSE "failed")
          /\ broken \subseteq broken' /\ broken' \subseteq broken \union {t}
          /\ ~Retries(a) => t \in broken'
          /\ UNCHANGED <<cancelReq, graph, local, held, done, claims>>
      BY <2>15, <3>1 DEF FailState
    <3>3. TaskHistory'
      BY <3>1, <3>2 DEF SetStatus, TypeOK, TaskHistory
    <3>4. ActorHistory'
      BY <2>15, <3>1, <3>2 DEF FailState, TypeOK, ActorHistory, ActorHistoryOf, Selected, Retries, local
    <3>5. GraphVerdict'
      BY <3>2 DEF GraphVerdict
    <3> QED
      BY <3>3, <3>4, <3>5
  <2>16. CASE FailAttempt(a)
    <3>1. ActorHistory'
      BY <2>16 DEF FailAttempt, TypeOK, ActorHistory, ActorHistoryOf, Selected, Retries, history
    <3> QED
      BY <2>16, <3>1 DEF FailAttempt, TaskHistory, GraphVerdict, history
  <2>17. CASE FailGraph(a)
    <3>1. ActorHistory'
      BY <2>17, LabelsHistory
         DEF FailGraph, TypeOK, ActorHistory, ActorHistoryOf, Selected, Retries, history
    <3>2. GraphVerdict'
      BY <2>17 DEF FailGraph, ActorHistory, ActorHistoryOf, GraphVerdict, history
    <3> QED
      BY <2>17, <3>1, <3>2 DEF FailGraph, TaskHistory, rows, history
  <2> QED
    BY <1>1, <2>1, <2>2, <2>3, <2>4, <2>5, <2>6, <2>7, <2>8, <2>9, <2>10, <2>11,
       <2>12, <2>13, <2>14, <2>15, <2>16, <2>17 DEF Operation
<1>2. ASSUME NEW a \in Actor, CancelRows, pc'[a] = "reportRead",
             \A b \in Actor \ {a} : pc'[b] = pc[b],
             \A b \in Actor : held'[b] \subseteq held[b],
             UNCHANGED <<local, history>>
      PROVE  HistoryInv'
  <2>1. TaskHistory'
    BY <1>2 DEF CancelRows, TypeOK, TaskHistory, Terminal, TaskStatus, history
  <2>2. ActorHistory'
    BY <1>2 DEF TypeOK, ActorHistory, ActorHistoryOf, Selected, Retries, local, history
  <2>3. GraphVerdict'
    BY <1>2 DEF CancelRows, GraphVerdict
  <2> QED
    BY <2>1, <2>2, <2>3
<1>3. ASSUME NEW c \in Clients, ClientStep(c) PROVE HistoryInv'
  <2>0. c \in Actor
    BY DEF Actor
  <2>1. CASE AdvanceList(c)
    <3>1. /\ pc'[c] \in {"advanceEarly", "advanceRecover"}
          /\ word'[c] \in {"failed", "none"}
          /\ word'[c] = "failed" => broken # {}
          /\ \A b \in Actor \ {c} : pc'[b] = pc[b] /\ word'[b] = word[b]
      BY <2>0, <2>1 DEF AdvanceList, TypeOK, TaskHistory
    <3>2. ActorHistory'
      BY <2>1, <3>1 DEF AdvanceList, ActorHistory, ActorHistoryOf, Selected, Retries, history
    <3> QED
      BY <2>1, <3>2 DEF AdvanceList, TaskHistory, GraphVerdict, rows, history
  <2>2. CASE ClientCancel(c)
    BY <2>0, <2>2, <1>2 DEF ClientCancel, TypeOK
  <2>3. ASSUME NEW t \in Task, ClientComplete(c, t) \/ ClientFail(c, t) PROVE HistoryInv'
    <3>1. /\ pc'[c] \in {"complete", "fail"} /\ sel'[c] = {t} /\ claims[t] > 0
          /\ \A b \in Actor \ {c} : pc'[b] = pc[b] /\ sel'[b] = sel[b]
          /\ \A b \in Actor : held'[b] \subseteq held[b]
      BY <2>0, <2>3 DEF ClientComplete, ClientFail, TypeOK, ActorHistory, ActorHistoryOf
    <3>2. ActorHistory'
      BY <2>3, <3>1
         DEF ClientComplete, ClientFail, ActorHistory, ActorHistoryOf, Selected, Retries, history
    <3> QED
      BY <2>3, <3>2 DEF ClientComplete, ClientFail, TaskHistory, GraphVerdict, rows, history
  <2> QED
    BY <1>3, <2>1, <2>2, <2>3 DEF ClientStep
<1>4. ASSUME NEW p \in Pools, PoolStep(p) PROVE HistoryInv'
  <2>0. p \in Actor
    BY DEF Actor
  <2>1. CASE PoolStart(p) \/ Poll(p) \/ SignalStop(p)
    <3>0. /\ pc'[p] \in {pc[p], "poll", "reportRead"}
          /\ \A b \in Actor \ {p} : pc'[b] = pc[b]
          /\ UNCHANGED <<local, held, history>>
      BY <2>0, <2>1 DEF PoolStart, Poll, SignalStop, TypeOK
    <3>1. ActorHistory'
      BY <3>0 DEF ActorHistory, ActorHistoryOf, Selected, Retries, local, history
    <3> QED
      BY <2>1, <3>1
         DEF PoolStart, Poll, SignalStop, TaskHistory, GraphVerdict, rows, history
  <2>2. CASE PollCancelled(p)
    BY <2>0, <2>2, <1>2 DEF PollCancelled, TypeOK
  <2>3. ASSUME NEW t \in Task, HandlerReturns(p, t) \/ HandlerFails(p, t) PROVE HistoryInv'
    <3>1. Goto(p, "fail") \/ Goto(p, "complete")
      BY <2>3 DEF HandlerReturns, HandlerFails, RecordOutcome
    <3>2. /\ pc'[p] \in {"complete", "fail"} /\ sel'[p] = {t} /\ claims[t] > 0
          /\ \A b \in Actor \ {p} : pc'[b] = pc[b] /\ sel'[b] = sel[b]
          /\ \A b \in Actor : held'[b] \subseteq held[b]
      BY <2>0, <2>3, <3>1, SMTT(30) DEF HandlerReturns, HandlerFails, TypeOK, ActorHistory, ActorHistoryOf
    <3>3. ActorHistory'
      BY <2>3, <3>2
         DEF HandlerReturns, HandlerFails, ActorHistory, ActorHistoryOf, Selected, Retries, history
    <3> QED
      BY <2>3, <3>3 DEF HandlerReturns, HandlerFails, TaskHistory, GraphVerdict, rows, history
  <2>4. ASSUME NEW t \in Task, HandlerStopped(p, t) PROVE HistoryInv'
    BY <2>0, <2>4, <1>2 DEF HandlerStopped, TypeOK
  <2>5. ASSUME NEW t \in Task, RenewLease(p, t) PROVE HistoryInv'
    BY <2>5 DEF RenewLease, TypeOK, TaskHistory, ActorHistory, ActorHistoryOf, GraphVerdict, Retries, local, history
  <2> QED
    BY <1>4, <2>1, <2>2, <2>3, <2>4, <2>5 DEF PoolStep, HandlerEnds
<1>5. ASSUME NEW t \in Task, LeaseExpires(t) PROVE HistoryInv'
  BY <1>5 DEF LeaseExpires, TypeOK, TaskHistory, ActorHistory, ActorHistoryOf, GraphVerdict, Retries, local, history
<1>6. ASSUME NEW a \in Actor, Crash(ProcessOf[a]) PROVE HistoryInv'
  <2>1. ActorHistory'
    BY <1>6 DEF Crash, TypeOK, ActorHistory, ActorHistoryOf, Selected, Retries, history
  <2> QED
    BY <1>6, <2>1 DEF Crash, TaskHistory, GraphVerdict, rows, history
<1>7. CASE UNCHANGED vars
  BY <1>7 DEF vars, TaskHistory, ActorHistory, ActorHistoryOf, GraphVerdict, Retries
<1> QED
  BY <1>1, <1>3, <1>4, <1>5, <1>6, <1>7 DEF Next

THEOREM HistoryInvariant == Spec => []HistoryInv
<1>1. Init => HistoryInv
  BY ActorAssumption DEF Init, HistoryInv, TaskHistory, ActorHistory, ActorHistoryOf, GraphVerdict, Selected
<1>2. TypeOK /\ TypeOK' /\ HistoryInv /\ [Next]_vars => HistoryInv'
  BY HistoryStep
<1> QED
  BY <1>1, <1>2, TypeCorrect, PTL DEF Spec

(* No running task is ever stranded without a lease or under a pending     *)
(* cancellation.                                                           *)
THEOREM Recoverable == Spec => []RunningIsRecoverable
<1>1. HistoryInv => RunningIsRecoverable
  BY DEF HistoryInv, TaskHistory, RunningIsRecoverable
<1> QED
  BY <1>1, HistoryInvariant, PTL

(* Tasks are handed out in dependency order. *)
THEOREM DependenciesFirst == Spec => []DependencyOrder
<1>1. HistoryInv => DependencyOrder
  BY DEF HistoryInv, TaskHistory, DependencyOrder
<1> QED
  BY <1>1, HistoryInvariant, PTL

(* A verdict on the graph row is true of the history. *)
THEOREM VerdictsTrue == Spec => []GraphVerdict
<1>1. HistoryInv => GraphVerdict
  BY DEF HistoryInv
<1> QED
  BY <1>1, HistoryInvariant, PTL

(* What a step does to the history: nothing, or the one of four changes of *)
(* recovery, claim, completion and failure.                                *)
LEMMA HistoryChanges ==
    ASSUME [Next]_vars
    PROVE  \/ UNCHANGED history
           \/ RecoverLeases /\ UNCHANGED <<graph, done, claims>>
           \/ \E a \in Actor : Claim(a) \/ CompleteWrite(a) \/ FailState(a)
<1> USE DEF history
<1>1. ASSUME NEW a \in Actor, Operation(a)
      PROVE  \/ UNCHANGED history
             \/ RecoverLeases /\ UNCHANGED <<graph, done, claims>>
             \/ Claim(a) \/ CompleteWrite(a) \/ FailState(a)
  BY <1>1 DEF Operation, ReportRead, ReportRecover, ReportList, ReportWrite, ClaimRead,
              ClaimRecover, ClaimList, ClaimFailed, AdvanceRecover, AdvanceRelist,
              AdvanceWrite, FailRead, FailAttempt, FailGraph
<1>2. ASSUME NEW c \in Clients, ClientStep(c) PROVE UNCHANGED history
  BY <1>2 DEF ClientStep, AdvanceList, ClientCancel, ClientComplete, ClientFail
<1>3. ASSUME NEW p \in Pools, PoolStep(p) PROVE UNCHANGED history
  BY <1>3 DEF PoolStep, HandlerEnds, PoolStart, Poll, PollCancelled, HandlerReturns,
              HandlerFails, HandlerStopped, SignalStop, RenewLease
<1>4. ASSUME NEW t \in Task, LeaseExpires(t) PROVE UNCHANGED history
  BY <1>4 DEF LeaseExpires
<1>5. ASSUME NEW a \in Actor, Crash(ProcessOf[a]) PROVE UNCHANGED history
  BY <1>5 DEF Crash
<1>6. CASE UNCHANGED vars
  BY <1>6 DEF vars
<1> QED
  BY <1>1, <1>2, <1>3, <1>4, <1>5, <1>6 DEF Next

(* Every step of the runtime is a step, or a stutter, of the DAG schedule. *)
LEMMA DagStep ==
    ASSUME TypeOK, TypeOK', HistoryInv, HistoryInv', [Next]_vars
    PROVE  [Dag!Next]_(Dag!vars)
<1> USE DEF HistoryInv
<1>0. /\ {} \in SUBSET Task /\ {} \subseteq Dag!Startable
      /\ \A B \in SUBSET Task : B \subseteq Started /\ Started' = Started /\ done' = done
             /\ broken' = broken \union B /\ graph' = graph => Dag!Start({}, B)
  BY DEF Dag!Start
<1>1. CASE UNCHANGED history
  <2>1. Dag!Announce(graph')
    BY <1>1 DEF Dag!Announce, GraphVerdict, history, Started
  <2>2. graph' \in {"queued", "running", "completed", "failed", "cancelled"}
    BY DEF TypeOK, TaskStatus
  <2> QED
    BY <2>1, <2>2 DEF Dag!Next
<1>2. CASE RecoverLeases /\ UNCHANGED <<graph, done, claims>>
  <2>1. Exhausted \subseteq Started
    BY DEF Exhausted, Expired, Started, TaskHistory
  <2>2. Exhausted \in SUBSET Task /\ broken' = broken \union Exhausted
    BY <1>2 DEF RecoverLeases, Exhausted, Expired
  <2>3. Started' = Started
    BY <1>2 DEF Started
  <2>4. Dag!Start({}, Exhausted)
    BY <1>0, <1>2, <2>1, <2>2, <2>3
  <2> QED
    BY <1>0, <2>2, <2>4 DEF Dag!Next
<1>3. ASSUME NEW a \in Actor, Claim(a) PROVE Dag!Next
  <2> DEFINE won == Winnable(sel[a])
  <2>1. /\ ClaimRows(a, won) /\ done' = done
        /\ won \in SUBSET Task /\ won \subseteq Dag!Startable
    BY <1>3 DEF Claim, At, Winnable, ActorHistory, ActorHistoryOf, TypeOK, Dag!Startable
  <2>2. Exhausted \in SUBSET Task /\ Exhausted \subseteq Started
    BY DEF Exhausted, Expired, Started, TaskHistory
  <2>3. Started' = Started \union won
    BY <2>1, ActorAssumption DEF ClaimRows, TypeOK, ClaimCap, Started
  <2>4. broken' = broken \union Exhausted /\ graph' \in {graph, "running"}
    BY <2>1 DEF ClaimRows
  <2>5. Dag!Start(won, Exhausted)
    BY <2>1, <2>2, <2>3, <2>4 DEF Dag!Start
  <2> QED
    BY <2>1, <2>2, <2>5 DEF Dag!Next
<1>4. ASSUME NEW a \in Actor, CompleteWrite(a) PROVE Dag!Next
  <2>1. PICK t \in Task : sel[a] = {t} /\ claims[t] > 0
    BY <1>4 DEF CompleteWrite, At, ActorHistory, ActorHistoryOf, Selected
  <2>2. Dag!Finish(t)
    BY <1>4, <2>1 DEF CompleteWrite, Dag!Finish, Started
  <2> QED
    BY <2>2 DEF Dag!Next
<1>5. ASSUME NEW a \in Actor, FailState(a) PROVE Dag!Next
  <2>1. PICK t \in Task : sel[a] = {t} /\ claims[t] > 0
    BY <1>5 DEF FailState, At, ActorHistory, ActorHistoryOf, Selected
  <2> DEFINE B == IF Retries(a) THEN {} ELSE {t}
  <2>2. B \in SUBSET Task /\ B \subseteq Started /\ broken' = broken \union B
    BY <1>5, <2>1 DEF FailState, Started
  <2>3. Started' = Started /\ UNCHANGED <<graph, done>>
    BY <1>5 DEF FailState, Started
  <2> HIDE DEF B
  <2>4. Dag!Start({}, B)
    BY <1>0, <2>2, <2>3
  <2> QED
    BY <1>0, <2>2, <2>4 DEF Dag!Next
<1> QED
  BY <1>1, <1>2, <1>3, <1>4, <1>5, HistoryChanges

(* The runtime implements the DAG schedule: whatever the interleaving, the *)
(* expiry and the crashes, tasks start in dependency order and verdicts    *)
(* are true.                                                               *)
THEOREM Implementation == Spec => ImplementsDag
<1>1. Init => Dag!Init
  BY DEF Init, Dag!Init, Started
<1>2. TypeOK /\ TypeOK' /\ HistoryInv /\ HistoryInv' /\ [Next]_vars => [Dag!Next]_(Dag!vars)
  BY DagStep
<1> QED
  BY <1>1, <1>2, TypeCorrect, HistoryInvariant, PTL DEF Spec, ImplementsDag, Dag!Spec

(* No step starts a task that was cancelled. *)
LEMMA StartsUncancelled ==
    ASSUME TypeOK, HistoryInv, [Next]_vars, NEW t \in cancelReq
    PROVE  status'[t] # "running" /\ claims'[t] = claims[t]
<1> USE DEF HistoryInv, TypeOK
<1>0. t \in Task /\ status[t] # "running"
  BY DEF TaskHistory
<1>1. ASSUME NEW a \in Actor, Operation(a)
      PROVE  status'[t] # "running" /\ claims'[t] = claims[t]
  <2>1. CASE RecoverLeases /\ UNCHANGED claims
    BY <1>0, <2>1 DEF RecoverLeases, AfterRecovery
  <2>2. CASE Claim(a)
    BY <1>0, <2>2 DEF Claim, ClaimRows, Winnable, AfterRecovery
  <2>3. CASE CompleteWrite(a) \/ FailState(a)
    BY <1>0, <2>3 DEF CompleteWrite, FailState, SetStatus
  <2>4. CASE UNCHANGED <<status, claims>>
    BY <1>0, <2>4
  <2> QED
    BY <1>1, <2>1, <2>2, <2>3, <2>4
       DEF Operation, ReportRead, ReportRecover, ReportList, ReportWrite, ClaimRead,
           ClaimRecover, ClaimList, ClaimFailed, AdvanceRecover, AdvanceRelist,
           AdvanceWrite, FailRead, FailAttempt, FailGraph, rows, history
<1>2. ASSUME NEW c \in Clients, ClientStep(c)
      PROVE  status'[t] # "running" /\ claims'[t] = claims[t]
  BY <1>0, <1>2 DEF ClientStep, AdvanceList, ClientCancel, CancelRows, ClientComplete,
                    ClientFail, rows, history
<1>3. ASSUME NEW p \in Pools, PoolStep(p)
      PROVE  status'[t] # "running" /\ claims'[t] = claims[t]
  BY <1>0, <1>3 DEF PoolStep, HandlerEnds, PoolStart, Poll, PollCancelled, CancelRows,
                    HandlerReturns, HandlerFails, HandlerStopped, SignalStop, RenewLease,
                    rows, history
<1>4. ASSUME NEW u \in Task, LeaseExpires(u)
      PROVE  status'[t] # "running" /\ claims'[t] = claims[t]
  BY <1>0, <1>4 DEF LeaseExpires, history
<1>5. ASSUME NEW a \in Actor, Crash(ProcessOf[a])
      PROVE  status'[t] # "running" /\ claims'[t] = claims[t]
  BY <1>0, <1>5 DEF Crash, rows, history
<1>6. CASE UNCHANGED vars
  BY <1>0, <1>6 DEF vars
<1> QED
  BY <1>1, <1>2, <1>3, <1>4, <1>5, <1>6 DEF Next

(* The cancel_requested mark is final for execution. *)
THEOREM NoRestartAfterCancel == Spec => CancelledNeverRestarts
<1>1. TypeOK /\ HistoryInv /\ [Next]_vars =>
          [\A t \in cancelReq : status'[t] # "running" /\ claims'[t] = claims[t]]_vars
  BY StartsUncancelled
<1> QED
  BY <1>1, TypeCorrect, HistoryInvariant, PTL DEF Spec, CancelledNeverRestarts
-----------------------------------------------------------------------------
(* Who executes a task: its handler or client holds it, or is recording    *)
(* its outcome.  While no lease ran out under its owner, whoever executes  *)
(* a task holds its lease, or the task was cancelled, and is then never    *)
(* handed out again.                                                       *)
Finishing == {"complete", "fail", "failState"}
Executing(a) == held[a] \union (IF pc[a] \in Finishing THEN sel[a] ELSE {})
Owned(a, t) == t \in cancelReq \/ (status[t] = "running" /\ lease[t] = a /\ ~stale[t])

OwningOf(a) ==
    /\ pc[a] \in Finishing => sel[a] \intersect held[a] = {}
    /\ \A t \in Executing(a) : Owned(a, t)
Apart == \A a, b \in Actor : a # b => Executing(a) \intersect Executing(b) = {}
ExecutorInv == ~overrun => Apart /\ \A a \in Actor : OwningOf(a)

(* Only a running task has a deadline that can have passed. *)
StaleRuns == \A t \in Task : stale[t] => status[t] = "running"

LEMMA StaleStep ==
    ASSUME TypeOK, StaleRuns, [Next]_vars
    PROVE  StaleRuns'
<1> USE DEF StaleRuns, TypeOK
<1>1. CASE RecoverLeases \/ CancelRows
  BY <1>1 DEF RecoverLeases, CancelRows, AfterRecovery, Exhausted, Expired, Terminal
<1>2. CASE UNCHANGED <<status, stale>>
  BY <1>2
<1>3. ASSUME NEW a \in Actor, Operation(a) PROVE StaleRuns'
  <2>1. CASE Claim(a)
    BY <2>1 DEF Claim, ClaimRows, AfterRecovery, Exhausted, Expired, Winnable
  <2>2. CASE CompleteWrite(a) \/ FailState(a)
    BY <2>2 DEF CompleteWrite, FailState, SetStatus
  <2> QED
    BY <1>1, <1>2, <1>3, <2>1, <2>2
       DEF Operation, ReportRead, ReportRecover, ReportList, ReportWrite, ClaimRead,
           ClaimRecover, ClaimList, ClaimFailed, AdvanceRecover, AdvanceRelist,
           AdvanceWrite, FailRead, FailAttempt, FailGraph, rows
<1>4. ASSUME NEW c \in Clients, ClientStep(c) PROVE StaleRuns'
  BY <1>1, <1>2, <1>4 DEF ClientStep, AdvanceList, ClientCancel, ClientComplete, ClientFail, rows
<1>5. ASSUME NEW p \in Pools, PoolStep(p) PROVE StaleRuns'
  <2>1. ASSUME NEW t \in Task, RenewLease(p, t) PROVE StaleRuns'
    BY <2>1 DEF RenewLease
  <2> QED
    BY <1>1, <1>2, <1>5, <2>1
       DEF PoolStep, HandlerEnds, PoolStart, Poll, PollCancelled, HandlerReturns, HandlerFails,
           HandlerStopped, SignalStop, rows
<1>6. ASSUME NEW t \in Task, LeaseExpires(t) PROVE StaleRuns'
  BY <1>6 DEF LeaseExpires
<1>7. CASE \E a \in Actor : Crash(ProcessOf[a])
  BY <1>2, <1>7 DEF Crash, rows
<1>8. CASE UNCHANGED vars
  BY <1>2, <1>8 DEF vars
<1> QED
  BY <1>3, <1>4, <1>5, <1>6, <1>7, <1>8 DEF Next

(* A step that hands out nothing, and drops no lease of an executed task.  *)
LEMMA ExecutorFrame ==
    ASSUME TypeOK, ExecutorInv, overrun' = overrun,
           \A a \in Actor : Executing(a)' \subseteq Executing(a),
           \A a \in Actor : OwningOf(a) => OwningOf(a)'
    PROVE  ExecutorInv'
  BY DEF ExecutorInv, Apart

(* Lease recovery leaves the tasks that are executed alone. *)
LEMMA RecoveryOwned ==
    ASSUME TypeOK, NEW a \in Actor, NEW t \in Task, Owned(a, t), HistoryInv,
           RecoverLeases, cancelReq' = cancelReq
    PROVE  Owned(a, t)'
  BY DEF TypeOK, Owned, RecoverLeases, AfterRecovery, Exhausted, Expired, HistoryInv, TaskHistory

(* What a cancellation finds open it marks, so that nobody starts it again. *)
LEMMA CancelOwned ==
    ASSUME TypeOK, NEW a \in Actor, NEW t \in Task, Owned(a, t), CancelRows
    PROVE  Owned(a, t)'
  BY DEF TypeOK, Owned, CancelRows, Terminal

(* The end of an execution: only the row of the one task in hand changes.  *)
LEMMA OutcomeExecutor ==
    ASSUME TypeOK, TypeOK', ExecutorInv, NEW a \in Actor, NEW t \in Task, NEW s \in TaskStatus,
           pc[a] \in Finishing, sel[a] = {t}, pc'[a] \notin Finishing, SetStatus(t, s),
           \A b \in Actor \ {a} : pc'[b] = pc[b] /\ sel'[b] = sel[b],
           UNCHANGED <<held, cancelReq, overrun>>
    PROVE  ExecutorInv'
<1> SUFFICES ASSUME ~overrun PROVE Apart' /\ \A b \in Actor : OwningOf(b)'
  BY DEF ExecutorInv
<1>0. Apart /\ \A b \in Actor : OwningOf(b)
  BY DEF ExecutorInv
<1>1. Executing(a)' = held[a] /\ t \notin held[a] /\ t \in Executing(a)
  BY <1>0 DEF Executing, OwningOf
<1>2. \A b \in Actor \ {a} : Executing(b)' = Executing(b) /\ t \notin Executing(b)
  BY <1>0, <1>1 DEF Executing, Apart
<1>3. \A b \in Actor : \A u \in Task \ {t} : Owned(b, u) => Owned(b, u)'
  BY DEF Owned, SetStatus, TypeOK
<1>4. \A b \in Actor : Executing(b)' \subseteq Executing(b) \ {t} /\ Executing(b) \subseteq Task
  BY <1>1, <1>2 DEF Executing, TypeOK
<1>5. \A b \in Actor : OwningOf(b)'
  BY <1>0, <1>2, <1>3, <1>4 DEF OwningOf
<1> QED
  BY <1>0, <1>4, <1>5 DEF Apart

LEMMA ExecutorStep ==
    ASSUME TypeOK, TypeOK', HistoryInv, StaleRuns, ExecutorInv, [Next]_vars
    PROVE  ExecutorInv'
<1> USE DEF At, Goto
<1>0. \A a \in Actor : Executing(a) \subseteq Task
  BY DEF Executing, TypeOK
<1>1. ASSUME NEW a \in Actor, pc'[a] \notin Finishing,
             \A b \in Actor \ {a} : pc'[b] = pc[b] /\ sel'[b] = sel[b],
             UNCHANGED <<held, overrun>>,
             \A b \in Actor : \A t \in Task : Owned(b, t) => Owned(b, t)'
      PROVE  ExecutorInv'
  <2>1. \A b \in Actor : Executing(b)' \subseteq Executing(b)
    BY <1>1 DEF Executing
  <2>2. \A b \in Actor : OwningOf(b) => OwningOf(b)'
    BY <1>0, <1>1, <2>1 DEF OwningOf
  <2> QED
    BY <1>1, <2>1, <2>2, ExecutorFrame
<1>2. ASSUME NEW a \in Actor, Operation(a) PROVE ExecutorInv'
  <2>1. CASE ReportRecover(a) \/ ClaimRecover(a) \/ AdvanceRecover(a)
    <3>1. RecoverLeases /\ cancelReq' = cancelReq
      BY <2>1 DEF ReportRecover, ClaimRecover, AdvanceRecover
    <3>2. /\ pc'[a] \notin Finishing
          /\ \A b \in Actor \ {a} : pc'[b] = pc[b] /\ sel'[b] = sel[b]
          /\ UNCHANGED <<held, overrun>>
      BY <2>1 DEF ReportRecover, ClaimRecover, AdvanceRecover, TypeOK, Finishing, local, env
    <3> QED
      BY <1>1, <3>1, <3>2, RecoveryOwned
  <2>2. CASE \/ ReportRead(a) \/ ReportList(a) \/ ReportWrite(a) \/ ClaimRead(a) \/ ClaimList(a)
             \/ ClaimFailed(a) \/ AdvanceRelist(a) \/ AdvanceWrite(a) \/ FailGraph(a)
    <3>0. PICK l : Goto(a, l) /\ l \notin Finishing
      BY <2>2, LabelsHistory
         DEF ReportRead, ReportList, ReportWrite, ClaimRead, ClaimList, ClaimFailed, AdvanceRelist,
             AdvanceWrite, FailGraph, Finishing
    <3>1. /\ pc'[a] \notin Finishing
          /\ \A b \in Actor \ {a} : pc'[b] = pc[b] /\ sel'[b] = sel[b]
      BY <2>2, <3>0
         DEF ReportRead, ReportList, ReportWrite, ClaimRead, ClaimList, ClaimFailed, AdvanceRelist,
             AdvanceWrite, FailGraph, TypeOK, local
    <3>2. UNCHANGED <<rows, held, overrun>>
      BY <2>2 DEF ReportRead, ReportList, ReportWrite, ClaimRead, ClaimList, ClaimFailed, AdvanceRelist,
                  AdvanceWrite, FailGraph, env
    <3> QED
      BY <1>1, <3>1, <3>2 DEF Owned, rows
  <2>3. CASE Claim(a)
    <3> SUFFICES ASSUME ~overrun PROVE Apart' /\ \A b \in Actor : OwningOf(b)'
      BY <2>3 DEF Claim, env, ExecutorInv
    <3> DEFINE won == Winnable(sel[a])
    <3>0. Apart /\ \A b \in Actor : OwningOf(b)
      BY <2>3 DEF Claim, env, ExecutorInv
    <3>1. \A b \in Actor : won \intersect Executing(b) = {}
      BY <1>0, <3>0 DEF Winnable, OwningOf, Owned, AfterRecovery, Exhausted, Expired, HistoryInv, TaskHistory
    <3>2. /\ Executing(a)' = Executing(a) \union won
          /\ pc[a] \notin Finishing /\ pc'[a] \notin Finishing
      BY <2>3, LabelsHistory DEF Claim, Executing, Finishing, TypeOK
    <3>3. \A b \in Actor \ {a} : /\ Executing(b)' = Executing(b) /\ pc'[b] = pc[b]
                                /\ sel'[b] = sel[b] /\ held'[b] = held[b]
      BY <2>3 DEF Claim, Executing, TypeOK
    <3>4. ClaimRows(a, won) /\ cancelReq' = cancelReq
      BY <2>3 DEF Claim
    <3>5. \A b \in Actor : \A t \in Task \ won : Owned(b, t) => Owned(b, t)'
      BY <3>4 DEF Owned, ClaimRows, AfterRecovery, Exhausted, Expired, HistoryInv, TaskHistory
    <3>6. won \subseteq Task /\ \A t \in won : Owned(a, t)'
      BY <3>4 DEF Owned, ClaimRows, AfterRecovery, Exhausted, Expired, Winnable, TypeOK, StaleRuns
    <3> HIDE DEF won
    <3>7. OwningOf(a)'
      BY <1>0, <3>0, <3>1, <3>2, <3>5, <3>6 DEF OwningOf
    <3>8. \A b \in Actor \ {a} : OwningOf(b)'
      BY <1>0, <3>0, <3>1, <3>3, <3>5 DEF OwningOf
    <3>9. Apart'
      BY <3>0, <3>1, <3>2, <3>3 DEF Apart
    <3> QED
      BY <3>7, <3>8, <3>9
  <2>4. CASE CompleteWrite(a) \/ FailState(a)
    <3>1. pc[a] \in Finishing /\ pc[a] \in Selected
      BY <2>4 DEF CompleteWrite, FailState, Finishing, Selected
    <3>2. PICK t \in Task : sel[a] = {t}
      BY <3>1 DEF HistoryInv, ActorHistory, ActorHistoryOf
    <3>3. PICK s \in TaskStatus : SetStatus(t, s)
      BY <2>4, <3>2 DEF CompleteWrite, FailState, TaskStatus
    <3>4. /\ pc'[a] \notin Finishing
          /\ \A b \in Actor \ {a} : pc'[b] = pc[b] /\ sel'[b] = sel[b]
          /\ UNCHANGED <<held, cancelReq, overrun>>
      BY <2>4, LabelsHistory DEF CompleteWrite, FailState, TypeOK, Finishing, local, env
    <3> QED
      BY <3>1, <3>2, <3>3, <3>4, OutcomeExecutor
  <2>5. CASE FailRead(a)
    <3>1. \A b \in Actor : Executing(b)' = Executing(b)
      BY <2>5 DEF FailRead, Executing, Finishing, TypeOK
    <3>2. \A b \in Actor : OwningOf(b) => OwningOf(b)'
      BY <2>5, <3>1 DEF FailRead, OwningOf, Owned, Finishing, TypeOK, rows
    <3> QED
      BY <2>5, <3>1, <3>2, ExecutorFrame DEF FailRead, env
  <2>6. CASE FailAttempt(a)
    <3>1. /\ pc'[a] \notin Finishing
          /\ \A b \in Actor \ {a} : pc'[b] = pc[b] /\ sel'[b] = sel[b]
          /\ UNCHANGED <<held, overrun, status, lease, stale, cancelReq>>
      BY <2>6 DEF FailAttempt, TypeOK, Finishing, env
    <3> QED
      BY <1>1, <3>1 DEF Owned
  <2> QED
    BY <1>2, <2>1, <2>2, <2>3, <2>4, <2>5, <2>6 DEF Operation
<1>3. ASSUME NEW a \in Actor, CancelRows, pc'[a] = "reportRead", overrun' = overrun,
             \A b \in Actor \ {a} : pc'[b] = pc[b],
             \A b \in Actor : held'[b] \subseteq held[b] /\ sel'[b] = sel[b]
      PROVE  ExecutorInv'
  <2>1. \A b \in Actor : Executing(b)' \subseteq Executing(b)
    BY <1>3 DEF Executing, Finishing
  <2>2. \A b \in Actor : \A t \in Task : Owned(b, t) => Owned(b, t)'
    BY <1>3, CancelOwned
  <2>3. \A b \in Actor : OwningOf(b) => OwningOf(b)'
    BY <1>0, <1>3, <2>1, <2>2 DEF OwningOf, Finishing
  <2> QED
    BY <1>3, <2>1, <2>3, ExecutorFrame
(* The outcome of a held task is recorded next. *)
<1>4. ASSUME NEW a \in Actor, NEW t \in held[a], pc'[a] \in Finishing,
             held' = [held EXCEPT ![a] = @ \ {t}], sel' = [sel EXCEPT ![a] = {t}],
             \A b \in Actor \ {a} : pc'[b] = pc[b],
             UNCHANGED <<rows, overrun>>
      PROVE  ExecutorInv'
  <2>1. \A b \in Actor : Executing(b)' \subseteq Executing(b)
    BY <1>4 DEF Executing, TypeOK
  <2>2. \A b \in Actor : OwningOf(b) => OwningOf(b)'
    BY <1>4, <2>1 DEF OwningOf, Owned, TypeOK, rows
  <2> QED
    BY <1>4, <2>1, <2>2, ExecutorFrame
<1>5. ASSUME NEW c \in Clients, ClientStep(c) PROVE ExecutorInv'
  <2>0. c \in Actor
    BY DEF Actor
  <2>1. CASE AdvanceList(c)
    BY <1>1, <2>0, <2>1 DEF AdvanceList, TypeOK, Finishing, Owned, rows, env
  <2>2. CASE ClientCancel(c)
    BY <1>3, <2>0, <2>2 DEF ClientCancel, TypeOK, local, env
  <2>3. ASSUME NEW t \in Task, ClientComplete(c, t) \/ ClientFail(c, t) PROVE ExecutorInv'
    BY <1>4, <2>0, <2>3 DEF ClientComplete, ClientFail, TypeOK, Finishing, env
  <2> QED
    BY <1>5, <2>1, <2>2, <2>3 DEF ClientStep
<1>6. ASSUME NEW p \in Pools, PoolStep(p) PROVE ExecutorInv'
  <2>0. p \in Actor
    BY DEF Actor
  <2>1. CASE PoolStart(p) \/ Poll(p)
    BY <1>1, <2>0, <2>1 DEF PoolStart, Poll, TypeOK, Finishing, Owned, rows, local, env
  <2>2. CASE PollCancelled(p)
    BY <1>3, <2>0, <2>2 DEF PollCancelled, TypeOK, local, env
  <2>3. ASSUME NEW t \in Task, HandlerReturns(p, t) \/ HandlerFails(p, t) PROVE ExecutorInv'
    <3>1. PICK l \in Finishing : Goto(p, l)
      BY <2>3 DEF HandlerReturns, HandlerFails, RecordOutcome, Finishing
    <3> QED
      BY <1>4, <2>0, <2>3, <3>1 DEF HandlerReturns, HandlerFails, TypeOK, env
  <2>4. ASSUME NEW t \in Task, HandlerStopped(p, t) PROVE ExecutorInv'
    BY <1>3, <2>0, <2>4 DEF HandlerStopped, TypeOK, local, env
  <2>5. CASE SignalStop(p) \/ \E t \in Task : RenewLease(p, t)
    <3>1. \A b \in Actor : Executing(b)' = Executing(b)
      BY <2>5 DEF SignalStop, RenewLease, Executing, local
    <3>2. \A b \in Actor : \A t \in Task : Owned(b, t) => Owned(b, t)'
      BY <2>5 DEF SignalStop, RenewLease, Owned, TypeOK, rows
    <3>3. \A b \in Actor : OwningOf(b) => OwningOf(b)'
      BY <1>0, <2>5, <3>1, <3>2 DEF SignalStop, RenewLease, OwningOf, local
    <3> QED
      BY <2>5, <3>1, <3>3, ExecutorFrame DEF SignalStop, RenewLease, env
  <2> QED
    BY <1>6, <2>1, <2>2, <2>3, <2>4, <2>5 DEF PoolStep, HandlerEnds
<1>7. ASSUME NEW t \in Task, LeaseExpires(t) PROVE ExecutorInv'
  <2> SUFFICES ASSUME ~overrun' PROVE ExecutorInv'
    BY DEF ExecutorInv
  <2>1. ~overrun /\ Orphaned(t) /\ overrun' = overrun /\ UNCHANGED <<pc, sel, held>>
    <3>1. ~overrun /\ Orphaned(t)
      BY <1>7 DEF LeaseExpires
    <3>2. overrun' = overrun
      BY <3>1 DEF TypeOK
    <3> QED
      BY <1>7, <3>1, <3>2 DEF LeaseExpires, local
  <2>2. \A b \in Actor : Executing(b)' = Executing(b)
    BY <2>1 DEF Executing
  <2>3. \A b \in Actor : \A u \in Executing(b) : Owned(b, u) => Owned(b, u)'
    BY <1>0, <1>7, <2>1 DEF LeaseExpires, Owned, Orphaned, Executing, TypeOK
  <2>4. \A b \in Actor : OwningOf(b) => OwningOf(b)'
    BY <2>1, <2>2, <2>3 DEF OwningOf
  <2> QED
    BY <2>1, <2>2, <2>4, ExecutorFrame
<1>8. ASSUME NEW h \in Actor, Crash(ProcessOf[h]) PROVE ExecutorInv'
  <2>1. \A b \in Actor : Executing(b)' \subseteq Executing(b)
    BY <1>8 DEF Crash, Executing, TypeOK, Finishing
  <2>2. \A b \in Actor : OwningOf(b) => OwningOf(b)'
    BY <1>8, <2>1 DEF Crash, OwningOf, Owned, Finishing, TypeOK, rows
  <2> QED
    BY <1>8, <2>1, <2>2, ExecutorFrame DEF Crash
<1>9. CASE UNCHANGED vars
  BY <1>9 DEF vars, ExecutorInv, Apart, OwningOf, Owned, Executing
<1> QED
  BY <1>2, <1>5, <1>6, <1>7, <1>8, <1>9 DEF Next

(* While leases outlive executions, no two actors execute one task.        *)
THEOREM ExecutedOnce == Spec => []OneExecutor
<1>1. Init => ExecutorInv /\ StaleRuns
  BY DEF Init, ExecutorInv, Apart, OwningOf, Owned, Executing, Finishing, StaleRuns
<1>2. TypeOK /\ TypeOK' /\ HistoryInv /\ ExecutorInv /\ StaleRuns /\ [Next]_vars
          => ExecutorInv' /\ StaleRuns'
  BY ExecutorStep, StaleStep
<1>3. ExecutorInv => OneExecutor
  BY DEF ExecutorInv, Apart, Executing, OneExecutor
<1> QED
  BY <1>1, <1>2, <1>3, TypeCorrect, HistoryInvariant, PTL DEF Spec

-----------------------------------------------------------------------------
(* One process.  Its operations never interleave, so that between the two  *)
(* commits of fail_task, of the status and of the attempt, nobody claims.  *)
(* A queued task has an attempt left, for which it was not claimed yet,    *)
(* except between those two commits.                                       *)
SingleProcess == \A a, b \in Actor : ProcessOf[a] = ProcessOf[b]

Exclusive == \A a, b \in Actor : a # b => pc[a] \in Resting \/ pc[b] \in Resting
Pending(t) == \E a \in Actor : pc[a] = "failAttempt" /\ sel[a] = {t}

BudgetOf(t) ==
    /\ claims[t] <= attempt[t] + 1 /\ claims[t] <= MaxAttempts
    /\ status[t] = "queued" /\ ~Pending(t) => claims[t] <= attempt[t] /\ attempt[t] < MaxAttempts
FailingOf(a) ==
    pc[a] \in {"failState", "failAttempt"} =>
        \A t \in sel[a] :
            /\ tried[a] = attempt[t] + 1
            /\ pc[a] = "failAttempt" /\ status[t] = "queued" => tried[a] < MaxAttempts
BudgetInv ==
    /\ Exclusive
    /\ crashes = 0 => (\A t \in Task : BudgetOf(t)) /\ (\A a \in Actor : FailingOf(a))

(* Every operation is taken while the other actors rest, and moves one.    *)
LEMMA ExclusiveStep ==
    ASSUME SingleProcess, TypeOK, Exclusive, [Next]_vars
    PROVE  Exclusive'
<1>1. ASSUME NEW a \in Actor, Scheduled(a), \A b \in Actor \ {a} : pc'[b] = pc[b]
      PROVE  Exclusive'
  BY <1>1 DEF SingleProcess, Scheduled, Exclusive
<1>2. ASSUME NEW a \in Actor, Operation(a) PROVE Exclusive'
  <2>1. Scheduled(a) /\ \A b \in Actor \ {a} : pc'[b] = pc[b]
    BY <1>2 DEF Operation, ReportRead, ReportRecover, ReportList, ReportWrite, ClaimRead,
                ClaimRecover, ClaimList, ClaimFailed, Claim, AdvanceRecover, AdvanceRelist,
                AdvanceWrite, CompleteWrite, FailRead, FailState, FailAttempt, FailGraph,
                At, Goto, TypeOK
  <2> QED
    BY <1>1, <2>1
<1>3. ASSUME NEW c \in Clients, ClientStep(c) PROVE Exclusive'
  <2>1. c \in Actor /\ Scheduled(c) /\ \A b \in Actor \ {c} : pc'[b] = pc[b]
    BY <1>3 DEF ClientStep, AdvanceList, ClientCancel, ClientComplete, ClientFail, At, Goto, TypeOK, Actor
  <2> QED
    BY <1>1, <2>1
<1>4. ASSUME NEW p \in Pools, PoolStep(p) PROVE Exclusive'
  <2>0. p \in Actor
    BY DEF Actor
  <2>1. CASE PoolStart(p) \/ Poll(p) \/ PollCancelled(p) \/ HandlerEnds(p)
    <3>1. Scheduled(p) /\ \A b \in Actor \ {p} : pc'[b] = pc[b]
      BY <2>0, <2>1 DEF PoolStart, Poll, PollCancelled, HandlerEnds, HandlerReturns, HandlerFails,
                        HandlerStopped, At, Goto, TypeOK
    <3> QED
      BY <1>1, <2>0, <3>1
  <2>2. CASE SignalStop(p) \/ \E t \in Task : RenewLease(p, t)
    BY <2>2 DEF SignalStop, RenewLease, Exclusive
  <2> QED
    BY <1>4, <2>1, <2>2 DEF PoolStep
<1>5. CASE \E t \in Task : LeaseExpires(t)
  BY <1>5 DEF LeaseExpires, Exclusive
<1>6. CASE \E a \in Actor : Crash(ProcessOf[a])
  BY <1>6 DEF Crash, SingleProcess, Exclusive, Resting, TypeOK
<1>7. CASE UNCHANGED vars
  BY <1>7 DEF vars, Exclusive
<1> QED
  BY <1>2, <1>3, <1>4, <1>5, <1>6, <1>7 DEF Next

LEMMA BudgetStep ==
    ASSUME SingleProcess, TypeOK, TypeOK', HistoryInv, BudgetInv, [Next]_vars
    PROVE  BudgetInv'
<1> SUFFICES ASSUME crashes' = 0
             PROVE  (\A t \in Task : BudgetOf(t)') /\ (\A a \in Actor : FailingOf(a)')
  BY ExclusiveStep DEF BudgetInv
<1> USE DEF At, Goto
<1>0. /\ crashes = 0
      /\ \A t \in Task : BudgetOf(t)
      /\ \A a \in Actor : FailingOf(a)
  <2>1. crashes = 0
    <3>1. CASE \E a \in Actor : Crash(ProcessOf[a])
      BY <3>1 DEF Crash, TypeOK
    <3>2. CASE ~\E a \in Actor : Crash(ProcessOf[a])
      BY <3>2 DEF Next, vars, Operation, ReportRead, ReportRecover, ReportList, ReportWrite, ClaimRead,
                  ClaimRecover, ClaimList, ClaimFailed, Claim, AdvanceRecover, AdvanceRelist,
                  AdvanceWrite, CompleteWrite, FailRead, FailState, FailAttempt, FailGraph,
                  ClientStep, AdvanceList, ClientCancel, ClientComplete, ClientFail,
                  PoolStep, HandlerEnds, PoolStart, Poll, PollCancelled, HandlerReturns,
                  HandlerFails, HandlerStopped, SignalStop, RenewLease, LeaseExpires, env
    <3> QED
      BY <3>1, <3>2
  <2> QED
    BY <2>1 DEF BudgetInv
<1>q. \A a \in Actor : Scheduled(a) => \A b \in Actor \ {a} : pc[b] \in Resting
  BY DEF SingleProcess, Scheduled
(* Steps that neither queue a task, nor claim, nor count an attempt, nor   *)
(* begin or end a failure.                                                 *)
<1>1. ASSUME UNCHANGED <<attempt, claims>>,
             \A t \in Task : status'[t] = "queued" => status[t] = "queued",
             \A a \in Actor : pc[a] = "failAttempt" => pc'[a] = "failAttempt",
             \A a \in Actor : pc'[a] \in {"failState", "failAttempt"} =>
                                 pc'[a] = pc[a] /\ tried'[a] = tried[a],
             \A a \in Actor : pc[a] = "failAttempt" \/ pc'[a] \in {"failState", "failAttempt"} =>
                                 sel'[a] = sel[a]
      PROVE  (\A t \in Task : BudgetOf(t)') /\ (\A a \in Actor : FailingOf(a)')
  <2>1. \A t \in Task : Pending(t) => Pending(t)'
    BY <1>1 DEF Pending
  <2>2. \A t \in Task : BudgetOf(t)'
    BY <1>0, <1>1, <2>1 DEF BudgetOf
  <2>3. \A a \in Actor : FailingOf(a)'
    BY <1>0, <1>1 DEF FailingOf, TypeOK
  <2> QED
    BY <2>2, <2>3
(* Recovery counts the attempts of the tasks it queues. *)
<1>2. ASSUME NEW a \in Actor, Scheduled(a), RecoverLeases, UNCHANGED <<sel, tried, claims>>,
             pc[a] \notin {"failState", "failAttempt"}, pc'[a] \notin {"failState", "failAttempt"},
             \A b \in Actor \ {a} : pc'[b] = pc[b]
      PROVE  (\A t \in Task : BudgetOf(t)') /\ (\A b \in Actor : FailingOf(b)')
  <2>1. \A b \in Actor : pc[b] \notin {"failState", "failAttempt"} /\ pc'[b] \notin {"failState", "failAttempt"}
    BY <1>2, <1>q DEF Resting
  <2>2. \A t \in Task : ~Pending(t)
    BY <2>1 DEF Pending
  <2>3. \A t \in Task : BudgetOf(t)'
    BY <1>0, <1>2, <2>2, ActorAssumption
       DEF BudgetOf, RecoverLeases, AfterRecovery, Exhausted, Expired, TypeOK, ClaimCap
  <2> QED
    BY <2>1, <2>3 DEF FailingOf
<1>3. ASSUME NEW a \in Actor, Operation(a)
      PROVE  (\A t \in Task : BudgetOf(t)') /\ (\A b \in Actor : FailingOf(b)')
  <2>1. CASE ReportRecover(a) \/ ClaimRecover(a) \/ AdvanceRecover(a)
    BY <1>2, <2>1 DEF ReportRecover, ClaimRecover, AdvanceRecover, local, TypeOK
  <2>2. CASE \/ ReportRead(a) \/ ReportList(a) \/ ReportWrite(a) \/ ClaimRead(a) \/ ClaimList(a)
             \/ ClaimFailed(a) \/ AdvanceRelist(a) \/ AdvanceWrite(a) \/ FailGraph(a)
    <3>0. PICK l : Goto(a, l) /\ l \notin {"failState", "failAttempt"}
      BY <2>2, LabelsHistory
         DEF ReportRead, ReportList, ReportWrite, ClaimRead, ClaimList, ClaimFailed, AdvanceRelist,
             AdvanceWrite, FailGraph
    <3>1. /\ pc'[a] \notin {"failState", "failAttempt"} /\ pc[a] # "failAttempt"
          /\ \A b \in Actor \ {a} : pc'[b] = pc[b] /\ sel'[b] = sel[b] /\ tried'[b] = tried[b]
      BY <2>2, <3>0
         DEF ReportRead, ReportList, ReportWrite, ClaimRead, ClaimList, ClaimFailed, AdvanceRelist,
             AdvanceWrite, FailGraph, TypeOK, local
    <3>2. UNCHANGED <<rows, claims>>
      BY <2>2 DEF ReportRead, ReportList, ReportWrite, ClaimRead, ClaimList, ClaimFailed, AdvanceRelist,
                  AdvanceWrite, FailGraph, history
    <3> QED
      BY <1>1, <3>1, <3>2 DEF rows
  <2>3. CASE Claim(a)
    <3> DEFINE won == Winnable(sel[a])
    <3>1. \A b \in Actor : pc[b] \notin {"failState", "failAttempt"} /\ pc'[b] \notin {"failState", "failAttempt"}
      BY <2>3, <1>q, LabelsHistory DEF Claim, Resting, TypeOK
    <3>2. \A t \in Task : ~Pending(t)
      BY <3>1 DEF Pending
    <3>3. ClaimRows(a, won)
      BY <2>3 DEF Claim
    <3>4. \A t \in won : t \in Task => AfterRecovery[t] = "queued"
      BY DEF Winnable
    <3> HIDE DEF won
    <3>5. ASSUME NEW t \in Task PROVE BudgetOf(t)'
      <4>1. BudgetOf(t) /\ ~Pending(t)
        BY <1>0, <3>2
      <4>2. attempt'[t] = (IF t \in Expired THEN attempt[t] + 1 ELSE attempt[t])
        BY <3>3 DEF ClaimRows
      <4>3. AfterRecovery[t] = "queued" => claims[t] <= attempt'[t] /\ attempt'[t] < MaxAttempts
        BY <4>1, <4>2, ActorAssumption DEF BudgetOf, AfterRecovery, Exhausted, Expired, TypeOK, ClaimCap
      <4>4. CASE t \in won
        <5>1. /\ AfterRecovery[t] = "queued" /\ status'[t] = "running"
              /\ claims'[t] \in {claims[t], claims[t] + 1}
          BY <3>3, <3>4, <4>4 DEF ClaimRows
        <5> QED
          BY <4>1, <4>2, <4>3, <5>1, ActorAssumption DEF BudgetOf, TypeOK, ClaimCap
      <4>5. CASE t \notin won
        <5>1. status'[t] = AfterRecovery[t] /\ claims'[t] = claims[t]
          BY <3>3, <4>5 DEF ClaimRows
        <5> QED
          BY <4>1, <4>2, <4>3, <5>1, ActorAssumption DEF BudgetOf, TypeOK, ClaimCap
      <4> QED
        BY <4>4, <4>5
    <3> QED
      BY <3>1, <3>5 DEF FailingOf
  <2>4. CASE CompleteWrite(a)
    <3>1. PICK t \in Task : SetStatus(t, "completed")
      BY <2>4 DEF CompleteWrite, TypeOK
    <3>2. /\ pc[a] = "complete" /\ pc'[a] \in {"advanceList", "reportRead"}
          /\ \A b \in Actor \ {a} : pc'[b] = pc[b] /\ sel'[b] = sel[b]
          /\ UNCHANGED <<tried, attempt, claims>>
      BY <2>4, LabelsHistory DEF CompleteWrite, TypeOK
    <3>3. \A u \in Task : status'[u] = "queued" => status[u] = "queued"
      BY <3>1 DEF SetStatus, TypeOK
    <3> QED
      BY <1>1, <3>2, <3>3
  <2>5. CASE FailRead(a)
    <3>1. PICK t \in Task : sel[a] = {t}
      BY <2>5 DEF FailRead, HistoryInv, ActorHistory, ActorHistoryOf, Selected
    <3>2. /\ tried' = [tried EXCEPT ![a] = attempt[t] + 1]
          /\ pc[a] = "fail" /\ pc' = [pc EXCEPT ![a] = "failState"]
          /\ UNCHANGED <<sel, status, attempt, claims>>
      BY <2>5, <3>1 DEF FailRead, rows, history
    <3>3. \A u \in Task : Pending(u)' <=> Pending(u)
      BY <3>2 DEF Pending, TypeOK
    <3>4. \A u \in Task : BudgetOf(u)'
      BY <1>0, <3>2, <3>3 DEF BudgetOf
    <3>5. FailingOf(a)'
      BY <3>1, <3>2 DEF FailingOf, TypeOK
    <3>6. \A b \in Actor \ {a} : FailingOf(b)'
      BY <1>0, <3>2 DEF FailingOf, TypeOK
    <3> QED
      BY <3>4, <3>5, <3>6
  <2>6. CASE FailState(a)
    <3>1. PICK t \in Task : sel[a] = {t}
      BY <2>6 DEF FailState, HistoryInv, ActorHistory, ActorHistoryOf, Selected
    <3>2. /\ status' = [status EXCEPT ![t] = IF Retries(a) THEN "queued" ELSE "failed"]
          /\ pc[a] = "failState" /\ pc' = [pc EXCEPT ![a] = "failAttempt"]
          /\ UNCHANGED <<sel, tried, attempt, claims>>
      BY <2>6, <3>1 DEF FailState, SetStatus, local
    <3>3. Pending(t)' /\ \A u \in Task : Pending(u) => Pending(u)'
      BY <3>1, <3>2 DEF Pending, TypeOK
    <3>4. \A u \in Task : BudgetOf(u)'
      BY <1>0, <3>2, <3>3 DEF BudgetOf, TypeOK
    <3>5. FailingOf(a)'
      BY <1>0, <3>1, <3>2 DEF FailingOf, Retries, TypeOK
    <3>6. \A b \in Actor \ {a} : pc'[b] \notin {"failState", "failAttempt"}
      BY <2>6, <1>q, <3>2 DEF FailState, Resting, TypeOK
    <3> QED
      BY <3>4, <3>5, <3>6 DEF FailingOf
  <2>7. CASE FailAttempt(a)
    <3>1. PICK t \in Task : sel[a] = {t}
      BY <2>7 DEF FailAttempt, HistoryInv, ActorHistory, ActorHistoryOf, Selected
    <3>2. /\ attempt' = [attempt EXCEPT ![t] = tried[a]]
          /\ pc[a] = "failAttempt" /\ pc' = [pc EXCEPT ![a] = "failGraph"]
          /\ UNCHANGED <<tried, status, claims>>
      BY <2>7, <3>1 DEF FailAttempt, history
    <3>3. \A b \in Actor : pc'[b] \notin {"failState", "failAttempt"}
      BY <2>7, <1>q, <3>2 DEF FailAttempt, Resting, TypeOK
    <3>4. tried[a] = attempt[t] + 1 /\ (status[t] = "queued" => tried[a] < MaxAttempts)
      BY <1>0, <3>1, <3>2 DEF FailingOf
    <3>5. \A u \in Task \ {t} : ~Pending(u)
      <4>1. \A b \in Actor \ {a} : pc[b] # "failAttempt"
        BY <2>7, <1>q DEF FailAttempt, Resting
      <4> QED
        BY <3>1, <4>1 DEF Pending
    <3>6. BudgetOf(t)'
      BY <1>0, <3>2, <3>4, ActorAssumption DEF BudgetOf, TypeOK, ClaimCap
    <3>7. \A u \in Task \ {t} : BudgetOf(u)'
      BY <1>0, <3>2, <3>5 DEF BudgetOf, TypeOK
    <3> QED
      BY <3>3, <3>6, <3>7 DEF FailingOf
  <2> QED
    BY <1>3, <2>1, <2>2, <2>3, <2>4, <2>5, <2>6, <2>7 DEF Operation
<1>4. ASSUME NEW a \in Actor, UNCHANGED <<attempt, claims, tried>>,
             \A t \in Task : status'[t] = "queued" => status[t] = "queued",
             pc[a] \notin {"failState", "failAttempt"}, pc'[a] \notin {"failState", "failAttempt"},
             \A b \in Actor \ {a} : pc'[b] = pc[b] /\ sel'[b] = sel[b]
      PROVE  (\A t \in Task : BudgetOf(t)') /\ (\A b \in Actor : FailingOf(b)')
  BY <1>1, <1>4
<1>5. ASSUME CancelRows PROVE \A t \in Task : status'[t] = "queued" => status[t] = "queued"
  BY <1>5 DEF CancelRows, Terminal
<1>6. ASSUME NEW c \in Clients, ClientStep(c)
      PROVE  (\A t \in Task : BudgetOf(t)') /\ (\A b \in Actor : FailingOf(b)')
  <2>0. c \in Actor
    BY DEF Actor
  <2>1. CASE AdvanceList(c)
    BY <1>4, <2>0, <2>1 DEF AdvanceList, TypeOK, rows, history
  <2>2. CASE ClientCancel(c)
    BY <1>4, <1>5, <2>0, <2>2 DEF ClientCancel, TypeOK, local, history
  <2>3. ASSUME NEW t \in Task, ClientComplete(c, t) \/ ClientFail(c, t)
        PROVE  (\A u \in Task : BudgetOf(u)') /\ (\A b \in Actor : FailingOf(b)')
    BY <1>4, <2>0, <2>3 DEF ClientComplete, ClientFail, TypeOK, rows, history
  <2> QED
    BY <1>6, <2>1, <2>2, <2>3 DEF ClientStep
<1>7. ASSUME NEW p \in Pools, PoolStep(p)
      PROVE  (\A t \in Task : BudgetOf(t)') /\ (\A b \in Actor : FailingOf(b)')
  <2>0. p \in Actor
    BY DEF Actor
  <2>1. CASE PoolStart(p) \/ Poll(p)
    BY <1>4, <2>0, <2>1 DEF PoolStart, Poll, TypeOK, rows, local, history
  <2>2. CASE PollCancelled(p)
    BY <1>4, <1>5, <2>0, <2>2 DEF PollCancelled, TypeOK, local, history
  <2>3. ASSUME NEW t \in Task, HandlerReturns(p, t) \/ HandlerFails(p, t)
        PROVE  (\A u \in Task : BudgetOf(u)') /\ (\A b \in Actor : FailingOf(b)')
    <3>1. PICK l \in {"fail", "complete"} : Goto(p, l)
      BY <2>3 DEF HandlerReturns, HandlerFails, RecordOutcome
    <3> QED
      BY <1>4, <2>0, <2>3, <3>1 DEF HandlerReturns, HandlerFails, TypeOK, rows, history
  <2>4. ASSUME NEW t \in Task, HandlerStopped(p, t)
        PROVE  (\A u \in Task : BudgetOf(u)') /\ (\A b \in Actor : FailingOf(b)')
    BY <1>4, <1>5, <2>0, <2>4 DEF HandlerStopped, TypeOK, local, history
  <2>5. CASE SignalStop(p) \/ \E t \in Task : RenewLease(p, t)
    <3>1. UNCHANGED <<status, attempt, claims, pc, sel, tried>>
      BY <2>5 DEF SignalStop, RenewLease, rows, local, history
    <3> QED
      BY <1>1, <3>1
  <2> QED
    BY <1>7, <2>1, <2>2, <2>3, <2>4, <2>5 DEF PoolStep, HandlerEnds
<1>8. CASE \E t \in Task : LeaseExpires(t)
  <2>1. UNCHANGED <<status, attempt, claims, pc, sel, tried>>
    BY <1>8 DEF LeaseExpires, local, history
  <2> QED
    BY <1>1, <2>1
<1>9. CASE \E a \in Actor : Crash(ProcessOf[a])
  BY <1>0, <1>9 DEF Crash, TypeOK
<1>10. CASE UNCHANGED vars
  BY <1>1, <1>10 DEF vars
<1> QED
  BY <1>3, <1>6, <1>7, <1>8, <1>9, <1>10 DEF Next

(* In one process that does not die, a task is claimed at most once per    *)
(* attempt and at most max_attempts times, whatever leases run out.  With  *)
(* two processes a claim may come between the two commits of fail_task.    *)
THEOREM BudgetKept ==
    ASSUME SingleProcess
    PROVE  Spec => []RetryBudget
<1>1. Init => BudgetInv
  BY ActorAssumption DEF Init, BudgetInv, Exclusive, Resting, BudgetOf, FailingOf, Pending
<1>2. TypeOK /\ TypeOK' /\ HistoryInv /\ BudgetInv /\ [Next]_vars => BudgetInv'
  BY BudgetStep
<1>3. BudgetInv => RetryBudget
  BY DEF BudgetInv, BudgetOf, RetryBudget
<1> QED
  BY <1>1, <1>2, <1>3, TypeCorrect, HistoryInvariant, PTL DEF Spec
=============================================================================

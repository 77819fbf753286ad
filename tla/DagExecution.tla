---------------------------- MODULE DagExecution ----------------------------
(***************************************************************************)
(* What a task graph promises, without rows, leases, actors or statements: *)
(* tasks start only when their dependencies are done, only started tasks   *)
(* finish or break, and a verdict is announced only when it is true of the *)
(* history.  A cancellation may be announced at any time, and an announced *)
(* verdict may be taken back (a task completed or retried late reopens the *)
(* graph).                                                                 *)
(***************************************************************************)
CONSTANTS Task, Deps

VARIABLES
    started,   \* tasks some worker was given
    done,      \* tasks that completed at least once
    broken,    \* tasks that ran out of attempts at least once
    verdict    \* the announced status of the graph

vars == <<started, done, broken, verdict>>

Init == started = {} /\ done = {} /\ broken = {} /\ verdict = "queued"

Startable == {t \in Task : Deps[t] \subseteq done}

(* Workers take the tasks S; tasks B, found abandoned by the same          *)
(* transaction, are given up.                                              *)
Start(S, B) ==
    /\ S \subseteq Startable
    /\ B \subseteq started
    /\ started' = started \union S
    /\ broken' = broken \union B
    /\ verdict' \in {verdict, "running"}
    /\ UNCHANGED done

Finish(t) ==
    /\ t \in started
    /\ done' = done \union {t}
    /\ UNCHANGED <<started, broken, verdict>>

Announce(v) ==
    /\ v = "completed" => done = Task
    /\ v = "failed" => broken # {}
    /\ verdict' = v
    /\ UNCHANGED <<started, done, broken>>

Next ==
    \/ \E S, B \in SUBSET Task : Start(S, B)
    \/ \E t \in Task : Finish(t)
    \/ \E v \in {"queued", "running", "completed", "failed", "cancelled"} : Announce(v)

Spec == Init /\ [][Next]_vars
=============================================================================

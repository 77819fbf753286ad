------------------------------- MODULE JobLifecycle -------------------------------
(* What the training workspace promises of a job, whoever writes to it: it moves    *)
(* along the state machine of the manual, a run of it is started only on a permit   *)
(* that taking it from the queue gives, and it returns to the queue by itself only  *)
(* while its attempts last; otherwise somebody resumes it.                          *)
EXTENDS Integers

CONSTANTS Jobs, MaxAttempts

VARIABLES status, permits, tries, grants
vars == <<status, permits, tries, grants>>

Ended  == {"succeeded", "failed", "blocked", "cancelled"}
Begun  == {"provisioning", "running", "checkpointing", "evaluating"}

(* running -> checkpointing -> running, running/checkpointing -> evaluating ->      *)
(* running/succeeded; any run may fail, be blocked or be cancelled.                 *)
Follows(s, t) ==
    \/ s = "absent" /\ t \in {"validating"}
    \/ s = "validating" /\ t \in {"queued", "blocked", "cancelled"}
    \/ s = "queued" /\ t \in {"blocked", "cancelled"}
    \/ s \in Begun /\ t \in {"failed", "blocked", "cancelled"}
    \/ s = "provisioning" /\ t = "running"
    \/ s = "running" /\ t \in {"checkpointing", "evaluating", "succeeded"}
    \/ s = "checkpointing" /\ t \in {"running", "evaluating"}
    \/ s = "evaluating" /\ t \in {"running", "succeeded"}

Move(j) ==
    /\ \E t \in Ended \cup Begun \cup {"validating", "queued"} :
          Follows(status[j], t) /\ status' = [status EXCEPT ![j] = t]
    /\ UNCHANGED <<permits, tries, grants>>

Take(j) ==
    /\ status[j] = "queued"
    /\ status' = [status EXCEPT ![j] = "provisioning"]
    /\ permits' = [permits EXCEPT ![j] = @ + 1]
    /\ UNCHANGED <<tries, grants>>

Try(j) ==
    /\ permits[j] > 0
    /\ permits' = [permits EXCEPT ![j] = @ - 1]
    /\ tries' = [tries EXCEPT ![j] = @ + 1]
    /\ UNCHANGED <<status, grants>>

Forget(j) ==
    /\ permits[j] > 0
    /\ permits' = [permits EXCEPT ![j] = @ - 1]
    /\ UNCHANGED <<status, tries, grants>>

Retry(j) ==
    /\ status[j] = "failed"
    /\ tries[j] + permits[j] < MaxAttempts
    /\ status' = [status EXCEPT ![j] = "queued"]
    /\ UNCHANGED <<permits, tries, grants>>

Resume(j) ==
    /\ status[j] \in {"failed", "cancelled"}
    /\ status' = [status EXCEPT ![j] = "queued"]
    /\ grants' = [grants EXCEPT ![j] = @ + 1]
    /\ UNCHANGED <<permits, tries>>

Init ==
    /\ status \in [Jobs -> {"absent", "queued"}]
    /\ permits = [j \in Jobs |-> 0]
    /\ tries   = [j \in Jobs |-> 0]
    /\ grants  = [j \in Jobs |-> 0]

Next == \E j \in Jobs :
            Move(j) \/ Take(j) \/ Try(j) \/ Forget(j) \/ Retry(j) \/ Resume(j)

Spec == Init /\ [][Next]_vars
===============================================================================

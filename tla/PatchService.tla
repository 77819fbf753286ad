---------------------------- MODULE PatchService ----------------------------
(***************************************************************************)
(* The patch service: a patch is previewed (its row keeps its edits and    *)
(* the content its files had), applied file by file and rolled back from   *)
(* the kept content.  The row is read once, before the first file, and     *)
(* written once, after the last; nothing locks the working tree meanwhile. *)
(*                                                                         *)
(* A patch is its number.  A file holds the number of the patch that wrote *)
(* it, or 0 while it is as the user left it (or does not exist).           *)
(***************************************************************************)
EXTENDS Naturals, Sequences, FiniteSets

CONSTANTS
    File,         \* the files patches are about
    Execs,        \* calls that execute agent runs on the project
    Endpoints,      \* threads that serve the patch endpoints
    MaxFaults     \* bound on raised errors, timeouts and deaths

VARIABLES
    tree,      \* what the files of the project hold
    patchRow,      \* patch rows, in the order of their previews
    hand,      \* what each thread is doing to the tree: operation, patch, files to write
    faults     \* errors so far

patchVars == <<tree, patchRow, hand, faults>>

Actors   == Execs \union Endpoints
Number   == 1..Len(patchRow)
Free     == [op |-> "none", of |-> 0, todo |-> {}]
Busy(a)  == hand[a].op # "none"
Fault    == faults < MaxFaults /\ faults' = faults + 1

PatchInit ==
    /\ tree = [f \in File |-> 0]
    /\ patchRow = <<>>
    /\ hand = [a \in Actors |-> Free]
    /\ faults = 0

(* preview: keeps what the files hold now, inserts the row.                *)
Preview(a, edits) ==
    patchRow' = Append(patchRow, [run |-> a, status |-> "preview", edits |-> edits, before |-> tree])

(* The row of patch p with the given status.                               *)
SetPatchStatus(p, s) == patchRow' = [patchRow EXCEPT ![p].status = s]

Takes(a, op, p, files) == hand' = [hand EXCEPT ![a] = [op |-> op, of |-> p, todo |-> files]]
LetsGo(a) == hand' = [hand EXCEPT ![a] = Free]

(* apply and rollback read the row and only then touch files.              *)
MayApply(p) == patchRow[p].status = "preview"
BeginApply(a, p) == MayApply(p) /\ Takes(a, "apply", p, patchRow[p].edits) /\ UNCHANGED patchRow

ToRestore(p) == IF patchRow[p].status = "applied" THEN patchRow[p].edits ELSE {}
BeginRollback(a, p) ==
    /\ patchRow[p].status # "rolled_back"
    /\ Takes(a, "rollback", p, ToRestore(p))
    /\ UNCHANGED patchRow

(* _atomic_write of the next file: new content, or the content kept.       *)
WriteFile(a) ==
    /\ \E f \in hand[a].todo :
          /\ tree' = [tree EXCEPT ![f] = IF hand[a].op = "apply" THEN hand[a].of
                                         ELSE patchRow[hand[a].of].before[f]]
          /\ hand' = [hand EXCEPT ![a].todo = @ \ {f}]
    /\ UNCHANGED <<patchRow, faults>>

(* A write raises: apply restores the files it has written so far; a       *)
(* restore is left as it stands.                                           *)
Unwritten(a) == Takes(a, "undo", hand[a].of, patchRow[hand[a].of].edits \ hand[a].todo)
WriteRaises(a) ==
    /\ hand[a].todo # {}
    /\ Fault
    /\ IF hand[a].op = "apply" THEN Unwritten(a) ELSE LetsGo(a)
    /\ UNCHANGED <<tree, patchRow>>

(* After the last file the row is updated.                                 *)
Outcome(op) == IF op = "apply" THEN "applied" ELSE "rolled_back"
Finished(a) == hand[a].op \in {"apply", "rollback"} /\ hand[a].todo = {}
RecordPatch(a) ==
    /\ Finished(a)
    /\ SetPatchStatus(hand[a].of, Outcome(hand[a].op))
    /\ LetsGo(a)
    /\ UNCHANGED <<tree, faults>>

(* apply is left by an exception: after the restore, or because the update *)
(* of the row raised, when nothing restores the files.                     *)
LeaveApply(a) ==
    /\ \/ hand[a].op = "undo" /\ hand[a].todo = {} /\ UNCHANGED faults
       \/ Finished(a) /\ Fault
    /\ LetsGo(a)
    /\ UNCHANGED <<tree, patchRow>>
=============================================================================

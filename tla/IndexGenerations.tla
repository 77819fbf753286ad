-------------------------- MODULE IndexGenerations --------------------------
(***************************************************************************)
(* What indexing promises the readers of a project: a sequence of complete *)
(* generations, each published at most once, of which exactly the last one *)
(* is searchable.  Nothing that fails, is cancelled or crashes takes the   *)
(* searchable generation away.                                             *)
(***************************************************************************)
CONSTANTS Projects, Generations, None

VARIABLES
    searchable,   \* the generation a project's readers see
    retired       \* generations that were searchable before

vars == <<searchable, retired>>

Init ==
    /\ searchable = [p \in Projects |-> None]
    /\ retired = {}

Publish(p, g) ==
    /\ g \notin retired
    /\ \A q \in Projects : searchable[q] # g
    /\ searchable' = [searchable EXCEPT ![p] = g]
    /\ retired' = retired \union ({searchable[p]} \ {None})

Next == \E p \in Projects, g \in Generations : Publish(p, g)

Spec == Init /\ [][Next]_vars
=============================================================================

---------------------------- MODULE MCTaskGraph ----------------------------
(* Small task graphs and deployments for TLC. *)
EXTENDS TaskGraph

CONSTANTS p1, p2, c1, c2

(* Two tasks in a chain. *)
Chain == [t \in 1..2 |-> {d \in 1..2 : d < t}]

(* A first task and two that depend on it. *)

(* One gateway process serving every actor; or one process per actor. *)
OneProcess == [a \in Actor |-> 1]
OwnProcess == [a \in Actor |-> a]
=============================================================================

----------------------------- MODULE MCRagIndex -----------------------------
(* Small indexing deployments for TLC. *)
EXTENDS RagIndexProperties, TLC

CONSTANTS j1, j2, w1, w2, p1

(* Every job indexes the same project: that is where they meet. *)
OneProject == [j \in Jobs |-> p1]

Interchangeable == Permutations(Jobs) \union Permutations(Workers)
=============================================================================

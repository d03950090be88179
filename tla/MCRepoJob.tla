------------------------------- MODULE MCRepoJob -------------------------------
(* Instances of RepoJob for TLC. *)
EXTENDS RepoJob

CONSTANTS c1, c2, n1, n2
=============================================================================

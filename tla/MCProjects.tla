------------------------------ MODULE MCProjects ------------------------------
(* Instances of Projects for TLC. *)
EXTENDS Projects, TLC

CONSTANTS n1, n2

\* No definition tells one name from another.
NameSymmetry == Permutations(Names)
=============================================================================

----------------------------- MODULE MCNodeManager -----------------------------
(* Instances of NodeManager for TLC. *)
EXTENDS NodeManager, TLC

CONSTANTS a1, a2, n1, n2

\* Clients are alike.
Symmetry == Permutations(Admins)
=============================================================================

--------------------------- MODULE MCStoredObjects ---------------------------
(* Instances of StoredObjects for TLC. *)
EXTENDS StoredObjects, TLC

CONSTANTS c1, c2, p1, p2, n1, n2, theCluster

Symmetry == Permutations(Clients) \cup Permutations(Places)
=============================================================================

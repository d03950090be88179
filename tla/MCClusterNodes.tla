---------------------------- MODULE MCClusterNodes ----------------------------
(* Instances of ClusterNodes for TLC. *)
EXTENDS ClusterNodes, TLC

CONSTANTS c1, c2, n1, n2, g1, blank_g1, master, p1

\* strings.TrimSpace
TrimSpace == (g1 :> g1) @@ (blank_g1 :> g1)

AllOps == {"addLabel", "delLabel", "suspend", "resume", "addGroup", "removeGroup",
           "addNode", "addEdge", "removeNode", "drain"}

\* Others write to the node that is no master.
WritesToWorker == (n1 :> 0) @@ (n2 :> 1)

Symmetry == Permutations(Clients)
=============================================================================

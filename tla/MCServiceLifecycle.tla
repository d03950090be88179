-------------------------- MODULE MCServiceLifecycle --------------------------
(* Instances of ServiceLifecycle for TLC. *)
EXTENDS ServiceSerial, TLC

CONSTANTS u1, u2, n1, n2

Symmetry == Permutations({u1, u2})
=============================================================================

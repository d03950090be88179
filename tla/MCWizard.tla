------------------------------- MODULE MCWizard -------------------------------
(* Instances of Wizard for TLC. *)
EXTENDS Wizard, TLC

CONSTANTS c1, c2, u1, u2, p1, p2

\* Two tabs of one user, or one of each of two users.
TwoTabs == {c1 :> u1 @@ c2 :> u1, c1 :> u1 @@ c2 :> u2}

AllPhases == {"project", "containers", "inits", "external", "entire"}

Symmetry == Permutations({p1, p2})
=============================================================================

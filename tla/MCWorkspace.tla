---------------------------- MODULE MCWorkspace ----------------------------
(* The constants of the TLC run of Workspace.                              *)
EXTENDS Workspace, TLC

CONSTANTS d1, d2, n1, n2, f1, f2, c1, c2, u1, u2

Symmetry == Permutations({d1, d2}) \cup Permutations({n1, n2}) \cup Permutations({f1, f2})
            \cup Permutations({c1, c2}) \cup Permutations({u1, u2})
=============================================================================

----------------------------- MODULE MCAccounts -----------------------------
(* The constants of the TLC run of Accounts.                               *)
EXTENDS Accounts, TLC

CONSTANTS a1, a2, a3, n1, n2, w1, w2, c1, c2, c3, u1

TightLimits == [hour |-> 1, month |-> 2, files |-> 1]

Symmetry == Permutations({a1, a2, a3}) \cup Permutations({n1, n2}) \cup Permutations({c1, c2, c3})
=============================================================================

--------------------------- MODULE MCUsageLimits ---------------------------
(* The constants of the TLC runs of UsageLimits.                           *)
EXTENDS UsageLimits, TLC

TightLimits == [hour |-> 1, month |-> 2, files |-> 1]
CallSymmetry == Permutations(Calls)
=============================================================================

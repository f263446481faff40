----------------------------- MODULE MCServices -----------------------------
(* The constants of the TLC run of Services.                               *)
EXTENDS Services, TLC

CONSTANTS u1, u2, o1, o2, q1, d1, d2, r1, r2, r3, s1, k1, k2,
          f1, f2, e1, b1, x1, p1, p2, l1, l2, g1, i1, c1, c2, c3

Symmetry == Permutations({f1, f2}) \cup Permutations({p1, p2}) \cup Permutations({l1, l2})
=============================================================================

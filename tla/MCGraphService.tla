--------------------------- MODULE MCGraphService ---------------------------
(* The constants of the TLC run of GraphService.                           *)
EXTENDS GraphService, TLC

CONSTANTS d1, d2, l1, l2, e1, e2, e3

\* Two documents that name the same two things and relate them differently.
TwoTexts ==
    (d1 :> [labels |-> {l1, l2}, pairs |-> {<<l1, l2>>}]) @@
    (d2 :> [labels |-> {l1, l2}, pairs |-> {<<l1, l2>>, <<l2, l1>>}])

\* The resolver keeps both labels, takes one for the other, or answers with no groups.
SomeResolutions == {[l \in Labels |-> l], [l \in Labels |-> l1], None}

Ask(create, explicit, filter, scope) ==
    [create |-> create, explicit |-> explicit, filter |-> filter, scope |-> scope]

SomeRequests ==
    {Ask(TRUE, {d1}, None, None), Ask(TRUE, {}, {d2}, None),
     Ask(FALSE, {}, {d2}, None), Ask(FALSE, {}, None, {d1})}

OpSymmetry == Permutations(Ops)
=============================================================================

-------------------------- MODULE MCKnowledgeGraph --------------------------
(* The constants of the TLC run of KnowledgeGraph.                         *)
EXTENDS KnowledgeGraph, TLC

CONSTANTS d1, d2, l1, l2

\* Two documents that name the same two things and relate them differently.
TwoTexts ==
    (d1 :> [labels |-> {l1, l2}, pairs |-> {<<l1, l2>>}]) @@
    (d2 :> [labels |-> {l1, l2}, pairs |-> {<<l1, l2>>, <<l2, l1>>}])

\* The resolver keeps both labels, takes one for the other, or answers with no groups.
SomeResolutions == {[l \in Labels |-> l], [l \in Labels |-> l1], None}

OneBuild == {[create |-> TRUE, explicit |-> {d1}, filter |-> None, scope |-> None]}
=============================================================================

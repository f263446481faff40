---------------------------- MODULE GraphService ----------------------------
(***************************************************************************)
(* The graph service: graphs are built and updated (KnowledgeGraph), and   *)
(* queries walk them (GraphSearch).  A walk reads its graph once and works *)
(* on what it has read, so that it starts from any graph, and one part     *)
(* moves at a time: the variable part says which.                          *)
(***************************************************************************)
EXTENDS KnowledgeGraph, GraphSearch

VARIABLE part   \* the part that moves: "build" or "search"

\* Where a search leaves the requests for builds: none is made.
Unbuilt ==
    /\ \A d \in Docs : docSt[d] = "here"
    /\ req = CHOOSE r \in [Ops -> Requests] : TRUE

ServiceInit ==
    /\ part \in {"build", "search"}
    /\ Init /\ GraphSearchInit
    /\ part = "build" \/ Unbuilt

BuildPart ==
    /\ part = "build" /\ Next
    /\ UNCHANGED <<part, graphVars>>

SearchPart ==
    /\ part = "search" /\ GraphSearchNext
    /\ UNCHANGED <<part, vars>>

ServiceNext == BuildPart \/ SearchPart

ServiceSpec == ServiceInit /\ [][ServiceNext]_<<part, vars, graphVars>>
=============================================================================

------------------------------ MODULE Accounts ------------------------------
(***************************************************************************)
(* What belongs to an account: the limits of its tier and how its use is   *)
(* counted (UsageLimits), and its applications with the requests that are  *)
(* routed to their stores (Routing, over Apps).                            *)
(*                                                                         *)
(* The two share none of their variables, so a behaviour of one part at a  *)
(* time shows all of them: the variable part says which.                   *)
(***************************************************************************)
EXTENDS UsageLimits, Routing

CONSTANTS MaxRouted,  \* bound on the calls of Apps while requests are routed
          MaxFaulty   \* bound on the applications for which a step fails meanwhile

ASSUME AccountsAssumption == MaxRouted \in Nat /\ MaxFaulty \in Nat

VARIABLE part   \* the part that moves: "usage", "apps" or "routing"

\* Where the other parts leave the metered calls: none begins.
Unasked ==
    /\ \A u \in Users : row[u] = NoRow
    /\ req = CHOOSE r \in [Calls -> [user : Users, kind : Kinds]] : TRUE

AccountsInit ==
    /\ part \in {"usage", "apps", "routing"}
    /\ Init /\ RoutingInit
    /\ part = "usage" \/ Unasked
    /\ part = "apps" \/ plan = "teams"   \* no other part depends on the plan

UsagePart ==
    /\ part = "usage" /\ Next
    /\ UNCHANGED <<part, appsVars, routingVars>>

AppsPart ==
    /\ part = "apps" /\ AppsNext
    /\ UNCHANGED <<part, vars, routingVars>>

Begun == {c \in ACalls : acall[c].pc # "idle"}

RoutingPart ==
    /\ part = "routing" /\ RoutingNext
    /\ Cardinality(Begun') <= MaxRouted /\ Cardinality(faulty') <= MaxFaulty
    /\ UNCHANGED <<part, vars>>

AccountsNext == UsagePart \/ AppsPart \/ RoutingPart

AccountsSpec == AccountsInit /\ [][AccountsNext]_<<part, vars, appsVars, routingVars>>
=============================================================================

------------------------------ MODULE Services ------------------------------
(***************************************************************************)
(* What works beside the ingestion of documents: the connection to Google  *)
(* Drive, retrieval, the agent, the start of the processes, the handles of *)
(* the SDK, batches of files and the caches of documents.                  *)
(*                                                                         *)
(* They touch none of each other's variables, so a behaviour of one part   *)
(* at a time shows all of them: the variable part says which.              *)
(***************************************************************************)
EXTENDS DriveConnector, Retrieval, Agent, Startup, Clients, Batches, Caches

CONSTANTS MaxHurt     \* bound on the processes whose start goes wrong

ASSUME ServicesAssumption == MaxHurt \in Nat

Parts == {"drive", "retrieval", "agent", "startup", "clients", "graphs", "batches", "caches"}

VARIABLE part   \* the part that moves

\* No other part depends on what the first start finds.
Started == tables = "whole" /\ vecs.dim = "new" /\ pages.cols /\ redis

Init ==
    /\ part \in Parts
    /\ DriveInit /\ RetrievalInit /\ AgentInit /\ StartupInit
    /\ ClientsInit /\ BatchesInit /\ CachesInit
    /\ part = "startup" \/ Started

DrivePart ==
    /\ part = "drive" /\ DriveNext
    /\ UNCHANGED <<part, retrievalVars, agentVars, startupVars, clientVars, batchVars, cacheVars>>

RetrievalPart ==
    /\ part = "retrieval" /\ RetrievalNext
    /\ \E q \in Queries : qcall[q].pc \notin {"done", "failed"}   \* nothing looks at later steps
    /\ UNCHANGED <<part, driveVars, agentVars, startupVars, clientVars, batchVars, cacheVars>>

AgentPart ==
    /\ part = "agent" /\ AgentNext
    /\ UNCHANGED <<part, driveVars, retrievalVars, startupVars, clientVars, batchVars, cacheVars>>

StartupPart ==
    /\ part = "startup" /\ StartupNext
    /\ Cardinality(hurt') <= MaxHurt
    /\ UNCHANGED <<part, driveVars, retrievalVars, agentVars, clientVars, batchVars, cacheVars>>

ClientsPart ==
    /\ part = "clients" /\ ClientsNext
    /\ UNCHANGED <<part, driveVars, retrievalVars, agentVars, startupVars, batchVars, cacheVars>>

ClientGraphsPart ==
    /\ part = "graphs" /\ GraphClientsNext
    /\ UNCHANGED <<part, driveVars, retrievalVars, agentVars, startupVars, batchVars, cacheVars>>

BatchesPart ==
    /\ part = "batches" /\ BatchesNext
    /\ UNCHANGED <<part, driveVars, retrievalVars, agentVars, startupVars, clientVars, cacheVars>>

CachesPart ==
    /\ part = "caches" /\ CachesNext
    /\ UNCHANGED <<part, driveVars, retrievalVars, agentVars, startupVars, clientVars, batchVars>>

Next ==
    \/ DrivePart \/ RetrievalPart \/ AgentPart \/ StartupPart
    \/ ClientsPart \/ ClientGraphsPart \/ BatchesPart \/ CachesPart

Spec == Init /\ [][Next]_<<part, driveVars, retrievalVars, agentVars, startupVars, clientVars, batchVars, cacheVars>>

TypeOK ==
    /\ DriveTypeOK
    /\ RetrievalTypeOK
    /\ AgentTypeOK
    /\ StartupTypeOK
    /\ ClientsTypeOK
    /\ BatchesTypeOK
    /\ CachesTypeOK
=============================================================================

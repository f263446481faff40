-------------------------- MODULE DocumentCatalog --------------------------
(***************************************************************************)
(* What a client of the server may rely on about a document, whoever is    *)
(* working on it: the values its status takes, in which order, and which   *)
(* vector stores hold chunks its row names.  Module Ingestion implements   *)
(* it.                                                                     *)
(*                                                                         *)
(* A document is accepted once and deleted once.  While it exists it       *)
(* settles as completed or failed; a completed document is never taken     *)
(* back to "processing", and only settling as completed changes the chunks *)
(* it names.                                                               *)
(***************************************************************************)
CONSTANTS Docs, Stores

VARIABLES status,    \* status[d], as GET /documents/{id}/status would report it
          findable   \* findable[d]: stores where every chunk the row names exists

Status == {"absent", "processing", "completed", "failed", "deleted"}
Live   == {"processing", "completed", "failed"}

Init == /\ status = [d \in Docs |-> "absent"]
        /\ findable = [d \in Docs |-> {}]

\* A row appears, still processing; text ingestion inserts it after its chunks.
Accept(d) ==
    /\ status[d] = "absent"
    /\ status' = [status EXCEPT ![d] = "processing"]
    /\ \E S \in SUBSET Stores : findable' = [findable EXCEPT ![d] = S]

\* Ingestion ends well: the chunks are named and present.
Complete(d) ==
    /\ status[d] \in Live
    /\ status' = [status EXCEPT ![d] = "completed"]
    /\ \E S \in SUBSET Stores : findable' = [findable EXCEPT ![d] = S]

Fail(d) ==
    /\ status[d] \in Live
    /\ status' = [status EXCEPT ![d] = "failed"]
    /\ UNCHANGED findable

\* A server that could not tell whether its job was queued has already
\* reported a failure when the worker takes the document up.
Reopen(d) ==
    /\ status[d] = "failed"
    /\ status' = [status EXCEPT ![d] = "processing"]
    /\ UNCHANGED findable

Delete(d) ==
    /\ status[d] \in Live
    /\ status' = [status EXCEPT ![d] = "deleted"]
    /\ findable' = [findable EXCEPT ![d] = {}]

Next == \E d \in Docs :
    Accept(d) \/ Complete(d) \/ Fail(d) \/ Reopen(d) \/ Delete(d)

Spec == Init /\ [][Next]_<<status, findable>>
=============================================================================

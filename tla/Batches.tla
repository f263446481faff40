------------------------------ MODULE Batches ------------------------------
(***************************************************************************)
(* A batch of files (POST /ingest/files): the server takes one file after  *)
(* the other, stores a row for it, keeps it, and queues the job that       *)
(* ingests it.  An exception ends the batch with HTTP 500; what was queued *)
(* by then stays queued.  The workers, deletes, and SDK clients that wait  *)
(* for a document to be completed go on meanwhile.                         *)
(*                                                                         *)
(* The job itself is the matter of Ingestion, and the limits that of       *)
(* UsageLimits: here they succeed or fail.                                 *)
(***************************************************************************)
EXTENDS Integers, FiniteSets

CONSTANTS BatchIds,    \* the batches sent
          BatchSize,   \* files in each
          BatchFaults  \* what may go wrong with a file: a subset of the ones below

ASSUME BatchesAssumption ==
    /\ BatchSize \in Nat \ {0}
    /\ BatchFaults \subseteq {"row", "limit", "storage", "record", "charge", "queue", "lost"}

Nos == 1 .. BatchSize

VARIABLES batch,    \* batch -> [pc, at]: where it is, at which file
          files,    \* batch -> number -> the document of the file
          waiting   \* batch -> number -> the wait of a client for that document

batchVars == <<batch, files, waiting>>

\* status: of the row, "none" before it is stored; kept: the file is in storage;
\* info: the row says where; charged: as used storage; job: of the queue.
Unsent == [status |-> "none", kept |-> FALSE, info |-> FALSE, charged |-> FALSE, job |-> "none"]

BatchesInit ==
    /\ batch = [b \in BatchIds |-> [pc |-> "idle", at |-> 0]]
    /\ files = [b \in BatchIds |-> [i \in Nos |-> Unsent]]
    /\ waiting = [b \in BatchIds |-> [i \in Nos |-> "no"]]

At(b, pc) == batch[b].pc = pc
This(b) == files[b][batch[b].at]
Goes(b, pc) == batch' = [batch EXCEPT ![b].pc = pc]
Sets(b, f) == files' = [files EXCEPT ![b][batch[b].at] = f]
MayFail(x) == x \in BatchFaults

-----------------------------------------------------------------------------
(* The loop of the server.                                                 *)

SendBatch(b) ==
    /\ At(b, "idle")
    /\ batch' = [batch EXCEPT ![b] = [pc |-> "row", at |-> 1]]
    /\ UNCHANGED <<files, waiting>>

\* The row is visible, and may be deleted, from here on.
StoreFileRow(b) ==
    /\ At(b, "row")
    /\ Sets(b, [Unsent EXCEPT !.status = "processing"])
    /\ Goes(b, "limits")
    /\ UNCHANGED waiting

\* The limits are looked at only (verify_only) before the upload.
CheckLimits(b) ==
    /\ At(b, "limits")
    /\ Goes(b, "upload")
    /\ UNCHANGED <<files, waiting>>

UploadFile(b) ==
    /\ At(b, "upload")
    /\ Sets(b, [This(b) EXCEPT !.kept = TRUE])
    /\ Goes(b, "record")
    /\ UNCHANGED waiting

\* An update that fails answers FALSE, and nobody looks at the answer.
RecordStorage(b) ==
    /\ At(b, "record")
    /\ \E done \in {This(b).status # "deleted"} \cup (IF MayFail("record") THEN {FALSE} ELSE {}) :
          Sets(b, [This(b) EXCEPT !.info = done])
    /\ Goes(b, "charge")
    /\ UNCHANGED waiting

\* A charge that fails is logged.
ChargeStorage(b) ==
    /\ At(b, "charge")
    /\ \E done \in {TRUE} \cup (IF MayFail("charge") THEN {FALSE} ELSE {}) :
          Sets(b, [This(b) EXCEPT !.charged = done])
    /\ Goes(b, "queue")
    /\ UNCHANGED waiting

\* Variant with a fault: the loop ends before the last file.
QueueJobEarly(b) ==
    /\ At(b, "queue")
    /\ Sets(b, [This(b) EXCEPT !.job = "queued"])
    /\ batch' = [batch EXCEPT ![b] =
                    IF batch[b].at < BatchSize - 1 THEN [pc |-> "row", at |-> batch[b].at + 1]
                    ELSE [pc |-> "ok", at |-> BatchSize]]
    /\ UNCHANGED waiting

QueueJob(b) ==
    /\ At(b, "queue")
    /\ Sets(b, [This(b) EXCEPT !.job = "queued"])
    /\ batch' = [batch EXCEPT ![b] =
                    IF batch[b].at < BatchSize THEN [pc |-> "row", at |-> batch[b].at + 1]
                    ELSE [pc |-> "ok", at |-> BatchSize]]
    /\ UNCHANGED waiting

\* The steps an exception ends the batch at; the one of the queue may have got the
\* job in and lost the answer.
FailBatch(b) ==
    /\ \/ At(b, "row") /\ MayFail("row") /\ UNCHANGED files
       \/ At(b, "limits") /\ MayFail("limit") /\ UNCHANGED files
       \/ At(b, "upload") /\ MayFail("storage") /\ UNCHANGED files
       \/ At(b, "queue") /\ MayFail("queue") /\ UNCHANGED files
       \/ At(b, "queue") /\ MayFail("lost") /\ Sets(b, [This(b) EXCEPT !.job = "queued"])
    /\ Goes(b, "failed")
    /\ UNCHANGED waiting

-----------------------------------------------------------------------------
(* The worker, deletes and waiting clients.                                *)

\* The end of a job: the row says so, unless it was deleted.
EndJob(b, i, status) ==
    /\ files[b][i].job = "queued" /\ status \in {"completed", "failed"}
    /\ LET told == IF files[b][i].status = "deleted" THEN "deleted" ELSE status
       IN  files' = [files EXCEPT ![b][i] = [files[b][i] EXCEPT !.job = "ended", !.status = told]]
    /\ UNCHANGED <<batch, waiting>>

\* A job that is given up says nothing.
DropJob(b, i) ==
    /\ files[b][i].job = "queued"
    /\ files' = [files EXCEPT ![b][i].job = "ended"]
    /\ UNCHANGED <<batch, waiting>>

DeleteFile(b, i) ==
    /\ files[b][i].status \notin {"none", "deleted"}
    /\ files' = [files EXCEPT ![b][i].status = "deleted"]
    /\ UNCHANGED <<batch, waiting>>

\* wait_for_document_completion, of a document the client has from the answer to the
\* batch or from a list.
StartWait(b, i) ==
    /\ waiting[b][i] = "no" /\ files[b][i].status # "none"
    /\ waiting' = [waiting EXCEPT ![b][i] = "polling"]
    /\ UNCHANGED <<batch, files>>

Poll(b, i) ==
    LET status == files[b][i].status
    IN  /\ waiting[b][i] = "polling" /\ status # "processing"
        /\ waiting' = [waiting EXCEPT ![b][i] =
                          [completed |-> "seen", failed |-> "error", deleted |-> "missing"][status]]
        /\ UNCHANGED <<batch, files>>

\* The document is read by a second request.
Fetch(b, i) ==
    /\ waiting[b][i] = "seen"
    /\ waiting' = [waiting EXCEPT ![b][i] =
                      IF files[b][i].status = "deleted" THEN "missing" ELSE "document"]
    /\ UNCHANGED <<batch, files>>

GiveUpWait(b, i) ==
    /\ waiting[b][i] = "polling"
    /\ waiting' = [waiting EXCEPT ![b][i] = "timeout"]
    /\ UNCHANGED <<batch, files>>

BatchStep(b) ==
    \/ SendBatch(b) \/ StoreFileRow(b) \/ CheckLimits(b) \/ UploadFile(b)
    \/ RecordStorage(b) \/ ChargeStorage(b) \/ QueueJob(b) \/ FailBatch(b)

FileStep(b, i) ==
    \/ \E status \in {"completed", "failed"} : EndJob(b, i, status)
    \/ DropJob(b, i) \/ DeleteFile(b, i)
    \/ StartWait(b, i) \/ Poll(b, i) \/ Fetch(b, i) \/ GiveUpWait(b, i)

BatchesNext == \E b \in BatchIds : BatchStep(b) \/ \E i \in Nos : FileStep(b, i)

BatchesSpec == BatchesInit /\ [][BatchesNext]_batchVars

-----------------------------------------------------------------------------

BatchesTypeOK ==
    /\ \A b \in BatchIds : batch[b].at \in 0 .. BatchSize
    /\ files \in [BatchIds -> [Nos ->
          [status: {"none", "processing", "completed", "failed", "deleted"}, kept: BOOLEAN,
           info: BOOLEAN, charged: BOOLEAN, job: {"none", "queued", "ended"}]]]
    /\ waiting \in [BatchIds -> [Nos ->
          {"no", "polling", "seen", "document", "error", "missing", "timeout"}]]

\* A batch that succeeded has a job for every one of its files and has kept each; one
\* that failed has so for the files before the one it failed at and has nothing of
\* those after, so that no more than one row is left without a job.  Storage is never
\* charged for a file that was not kept, nor a document handed to a waiting client
\* whose job did not complete it.
BatchesAreAccounted ==
    \A b \in BatchIds :
        /\ \A i \in Nos : LET f == files[b][i] IN
              /\ (At(b, "ok") \/ i < batch[b].at) => f.kept /\ f.job # "none"
              /\ (i > batch[b].at) => f = Unsent
              /\ f.charged => f.kept
              /\ f.info => f.kept
              /\ (waiting[b][i] = "document") => f.status \in {"completed", "deleted"} /\ f.job = "ended"
        /\ At(b, "failed") =>
              Cardinality({i \in Nos : files[b][i].status = "processing" /\ files[b][i].job = "none"}) <= 1
=============================================================================

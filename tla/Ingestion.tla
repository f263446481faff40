----------------------------- MODULE Ingestion -----------------------------
(***************************************************************************)
(* The life of a document, from the request that brings it in to the one   *)
(* that deletes it.  Four parties share it and take no lock:               *)
(*                                                                         *)
(*  - the API process, inside ingest_file, ingest_file_content or          *)
(*    ingest_text, and inside delete_document;                             *)
(*  - the arq queue, which starts a job at most MaxTries times;            *)
(*  - the worker process, inside process_ingestion_job;                    *)
(*  - the storage tasks of _store_chunks_and_doc, which asyncio.gather     *)
(*    leaves running when one of them fails.                               *)
(*                                                                         *)
(* They meet in the documents table, the two vector stores and the object  *)
(* store.  Each action is what runs between two awaits that touch one of   *)
(* these, so that every other party may come in between.                   *)
(*                                                                         *)
(* Data is cut down to what the properties tell apart: a document's chunks *)
(* are one batch per vector store (every attempt inserts the same ids), a  *)
(* file is present or not, extracted text is absent, blank or full.        *)
(***************************************************************************)
EXTENDS Naturals, FiniteSets

CONSTANTS Docs,              \* document ids (fresh uuids: an id is ingested once)
          NoRow,             \* the documents table has no row for the id
          MaxTries,          \* WorkerSettings.max_tries
          MaxJobs,           \* WorkerSettings.max_jobs
          MaxStoreAttempts,  \* max_retries of _store_chunks_and_doc
          MaxLost,           \* bound on the inserts per document whose reply is lost
          Requests,          \* what a client may ask for
          Faults             \* which of FaultKinds may happen

FaultKinds == {"server",    \* the API process dies
               "worker",    \* the worker process dies or is shut down
               "timeout",   \* a job runs longer than job_timeout
               "step",      \* a call of a request or job raises
               "db",        \* a database error that the callee swallows
               "conn",      \* a reply is lost after the call took effect
               "clean"}     \* a deletion task fails; delete_document logs it

Stores == {"regular", "colpali"}
Kinds  == {"file", "connector", "text"}

\* rules_list of the request: none; at least one post_chunking text rule; only others.
RuleSets == {"none", "chunking", "other"}

\* targets: the stores that will get chunks.  ColPali is there only if asked for; a
\* file of images alone has no regular chunks, and none at all when image rules let
\* it through without ColPali; ingest_text refuses a text without chunks.
RequestType == [kind : Kinds, rules : RuleSets, targets : SUBSET Stores]

\* The columns of a row of the documents table that the properties look at.
Statuses == {"processing", "completed", "failed"}
Contents == {"none", "blank", "full"}
Rows == [status : Statuses, content : Contents, chunks : SUBSET Stores, file : BOOLEAN]
Snapshots == Rows \cup {NoRow}

ASSUME NoRowAssumption    == NoRow \notin Rows
ASSUME LimitsAssumption   == /\ MaxTries \in Nat \ {0}
                             /\ MaxJobs \in Nat \ {0}
                             /\ MaxStoreAttempts \in Nat \ {0}
                             /\ MaxLost \in Nat
ASSUME FaultsAssumption   == Faults \subseteq FaultKinds
ASSUME RequestsAssumption == /\ Requests \subseteq RequestType
                             /\ \A q \in Requests : q.kind = "text" => q.targets # {}

VARIABLES
    docs,      \* docs[d]: the row of d, or NoRow
    rows,      \* rows[d][s]: how many times d's chunks were inserted into store s
    blob,      \* blob[d]: d's file is in the object store
    req,       \* req[d]: what is asked for (chosen at the start and never changed)
    apiPc,     \* apiPc[d]: where the ingest request is
    apiSeen,   \* apiSeen[d]: the row that its update_document has read
    jobSt,     \* jobSt[d]: the arq job
    tries,     \* tries[d]: how often arq has started it
    runPc,     \* runPc[d]: where the run of process_ingestion_job is
    runDoc,    \* runDoc[d]: its local copy of the row
    task,      \* task[d][s]: a store_with_retry task
    attempt,   \* attempt[d][s]: its failed attempts
    delPc,     \* delPc[d]: where the delete request is
    delDoc,    \* delDoc[d]: its copy of the row
    delTodo,   \* delTodo[d]: the deletions gathered and not yet done
    exact,     \* history: all had settled when delDoc was read and no deletion failed
    lost       \* history: lost[d][s] inserts committed whose reply was lost

apiVars  == <<apiPc, apiSeen>>
jobVars  == <<jobSt, tries>>
runVars  == <<runPc, runDoc>>
taskVars == <<task, attempt>>
delVars  == <<delPc, delDoc, delTodo, exact>>
vars == <<docs, rows, blob, req, apiVars, jobVars, runVars, taskVars, delVars, lost>>

TryPcs   == {"download", "fetch", "parsed", "refresh", "process", "store", "final"}
RunPcs   == TryPcs \cup {"idle", "errGet", "errWrite", "finish"}
InFlight == {"row", "upload", "record", "enqueue", "failRead", "failWrite",
             "textStore", "textRow", "textMark"}
ApiPcs   == InFlight \cup {"new", "ok", "error", "crashed"}
JobSts   == {"none", "queued", "running", "completed", "failed", "dead"}
TaskSts  == {"idle", "pending", "ok", "failed"}
DelPcs   == {"idle", "row", "clean", "done", "abandoned"}

TypeOK ==
    /\ docs    \in [Docs -> Snapshots]
    /\ rows    \in [Docs -> [Stores -> Nat]]
    /\ blob    \in [Docs -> BOOLEAN]
    /\ req     \in [Docs -> Requests]
    /\ apiPc   \in [Docs -> ApiPcs]
    /\ apiSeen \in [Docs -> Snapshots]
    /\ jobSt   \in [Docs -> JobSts]
    /\ tries   \in [Docs -> 0 .. MaxTries]
    /\ runPc   \in [Docs -> RunPcs]
    /\ runDoc  \in [Docs -> Snapshots]
    /\ task    \in [Docs -> [Stores -> TaskSts]]
    /\ attempt \in [Docs -> [Stores -> 0 .. MaxStoreAttempts]]
    /\ delPc   \in [Docs -> DelPcs]
    /\ delDoc  \in [Docs -> Snapshots]
    /\ delTodo \in [Docs -> SUBSET (Stores \cup {"file"})]
    /\ exact   \in [Docs -> BOOLEAN]
    /\ lost    \in [Docs -> [Stores -> Nat]]

NoTasks    == [s \in Stores |-> "idle"]
NoAttempts == [s \in Stores |-> 0]

Init ==
    /\ docs    = [d \in Docs |-> NoRow]
    /\ rows    = [d \in Docs |-> [s \in Stores |-> 0]]
    /\ blob    = [d \in Docs |-> FALSE]
    /\ req     \in [Docs -> Requests]
    /\ apiPc   = [d \in Docs |-> "new"]
    /\ apiSeen = [d \in Docs |-> NoRow]
    /\ jobSt   = [d \in Docs |-> "none"]
    /\ tries   = [d \in Docs |-> 0]
    /\ runPc   = [d \in Docs |-> "idle"]
    /\ runDoc  = [d \in Docs |-> NoRow]
    /\ task    = [d \in Docs |-> NoTasks]
    /\ attempt = [d \in Docs |-> NoAttempts]
    /\ delPc   = [d \in Docs |-> "idle"]
    /\ delDoc  = [d \in Docs |-> NoRow]
    /\ delTodo = [d \in Docs |-> {}]
    /\ exact   = [d \in Docs |-> FALSE]
    /\ lost    = [d \in Docs |-> [s \in Stores |-> 0]]
-----------------------------------------------------------------------------
(* Calls on the shared stores, named for the methods they stand for.       *)

\* store_document inserts a row.
StoreDocument(d, row) == docs' = [docs EXCEPT ![d] = row]

\* update_document that finds the row and commits; without a row it returns
\* False, and so it never creates one.
UpdateDocument(d, row) ==
    /\ docs[d] # NoRow
    /\ docs' = [docs EXCEPT ![d] = row]

\* store_embeddings only inserts.
StoreEmbeddings(d, s) == rows' = [rows EXCEPT ![d][s] = @ + 1]

\* delete_chunks_by_document_id deletes every copy.
DeleteChunks(d, s) == rows' = [rows EXCEPT ![d][s] = 0]

\* asyncio.gather over one store_with_retry per store with something to insert.
StartTasks(d) ==
    /\ task' = [task EXCEPT ![d] = [s \in Stores |->
                  IF s \in req[d].targets THEN "pending" ELSE "idle"]]
    /\ attempt' = [attempt EXCEPT ![d] = NoAttempts]

\* Variant with a fault: the first task to finish is taken for all of them.
FirstStored(d) == \E s \in req[d].targets : task[d][s] = "ok"

AllStored(d)  == \A s \in req[d].targets : task[d][s] = "ok"
SomeFailed(d) == \E s \in Stores : task[d][s] = "failed"

\* What is left once gather has returned or raised: the tasks still running.
DropTasks(d) ==
    /\ task' = [task EXCEPT ![d] = [s \in Stores |->
                  IF task[d][s] = "pending" THEN "pending" ELSE "idle"]]
    /\ attempt' = [attempt EXCEPT ![d] = [s \in Stores |->
                     IF task[d][s] = "pending" THEN attempt[d][s] ELSE 0]]

\* doc.system_metadata["content"] after the post-chunking rules: chunk_contents
\* is filled only by text rules, and joined whenever there are rules and chunks.
Stitched(d, content) ==
    IF req[d].rules = "none" \/ "regular" \notin req[d].targets THEN content
    ELSE IF req[d].rules = "chunking" THEN "full" ELSE "blank"

ApiGoto(d, pc) == apiPc' = [apiPc EXCEPT ![d] = pc]
Goto(d, pc)    == runPc' = [runPc EXCEPT ![d] = pc]
Hold(d, row)   == runDoc' = [runDoc EXCEPT ![d] = row]
-----------------------------------------------------------------------------
(* The request that brings a document in.                                  *)

\* The route has validated the form and built the Document.
Accept(d) ==
    /\ apiPc[d] = "new"
    /\ \/ req[d].kind = "text" /\ ApiGoto(d, "textStore") /\ StartTasks(d)
       \/ req[d].kind # "text" /\ ApiGoto(d, "row") /\ UNCHANGED taskVars
    /\ UNCHANGED <<docs, rows, blob, req, apiSeen, jobVars, runVars, delVars, lost>>

NewRow == [status |-> "processing", content |-> "none", chunks |-> {}, file |-> FALSE]

\* store_document.  ingest_file gives up when it returns False, which it also
\* does when the reply to the commit is lost; ingest_file_content does not look.
StoreRow(d) ==
    LET onFalse == ApiGoto(d, IF req[d].kind = "connector" THEN "upload" ELSE "error")
    IN
    /\ apiPc[d] = "row"
    /\ \/ StoreDocument(d, NewRow) /\ ApiGoto(d, "upload")
       \/ "db" \in Faults /\ UNCHANGED docs /\ onFalse
       \/ "conn" \in Faults /\ StoreDocument(d, NewRow) /\ onFalse
    /\ UNCHANGED <<rows, blob, req, apiSeen, jobVars, runVars, taskVars, delVars, lost>>

\* A failure past the row is an HTTP 500 in ingest_file, which leaves the row as
\* it is; ingest_file_content marks the row failed.
GiveUp(d) == ApiGoto(d, IF req[d].kind = "connector" THEN "failRead" ELSE "error")

\* Limits, then the upload.
Upload(d) ==
    /\ apiPc[d] = "upload"
    /\ \/ blob' = [blob EXCEPT ![d] = TRUE] /\ ApiGoto(d, "record")
       \/ "step" \in Faults /\ GiveUp(d) /\ UNCHANGED blob
       \/ "conn" \in Faults /\ GiveUp(d) /\ blob' = [blob EXCEPT ![d] = TRUE]
    /\ UNCHANGED <<docs, rows, req, apiSeen, jobVars, runVars, taskVars, delVars, lost>>

\* update_document with storage_info.  No one looks at what it returns.
RecordFile(d) ==
    /\ apiPc[d] = "record"
    /\ \/ UpdateDocument(d, [docs[d] EXCEPT !.file = TRUE])
       \/ (docs[d] = NoRow \/ "db" \in Faults) /\ UNCHANGED docs
    /\ ApiGoto(d, "enqueue")
    /\ UNCHANGED <<rows, blob, req, apiSeen, jobVars, runVars, taskVars, delVars, lost>>

\* redis.enqueue_job.  Its failure may come after the job was queued.
Enqueue(d) ==
    LET queued == jobSt' = [jobSt EXCEPT ![d] = "queued"] IN
    /\ apiPc[d] = "enqueue"
    /\ \/ queued /\ ApiGoto(d, "ok")
       \/ "step" \in Faults /\ GiveUp(d) /\ UNCHANGED jobSt
       \/ "conn" \in Faults /\ GiveUp(d) /\ queued
    /\ UNCHANGED <<docs, rows, blob, req, apiSeen, tries, runVars, taskVars, delVars, lost>>

\* ingest_file_content marks the row failed.  Its updates carry the status and
\* no content, so the merge keeps the content that update_document read first.
MarkFailedRead(d) ==
    /\ apiPc[d] = "failRead"
    /\ ApiGoto(d, IF docs[d] = NoRow THEN "error" ELSE "failWrite")
    /\ apiSeen' = [apiSeen EXCEPT ![d] = docs[d]]
    /\ UNCHANGED <<docs, rows, blob, req, jobVars, runVars, taskVars, delVars, lost>>

MarkFailedWrite(d) ==
    /\ apiPc[d] = "failWrite"
    /\ \/ UpdateDocument(d, [docs[d] EXCEPT !.status = "failed",
                                            !.content = apiSeen[d].content])
       \/ (docs[d] = NoRow \/ "db" \in Faults) /\ UNCHANGED docs
    /\ ApiGoto(d, "error")
    /\ apiSeen' = [apiSeen EXCEPT ![d] = NoRow]
    /\ UNCHANGED <<rows, blob, req, jobVars, runVars, taskVars, delVars, lost>>

\* ingest_text runs in the request: chunks first, then the row, then its status.
TextStored(d) ==
    /\ apiPc[d] = "textStore"
    /\ \/ AllStored(d) /\ ApiGoto(d, "textRow")
       \/ SomeFailed(d) /\ ApiGoto(d, "error")
    /\ DropTasks(d)
    /\ UNCHANGED <<docs, rows, blob, req, apiSeen, jobVars, runVars, delVars, lost>>

TextRow(d) ==
    LET insert == StoreDocument(d, [NewRow EXCEPT !.content = "full",
                                                  !.chunks = req[d].targets])
    IN
    /\ apiPc[d] = "textRow"
    /\ \/ insert /\ ApiGoto(d, "textMark")
       \/ "conn" \in Faults /\ insert /\ ApiGoto(d, "error")
       \/ "db" \in Faults /\ UNCHANGED docs /\ ApiGoto(d, "error")
    /\ UNCHANGED <<rows, blob, req, apiSeen, jobVars, runVars, taskVars, delVars, lost>>

TextMark(d) ==
    /\ apiPc[d] = "textMark"
    /\ \/ UpdateDocument(d, [docs[d] EXCEPT !.status = "completed", !.content = "full"])
       \/ (docs[d] = NoRow \/ "db" \in Faults) /\ UNCHANGED docs
    /\ ApiGoto(d, "ok")
    /\ UNCHANGED <<rows, blob, req, apiSeen, jobVars, runVars, taskVars, delVars, lost>>

IsText(d) == req[d].kind = "text"

\* Every request in the API process is lost with it, text ingestion's tasks too.
ServerCrash ==
    /\ "server" \in Faults
    /\ \E d \in Docs :
          \/ apiPc[d] \in InFlight
          \/ delPc[d] \in {"row", "clean"}
          \/ IsText(d) /\ task[d] # NoTasks
    /\ apiPc' = [d \in Docs |-> IF apiPc[d] \in InFlight THEN "crashed" ELSE apiPc[d]]
    /\ apiSeen' = [d \in Docs |-> NoRow]
    /\ delPc' = [d \in Docs |-> IF delPc[d] = "row" THEN "idle"
                                ELSE IF delPc[d] = "clean" THEN "abandoned" ELSE delPc[d]]
    /\ task' = [d \in Docs |-> IF IsText(d) THEN NoTasks ELSE task[d]]
    /\ attempt' = [d \in Docs |-> IF IsText(d) THEN NoAttempts ELSE attempt[d]]
    /\ UNCHANGED <<docs, rows, blob, req, jobVars, runVars, delDoc, delTodo, exact, lost>>
-----------------------------------------------------------------------------
(* store_with_retry.  ColPali's store is synchronous: once the tasks have  *)
(* started, its insert is over before the regular one can come to an end.  *)

Pending(d, s) == task[d][s] = "pending"
Turn(d, s)    == Pending(d, s) /\ (s = "regular" => ~Pending(d, "colpali"))

\* The insert commits and the task never hears of it.
LoseReply(d, s) ==
    /\ lost[d]["regular"] + lost[d]["colpali"] < MaxLost
    /\ StoreEmbeddings(d, s)
    /\ lost' = [lost EXCEPT ![d][s] = @ + 1]

StoreOk(d, s) ==
    /\ Turn(d, s)
    /\ StoreEmbeddings(d, s)
    /\ task' = [task EXCEPT ![d][s] = "ok"]
    /\ UNCHANGED <<docs, blob, req, apiVars, jobVars, runVars, attempt, delVars, lost>>

\* "connection was closed", which asyncpg says and ColPali's psycopg does not: tried
\* again, although the insert may have committed.
StoreConnectionLost(d, s) ==
    /\ Turn(d, s)
    /\ s = "regular"
    /\ "conn" \in Faults
    /\ LoseReply(d, s) \/ UNCHANGED <<rows, lost>>
    /\ attempt[d][s] < MaxStoreAttempts
    /\ attempt' = [attempt EXCEPT ![d][s] = @ + 1]
    /\ task' = [task EXCEPT ![d][s] =
                  IF attempt[d][s] + 1 = MaxStoreAttempts THEN "failed" ELSE "pending"]
    /\ UNCHANGED <<docs, blob, req, apiVars, jobVars, runVars, delVars>>

\* Any other error is raised at once.
StoreRefused(d, s) ==
    /\ Turn(d, s)
    /\ \/ "step" \in Faults /\ UNCHANGED <<rows, lost>>
       \/ "conn" \in Faults /\ LoseReply(d, s)
    /\ task' = [task EXCEPT ![d][s] = "failed"]
    /\ UNCHANGED <<docs, blob, req, apiVars, jobVars, runVars, attempt, delVars>>
-----------------------------------------------------------------------------
(* The arq queue.                                                          *)

Running == {d \in Docs : jobSt[d] = "running"}

\* Variant with a fault: a job that was started too often is started again.
StartJobAlways(d) ==
    /\ jobSt[d] = "queued"
    /\ Cardinality(Running) < MaxJobs
    /\ jobSt' = [jobSt EXCEPT ![d] = "running"]
    /\ tries' = [tries EXCEPT ![d] = @ + 1]
    /\ Goto(d, "download")
    /\ UNCHANGED <<docs, rows, blob, req, apiVars, runDoc, taskVars, delVars, lost>>

StartJob(d) ==
    /\ jobSt[d] = "queued"
    /\ tries[d] < MaxTries
    /\ Cardinality(Running) < MaxJobs
    /\ jobSt' = [jobSt EXCEPT ![d] = "running"]
    /\ tries' = [tries EXCEPT ![d] = @ + 1]
    /\ Goto(d, "download")
    /\ UNCHANGED <<docs, rows, blob, req, apiVars, runDoc, taskVars, delVars, lost>>

\* A job that has been started MaxTries times is dropped without being run.
DropJob(d) ==
    /\ jobSt[d] = "queued"
    /\ tries[d] = MaxTries
    /\ jobSt' = [jobSt EXCEPT ![d] = "dead"]
    /\ UNCHANGED <<docs, rows, blob, req, apiVars, tries, runVars, taskVars, delVars, lost>>

\* The process takes all its runs and storage tasks with it.  CancelledError is
\* not an Exception, so no handler of the job runs; arq starts the job again.
WorkerCrash ==
    /\ "worker" \in Faults
    /\ \E d \in Docs : jobSt[d] = "running" \/ (~IsText(d) /\ task[d] # NoTasks)
    /\ jobSt' = [d \in Docs |-> IF jobSt[d] = "running" THEN "queued" ELSE jobSt[d]]
    /\ runPc' = [d \in Docs |-> "idle"]
    /\ runDoc' = [d \in Docs |-> NoRow]
    /\ task' = [d \in Docs |-> IF IsText(d) THEN task[d] ELSE NoTasks]
    /\ attempt' = [d \in Docs |-> IF IsText(d) THEN attempt[d] ELSE NoAttempts]
    /\ UNCHANGED <<docs, rows, blob, req, apiVars, tries, delVars, lost>>

\* job_timeout cancels the run, and the gather it may be waiting for, and the
\* job is over: nothing marks the row.
JobTimeout(d) ==
    /\ "timeout" \in Faults
    /\ jobSt[d] = "running"
    /\ jobSt' = [jobSt EXCEPT ![d] = "dead"]
    /\ Goto(d, "idle")
    /\ Hold(d, NoRow)
    /\ task' = [task EXCEPT ![d] = IF runPc[d] = "store" THEN NoTasks ELSE @]
    /\ attempt' = [attempt EXCEPT ![d] = IF runPc[d] = "store" THEN NoAttempts ELSE @]
    /\ UNCHANGED <<docs, rows, blob, req, apiVars, tries, delVars, lost>>
-----------------------------------------------------------------------------
(* process_ingestion_job.                                                  *)

ToHandler(d) == Goto(d, "errGet") /\ Hold(d, NoRow)

\* Download, parse, check limits, apply the post-parsing rules.
Download(d) ==
    /\ runPc[d] = "download"
    /\ Goto(d, IF blob[d] THEN "fetch" ELSE "errGet")
    /\ UNCHANGED <<docs, rows, blob, req, apiVars, jobVars, runDoc, taskVars, delVars, lost>>

\* get_document_with_retry.
Fetch(d) ==
    /\ runPc[d] = "fetch"
    /\ Goto(d, IF docs[d] = NoRow THEN "errGet" ELSE "parsed")
    /\ Hold(d, docs[d])
    /\ UNCHANGED <<docs, rows, blob, req, apiVars, jobVars, taskVars, delVars, lost>>

\* update_document with the fetched system_metadata and the extracted text.
WriteParsed(d) ==
    /\ runPc[d] = "parsed"
    /\ \/ /\ UpdateDocument(d, [docs[d] EXCEPT !.status = runDoc[d].status,
                                               !.content = "full"])
          /\ \/ Goto(d, "refresh") /\ UNCHANGED runDoc
             \/ "conn" \in Faults /\ ToHandler(d)
       \/ docs[d] = NoRow /\ ToHandler(d) /\ UNCHANGED docs
    /\ UNCHANGED <<rows, blob, req, apiVars, jobVars, taskVars, delVars, lost>>

\* get_document again.  A missing row is noticed as an AttributeError on None.
Refresh(d) ==
    /\ runPc[d] = "refresh"
    /\ Goto(d, IF docs[d] = NoRow THEN "errGet" ELSE "process")
    /\ Hold(d, docs[d])
    /\ UNCHANGED <<docs, rows, blob, req, apiVars, jobVars, taskVars, delVars, lost>>

\* Split, apply the post-chunking rules, embed; then set the local copy up for
\* the last update and start the storage tasks.
Process(d) ==
    /\ runPc[d] = "process"
    /\ Goto(d, "store")
    /\ Hold(d, [runDoc[d] EXCEPT !.status = "completed",
                                 !.content = Stitched(d, runDoc[d].content)])
    /\ StartTasks(d)
    /\ UNCHANGED <<docs, rows, blob, req, apiVars, jobVars, delVars, lost>>

\* Variant with a fault: the whole batch is tried again when one store fails.
GatherAgain(d) ==
    /\ runPc[d] = "store"
    /\ \/ AllStored(d) /\ Goto(d, "final") /\ DropTasks(d)
       \/ SomeFailed(d) /\ StartTasks(d) /\ UNCHANGED runPc
    /\ UNCHANGED <<docs, rows, blob, req, apiVars, jobVars, runDoc, delVars, lost>>

\* gather returns when all tasks are done, and raises as soon as one fails.
Gather(d) ==
    /\ runPc[d] = "store"
    /\ \/ AllStored(d) /\ Goto(d, "final") /\ UNCHANGED runDoc
       \/ SomeFailed(d) /\ ToHandler(d)
    /\ DropTasks(d)
    /\ UNCHANGED <<docs, rows, blob, req, apiVars, jobVars, delVars, lost>>

\* Variant with a fault: the last update is an upsert, so it also inserts the row.
WriteFinalUpsert(d) ==
    /\ runPc[d] = "final"
    /\ docs' = [docs EXCEPT ![d] = [runDoc[d] EXCEPT !.chunks = req[d].targets]]
    /\ \/ Goto(d, "finish") /\ Hold(d, NoRow)
       \/ "conn" \in Faults /\ ToHandler(d)
    /\ UNCHANGED <<rows, blob, req, apiVars, jobVars, taskVars, delVars, lost>>

\* update_document with the local copy: its storage_info is as old as Refresh.
WriteFinal(d) ==
    /\ runPc[d] = "final"
    /\ \/ /\ UpdateDocument(d, [runDoc[d] EXCEPT !.chunks = req[d].targets])
          /\ \/ Goto(d, "finish") /\ Hold(d, NoRow)
             \/ "conn" \in Faults /\ ToHandler(d)
       \/ docs[d] = NoRow /\ ToHandler(d) /\ UNCHANGED docs
    /\ UNCHANGED <<rows, blob, req, apiVars, jobVars, taskVars, delVars, lost>>

\* Any other call in the try block may raise.
StepRaises(d) ==
    /\ "step" \in Faults
    /\ runPc[d] \in TryPcs \ {"store"}
    /\ ToHandler(d)
    /\ UNCHANGED <<docs, rows, blob, req, apiVars, jobVars, taskVars, delVars, lost>>

\* The job returns a dictionary either way, so arq counts it as done.
EndJob(d, st) ==
    /\ jobSt' = [jobSt EXCEPT ![d] = st]
    /\ Goto(d, "idle")
    /\ Hold(d, NoRow)
    /\ UNCHANGED <<rows, blob, req, apiVars, tries, taskVars, delVars, lost>>

Finish(d) ==
    /\ runPc[d] = "finish"
    /\ UNCHANGED docs
    /\ EndJob(d, "completed")

\* The handler reads the row...
HandlerRead(d) ==
    /\ runPc[d] = "errGet"
    /\ docs[d] # NoRow
    /\ Goto(d, "errWrite")
    /\ Hold(d, docs[d])
    /\ UNCHANGED <<docs, rows, blob, req, apiVars, jobVars, taskVars, delVars, lost>>

\* Variant with a fault: the handler writes back what it read, as it was.
HandlerWriteBack(d) ==
    /\ runPc[d] = "errWrite"
    /\ UpdateDocument(d, [docs[d] EXCEPT !.content = runDoc[d].content])
    /\ EndJob(d, "failed")

\* ... and writes what it read back with the status "failed".
HandlerWrite(d) ==
    /\ runPc[d] = "errWrite"
    /\ UpdateDocument(d, [docs[d] EXCEPT !.status = "failed",
                                         !.content = runDoc[d].content])
    /\ EndJob(d, "failed")

\* Without a row, or on a database error, the handler leaves things as they are.
HandlerGivesUp(d) ==
    /\ runPc[d] \in {"errGet", "errWrite"}
    /\ docs[d] = NoRow \/ "db" \in Faults
    /\ UNCHANGED docs
    /\ EndJob(d, "failed")
-----------------------------------------------------------------------------
(* delete_document.                                                        *)

\* The document has completed and no request, job or storage task is at work on it.
Settled(d) ==
    /\ apiPc[d] \notin InFlight
    /\ jobSt[d] \notin {"queued", "running"}
    /\ \A s \in Stores : ~Pending(d, s)
    /\ docs[d].status = "completed"

\* get_document: the copy that tells what to clean up later.
DeleteRead(d) ==
    /\ delPc[d] = "idle"
    /\ docs[d] # NoRow
    /\ delPc' = [delPc EXCEPT ![d] = "row"]
    /\ delDoc' = [delDoc EXCEPT ![d] = docs[d]]
    /\ exact' = [exact EXCEPT ![d] = Settled(d)]
    /\ UNCHANGED <<docs, rows, blob, req, apiVars, jobVars, runVars, taskVars,
                   delTodo, lost>>

\* Variant with a fault: the ColPali store is forgotten.
ToCleanRegular(row) == (IF row.chunks # {} THEN {"regular"} ELSE {})
                         \cup (IF row.file THEN {"file"} ELSE {})

ToClean(row) == (IF row.chunks # {} THEN Stores ELSE {})
                  \cup (IF row.file THEN {"file"} ELSE {})

\* Variant with a fault: the clean-up goes ahead when the row could not be deleted.
DeleteRowOrNot(d) ==
    /\ delPc[d] = "row"
    /\ \/ docs' = [docs EXCEPT ![d] = NoRow]
       \/ "db" \in Faults /\ UNCHANGED docs
    /\ delPc' = [delPc EXCEPT ![d] = "clean"]
    /\ delTodo' = [delTodo EXCEPT ![d] = ToClean(delDoc[d])]
    /\ UNCHANGED <<rows, blob, req, apiVars, jobVars, runVars, taskVars, delDoc,
                   exact, lost>>

\* The row goes first; what else goes is what the copy names.
DeleteRow(d) ==
    /\ delPc[d] = "row"
    /\ \/ /\ docs[d] # NoRow
          /\ docs' = [docs EXCEPT ![d] = NoRow]
          /\ \/ /\ delPc' = [delPc EXCEPT ![d] = "clean"]
                /\ delTodo' = [delTodo EXCEPT ![d] = ToClean(delDoc[d])]
             \/ /\ "conn" \in Faults
                /\ delPc' = [delPc EXCEPT ![d] = "abandoned"]
                /\ UNCHANGED delTodo
       \/ /\ docs[d] = NoRow \/ "db" \in Faults
          /\ delPc' = [delPc EXCEPT ![d] = "idle"]
          /\ UNCHANGED <<docs, delTodo>>
    /\ UNCHANGED <<rows, blob, req, apiVars, jobVars, runVars, taskVars, delDoc,
                   exact, lost>>

\* One of the gathered deletions; an error is logged and the rest goes on.
Clean(d, x) ==
    /\ delPc[d] = "clean"
    /\ x \in delTodo[d]
    /\ delTodo' = [delTodo EXCEPT ![d] = @ \ {x}]
    /\ \/ x = "file" /\ blob' = [blob EXCEPT ![d] = FALSE] /\ UNCHANGED <<rows, exact>>
       \/ x \in Stores /\ DeleteChunks(d, x) /\ UNCHANGED <<blob, exact>>
       \/ /\ "clean" \in Faults
          /\ exact' = [exact EXCEPT ![d] = FALSE]
          /\ UNCHANGED <<rows, blob>>
    /\ UNCHANGED <<docs, req, apiVars, jobVars, runVars, taskVars, delPc, delDoc, lost>>

DeleteDone(d) ==
    /\ delPc[d] = "clean"
    /\ delTodo[d] = {}
    /\ delPc' = [delPc EXCEPT ![d] = "done"]
    /\ UNCHANGED <<docs, rows, blob, req, apiVars, jobVars, runVars, taskVars, delDoc,
                   delTodo, exact, lost>>
-----------------------------------------------------------------------------
ApiStep(d) ==
    \/ Accept(d) \/ StoreRow(d) \/ Upload(d) \/ RecordFile(d) \/ Enqueue(d)
    \/ MarkFailedRead(d) \/ MarkFailedWrite(d)
    \/ TextStored(d) \/ TextRow(d) \/ TextMark(d)

TaskStep(d) == \E s \in Stores :
    StoreOk(d, s) \/ StoreConnectionLost(d, s) \/ StoreRefused(d, s)

QueueStep(d) == StartJob(d) \/ DropJob(d) \/ JobTimeout(d)

WorkerStep(d) ==
    \/ Download(d) \/ Fetch(d) \/ WriteParsed(d) \/ Refresh(d) \/ Process(d)
    \/ Gather(d) \/ WriteFinal(d) \/ StepRaises(d) \/ Finish(d)
    \/ HandlerRead(d) \/ HandlerWrite(d) \/ HandlerGivesUp(d)

DeleteStep(d) ==
    \/ DeleteRead(d) \/ DeleteRow(d) \/ DeleteDone(d)
    \/ \E x \in Stores \cup {"file"} : Clean(d, x)

Next ==
    \/ \E d \in Docs : \/ ApiStep(d) \/ TaskStep(d) \/ QueueStep(d)
                       \/ WorkerStep(d) \/ DeleteStep(d)
    \/ ServerCrash
    \/ WorkerCrash

Spec == Init /\ [][Next]_vars

\* The event loops of the server and the worker run every task they hold, and
\* arq polls its queue.  No one has to ask for a document to be deleted.
Fairness == \A d \in Docs :
    /\ WF_vars(StartJob(d) \/ DropJob(d))
    /\ WF_vars(WorkerStep(d))
    /\ WF_vars(TaskStep(d))

FairSpec == Spec /\ Fairness
-----------------------------------------------------------------------------
(* What the code promises and keeps.                                       *)

\* A row names only chunks that are in the stores: chunks are inserted before the
\* row that names them (_store_chunks_and_doc) and deleted after it
\* (delete_document), whoever else is working on the document.
RecordedChunksExist ==
    \A d \in Docs : docs[d] # NoRow => \A s \in docs[d].chunks : rows[d][s] > 0

\* Every copy of a document's chunks beyond the first is owed to a run that arq
\* started again or to an insert whose reply was lost: store_embeddings only
\* inserts, so nothing else may call it twice.
Attempts(d) == IF IsText(d) THEN 1 ELSE tries[d]
CopiesBounded ==
    \A d \in Docs, s \in Stores : rows[d][s] <= Attempts(d) + lost[d][s]

\* A document that is deleted after everything about it has settled leaves no
\* chunks, and no file that its row named: what delete_document promises, for the
\* documents for which it can.
SettledDeleteIsComplete ==
    \A d \in Docs :
        (delPc[d] = "done" /\ exact[d]) =>
            /\ \A s \in Stores : rows[d][s] = 0
            /\ delDoc[d].file => ~blob[d]

\* As long as the row exists, the file a queued or running job will download
\* exists too: only delete_document removes files, after the row.
JobFindsItsFile ==
    \A d \in Docs :
        (jobSt[d] \in {"queued", "running"} /\ docs[d] # NoRow) => blob[d]

Deleted(d) == delPc[d] \in {"clean", "done", "abandoned"}

\* What a client can see of a document: the status, and the stores where every chunk
\* that the row names can be found.
CatalogStatus == [d \in Docs |->
    IF docs[d] # NoRow THEN docs[d].status
    ELSE IF Deleted(d) THEN "deleted" ELSE "absent"]
CatalogFindable == [d \in Docs |->
    IF docs[d] # NoRow THEN {s \in docs[d].chunks : rows[d][s] > 0} ELSE {}]

Catalog == INSTANCE DocumentCatalog WITH
    status <- CatalogStatus, findable <- CatalogFindable

\* The status and the chunks a client sees follow DocumentCatalog: no interleaving of
\* request, worker, storage tasks and deletion, with any fault, takes a completed
\* document back to "processing", revives a deleted one, or lets chunks of a
\* document that exists go missing.
CatalogSpec == Catalog!Spec

\* A job that is queued comes to an end, and a document whose job has ended is
\* completed, failed or deleted: a client that polls the status stops waiting.
\* It takes the error handler to reach the database (no "db" fault), and it does
\* not hold for a job that arq drops ("dead"), which nothing records in the row.
QueuedJobsSettle ==
    \A d \in Docs :
        (jobSt[d] = "queued") ~>
            \/ jobSt[d] = "dead"
            \/ /\ jobSt[d] \in {"completed", "failed"}
               /\ docs[d] # NoRow => docs[d].status \in {"completed", "failed"}
-----------------------------------------------------------------------------
(* What the repository says and the code does not do.                      *)

\* "Delete a document and all its associated data" (delete_document).  A deletion is
\* over when its request is done and neither the ingest request nor a job is left.
DeletionOver(d) ==
    delPc[d] = "done" /\ apiPc[d] \notin InFlight /\ jobSt[d] \notin {"queued", "running"}

\* Once the deletion is over, with no fault on the way, no chunks remain.
DeleteLeavesNoChunks ==
    \A d \in Docs : DeletionOver(d) => \A s \in Stores : rows[d][s] = 0

\* "Update the document content with the stitched content from processed chunks"
\* (process_ingestion_job): a document that completed keeps the text that was
\* extracted from it.
CompletedKeepsContent ==
    \A d \in Docs :
        (docs[d] # NoRow /\ docs[d].status = "completed") => docs[d].content = "full"
=============================================================================

-------------------------- MODULE Ingestion_proofs --------------------------
(***************************************************************************)
(* Machine-checked theorems about Ingestion, for any set of documents and  *)
(* requests, any combination of faults and any value of the limits.        *)
(***************************************************************************)
EXTENDS Ingestion, TLAPS

-----------------------------------------------------------------------------
(* The type invariant.                                                     *)

\* The rows that the requests insert have their type.
LEMMA NewRowTypes ==
    /\ NewRow \in Rows
    /\ \A S \in SUBSET Stores : [NewRow EXCEPT !.content = "full", !.chunks = S] \in Rows
BY DEF Rows, NewRow, Statuses, Contents

\* A row keeps its type when update_document changes some of its columns.
LEMMA RowUpdateTypes ==
    ASSUME NEW row \in Rows
    PROVE  /\ [row EXCEPT !.file = TRUE] \in Rows
           /\ \A st \in Statuses, c \in Contents :
                 [row EXCEPT !.status = st, !.content = c] \in Rows
           /\ \A S \in SUBSET Stores : [row EXCEPT !.chunks = S] \in Rows
           /\ row.status \in Statuses
           /\ row.content \in Contents
BY DEF Rows

\* The type of what the post-chunking rules leave of a content.
LEMMA StitchedType ==
    ASSUME NEW d \in Docs, NEW c \in Contents
    PROVE  Stitched(d, c) \in Contents
BY DEF Stitched, Contents

\* The stores a request aims at are stores.
LEMMA TargetsType ==
    ASSUME TypeOK, NEW d \in Docs
    PROVE  req[d].targets \in SUBSET Stores
BY RequestsAssumption DEF TypeOK, RequestType

\* Starting, dropping or finishing storage tasks keeps their type.
LEMMA TaskTypes ==
    ASSUME TypeOK, NEW d \in Docs
    PROVE  /\ StartTasks(d) => /\ task' \in [Docs -> [Stores -> TaskSts]]
                               /\ attempt' \in [Docs -> [Stores -> 0 .. MaxStoreAttempts]]
           /\ DropTasks(d)  => /\ task' \in [Docs -> [Stores -> TaskSts]]
                               /\ attempt' \in [Docs -> [Stores -> 0 .. MaxStoreAttempts]]
<1>1. NoAttempts \in [Stores -> 0 .. MaxStoreAttempts]
  BY LimitsAssumption DEF NoAttempts
<1>2. ASSUME StartTasks(d)
      PROVE  /\ task' \in [Docs -> [Stores -> TaskSts]]
             /\ attempt' \in [Docs -> [Stores -> 0 .. MaxStoreAttempts]]
  <2> DEFINE f == [s \in Stores |-> IF s \in req[d].targets THEN "pending" ELSE "idle"]
  <2>1. f \in [Stores -> TaskSts]
    BY DEF TaskSts
  <2>2. task' = [task EXCEPT ![d] = f] /\ attempt' = [attempt EXCEPT ![d] = NoAttempts]
    BY <1>2 DEF StartTasks
  <2> QED
    BY <1>1, <2>1, <2>2 DEF TypeOK
<1>3. ASSUME DropTasks(d)
      PROVE  /\ task' \in [Docs -> [Stores -> TaskSts]]
             /\ attempt' \in [Docs -> [Stores -> 0 .. MaxStoreAttempts]]
  <2> DEFINE f == [s \in Stores |-> IF task[d][s] = "pending" THEN "pending" ELSE "idle"]
             g == [s \in Stores |-> IF task[d][s] = "pending" THEN attempt[d][s] ELSE 0]
  <2>1. f \in [Stores -> TaskSts]
    BY DEF TaskSts
  <2>2. g \in [Stores -> 0 .. MaxStoreAttempts]
    BY LimitsAssumption DEF TypeOK
  <2>3. task' = [task EXCEPT ![d] = f] /\ attempt' = [attempt EXCEPT ![d] = g]
    BY <1>3 DEF DropTasks
  <2> QED
    BY <2>1, <2>2, <2>3 DEF TypeOK
<1> QED
  BY <1>2, <1>3

\* The initial values have their types.
LEMMA InitType == Init => TypeOK
BY LimitsAssumption
   DEF Init, TypeOK, Snapshots, NoTasks, NoAttempts, ApiPcs, InFlight, JobSts, RunPcs,
       TaskSts, DelPcs

USE DEF apiVars, jobVars, runVars, taskVars, delVars, ApiGoto, Goto, Hold,
        ApiPcs, InFlight, JobSts, RunPcs, TryPcs, DelPcs

\* What TypeOK says of one document's row, and of the copies of it.
LEMMA RowOf ==
    ASSUME TypeOK, NEW d \in Docs
    PROVE  /\ docs[d] \in Snapshots /\ apiSeen[d] \in Snapshots
           /\ runDoc[d] \in Snapshots /\ delDoc[d] \in Snapshots
           /\ docs[d] # NoRow => docs[d] \in Rows
           /\ apiSeen[d] # NoRow => apiSeen[d] \in Rows
           /\ runDoc[d] # NoRow => runDoc[d] \in Rows
           /\ NoRow \in Snapshots
<1>1. /\ docs[d] \in Snapshots /\ apiSeen[d] \in Snapshots
      /\ runDoc[d] \in Snapshots /\ delDoc[d] \in Snapshots
  BY DEF TypeOK
<1> QED
  BY <1>1 DEF Snapshots

\* update_document keeps the type of the table when the new row has its type.
LEMMA UpdateType ==
    ASSUME TypeOK, NEW d \in Docs, NEW row,
           docs[d] # NoRow => row \in Rows, UpdateDocument(d, row)
    PROVE  docs' \in [Docs -> Snapshots]
<1>1. row \in Snapshots
  BY DEF UpdateDocument, Snapshots
<1> QED
  BY <1>1 DEF UpdateDocument, TypeOK

\* A request or a run that is about to use its copy of the row has one.
CopyHeld ==
    \A d \in Docs :
        /\ apiPc[d] = "failWrite" => apiSeen[d] \in Rows
        /\ runPc[d] \in {"parsed", "refresh", "process", "store", "final", "errWrite"}
              => runDoc[d] \in Rows

\* TypeOK alone is not inductive: an update writes columns of the held copies.
TypeInv == TypeOK /\ CopyHeld

\* Every step of the request that brings a document in keeps the types.
LEMMA ApiType ==
    ASSUME TypeInv, NEW d \in Docs, ApiStep(d)
    PROVE  TypeInv'
<1>t. TypeOK /\ CopyHeld
  BY DEF TypeInv
<1>r. /\ docs[d] \in Snapshots
      /\ docs[d] # NoRow => docs[d] \in Rows
      /\ NoRow \in Snapshots
  BY <1>t, RowOf
<1> USE DEF TypeInv
<1>1. CASE Accept(d)
  <2>1. TypeOK'
    BY <1>t, <1>1, TaskTypes DEF Accept, TypeOK
  <2>2. CopyHeld'
    BY <1>t, <1>1 DEF Accept, CopyHeld, TypeOK
  <2> QED
    BY <2>1, <2>2
<1>2. CASE StoreRow(d)
  <2>1. docs' \in [Docs -> Snapshots]
    BY <1>t, <1>2, NewRowTypes DEF StoreRow, StoreDocument, TypeOK, Snapshots
  <2>2. TypeOK'
    BY <1>t, <1>2, <2>1 DEF StoreRow, TypeOK
  <2>3. CopyHeld'
    BY <1>t, <1>2 DEF StoreRow, CopyHeld, TypeOK
  <2> QED
    BY <2>2, <2>3
<1>3. CASE Upload(d)
  <2>1. TypeOK'
    BY <1>t, <1>3 DEF Upload, GiveUp, TypeOK
  <2>2. CopyHeld'
    BY <1>t, <1>3 DEF Upload, GiveUp, CopyHeld, TypeOK
  <2> QED
    BY <2>1, <2>2
<1>4. CASE RecordFile(d)
  <2>1. docs' \in [Docs -> Snapshots]
    <3>1. CASE UpdateDocument(d, [docs[d] EXCEPT !.file = TRUE])
      <4>1. docs[d] # NoRow => [docs[d] EXCEPT !.file = TRUE] \in Rows
        BY <1>r, RowUpdateTypes
      <4> QED
        BY <1>t, <3>1, <4>1, UpdateType
    <3>2. CASE UNCHANGED docs
      BY <1>t, <3>2 DEF TypeOK
    <3> QED
      BY <1>4, <3>1, <3>2 DEF RecordFile
  <2>2. TypeOK'
    BY <1>t, <1>4, <2>1 DEF RecordFile, TypeOK
  <2>3. CopyHeld'
    BY <1>t, <1>4 DEF RecordFile, CopyHeld, TypeOK
  <2> QED
    BY <2>2, <2>3
<1>5. CASE Enqueue(d)
  <2>1. TypeOK'
    BY <1>t, <1>5 DEF Enqueue, GiveUp, TypeOK
  <2>2. CopyHeld'
    BY <1>t, <1>5 DEF Enqueue, GiveUp, CopyHeld, TypeOK
  <2> QED
    BY <2>1, <2>2
<1>6. CASE MarkFailedRead(d)
  <2>1. TypeOK'
    BY <1>t, <1>r, <1>6 DEF MarkFailedRead, TypeOK
  <2>2. CopyHeld'
    BY <1>t, <1>r, <1>6 DEF MarkFailedRead, CopyHeld, TypeOK
  <2> QED
    BY <2>1, <2>2
<1>7. CASE MarkFailedWrite(d)
  <2> DEFINE row == [docs[d] EXCEPT !.status = "failed", !.content = apiSeen[d].content]
  <2>1. docs' \in [Docs -> Snapshots]
    <3>1. CASE UpdateDocument(d, row)
      <4>1. apiSeen[d] \in Rows
        BY <1>t, <1>7 DEF MarkFailedWrite, CopyHeld
      <4>2. apiSeen[d].content \in Contents /\ "failed" \in Statuses
        BY <4>1, RowUpdateTypes DEF Statuses
      <4>3. docs[d] # NoRow => row \in Rows
        BY <1>r, <4>2, RowUpdateTypes
      <4> HIDE DEF row
      <4> QED
        BY <1>t, <3>1, <4>3, UpdateType
    <3>2. CASE UNCHANGED docs
      BY <1>t, <3>2 DEF TypeOK
    <3> QED
      BY <1>7, <3>1, <3>2 DEF MarkFailedWrite
  <2>2. TypeOK'
    BY <1>t, <1>r, <1>7, <2>1 DEF MarkFailedWrite, TypeOK
  <2>3. CopyHeld'
    BY <1>t, <1>7 DEF MarkFailedWrite, CopyHeld, TypeOK
  <2> QED
    BY <2>2, <2>3
<1>8. CASE TextStored(d)
  <2>1. TypeOK'
    BY <1>t, <1>8, TaskTypes DEF TextStored, TypeOK
  <2>2. CopyHeld'
    BY <1>t, <1>8 DEF TextStored, CopyHeld, TypeOK
  <2> QED
    BY <2>1, <2>2
<1>9. CASE TextRow(d)
  <2>1. [NewRow EXCEPT !.content = "full", !.chunks = req[d].targets] \in Rows
    BY <1>t, NewRowTypes, TargetsType
  <2>2. docs' \in [Docs -> Snapshots]
    BY <1>t, <1>9, <2>1 DEF TextRow, StoreDocument, TypeOK, Snapshots
  <2>3. TypeOK'
    BY <1>t, <1>9, <2>2 DEF TextRow, TypeOK
  <2>4. CopyHeld'
    BY <1>t, <1>9 DEF TextRow, CopyHeld, TypeOK
  <2> QED
    BY <2>3, <2>4
<1>10. CASE TextMark(d)
  <2> DEFINE row == [docs[d] EXCEPT !.status = "completed", !.content = "full"]
  <2>1. docs' \in [Docs -> Snapshots]
    <3>1. CASE UpdateDocument(d, row)
      <4>1. docs[d] # NoRow => row \in Rows
        BY <1>r, RowUpdateTypes DEF Statuses, Contents
      <4> HIDE DEF row
      <4> QED
        BY <1>t, <3>1, <4>1, UpdateType
    <3>2. CASE UNCHANGED docs
      BY <1>t, <3>2 DEF TypeOK
    <3> QED
      BY <1>10, <3>1, <3>2 DEF TextMark
  <2>2. TypeOK'
    BY <1>t, <1>10, <2>1 DEF TextMark, TypeOK
  <2>3. CopyHeld'
    BY <1>t, <1>10 DEF TextMark, CopyHeld, TypeOK
  <2> QED
    BY <2>2, <2>3
<1> QED
  BY <1>1, <1>2, <1>3, <1>4, <1>5, <1>6, <1>7, <1>8, <1>9, <1>10 DEF ApiStep

\* Every step of a storage task keeps the types.
LEMMA TaskType ==
    ASSUME TypeInv, NEW d \in Docs, NEW s \in Stores,
           StoreOk(d, s) \/ StoreConnectionLost(d, s) \/ StoreRefused(d, s)
    PROVE  TypeInv'
<1>t. TypeOK /\ CopyHeld
  BY DEF TypeInv
<1>n. /\ task[d] \in [Stores -> TaskSts]
      /\ attempt[d] \in [Stores -> 0 .. MaxStoreAttempts]
      /\ rows[d] \in [Stores -> Nat] /\ lost[d] \in [Stores -> Nat]
  BY <1>t DEF TypeOK
<1>c. CopyHeld'
  BY <1>t DEF StoreOk, StoreConnectionLost, StoreRefused, CopyHeld, TypeOK
<1>b. /\ \A st \in TaskSts : [task EXCEPT ![d][s] = st] \in [Docs -> [Stores -> TaskSts]]
      /\ [rows EXCEPT ![d][s] = @ + 1] \in [Docs -> [Stores -> Nat]]
      /\ [lost EXCEPT ![d][s] = @ + 1] \in [Docs -> [Stores -> Nat]]
  BY <1>t, <1>n DEF TypeOK
<1>l. LoseReply(d, s) \/ UNCHANGED <<rows, lost>> =>
         rows' \in [Docs -> [Stores -> Nat]] /\ lost' \in [Docs -> [Stores -> Nat]]
  BY <1>t, <1>b DEF LoseReply, StoreEmbeddings, TypeOK
<1>1. CASE StoreOk(d, s)
  <2>1. task' \in [Docs -> [Stores -> TaskSts]] /\ rows' \in [Docs -> [Stores -> Nat]]
    BY <1>1, <1>b DEF StoreOk, StoreEmbeddings, TaskSts
  <2> QED
    BY <1>t, <1>c, <1>1, <2>1 DEF StoreOk, TypeOK, TypeInv
<1>2. CASE StoreConnectionLost(d, s)
  <2>1. task' \in [Docs -> [Stores -> TaskSts]]
    BY <1>2, <1>b DEF StoreConnectionLost, TaskSts
  <2>2. rows' \in [Docs -> [Stores -> Nat]] /\ lost' \in [Docs -> [Stores -> Nat]]
    BY <1>2, <1>l DEF StoreConnectionLost
  <2>3. attempt' \in [Docs -> [Stores -> 0 .. MaxStoreAttempts]]
    <3>1. attempt[d][s] + 1 \in 0 .. MaxStoreAttempts
      BY <1>n, <1>2, LimitsAssumption DEF StoreConnectionLost
    <3>2. attempt' = [attempt EXCEPT ![d][s] = attempt[d][s] + 1]
      BY <1>2 DEF StoreConnectionLost
    <3> QED
      BY <1>t, <1>n, <3>1, <3>2 DEF TypeOK
  <2> QED
    BY <1>t, <1>c, <1>2, <2>1, <2>2, <2>3 DEF StoreConnectionLost, TypeOK, TypeInv
<1>3. CASE StoreRefused(d, s)
  <2>1. task' \in [Docs -> [Stores -> TaskSts]]
    BY <1>3, <1>b DEF StoreRefused, TaskSts
  <2>2. rows' \in [Docs -> [Stores -> Nat]] /\ lost' \in [Docs -> [Stores -> Nat]]
    BY <1>3, <1>l DEF StoreRefused
  <2> QED
    BY <1>t, <1>c, <1>3, <2>1, <2>2 DEF StoreRefused, TypeOK, TypeInv
<1> QED
  BY <1>1, <1>2, <1>3

\* Every step of the queue keeps the types.
LEMMA QueueType ==
    ASSUME TypeInv, NEW d \in Docs, QueueStep(d)
    PROVE  TypeInv'
<1>t. TypeOK /\ CopyHeld
  BY DEF TypeInv
<1>r. NoRow \in Snapshots
  BY <1>t, RowOf
<1> USE DEF TypeInv
<1>1. CASE StartJob(d)
  <2>1. tries' \in [Docs -> 0 .. MaxTries]
    <3>1. tries[d] + 1 \in 0 .. MaxTries
      BY <1>t, <1>1, LimitsAssumption DEF StartJob, TypeOK
    <3> QED
      BY <1>t, <1>1, <3>1 DEF StartJob, TypeOK
  <2>2. TypeOK'
    BY <1>t, <1>1, <2>1 DEF StartJob, TypeOK
  <2>3. CopyHeld'
    BY <1>t, <1>1 DEF StartJob, CopyHeld, TypeOK
  <2> QED
    BY <2>2, <2>3
<1>2. CASE DropJob(d)
  <2>1. TypeOK'
    BY <1>t, <1>r, <1>2 DEF DropJob, TypeOK
  <2>2. CopyHeld'
    BY <1>t, <1>r, <1>2 DEF DropJob, CopyHeld, TypeOK
  <2> QED
    BY <2>1, <2>2
<1>3. CASE JobTimeout(d)
  <2>1. NoTasks \in [Stores -> TaskSts] /\ NoAttempts \in [Stores -> 0 .. MaxStoreAttempts]
    BY LimitsAssumption DEF NoTasks, NoAttempts, TaskSts
  <2>2. /\ task' \in [Docs -> [Stores -> TaskSts]]
        /\ attempt' \in [Docs -> [Stores -> 0 .. MaxStoreAttempts]]
    BY <1>t, <1>3, <2>1 DEF JobTimeout, TypeOK
  <2>3. TypeOK'
    BY <1>t, <1>r, <1>3, <2>2 DEF JobTimeout, TypeOK
  <2>4. CopyHeld'
    BY <1>t, <1>3 DEF JobTimeout, CopyHeld, TypeOK
  <2> QED
    BY <2>3, <2>4
<1> QED
  BY <1>1, <1>2, <1>3 DEF QueueStep

\* Every step of process_ingestion_job keeps the types.
LEMMA WorkerType ==
    ASSUME TypeInv, NEW d \in Docs, WorkerStep(d)
    PROVE  TypeInv'
<1>t. TypeOK /\ CopyHeld
  BY DEF TypeInv
<1>r. /\ docs[d] \in Snapshots /\ runDoc[d] \in Snapshots
      /\ docs[d] # NoRow => docs[d] \in Rows
      /\ NoRow \in Snapshots
  BY <1>t, RowOf
<1> USE DEF TypeInv
<1>1. CASE Download(d)
  <2>1. TypeOK'
    BY <1>t, <1>r, <1>1 DEF Download, TypeOK
  <2>2. CopyHeld'
    BY <1>t, <1>r, <1>1 DEF Download, CopyHeld, TypeOK
  <2> QED
    BY <2>1, <2>2
<1>2. CASE Fetch(d)
  <2>1. TypeOK'
    BY <1>t, <1>r, <1>2 DEF Fetch, TypeOK
  <2>2. CopyHeld'
    BY <1>t, <1>r, <1>2 DEF Fetch, CopyHeld, TypeOK
  <2> QED
    BY <2>1, <2>2
<1>3. CASE WriteParsed(d)
  <2> DEFINE row == [docs[d] EXCEPT !.status = runDoc[d].status, !.content = "full"]
  <2>1. docs' \in [Docs -> Snapshots]
    <3>1. CASE UpdateDocument(d, row)
      <4>1. runDoc[d] \in Rows
        BY <1>t, <1>3 DEF WriteParsed, CopyHeld
      <4>2. runDoc[d].status \in Statuses /\ "full" \in Contents
        BY <4>1, RowUpdateTypes DEF Contents
      <4>3. docs[d] # NoRow => row \in Rows
        BY <1>r, <4>2, RowUpdateTypes
      <4> HIDE DEF row
      <4> QED
        BY <1>t, <3>1, <4>3, UpdateType
    <3>2. CASE UNCHANGED docs
      BY <1>t, <3>2 DEF TypeOK
    <3> QED
      BY <1>3, <3>1, <3>2 DEF WriteParsed
  <2>2. \/ runPc' = [runPc EXCEPT ![d] = "refresh"] /\ runDoc' = runDoc
        \/ runPc' = [runPc EXCEPT ![d] = "finish"] /\ runDoc' = [runDoc EXCEPT ![d] = NoRow]
        \/ runPc' = [runPc EXCEPT ![d] = "errGet"] /\ runDoc' = [runDoc EXCEPT ![d] = NoRow]
    BY <1>3 DEF WriteParsed, ToHandler
  <2>3. runPc' \in [Docs -> RunPcs]
    BY <1>t, <2>2 DEF TypeOK
  <2>4. runDoc' \in [Docs -> Snapshots]
    BY <1>t, <1>r, <2>2 DEF TypeOK
  <2>5. TypeOK'
    BY <1>t, <1>3, <2>1, <2>3, <2>4 DEF WriteParsed, TypeOK
  <2>6. runPc[d] \in {"parsed", "final"} /\ UNCHANGED <<apiPc, apiSeen>>
    BY <1>3 DEF WriteParsed
  <2>7. CopyHeld'
    BY <1>t, <2>2, <2>6 DEF CopyHeld, TypeOK
  <2> QED
    BY <2>5, <2>7
<1>4. CASE Refresh(d)
  <2>1. TypeOK'
    BY <1>t, <1>r, <1>4 DEF Refresh, TypeOK
  <2>2. CopyHeld'
    BY <1>t, <1>r, <1>4 DEF Refresh, CopyHeld, TypeOK
  <2> QED
    BY <2>1, <2>2
<1>5. CASE Process(d)
  <2>1. [runDoc[d] EXCEPT !.status = "completed",
                          !.content = Stitched(d, runDoc[d].content)] \in Rows
    <3>1. runDoc[d] \in Rows
      BY <1>t, <1>5 DEF Process, CopyHeld
    <3>2. Stitched(d, runDoc[d].content) \in Contents /\ "completed" \in Statuses
      BY <3>1, RowUpdateTypes, StitchedType DEF Statuses
    <3> QED
      BY <3>1, <3>2, RowUpdateTypes
  <2>2. runDoc' \in [Docs -> Snapshots] /\ runDoc'[d] \in Rows
    BY <1>t, <1>5, <2>1 DEF Process, TypeOK, Snapshots
  <2>3. TypeOK'
    BY <1>t, <1>5, <2>2, TaskTypes DEF Process, TypeOK
  <2>4. CopyHeld'
    BY <1>t, <1>5, <2>2 DEF Process, CopyHeld, TypeOK
  <2> QED
    BY <2>3, <2>4
<1>6. CASE Gather(d)
  <2>1. \/ runPc' = [runPc EXCEPT ![d] = "final"] /\ runDoc' = runDoc
        \/ runPc' = [runPc EXCEPT ![d] = "errGet"] /\ runDoc' = [runDoc EXCEPT ![d] = NoRow]
    BY <1>6 DEF Gather, ToHandler
  <2>2. runPc' \in [Docs -> RunPcs]
    BY <1>t, <2>1 DEF TypeOK
  <2>3. runDoc' \in [Docs -> Snapshots]
    <3>1. runDoc \in [Docs -> Snapshots]
      BY <1>t DEF TypeOK
    <3> QED
      BY <1>r, <2>1, <3>1
  <2>4. /\ task' \in [Docs -> [Stores -> TaskSts]]
        /\ attempt' \in [Docs -> [Stores -> 0 .. MaxStoreAttempts]]
    BY <1>t, <1>6, TaskTypes DEF Gather
  <2>5. TypeOK'
    BY <1>t, <1>6, <2>2, <2>3, <2>4 DEF Gather, TypeOK
  <2>6. CopyHeld'
    BY <1>t, <1>6 DEF Gather, ToHandler, CopyHeld, TypeOK
  <2> QED
    BY <2>5, <2>6
<1>7. CASE WriteFinal(d)
  <2> DEFINE row == [runDoc[d] EXCEPT !.chunks = req[d].targets]
  <2>1. docs' \in [Docs -> Snapshots]
    <3>1. CASE UpdateDocument(d, row)
      <4>1. runDoc[d] \in Rows
        BY <1>t, <1>7 DEF WriteFinal, CopyHeld
      <4>2. row \in Rows
        BY <1>t, <4>1, TargetsType, RowUpdateTypes
      <4> HIDE DEF row
      <4> QED
        BY <1>t, <3>1, <4>2, UpdateType
    <3>2. CASE UNCHANGED docs
      BY <1>t, <3>2 DEF TypeOK
    <3> QED
      BY <1>7, <3>1, <3>2 DEF WriteFinal
  <2>2. \/ runPc' = [runPc EXCEPT ![d] = "refresh"] /\ runDoc' = runDoc
        \/ runPc' = [runPc EXCEPT ![d] = "finish"] /\ runDoc' = [runDoc EXCEPT ![d] = NoRow]
        \/ runPc' = [runPc EXCEPT ![d] = "errGet"] /\ runDoc' = [runDoc EXCEPT ![d] = NoRow]
    BY <1>7 DEF WriteFinal, ToHandler
  <2>3. runPc' \in [Docs -> RunPcs]
    BY <1>t, <2>2 DEF TypeOK
  <2>4. runDoc' \in [Docs -> Snapshots]
    BY <1>t, <1>r, <2>2 DEF TypeOK
  <2>5. TypeOK'
    BY <1>t, <1>7, <2>1, <2>3, <2>4 DEF WriteFinal, TypeOK
  <2>6. runPc[d] \in {"parsed", "final"} /\ UNCHANGED <<apiPc, apiSeen>>
    BY <1>7 DEF WriteFinal
  <2>7. CopyHeld'
    BY <1>t, <2>2, <2>6 DEF CopyHeld, TypeOK
  <2> QED
    BY <2>5, <2>7
<1>8. CASE StepRaises(d)
  <2>1. TypeOK'
    BY <1>t, <1>r, <1>8 DEF StepRaises, TypeOK, ToHandler
  <2>2. CopyHeld'
    BY <1>t, <1>r, <1>8 DEF StepRaises, CopyHeld, TypeOK, ToHandler
  <2> QED
    BY <2>1, <2>2
<1>9. CASE Finish(d)
  <2>1. TypeOK'
    BY <1>t, <1>r, <1>9 DEF Finish, TypeOK, EndJob
  <2>2. CopyHeld'
    BY <1>t, <1>r, <1>9 DEF Finish, CopyHeld, TypeOK, EndJob
  <2> QED
    BY <2>1, <2>2
<1>10. CASE HandlerRead(d)
  <2>1. TypeOK'
    BY <1>t, <1>r, <1>10 DEF HandlerRead, TypeOK
  <2>2. CopyHeld'
    BY <1>t, <1>r, <1>10 DEF HandlerRead, CopyHeld, TypeOK
  <2> QED
    BY <2>1, <2>2
<1>11. CASE HandlerWrite(d)
  <2> DEFINE row == [docs[d] EXCEPT !.status = "failed", !.content = runDoc[d].content]
  <2>1. docs' \in [Docs -> Snapshots]
    <3>1. runDoc[d] \in Rows
      BY <1>t, <1>11 DEF HandlerWrite, CopyHeld
    <3>2. runDoc[d].content \in Contents /\ "failed" \in Statuses
      BY <3>1, RowUpdateTypes DEF Statuses
    <3>3. docs[d] # NoRow => row \in Rows
      BY <1>r, <3>2, RowUpdateTypes
    <3>4. UpdateDocument(d, row)
      BY <1>11 DEF HandlerWrite
    <3> HIDE DEF row
    <3> QED
      BY <1>t, <3>3, <3>4, UpdateType
  <2>2. TypeOK'
    BY <1>t, <1>r, <1>11, <2>1 DEF HandlerWrite, EndJob, TypeOK
  <2>3. CopyHeld'
    BY <1>t, <1>11 DEF HandlerWrite, EndJob, CopyHeld, TypeOK
  <2> QED
    BY <2>2, <2>3
<1>12. CASE HandlerGivesUp(d)
  <2>1. TypeOK'
    BY <1>t, <1>r, <1>12 DEF HandlerGivesUp, TypeOK, EndJob
  <2>2. CopyHeld'
    BY <1>t, <1>r, <1>12 DEF HandlerGivesUp, CopyHeld, TypeOK, EndJob
  <2> QED
    BY <2>1, <2>2
<1> QED
  BY <1>1, <1>2, <1>3, <1>4, <1>5, <1>6, <1>7, <1>8, <1>9, <1>10, <1>11, <1>12
     DEF WorkerStep

\* Every step of delete_document keeps the types.
LEMMA DeleteType ==
    ASSUME TypeInv, NEW d \in Docs, DeleteStep(d)
    PROVE  TypeInv'
<1>t. TypeOK /\ CopyHeld
  BY DEF TypeInv
<1>r. docs[d] \in Snapshots /\ NoRow \in Snapshots
  BY <1>t, RowOf
<1> USE DEF TypeInv
<1>1. CASE DeleteRead(d)
  <2>1. TypeOK'
    BY <1>t, <1>r, <1>1 DEF DeleteRead, TypeOK, Settled
  <2>2. CopyHeld'
    BY <1>t, <1>r, <1>1 DEF DeleteRead, CopyHeld, TypeOK, Settled
  <2> QED
    BY <2>1, <2>2
<1>2. CASE DeleteRow(d)
  <2>1. ToClean(delDoc[d]) \in SUBSET (Stores \cup {"file"})
    BY DEF ToClean
  <2>2. docs' \in [Docs -> Snapshots] /\ delPc' \in [Docs -> DelPcs]
    <3>1. docs' = docs \/ docs' = [docs EXCEPT ![d] = NoRow]
      BY <1>2 DEF DeleteRow
    <3>2. \E pc \in DelPcs : delPc' = [delPc EXCEPT ![d] = pc]
      BY <1>2 DEF DeleteRow
    <3>3. docs' \in [Docs -> Snapshots]
      <4>1. docs \in [Docs -> Snapshots]
        BY <1>t DEF TypeOK
      <4> QED
        BY <1>r, <3>1, <4>1
    <3>4. delPc' \in [Docs -> DelPcs]
      <4> HIDE DEF DelPcs
      <4> QED
        BY <1>t, <3>2 DEF TypeOK
    <3> QED
      BY <3>3, <3>4
  <2>3. delTodo' \in [Docs -> SUBSET (Stores \cup {"file"})]
    BY <1>t, <1>2, <2>1 DEF DeleteRow, TypeOK
  <2>4. TypeOK'
    BY <1>t, <1>2, <2>2, <2>3 DEF DeleteRow, TypeOK
  <2>5. CopyHeld'
    BY <1>t, <1>2 DEF DeleteRow, CopyHeld, TypeOK
  <2> QED
    BY <2>4, <2>5
<1>3. CASE DeleteDone(d)
  <2>1. TypeOK'
    BY <1>t, <1>r, <1>3 DEF DeleteDone, TypeOK
  <2>2. CopyHeld'
    BY <1>t, <1>r, <1>3 DEF DeleteDone, CopyHeld, TypeOK
  <2> QED
    BY <2>1, <2>2
<1>4. ASSUME NEW x \in Stores \cup {"file"}, Clean(d, x)
      PROVE  TypeInv'
  <2>1. x \in Stores => [rows EXCEPT ![d][x] = 0] \in [Docs -> [Stores -> Nat]]
    BY <1>t DEF TypeOK
  <2>2. rows' \in [Docs -> [Stores -> Nat]] /\ blob' \in [Docs -> BOOLEAN]
    BY <1>t, <1>4, <2>1 DEF Clean, DeleteChunks, TypeOK
  <2>3. TypeOK'
    BY <1>t, <1>4, <2>2 DEF Clean, TypeOK
  <2>4. CopyHeld'
    BY <1>t, <1>4 DEF Clean, CopyHeld, TypeOK
  <2> QED
    BY <2>3, <2>4
<1> QED
  BY <1>1, <1>2, <1>3, <1>4 DEF DeleteStep

\* Losing a process keeps the types.
LEMMA CrashType ==
    ASSUME TypeInv, ServerCrash \/ WorkerCrash
    PROVE  TypeInv'
<1>t. TypeOK /\ CopyHeld
  BY DEF TypeInv
<1>1. NoTasks \in [Stores -> TaskSts] /\ NoAttempts \in [Stores -> 0 .. MaxStoreAttempts]
  BY LimitsAssumption DEF NoTasks, NoAttempts, TaskSts
<1>2. NoRow \in Snapshots
  BY DEF Snapshots
<1>3. CASE ServerCrash
  BY <1>t, <1>1, <1>2, <1>3 DEF ServerCrash, TypeInv, CopyHeld, TypeOK
<1>4. CASE WorkerCrash
  BY <1>t, <1>1, <1>2, <1>4 DEF WorkerCrash, TypeInv, CopyHeld, TypeOK
<1> QED
  BY <1>3, <1>4

\* The type invariant with the held copies is inductive.
LEMMA TypeStep == TypeInv /\ [Next]_vars => TypeInv'
<1> SUFFICES ASSUME TypeInv, [Next]_vars
             PROVE  TypeInv'
  OBVIOUS
<1>1. CASE Next
  BY <1>1, ApiType, TaskType, QueueType, WorkerType, DeleteType, CrashType
     DEF Next, TaskStep
<1>2. CASE UNCHANGED vars
  BY <1>2 DEF vars, TypeInv, CopyHeld, TypeOK
<1> QED
  BY <1>1, <1>2

\* Every variable of Ingestion keeps its type: the tables hold rows with the columns
\* of the documents table, no job is started more than MaxTries times, and no storage
\* task makes more than MaxStoreAttempts attempts.
THEOREM TypeCorrect == Spec => []TypeOK
<1>1. Init => TypeInv
  BY InitType DEF Init, TypeInv, CopyHeld
<1>2. TypeInv => TypeOK
  BY DEF TypeInv
<1> QED
  BY <1>1, <1>2, TypeStep, PTL DEF Spec
-----------------------------------------------------------------------------
(* What a step leaves alone.                                               *)

\* Nothing about document e changes.
Same(e) ==
    /\ docs'[e] = docs[e]
    /\ rows'[e] = rows[e]
    /\ blob'[e] = blob[e]
    /\ req'[e] = req[e]
    /\ apiPc'[e] = apiPc[e]
    /\ jobSt'[e] = jobSt[e]
    /\ tries'[e] = tries[e]
    /\ runPc'[e] = runPc[e]
    /\ runDoc'[e] = runDoc[e]
    /\ task'[e] = task[e]
    /\ delPc'[e] = delPc[e]
    /\ delDoc'[e] = delDoc[e]
    /\ delTodo'[e] = delTodo[e]
    /\ exact'[e] = exact[e]
    /\ lost'[e] = lost[e]

\* A step on one document that is neither a crash nor a stutter.
DocStep(d) ==
    ApiStep(d) \/ TaskStep(d) \/ QueueStep(d) \/ WorkerStep(d) \/ DeleteStep(d)

\* A step on a document changes nothing about the others.
LEMMA Frame ==
    ASSUME TypeOK, NEW d \in Docs, NEW e \in Docs, e # d, DocStep(d)
    PROVE  Same(e)
<1>1. CASE ApiStep(d)
  BY <1>1 DEF ApiStep, Accept, StoreRow, Upload, RecordFile, Enqueue, MarkFailedRead,
       MarkFailedWrite, TextStored, TextRow, TextMark, GiveUp, StoreDocument,
       UpdateDocument, StartTasks, DropTasks, Same, TypeOK
<1>2. CASE TaskStep(d)
  BY <1>2 DEF TaskStep, StoreOk, StoreConnectionLost, StoreRefused, LoseReply,
       StoreEmbeddings, Same, TypeOK
<1>3. CASE QueueStep(d)
  BY <1>3 DEF QueueStep, StartJob, DropJob, JobTimeout, Same, TypeOK
<1>4. CASE WorkerStep(d)
  BY <1>4 DEF WorkerStep, Download, Fetch, WriteParsed, Refresh, Process, Gather,
       WriteFinal, StepRaises, Finish, HandlerRead, HandlerWrite, HandlerGivesUp,
       EndJob, ToHandler, UpdateDocument, StartTasks, DropTasks, Same, TypeOK
<1>5. CASE DeleteStep(d)
  BY <1>5 DEF DeleteStep, DeleteRead, DeleteRow, DeleteDone, Clean, DeleteChunks,
       Same, TypeOK
<1> QED
  BY <1>1, <1>2, <1>3, <1>4, <1>5 DEF DocStep
-----------------------------------------------------------------------------
(* The inductive invariant, one document at a time.                        *)

\* While the request has not put a row in the table there is none to delete, and a
\* deleted row never comes back: only the request inserts rows, and only once.
RowOrder(d) ==
    /\ apiPc[d] \in {"new", "row", "textStore", "textRow"} =>
          docs[d] = NoRow /\ delPc[d] = "idle"
    /\ Deleted(d) => docs[d] = NoRow

\* Until the row is deleted no chunk goes away: what a storage task has inserted, what
\* a run or a text request is about to name, and what the row names, are all there.
Inserted(d) ==
    ~ Deleted(d) =>
        /\ \A s \in Stores : task[d][s] = "ok" => rows[d][s] > 0
        /\ runPc[d] = "final" \/ apiPc[d] = "textRow" =>
              \A s \in req[d].targets : rows[d][s] > 0
        /\ docs[d] # NoRow => \A s \in docs[d].chunks : rows[d][s] > 0

\* A job is queued once, by a request for a file, and it is running exactly while
\* process_ingestion_job is.
JobOrder(d) ==
    /\ IsText(d) => jobSt[d] = "none" /\ apiPc[d] \notin {"row", "upload", "record", "enqueue"}
    /\ ~ IsText(d) => apiPc[d] \notin {"textStore", "textRow", "textMark"}
    /\ apiPc[d] \in {"new", "row", "upload", "record", "enqueue"} => jobSt[d] = "none"
    /\ runPc[d] # "idle" <=> jobSt[d] = "running"

BeforeStore == {"download", "fetch", "parsed", "refresh", "process"}

\* What may still be inserted, with what has been, is within the bound; a run that has
\* not reached its storage tasks has an insert per store left, and none is pending.
CopiesLeft(d) ==
    \A s \in Stores :
        /\ rows[d][s] + (IF Pending(d, s) THEN 1 ELSE 0) <= Attempts(d) + lost[d][s]
        /\ IsText(d) /\ apiPc[d] = "new" => ~ Pending(d, s) /\ rows[d][s] <= lost[d][s]
        /\ ~ IsText(d) /\ jobSt[d] \in {"none", "queued"} => ~ Pending(d, s)
        /\ ~ IsText(d) /\ runPc[d] \in BeforeStore =>
              ~ Pending(d, s) /\ rows[d][s] + 1 <= tries[d] + lost[d][s]

\* The file is uploaded before the job that needs it, and only deletion removes it.
FileOrder(d) ==
    apiPc[d] \in {"record", "enqueue"} \/ jobSt[d] # "none" => blob[d] \/ Deleted(d)

\* No one but the run itself completes a document while it is between reading the row
\* and writing it back; a run that is about to complete it has marked its copy.
StatusOrder(d) ==
    /\ (runPc[d] = "parsed" /\ docs[d] # NoRow /\ docs[d].status = "completed") =>
          runDoc[d].status = "completed"
    /\ runPc[d] \in {"store", "final"} => runDoc[d].status = "completed"

DocInv(d) ==
    /\ RowOrder(d) /\ Inserted(d) /\ JobOrder(d) /\ CopiesLeft(d) /\ FileOrder(d)
    /\ StatusOrder(d)

IngestionInv == TypeInv /\ \A d \in Docs : DocInv(d)

\* A step on a document keeps its row in order.
LEMMA RowOrderStep ==
    ASSUME TypeInv, NEW d \in Docs, DocInv(d), DocStep(d)
    PROVE  RowOrder(d)'
<1>t. TypeOK /\ CopyHeld
  BY DEF TypeInv
<1>0. RowOrder(d)
  BY DEF DocInv
<1>1. CASE ApiStep(d)
  BY <1>t, <1>0, <1>1 DEF ApiStep, Accept, StoreRow, Upload, RecordFile, Enqueue, MarkFailedRead,
       MarkFailedWrite, TextStored, TextRow, TextMark, GiveUp, StoreDocument,
       UpdateDocument, StartTasks, DropTasks,
       RowOrder, Deleted, TypeOK
<1>2. CASE TaskStep(d)
  BY <1>t, <1>0, <1>2 DEF TaskStep, StoreOk, StoreConnectionLost, StoreRefused, StoreEmbeddings, Pending,
       RowOrder, Deleted, TypeOK
<1>3. CASE QueueStep(d)
  BY <1>t, <1>0, <1>3 DEF QueueStep, StartJob, DropJob, JobTimeout,
       RowOrder, Deleted, TypeOK
<1>4. CASE WorkerStep(d)
  BY <1>t, <1>0, <1>4 DEF WorkerStep, Download, Fetch, WriteParsed, Refresh, Process, Gather,
       WriteFinal, StepRaises, Finish, HandlerRead, HandlerWrite, HandlerGivesUp,
       EndJob, ToHandler, UpdateDocument, StartTasks, DropTasks,
       RowOrder, Deleted, TypeOK
<1>5. CASE DeleteStep(d)
  BY <1>t, <1>0, <1>5 DEF DeleteStep, DeleteRead, DeleteRow, DeleteDone, Clean, DeleteChunks,
       RowOrder, Deleted, TypeOK
<1> QED
  BY <1>1, <1>2, <1>3, <1>4, <1>5 DEF DocStep

\* A step on a document keeps its job in order.
LEMMA JobOrderStep ==
    ASSUME TypeInv, NEW d \in Docs, DocInv(d), DocStep(d)
    PROVE  JobOrder(d)'
<1>t. TypeOK /\ CopyHeld
  BY DEF TypeInv
<1>0. JobOrder(d)
  BY DEF DocInv
<1>1. CASE ApiStep(d)
  BY <1>t, <1>0, <1>1 DEF ApiStep, Accept, StoreRow, Upload, RecordFile, Enqueue, MarkFailedRead,
       MarkFailedWrite, TextStored, TextRow, TextMark, GiveUp, StoreDocument,
       UpdateDocument, StartTasks, DropTasks,
       JobOrder, IsText, TypeOK
<1>2. CASE TaskStep(d)
  BY <1>t, <1>0, <1>2 DEF TaskStep, StoreOk, StoreConnectionLost, StoreRefused, StoreEmbeddings, Pending,
       JobOrder, IsText, TypeOK
<1>3. CASE QueueStep(d)
  BY <1>t, <1>0, <1>3 DEF QueueStep, StartJob, DropJob, JobTimeout,
       JobOrder, IsText, TypeOK
<1>4. CASE WorkerStep(d)
  BY <1>t, <1>0, <1>4 DEF WorkerStep, Download, Fetch, WriteParsed, Refresh, Process, Gather,
       WriteFinal, StepRaises, Finish, HandlerRead, HandlerWrite, HandlerGivesUp,
       EndJob, ToHandler, UpdateDocument, StartTasks, DropTasks,
       JobOrder, IsText, TypeOK
<1>5. CASE DeleteStep(d)
  BY <1>t, <1>0, <1>5 DEF DeleteStep, DeleteRead, DeleteRow, DeleteDone, Clean, DeleteChunks,
       JobOrder, IsText, TypeOK
<1> QED
  BY <1>1, <1>2, <1>3, <1>4, <1>5 DEF DocStep

\* A step on a document keeps its file for its job.
LEMMA FileOrderStep ==
    ASSUME TypeInv, NEW d \in Docs, DocInv(d), DocStep(d)
    PROVE  FileOrder(d)'
<1>t. TypeOK /\ CopyHeld
  BY DEF TypeInv
<1>0. FileOrder(d) /\ JobOrder(d)
  BY DEF DocInv
<1>1. CASE ApiStep(d)
  BY <1>t, <1>0, <1>1 DEF ApiStep, Accept, StoreRow, Upload, RecordFile, Enqueue, MarkFailedRead,
       MarkFailedWrite, TextStored, TextRow, TextMark, GiveUp, StoreDocument,
       UpdateDocument, StartTasks, DropTasks,
       FileOrder, JobOrder, Deleted, IsText, TypeOK
<1>2. CASE TaskStep(d)
  BY <1>t, <1>0, <1>2 DEF TaskStep, StoreOk, StoreConnectionLost, StoreRefused, StoreEmbeddings, Pending,
       FileOrder, JobOrder, Deleted, IsText, TypeOK
<1>3. CASE QueueStep(d)
  BY <1>t, <1>0, <1>3 DEF QueueStep, StartJob, DropJob, JobTimeout,
       FileOrder, JobOrder, Deleted, IsText, TypeOK
<1>4. CASE WorkerStep(d)
  BY <1>t, <1>0, <1>4 DEF WorkerStep, Download, Fetch, WriteParsed, Refresh, Process, Gather,
       WriteFinal, StepRaises, Finish, HandlerRead, HandlerWrite, HandlerGivesUp,
       EndJob, ToHandler, UpdateDocument, StartTasks, DropTasks,
       FileOrder, JobOrder, Deleted, IsText, TypeOK
<1>5. CASE DeleteStep(d)
  BY <1>t, <1>0, <1>5 DEF DeleteStep, DeleteRead, DeleteRow, DeleteDone, Clean, DeleteChunks,
       FileOrder, JobOrder, Deleted, IsText, TypeOK
<1> QED
  BY <1>1, <1>2, <1>3, <1>4, <1>5 DEF DocStep

\* The columns an update changes, and those it keeps.
LEMMA Columns ==
    ASSUME NEW row \in Rows, NEW st, NEW c, NEW S
    PROVE  /\ [row EXCEPT !.file = TRUE].chunks = row.chunks
           /\ [row EXCEPT !.status = st, !.content = c].chunks = row.chunks
           /\ [row EXCEPT !.status = st, !.content = c].status = st
           /\ [row EXCEPT !.chunks = S].chunks = S
BY DEF Rows

\* update_document either finds the row and changes its columns or does nothing.
LEMMA UpdateEffect ==
    ASSUME TypeOK, NEW d \in Docs, NEW row, UpdateDocument(d, row)
    PROVE  docs[d] # NoRow /\ docs'[d] = row
BY DEF UpdateDocument, TypeOK

\* Only the run completes a document it is working on.
LEMMA StatusOrderStep ==
    ASSUME TypeInv, NEW d \in Docs, DocInv(d), DocStep(d)
    PROVE  StatusOrder(d)'
<1>t. TypeOK /\ CopyHeld
  BY DEF TypeInv
<1>0. StatusOrder(d) /\ JobOrder(d) /\ RowOrder(d)
  BY DEF DocInv
<1>r. docs[d] # NoRow => docs[d] \in Rows
  BY <1>t, RowOf
<1>1. CASE ApiStep(d)
  <2>1. runPc' = runPc /\ runDoc' = runDoc
    BY <1>1 DEF ApiStep, Accept, StoreRow, Upload, RecordFile, Enqueue, MarkFailedRead,
         MarkFailedWrite, TextStored, TextRow, TextMark, GiveUp, StoreDocument,
         UpdateDocument
  <2>2. CASE MarkFailedWrite(d)
    <3> DEFINE row == [docs[d] EXCEPT !.status = "failed", !.content = apiSeen[d].content]
    <3>1. docs' = docs \/ UpdateDocument(d, row)
      BY <2>2 DEF MarkFailedWrite
    <3>2. docs[d] # NoRow => row.status = "failed"
      BY <1>r, Columns
    <3> HIDE DEF row
    <3>3. docs' = docs \/ (docs[d] # NoRow /\ docs'[d].status = "failed")
      BY <1>t, <3>1, <3>2, UpdateEffect
    <3> QED
      BY <1>0, <2>1, <3>3 DEF StatusOrder
  <2>3. CASE ~ MarkFailedWrite(d)
    <3>1. docs' = docs \/ runPc[d] # "parsed"
      BY <1>0, <1>1, <2>3 DEF ApiStep, Accept, StoreRow, Upload, RecordFile, Enqueue, MarkFailedRead,
         MarkFailedWrite, TextStored, TextRow, TextMark, GiveUp, StoreDocument,
         UpdateDocument,
         JobOrder
    <3> QED
      BY <1>0, <2>1, <3>1 DEF StatusOrder
  <2> QED
    BY <2>2, <2>3
<1>2. CASE TaskStep(d)
  BY <1>t, <1>0, <1>2 DEF TaskStep, StoreOk, StoreConnectionLost, StoreRefused,
     StatusOrder, TypeOK
<1>3. CASE QueueStep(d)
  BY <1>t, <1>0, <1>3 DEF QueueStep, StartJob, DropJob, JobTimeout, StatusOrder, TypeOK
<1>4. CASE WorkerStep(d)
  <2>1. CASE Process(d)
    <3> DEFINE row == [runDoc[d] EXCEPT !.status = "completed",
                                        !.content = Stitched(d, runDoc[d].content)]
    <3>1. runDoc[d] \in Rows
      BY <1>t, <2>1 DEF Process, CopyHeld
    <3>2. row.status = "completed"
      BY <3>1, Columns
    <3>3. runPc'[d] = "store" /\ runDoc'[d] = row
      BY <1>t, <2>1 DEF Process, TypeOK
    <3> HIDE DEF row
    <3> QED
      BY <3>2, <3>3 DEF StatusOrder
  <2>2. CASE ~ Process(d)
    BY <1>t, <1>0, <1>4, <2>2 DEF WorkerStep, Download, Fetch, WriteParsed, Refresh,
       Gather, WriteFinal, StepRaises, Finish, HandlerRead, HandlerWrite, HandlerGivesUp,
       EndJob, ToHandler, UpdateDocument, StatusOrder, TypeOK
  <2> QED
    BY <2>1, <2>2
<1>5. CASE DeleteStep(d)
  BY <1>t, <1>0, <1>5 DEF DeleteStep, DeleteRead, DeleteRow, DeleteDone, Clean,
     StatusOrder, TypeOK
<1> QED
  BY <1>1, <1>2, <1>3, <1>4, <1>5 DEF DocStep

\* Where the chunks that a row names come from: from the row before, or from a run or
\* a text request that has gathered its storage tasks.
ChunkSource(d) ==
    \/ docs'[d] = NoRow
    \/ docs[d] # NoRow /\ docs'[d].chunks = docs[d].chunks
    \/ docs'[d].chunks = {}
    \/ (runPc[d] = "final" \/ apiPc[d] = "textRow") /\ docs'[d].chunks = req[d].targets

LEMMA ChunkSources ==
    ASSUME TypeInv, NEW d \in Docs, DocStep(d)
    PROVE  ChunkSource(d)
<1>t. TypeOK /\ CopyHeld
  BY DEF TypeInv
<1>r. docs[d] # NoRow => docs[d] \in Rows
  BY <1>t, RowOf
<1>s. docs' = docs => ChunkSource(d)
  BY DEF ChunkSource
<1>1. CASE ApiStep(d)
  <2>1. CASE StoreRow(d)
    BY <1>t, <1>s, <2>1 DEF StoreRow, StoreDocument, NewRow, ChunkSource, TypeOK
  <2>2. CASE RecordFile(d)
    <3> DEFINE row == [docs[d] EXCEPT !.file = TRUE]
    <3>1. docs' = docs \/ UpdateDocument(d, row)
      BY <2>2 DEF RecordFile
    <3>2. docs[d] # NoRow => row.chunks = docs[d].chunks
      BY <1>r, Columns
    <3> HIDE DEF row
    <3> QED
      BY <1>t, <1>s, <3>1, <3>2, UpdateEffect DEF ChunkSource
  <2>3. CASE MarkFailedWrite(d)
    <3> DEFINE row == [docs[d] EXCEPT !.status = "failed", !.content = apiSeen[d].content]
    <3>1. docs' = docs \/ UpdateDocument(d, row)
      BY <2>3 DEF MarkFailedWrite
    <3>2. docs[d] # NoRow => row.chunks = docs[d].chunks
      BY <1>r, Columns
    <3> HIDE DEF row
    <3> QED
      BY <1>t, <1>s, <3>1, <3>2, UpdateEffect DEF ChunkSource
  <2>4. CASE TextRow(d)
    <3>1. [NewRow EXCEPT !.content = "full", !.chunks = req[d].targets].chunks
             = req[d].targets
      BY DEF NewRow
    <3> QED
      BY <1>t, <1>s, <2>4, <3>1 DEF TextRow, StoreDocument, ChunkSource, TypeOK
  <2>5. CASE TextMark(d)
    <3> DEFINE row == [docs[d] EXCEPT !.status = "completed", !.content = "full"]
    <3>1. docs' = docs \/ UpdateDocument(d, row)
      BY <2>5 DEF TextMark
    <3>2. docs[d] # NoRow => row.chunks = docs[d].chunks
      BY <1>r, Columns
    <3> HIDE DEF row
    <3> QED
      BY <1>t, <1>s, <3>1, <3>2, UpdateEffect DEF ChunkSource
  <2>6. CASE \/ Accept(d) \/ Upload(d) \/ Enqueue(d) \/ MarkFailedRead(d) \/ TextStored(d)
    BY <1>s, <2>6 DEF Accept, Upload, Enqueue, MarkFailedRead, TextStored
  <2> QED
    BY <1>1, <2>1, <2>2, <2>3, <2>4, <2>5, <2>6 DEF ApiStep
<1>2. CASE TaskStep(d) \/ QueueStep(d)
  BY <1>s, <1>2 DEF TaskStep, StoreOk, StoreConnectionLost, StoreRefused,
     QueueStep, StartJob, DropJob, JobTimeout
<1>3. CASE WorkerStep(d)
  <2>1. CASE WriteParsed(d)
    <3> DEFINE row == [docs[d] EXCEPT !.status = runDoc[d].status, !.content = "full"]
    <3>1. docs' = docs \/ UpdateDocument(d, row)
      BY <2>1 DEF WriteParsed
    <3>2. docs[d] # NoRow => row.chunks = docs[d].chunks
      BY <1>r, Columns
    <3> HIDE DEF row
    <3> QED
      BY <1>t, <1>s, <3>1, <3>2, UpdateEffect DEF ChunkSource
  <2>2. CASE WriteFinal(d)
    <3> DEFINE row == [runDoc[d] EXCEPT !.chunks = req[d].targets]
    <3>1. docs' = docs \/ UpdateDocument(d, row)
      BY <2>2 DEF WriteFinal
    <3>2. runPc[d] = "final" /\ runDoc[d] \in Rows
      BY <1>t, <2>2 DEF WriteFinal, CopyHeld
    <3>3. row.chunks = req[d].targets
      BY <3>2, Columns
    <3> HIDE DEF row
    <3> QED
      BY <1>t, <1>s, <3>1, <3>2, <3>3, UpdateEffect DEF ChunkSource
  <2>3. CASE HandlerWrite(d)
    <3> DEFINE row == [docs[d] EXCEPT !.status = "failed", !.content = runDoc[d].content]
    <3>1. docs' = docs \/ UpdateDocument(d, row)
      BY <2>3 DEF HandlerWrite
    <3>2. docs[d] # NoRow => row.chunks = docs[d].chunks
      BY <1>r, Columns
    <3> HIDE DEF row
    <3> QED
      BY <1>t, <1>s, <3>1, <3>2, UpdateEffect DEF ChunkSource
  <2>4. CASE ~ (WriteParsed(d) \/ WriteFinal(d) \/ HandlerWrite(d))
    BY <1>s, <1>3, <2>4 DEF WorkerStep, Download, Fetch, Refresh, Process, Gather,
       StepRaises, Finish, HandlerRead, HandlerGivesUp, EndJob
  <2> QED
    BY <2>1, <2>2, <2>3, <2>4
<1>4. CASE DeleteStep(d)
  BY <1>t, <1>s, <1>4 DEF DeleteStep, DeleteRead, DeleteRow, DeleteDone, Clean,
     ChunkSource, TypeOK
<1> QED
  BY <1>1, <1>2, <1>3, <1>4 DEF DocStep

\* The storage tasks that a gather starts, and those it leaves behind.
LEMMA TaskEffects ==
    ASSUME TypeOK, NEW d \in Docs, NEW x \in Stores
    PROVE  /\ StartTasks(d) => task'[d][x] \in {"pending", "idle"}
           /\ DropTasks(d) => /\ task'[d][x] \in {"pending", "idle"}
                              /\ task'[d][x] = "pending" => task[d][x] = "pending"
BY DEF StartTasks, DropTasks, TypeOK

\* What a step does to the chunks of a document in store x: only a deletion removes
\* them, a task is done once its chunks are in, and nobody names chunks before that.
LEMMA StoreEffects ==
    ASSUME TypeInv, NEW d \in Docs, JobOrder(d), DocStep(d), NEW x \in Stores
    PROVE  /\ rows[d][x] \in Nat /\ rows'[d][x] \in Nat
           /\ rows'[d][x] >= rows[d][x] \/ Deleted(d)
           /\ task'[d][x] = "ok" => task[d][x] = "ok" \/ rows'[d][x] > 0
           /\ Deleted(d) => Deleted(d)'
           /\ runPc'[d] = "final" \/ apiPc'[d] = "textRow" =>
                 runPc[d] = "final" \/ apiPc[d] = "textRow"
                 \/ (AllStored(d) /\ rows' = rows)
           /\ req' = req
<1>t. TypeOK /\ TypeOK'
  BY TypeStep DEF TypeInv, DocStep, Next
<1>n. /\ rows[d] \in [Stores -> Nat] /\ rows'[d] \in [Stores -> Nat]
      /\ rows[d][x] \in Nat /\ rows'[d][x] \in Nat
  BY <1>t DEF TypeOK
<1>1. CASE ApiStep(d)
  <2>1. rows' = rows /\ delPc' = delPc /\ runPc' = runPc /\ req' = req
    BY <1>1 DEF ApiStep, Accept, StoreRow, Upload, RecordFile, Enqueue, MarkFailedRead,
         MarkFailedWrite, TextStored, TextRow, TextMark
  <2>2. task'[d][x] = "ok" => task[d][x] = "ok"
    <3>1. task' = task \/ StartTasks(d) \/ DropTasks(d)
      BY <1>1 DEF ApiStep, Accept, StoreRow, Upload, RecordFile, Enqueue,
         MarkFailedRead, MarkFailedWrite, TextStored, TextRow, TextMark
    <3> QED
      BY <1>t, <3>1, TaskEffects
  <2>3. apiPc'[d] = "textRow" => AllStored(d)
    BY <1>t, <1>1 DEF ApiStep, Accept, StoreRow, Upload, RecordFile, Enqueue,
         MarkFailedRead, MarkFailedWrite, TextStored, TextRow, TextMark, GiveUp, TypeOK
  <2> QED
    BY <1>n, <2>1, <2>2, <2>3 DEF Deleted
<1>2. ASSUME NEW s \in Stores,
             StoreOk(d, s) \/ StoreConnectionLost(d, s) \/ StoreRefused(d, s)
      PROVE  /\ rows'[d][x] >= rows[d][x]
             /\ task'[d][x] = "ok" => task[d][x] = "ok" \/ rows'[d][x] > 0
             /\ UNCHANGED <<delPc, runPc, apiPc, req>>
  BY <1>t, <1>n, <1>2 DEF StoreOk, StoreConnectionLost, StoreRefused, LoseReply,
     StoreEmbeddings, TypeOK
<1>3. CASE QueueStep(d)
  <2>1. UNCHANGED <<rows, delPc, apiPc, req>> /\ (runPc'[d] = "final" => runPc[d] = "final")
    BY <1>t, <1>3 DEF QueueStep, StartJob, DropJob, JobTimeout, TypeOK
  <2>2. task'[d][x] = "ok" => task[d][x] = "ok"
    BY <1>t, <1>3 DEF QueueStep, StartJob, DropJob, JobTimeout, NoTasks, TypeOK
  <2> QED
    BY <1>n, <2>1, <2>2 DEF Deleted
<1>4. CASE WorkerStep(d)
  <2>1. UNCHANGED <<rows, delPc, apiPc, req>>
    BY <1>4 DEF WorkerStep, Download, Fetch, WriteParsed, Refresh, Process, Gather,
       WriteFinal, StepRaises, Finish, HandlerRead, HandlerWrite, HandlerGivesUp, EndJob
  <2>2. task'[d][x] = "ok" => task[d][x] = "ok"
    <3>1. task' = task \/ StartTasks(d) \/ DropTasks(d)
      BY <1>4 DEF WorkerStep, Download, Fetch, WriteParsed, Refresh, Process, Gather,
         WriteFinal, StepRaises, Finish, HandlerRead, HandlerWrite, HandlerGivesUp, EndJob
    <3> QED
      BY <1>t, <3>1, TaskEffects
  <2>3. runPc'[d] = "final" => AllStored(d)
    BY <1>t, <1>4 DEF WorkerStep, Download, Fetch, WriteParsed, Refresh, Process, Gather,
       WriteFinal, StepRaises, Finish, HandlerRead, HandlerWrite, HandlerGivesUp, EndJob,
       ToHandler, TypeOK
  <2> QED
    BY <1>n, <2>1, <2>2, <2>3 DEF Deleted
<1>5. CASE DeleteStep(d)
  <2>1. UNCHANGED <<runPc, apiPc, req, task>>
    BY <1>5 DEF DeleteStep, DeleteRead, DeleteRow, DeleteDone, Clean
  <2>2. rows' = rows \/ Deleted(d)
    BY <1>5 DEF DeleteStep, DeleteRead, DeleteRow, DeleteDone, Clean, Deleted
  <2>3. Deleted(d) => Deleted(d)'
    BY <1>t, <1>5 DEF DeleteStep, DeleteRead, DeleteRow, DeleteDone, Clean, Deleted, TypeOK
  <2> QED
    BY <1>n, <2>1, <2>2, <2>3
<1> QED
  BY <1>n, <1>1, <1>2, <1>3, <1>4, <1>5 DEF DocStep, TaskStep, Deleted

\* A step on a document removes no chunk before the row.
LEMMA InsertedStep ==
    ASSUME TypeInv, NEW d \in Docs, DocInv(d), DocStep(d)
    PROVE  Inserted(d)'
<1>0. RowOrder(d) /\ Inserted(d) /\ JobOrder(d) /\ ChunkSource(d)
  BY ChunkSources DEF DocInv
<1>t. TypeOK /\ TypeOK'
  BY TypeStep DEF TypeInv, DocStep, Next
<1>r. /\ docs'[d] # NoRow => docs'[d].chunks \in SUBSET Stores
      /\ req[d].targets \in SUBSET Stores
  <2>1. docs'[d] # NoRow => docs'[d] \in Rows
    BY <1>t DEF TypeOK, Snapshots
  <2> QED
    BY <1>t, <2>1, TargetsType DEF Rows
<1> SUFFICES ASSUME ~ Deleted(d)'
             PROVE  /\ \A x \in Stores : task'[d][x] = "ok" => rows'[d][x] > 0
                    /\ runPc'[d] = "final" \/ apiPc'[d] = "textRow" =>
                          \A x \in req'[d].targets : rows'[d][x] > 0
                    /\ docs'[d] # NoRow => \A x \in docs'[d].chunks : rows'[d][x] > 0
  BY DEF Inserted
<1>1. req' = req /\ ~ Deleted(d)
  BY <1>0, StoreEffects DEF Stores
<1>2. \A x \in Stores : rows[d][x] > 0 => rows'[d][x] > 0
  BY <1>0, <1>1, StoreEffects
<1>3. \A x \in Stores : task'[d][x] = "ok" => rows'[d][x] > 0
  BY <1>0, <1>1, <1>2, StoreEffects DEF Inserted
<1>4. runPc[d] = "final" \/ apiPc[d] = "textRow" => \A x \in req[d].targets : rows'[d][x] > 0
  BY <1>0, <1>1, <1>2, <1>r DEF Inserted
<1>5. ASSUME runPc'[d] = "final" \/ apiPc'[d] = "textRow", NEW x \in req'[d].targets
      PROVE  rows'[d][x] > 0
  <2>1. x \in Stores
    BY <1>1, <1>5, <1>r
  <2>2. CASE runPc[d] = "final" \/ apiPc[d] = "textRow"
    BY <1>1, <1>4, <1>5, <2>2
  <2>3. CASE AllStored(d) /\ rows' = rows
    BY <1>0, <1>1, <1>5, <2>1, <2>3 DEF Inserted, AllStored
  <2> QED
    BY <1>0, <1>5, <2>1, <2>2, <2>3, StoreEffects
<1>6. ASSUME docs'[d] # NoRow, NEW x \in docs'[d].chunks
      PROVE  rows'[d][x] > 0
  <2>1. x \in Stores
    BY <1>6, <1>r
  <2>2. CASE docs[d] # NoRow /\ docs'[d].chunks = docs[d].chunks
    BY <1>0, <1>1, <1>2, <1>6, <2>1, <2>2 DEF Inserted
  <2>3. CASE (runPc[d] = "final" \/ apiPc[d] = "textRow") /\ docs'[d].chunks = req[d].targets
    BY <1>4, <1>6, <2>3
  <2> QED
    BY <1>0, <1>6, <2>2, <2>3 DEF ChunkSource
<1> QED
  BY <1>3, <1>5, <1>6

\* A step on a document keeps its copies within the bound.
LEMMA CopiesStep ==
    ASSUME TypeInv, NEW d \in Docs, DocInv(d), DocStep(d)
    PROVE  CopiesLeft(d)'
<1>t. TypeOK /\ TypeOK'
  BY TypeStep DEF TypeInv, DocStep, Next
<1>0. JobOrder(d)
  BY DEF DocInv
<1> SUFFICES ASSUME NEW x \in Stores
             PROVE  /\ rows'[d][x] + (IF Pending(d, x)' THEN 1 ELSE 0)
                          <= Attempts(d)' + lost'[d][x]
                    /\ IsText(d)' /\ apiPc'[d] = "new" =>
                          ~ Pending(d, x)' /\ rows'[d][x] <= lost'[d][x]
                    /\ ~ IsText(d)' /\ jobSt'[d] \in {"none", "queued"} => ~ Pending(d, x)'
                    /\ ~ IsText(d)' /\ runPc'[d] \in BeforeStore =>
                          ~ Pending(d, x)' /\ rows'[d][x] + 1 <= tries'[d] + lost'[d][x]
  BY DEF CopiesLeft, BeforeStore
<1>c. /\ rows[d][x] + (IF Pending(d, x) THEN 1 ELSE 0) <= Attempts(d) + lost[d][x]
      /\ IsText(d) /\ apiPc[d] = "new" => ~ Pending(d, x) /\ rows[d][x] <= lost[d][x]
      /\ ~ IsText(d) /\ jobSt[d] \in {"none", "queued"} => ~ Pending(d, x)
      /\ ~ IsText(d) /\ runPc[d] \in BeforeStore =>
            ~ Pending(d, x) /\ rows[d][x] + 1 <= tries[d] + lost[d][x]
  BY DEF DocInv, CopiesLeft
<1>n. /\ rows[d][x] \in Nat /\ rows'[d][x] \in Nat /\ lost[d][x] \in Nat
      /\ tries[d] \in Nat /\ Attempts(d) \in Nat
  <2>1. /\ rows[d] \in [Stores -> Nat] /\ rows'[d] \in [Stores -> Nat]
        /\ lost[d] \in [Stores -> Nat] /\ tries[d] \in 0 .. MaxTries
    BY <1>t DEF TypeOK
  <2> QED
    BY <2>1, LimitsAssumption DEF Attempts
<1>1. CASE ApiStep(d)
  <2>1. /\ UNCHANGED <<rows, lost, tries, req>> /\ runPc' = runPc /\ apiPc'[d] # "new"
        /\ jobSt'[d] = jobSt[d] \/ jobSt[d] = "none"
    BY <1>t, <1>0, <1>1 DEF ApiStep, Accept, StoreRow, Upload, RecordFile, Enqueue,
       MarkFailedRead, MarkFailedWrite, TextStored, TextRow, TextMark, GiveUp, JobOrder,
       TypeOK
  <2>2. \/ task' = task
        \/ IsText(d) /\ apiPc[d] = "new" /\ StartTasks(d)
        \/ DropTasks(d)
    BY <1>1 DEF ApiStep, Accept, StoreRow, Upload, RecordFile, Enqueue,
       MarkFailedRead, MarkFailedWrite, TextStored, TextRow, TextMark, IsText
  <2>3. Pending(d, x)' => Pending(d, x) \/ (IsText(d) /\ apiPc[d] = "new")
    BY <1>t, <2>2, TaskEffects DEF Pending
  <2> QED
    BY <1>c, <1>n, <2>1, <2>3 DEF Attempts, IsText
<1>2. ASSUME NEW s \in Stores,
             StoreOk(d, s) \/ StoreConnectionLost(d, s) \/ StoreRefused(d, s)
      PROVE  /\ UNCHANGED <<tries, req, runPc, apiPc, jobSt>>
             /\ Pending(d, x)' => Pending(d, x)
             /\ \/ rows'[d][x] = rows[d][x] /\ lost'[d][x] = lost[d][x]
                \/ /\ rows'[d][x] = rows[d][x] + 1 /\ lost'[d][x] = lost[d][x]
                   /\ Pending(d, x) /\ ~ Pending(d, x)'
                \/ /\ rows'[d][x] = rows[d][x] + 1 /\ lost'[d][x] = lost[d][x] + 1
                   /\ Pending(d, x)
  <2>1. CASE StoreOk(d, s)
    BY <1>t, <2>1 DEF StoreOk, Turn, StoreEmbeddings, Pending, TypeOK
  <2>2. CASE StoreConnectionLost(d, s)
    BY <1>t, <2>2 DEF StoreConnectionLost, Turn, LoseReply, StoreEmbeddings, Pending,
       TypeOK
  <2>3. CASE StoreRefused(d, s)
    BY <1>t, <2>3 DEF StoreRefused, Turn, LoseReply, StoreEmbeddings, Pending, TypeOK
  <2> QED
    BY <1>2, <2>1, <2>2, <2>3
<1>3. CASE TaskStep(d)
  <2>1. PICK s \in Stores : StoreOk(d, s) \/ StoreConnectionLost(d, s) \/ StoreRefused(d, s)
    BY <1>3 DEF TaskStep
  <2>2. /\ UNCHANGED <<tries, req, runPc, apiPc, jobSt>>
        /\ Pending(d, x)' => Pending(d, x)
        /\ \/ rows'[d][x] = rows[d][x] /\ lost'[d][x] = lost[d][x]
           \/ /\ rows'[d][x] = rows[d][x] + 1 /\ lost'[d][x] = lost[d][x]
              /\ Pending(d, x) /\ ~ Pending(d, x)'
           \/ /\ rows'[d][x] = rows[d][x] + 1 /\ lost'[d][x] = lost[d][x] + 1
              /\ Pending(d, x)
    BY <1>2, <2>1
  <2> QED
    BY <1>c, <1>n, <2>2 DEF Attempts, IsText
<1>4. CASE QueueStep(d)
  <2>1. UNCHANGED <<rows, lost, req, apiPc>>
    BY <1>4 DEF QueueStep, StartJob, DropJob, JobTimeout
  <2>2. Pending(d, x)' => Pending(d, x)
    BY <1>t, <1>4 DEF QueueStep, StartJob, DropJob, JobTimeout, NoTasks, Pending, TypeOK
  <2>3. \/ jobSt[d] = "queued" /\ tries'[d] = tries[d] + 1 /\ jobSt'[d] = "running"
        \/ tries'[d] = tries[d] /\ jobSt'[d] = "dead" /\ runPc'[d] \in {"idle", runPc[d]}
    BY <1>t, <1>4 DEF QueueStep, StartJob, DropJob, JobTimeout, TypeOK
  <2> QED
    BY <1>0, <1>c, <1>n, <2>1, <2>2, <2>3 DEF Attempts, IsText, JobOrder, BeforeStore
<1>5. CASE WorkerStep(d)
  <2>1. UNCHANGED <<rows, lost, req, apiPc, tries>>
    BY <1>5 DEF WorkerStep, Download, Fetch, WriteParsed, Refresh, Process, Gather,
       WriteFinal, StepRaises, Finish, HandlerRead, HandlerWrite, HandlerGivesUp, EndJob
  <2>2. /\ runPc[d] # "idle"
        /\ runPc'[d] \in BeforeStore => runPc[d] \in BeforeStore /\ ~ Process(d)
        /\ jobSt'[d] \in {"running", "completed", "failed"}
    BY <1>t, <1>0, <1>5 DEF WorkerStep, Download, Fetch, WriteParsed, Refresh, Process,
       Gather, WriteFinal, StepRaises, Finish, HandlerRead, HandlerWrite, HandlerGivesUp,
       EndJob, ToHandler, BeforeStore, JobOrder, TypeOK
  <2>3. ~ IsText(d)
    BY <1>0, <2>2 DEF JobOrder
  <2>4. task' = task \/ (runPc[d] \in BeforeStore /\ Process(d) /\ StartTasks(d)) \/ DropTasks(d)
    BY <1>5 DEF WorkerStep, Download, Fetch, WriteParsed, Refresh, Process, Gather,
       WriteFinal, StepRaises, Finish, HandlerRead, HandlerWrite, HandlerGivesUp, EndJob,
       BeforeStore
  <2>5. Pending(d, x)' => Pending(d, x) \/ (runPc[d] \in BeforeStore /\ Process(d))
    BY <1>t, <2>4, TaskEffects DEF Pending
  <2> QED
    BY <1>c, <1>n, <2>1, <2>2, <2>3, <2>5 DEF Attempts, IsText
<1>6. CASE DeleteStep(d)
  <2>1. UNCHANGED <<runPc, apiPc, req, task, jobSt, tries, lost>>
    BY <1>6 DEF DeleteStep, DeleteRead, DeleteRow, DeleteDone, Clean
  <2>2. rows'[d][x] = rows[d][x] \/ rows'[d][x] = 0
    BY <1>t, <1>6 DEF DeleteStep, DeleteRead, DeleteRow, DeleteDone, Clean, DeleteChunks,
       TypeOK
  <2> QED
    BY <1>c, <1>n, <2>1, <2>2 DEF Attempts, IsText, Pending
<1> QED
  BY <1>1, <1>3, <1>4, <1>5, <1>6 DEF DocStep
-----------------------------------------------------------------------------
(* The invariant holds.                                                    *)

\* The initial states satisfy it.
LEMMA InitInv == Init => IngestionInv
<1> SUFFICES ASSUME Init
             PROVE  TypeInv /\ \A d \in Docs : DocInv(d)
  BY DEF IngestionInv
<1>1. TypeInv
  BY InitType DEF Init, TypeInv, CopyHeld
<1>2. ASSUME NEW d \in Docs
      PROVE  DocInv(d)
  BY DEF Init, DocInv, RowOrder, Inserted, JobOrder, CopiesLeft, FileOrder, StatusOrder,
     Deleted, Pending, Attempts, IsText, NoTasks, BeforeStore
<1> QED
  BY <1>1, <1>2

\* It is kept where nothing changes.
LEMMA SameInv ==
    ASSUME NEW e \in Docs, DocInv(e), Same(e)
    PROVE  DocInv(e)'
BY DEF Same, DocInv, RowOrder, Inserted, JobOrder, CopiesLeft, FileOrder, StatusOrder,
   Deleted, Pending, Attempts, IsText, BeforeStore

\* It is kept when a process is lost.
LEMMA CrashInv ==
    ASSUME TypeInv, NEW d \in Docs, DocInv(d), ServerCrash \/ WorkerCrash
    PROVE  DocInv(d)'
<1>t. TypeOK
  BY DEF TypeInv
<1>n. \A x \in Stores : /\ rows[d][x] \in Nat /\ lost[d][x] \in Nat
                        /\ tries[d] \in Nat /\ Attempts(d) \in Nat
  <2>1. rows[d] \in [Stores -> Nat] /\ lost[d] \in [Stores -> Nat] /\ tries[d] \in 0 .. MaxTries
    BY <1>t DEF TypeOK
  <2> QED
    BY <2>1, LimitsAssumption DEF Attempts
<1>1. CASE ServerCrash
  <2>1. /\ UNCHANGED <<docs, rows, blob, req, jobSt, tries, runPc, runDoc, lost>>
        /\ apiPc'[d] = (IF apiPc[d] \in InFlight THEN "crashed" ELSE apiPc[d])
        /\ delPc'[d] = (IF delPc[d] = "row" THEN "idle"
                        ELSE IF delPc[d] = "clean" THEN "abandoned" ELSE delPc[d])
        /\ task'[d] = (IF IsText(d) THEN NoTasks ELSE task[d])
    BY <1>1 DEF ServerCrash
  <2>2. \A x \in Stores : task'[d][x] \in {"idle", task[d][x]}
    BY <2>1 DEF NoTasks
  <2>3. (RowOrder(d) /\ Inserted(d) /\ JobOrder(d) /\ FileOrder(d) /\ StatusOrder(d))'
    BY <2>1, <2>2 DEF DocInv, RowOrder, Inserted, JobOrder, FileOrder, StatusOrder,
       Deleted, IsText
  <2>4. CopiesLeft(d)'
    BY <1>n, <2>1, <2>2 DEF DocInv, CopiesLeft, Pending, Attempts, IsText, BeforeStore
  <2> QED
    BY <2>3, <2>4 DEF DocInv
<1>2. CASE WorkerCrash
  <2>1. /\ UNCHANGED <<docs, rows, blob, req, apiPc, tries, delPc, lost>>
        /\ jobSt'[d] = (IF jobSt[d] = "running" THEN "queued" ELSE jobSt[d])
        /\ runPc'[d] = "idle"
        /\ task'[d] = (IF IsText(d) THEN task[d] ELSE NoTasks)
    BY <1>2 DEF WorkerCrash
  <2>2. \A x \in Stores : /\ task'[d][x] \in {"idle", task[d][x]}
                          /\ ~ IsText(d) => ~ Pending(d, x)'
    BY <2>1 DEF NoTasks, Pending
  <2>3. (RowOrder(d) /\ Inserted(d) /\ JobOrder(d) /\ FileOrder(d) /\ StatusOrder(d))'
    BY <2>1, <2>2 DEF DocInv, RowOrder, Inserted, JobOrder, FileOrder, StatusOrder,
       Deleted, IsText
  <2>4. CopiesLeft(d)'
    BY <1>n, <2>1, <2>2 DEF DocInv, CopiesLeft, Pending, Attempts, IsText, BeforeStore
  <2> QED
    BY <2>3, <2>4 DEF DocInv
<1> QED
  BY <1>1, <1>2

\* Every step keeps it.
LEMMA InvStep == IngestionInv /\ [Next]_vars => IngestionInv'
<1> SUFFICES ASSUME IngestionInv, [Next]_vars
             PROVE  TypeInv' /\ \A e \in Docs : DocInv(e)'
  BY DEF IngestionInv
<1>t. TypeInv /\ TypeInv' /\ TypeOK /\ \A e \in Docs : DocInv(e)
  BY TypeStep DEF IngestionInv, TypeInv
<1>1. ASSUME NEW e \in Docs
      PROVE  DocInv(e)'
  <2>1. CASE UNCHANGED vars
    BY <1>t, <2>1, SameInv DEF vars, Same
  <2>2. ASSUME NEW d \in Docs, DocStep(d)
        PROVE  DocInv(e)'
    <3>1. CASE e # d
      BY <1>t, <2>2, <3>1, Frame, SameInv
    <3>2. CASE e = d
      BY <1>t, <2>2, <3>2, RowOrderStep, InsertedStep, JobOrderStep, CopiesStep,
         FileOrderStep, StatusOrderStep DEF DocInv
    <3> QED
      BY <3>1, <3>2
  <2>3. CASE ServerCrash \/ WorkerCrash
    BY <1>t, <2>3, CrashInv
  <2> QED
    BY <2>1, <2>2, <2>3 DEF Next, DocStep
<1> QED
  BY <1>t, <1>1

\* IngestionInv is an invariant.
LEMMA IngestionInvariant == Spec => []IngestionInv
BY InitInv, InvStep, PTL DEF Spec

\* What it says of a document that has a row.
LEMMA InvImplies ==
    IngestionInv => RecordedChunksExist /\ CopiesBounded /\ JobFindsItsFile
<1> SUFFICES ASSUME IngestionInv
             PROVE  RecordedChunksExist /\ CopiesBounded /\ JobFindsItsFile
  OBVIOUS
<1>1. \A d \in Docs : DocInv(d)
  BY DEF IngestionInv
<1>2. RecordedChunksExist
  BY <1>1 DEF RecordedChunksExist, DocInv, RowOrder, Inserted
<1>3. CopiesBounded
  <2> SUFFICES ASSUME NEW d \in Docs, NEW x \in Stores
               PROVE  rows[d][x] <= Attempts(d) + lost[d][x]
    BY DEF CopiesBounded
  <2>1. rows[d][x] + (IF Pending(d, x) THEN 1 ELSE 0) <= Attempts(d) + lost[d][x]
    BY <1>1 DEF DocInv, CopiesLeft
  <2>2. /\ rows[d] \in [Stores -> Nat] /\ lost[d] \in [Stores -> Nat]
        /\ tries[d] \in 0 .. MaxTries
    BY DEF IngestionInv, TypeInv, TypeOK
  <2> QED
    BY <2>1, <2>2, LimitsAssumption DEF Attempts
<1>4. JobFindsItsFile
  BY <1>1 DEF JobFindsItsFile, DocInv, RowOrder, FileOrder
<1> QED
  BY <1>2, <1>3, <1>4

\* A row never names chunks that are not in the stores, whatever fails and whoever
\* deletes the document while a request or a worker is busy with it.
THEOREM RecordedChunksExistAlways == Spec => []RecordedChunksExist
BY IngestionInvariant, InvImplies, PTL

\* No more copies of a document's chunks than runs that arq started (one for a text)
\* and inserts whose reply was lost: no step stores a batch twice.
THEOREM CopiesBoundedAlways == Spec => []CopiesBounded
BY IngestionInvariant, InvImplies, PTL

\* A job that is queued or running finds its file as long as the row exists.
THEOREM JobFindsItsFileAlways == Spec => []JobFindsItsFile
BY IngestionInvariant, InvImplies, PTL
-----------------------------------------------------------------------------
(* A settled document is deleted with all that belongs to it.              *)

\* Only the stores that the request aims at get chunks, or tasks that insert them.
Aimed(d) ==
    \A s \in Stores : rows[d][s] # 0 \/ task[d][s] # "idle" => s \in req[d].targets

\* A completed row names the chunks of all these stores, and so does a row that a run or
\* a request is about to mark completed without naming chunks.
Complete(d) ==
    docs[d] # NoRow =>
        /\ docs[d].status = "completed" => docs[d].chunks = req[d].targets
        /\ runPc[d] = "parsed" /\ runDoc[d].status = "completed" =>
              docs[d].chunks = req[d].targets
        /\ apiPc[d] = "textMark" => docs[d].chunks = req[d].targets

\* No request, job or storage task is at work on the document.
Quiet(d) ==
    /\ apiPc[d] \notin InFlight \cup {"new"}
    /\ jobSt[d] \notin {"queued", "running"}
    /\ \A s \in Stores : ~ Pending(d, s)

\* A deletion that began on a settled document has it for itself, and what is still in
\* a store or the file is among what it has yet to delete.
Cleaning(d) ==
    exact[d] /\ delPc[d] \in {"row", "clean", "done"} =>
        /\ Quiet(d)
        /\ delDoc[d] \in Rows /\ delDoc[d].chunks = req[d].targets
        /\ delPc[d] # "row" =>
              /\ \A s \in Stores : rows[d][s] = 0 \/ (delPc[d] = "clean" /\ s \in delTodo[d])
              /\ delDoc[d].file => ~ blob[d] \/ (delPc[d] = "clean" /\ "file" \in delTodo[d])

SettledInv == \A d \in Docs : Aimed(d) /\ Complete(d) /\ Cleaning(d)

\* The tasks that start are aimed at, and those that are left have been.
LEMMA TaskAims ==
    ASSUME TypeOK, NEW d \in Docs, NEW x \in Stores
    PROVE  /\ StartTasks(d) /\ task'[d][x] # "idle" => x \in req[d].targets
           /\ DropTasks(d) /\ task'[d][x] # "idle" => task[d][x] # "idle"
BY DEF StartTasks, DropTasks, TypeOK

LEMMA AimedStep ==
    ASSUME TypeInv, NEW d \in Docs, Aimed(d), DocStep(d)
    PROVE  Aimed(d)'
<1>t. TypeOK
  BY DEF TypeInv
<1> SUFFICES ASSUME NEW x \in Stores, rows'[d][x] # 0 \/ task'[d][x] # "idle"
             PROVE  x \in req'[d].targets
  BY DEF Aimed
<1>1. CASE ApiStep(d) \/ WorkerStep(d)
  <2>1. UNCHANGED <<rows, req>>
    BY <1>1 DEF ApiStep, Accept, StoreRow, Upload, RecordFile, Enqueue, MarkFailedRead,
       MarkFailedWrite, TextStored, TextRow, TextMark,
       WorkerStep, Download, Fetch, WriteParsed, Refresh, Process, Gather,
       WriteFinal, StepRaises, Finish, HandlerRead, HandlerWrite, HandlerGivesUp, EndJob
  <2>2. task' = task \/ StartTasks(d) \/ DropTasks(d)
    BY <1>1 DEF ApiStep, Accept, StoreRow, Upload, RecordFile, Enqueue, MarkFailedRead,
       MarkFailedWrite, TextStored, TextRow, TextMark,
       WorkerStep, Download, Fetch, WriteParsed, Refresh, Process, Gather,
       WriteFinal, StepRaises, Finish, HandlerRead, HandlerWrite, HandlerGivesUp, EndJob
  <2> QED
    BY <1>t, <2>1, <2>2, TaskAims DEF Aimed
<1>2. CASE TaskStep(d)
  <2>1. PICK s \in Stores : StoreOk(d, s) \/ StoreConnectionLost(d, s) \/ StoreRefused(d, s)
    BY <1>2 DEF TaskStep
  <2>2. req' = req /\ Pending(d, s)
    BY <2>1 DEF StoreOk, StoreConnectionLost, StoreRefused, Turn
  <2>3. x # s => rows'[d][x] = rows[d][x] /\ task'[d][x] = task[d][x]
    BY <1>t, <2>1 DEF StoreOk, StoreConnectionLost, StoreRefused, LoseReply,
       StoreEmbeddings, TypeOK
  <2> QED
    BY <2>2, <2>3 DEF Aimed, Pending
<1>3. CASE QueueStep(d)
  <2>1. UNCHANGED <<rows, req>> /\ (task'[d][x] # "idle" => task[d][x] # "idle")
    BY <1>t, <1>3 DEF QueueStep, StartJob, DropJob, JobTimeout, NoTasks, TypeOK
  <2> QED
    BY <2>1 DEF Aimed
<1>4. CASE DeleteStep(d)
  <2>1. UNCHANGED <<req, task>>
    BY <1>4 DEF DeleteStep, DeleteRead, DeleteRow, DeleteDone, Clean
  <2>2. rows'[d][x] # 0 => rows[d][x] # 0
    BY <1>t, <1>4 DEF DeleteStep, DeleteRead, DeleteRow, DeleteDone, Clean, DeleteChunks,
       TypeOK
  <2> QED
    BY <2>1, <2>2 DEF Aimed
<1> QED
  BY <1>1, <1>2, <1>3, <1>4 DEF DocStep

LEMMA CompleteStep ==
    ASSUME TypeInv, NEW d \in Docs, JobOrder(d), Complete(d), DocStep(d)
    PROVE  Complete(d)'
<1>t. TypeOK /\ CopyHeld
  BY DEF TypeInv
<1>r. docs[d] # NoRow => docs[d] \in Rows
  BY <1>t, RowOf
<1>1. CASE ApiStep(d)
  <2>1. UNCHANGED <<req, runPc, runDoc>>
    BY <1>1 DEF ApiStep, Accept, StoreRow, Upload, RecordFile, Enqueue, MarkFailedRead,
       MarkFailedWrite, TextStored, TextRow, TextMark
  <2>2. CASE StoreRow(d)
    <3>1. runPc[d] = "idle" /\ apiPc'[d] # "textMark"
      BY <1>t, <2>2 DEF StoreRow, JobOrder, TypeOK
    <3>2. docs'[d] = docs[d] \/ (docs'[d] = NewRow /\ NewRow.status = "processing")
      BY <1>t, <2>2 DEF StoreRow, StoreDocument, NewRow, TypeOK
    <3> QED
      BY <2>1, <3>1, <3>2 DEF Complete
  <2>3. CASE RecordFile(d)
    <3> DEFINE row == [docs[d] EXCEPT !.file = TRUE]
    <3>1. (docs' = docs \/ UpdateDocument(d, row)) /\ apiPc'[d] = "enqueue"
      BY <1>t, <2>3 DEF RecordFile, TypeOK
    <3>2. docs[d] # NoRow => row.chunks = docs[d].chunks /\ row.status = docs[d].status
      BY <1>r DEF Rows
    <3> HIDE DEF row
    <3> QED
      BY <1>t, <2>1, <3>1, <3>2, UpdateEffect DEF Complete
  <2>4. CASE MarkFailedWrite(d)
    <3> DEFINE row == [docs[d] EXCEPT !.status = "failed", !.content = apiSeen[d].content]
    <3>1. (docs' = docs \/ UpdateDocument(d, row)) /\ apiPc'[d] = "error"
      BY <1>t, <2>4 DEF MarkFailedWrite, TypeOK
    <3>2. docs[d] # NoRow => row.chunks = docs[d].chunks /\ row.status = "failed"
      BY <1>r, Columns
    <3> HIDE DEF row
    <3> QED
      BY <1>t, <2>1, <3>1, <3>2, UpdateEffect DEF Complete
  <2>5. CASE TextRow(d)
    <3>1. [NewRow EXCEPT !.content = "full", !.chunks = req[d].targets].chunks
             = req[d].targets
      BY DEF NewRow
    <3>2. \/ docs'[d].chunks = req[d].targets
          \/ docs'[d] = docs[d] /\ apiPc'[d] = "error"
      BY <1>t, <2>5, <3>1 DEF TextRow, StoreDocument, TypeOK
    <3> QED
      BY <2>1, <3>2 DEF Complete
  <2>6. CASE TextMark(d)
    <3> DEFINE row == [docs[d] EXCEPT !.status = "completed", !.content = "full"]
    <3>1. /\ docs' = docs \/ UpdateDocument(d, row)
          /\ apiPc[d] = "textMark" /\ apiPc'[d] = "ok"
      BY <1>t, <2>6 DEF TextMark, TypeOK
    <3>2. docs[d] # NoRow => row.chunks = docs[d].chunks
      BY <1>r, Columns
    <3> HIDE DEF row
    <3> QED
      BY <1>t, <2>1, <3>1, <3>2, UpdateEffect DEF Complete
  <2>7. CASE \/ Accept(d) \/ Upload(d) \/ Enqueue(d) \/ MarkFailedRead(d) \/ TextStored(d)
    <3>1. docs' = docs /\ apiPc'[d] # "textMark"
      BY <1>t, <2>7 DEF Accept, Upload, Enqueue, MarkFailedRead, TextStored, GiveUp, TypeOK
    <3> QED
      BY <2>1, <3>1 DEF Complete
  <2> QED
    BY <1>1, <2>2, <2>3, <2>4, <2>5, <2>6, <2>7 DEF ApiStep
<1>2. CASE TaskStep(d)
  <2>1. UNCHANGED <<docs, req, runPc, runDoc, apiPc>>
    BY <1>2 DEF TaskStep, StoreOk, StoreConnectionLost, StoreRefused
  <2> QED
    BY <2>1 DEF Complete
<1>3. CASE QueueStep(d)
  <2>1. UNCHANGED <<docs, req, apiPc>> /\ (runPc'[d] # "parsed" \/ UNCHANGED <<runPc, runDoc>>)
    BY <1>t, <1>3 DEF QueueStep, StartJob, DropJob, JobTimeout, TypeOK
  <2> QED
    BY <2>1 DEF Complete
<1>4. CASE WorkerStep(d)
  <2>1. UNCHANGED <<req, apiPc>>
    BY <1>4 DEF WorkerStep, Download, Fetch, WriteParsed, Refresh, Process, Gather,
       WriteFinal, StepRaises, Finish, HandlerRead, HandlerWrite, HandlerGivesUp, EndJob
  <2>2. CASE Fetch(d)
    <3>1. docs' = docs /\ runDoc'[d] = docs[d]
      BY <1>t, <2>2 DEF Fetch, TypeOK
    <3> QED
      BY <2>1, <3>1 DEF Complete
  <2>3. CASE WriteParsed(d)
    <3> DEFINE row == [docs[d] EXCEPT !.status = runDoc[d].status, !.content = "full"]
    <3>1. /\ docs' = docs \/ UpdateDocument(d, row)
          /\ runPc[d] = "parsed" /\ runPc'[d] # "parsed"
      BY <1>t, <2>3 DEF WriteParsed, ToHandler, TypeOK
    <3>2. docs[d] # NoRow => row.chunks = docs[d].chunks /\ row.status = runDoc[d].status
      BY <1>r, Columns
    <3> HIDE DEF row
    <3> QED
      BY <1>t, <2>1, <3>1, <3>2, UpdateEffect DEF Complete
  <2>4. CASE WriteFinal(d)
    <3> DEFINE row == [runDoc[d] EXCEPT !.chunks = req[d].targets]
    <3>1. /\ UpdateDocument(d, row) \/ (docs[d] = NoRow /\ docs' = docs)
          /\ runDoc[d] \in Rows
      BY <1>t, <2>4 DEF WriteFinal, CopyHeld
    <3>2. row.chunks = req[d].targets
      BY <3>1, Columns
    <3> HIDE DEF row
    <3> QED
      BY <1>t, <2>1, <3>1, <3>2, UpdateEffect DEF Complete
  <2>5. CASE HandlerWrite(d)
    <3> DEFINE row == [docs[d] EXCEPT !.status = "failed", !.content = runDoc[d].content]
    <3>1. UpdateDocument(d, row) /\ runPc'[d] = "idle"
      BY <1>t, <2>5 DEF HandlerWrite, EndJob, TypeOK
    <3>2. docs[d] # NoRow => row.chunks = docs[d].chunks /\ row.status = "failed"
      BY <1>r, Columns
    <3> HIDE DEF row
    <3> QED
      BY <1>t, <2>1, <3>1, <3>2, UpdateEffect DEF Complete
  <2>6. CASE ~ (Fetch(d) \/ WriteParsed(d) \/ WriteFinal(d) \/ HandlerWrite(d))
    <3>1. docs' = docs /\ runPc'[d] # "parsed"
      BY <1>t, <1>4, <2>6 DEF WorkerStep, Download, Refresh, Process, Gather,
         StepRaises, Finish, HandlerRead, HandlerGivesUp, EndJob, ToHandler, TypeOK
    <3> QED
      BY <2>1, <3>1 DEF Complete
  <2> QED
    BY <2>2, <2>3, <2>4, <2>5, <2>6
<1>5. CASE DeleteStep(d)
  <2>1. UNCHANGED <<req, runPc, runDoc, apiPc>> /\ docs'[d] \in {NoRow, docs[d]}
    BY <1>t, <1>5 DEF DeleteStep, DeleteRead, DeleteRow, DeleteDone, Clean, TypeOK
  <2> QED
    BY <2>1 DEF Complete
<1> QED
  BY <1>1, <1>2, <1>3, <1>4, <1>5 DEF DocStep

LEMMA CleaningStep ==
    ASSUME TypeInv, NEW d \in Docs, RowOrder(d), JobOrder(d), Aimed(d), Complete(d), Cleaning(d),
           DocStep(d)
    PROVE  Cleaning(d)'
<1>t. TypeOK /\ TypeOK'
  BY TypeStep DEF TypeInv, DocStep, Next
<1>1. CASE ~ DeleteStep(d)
  <2>1. UNCHANGED <<delPc, delDoc, delTodo, exact>>
    BY <1>1 DEF DocStep, ApiStep, Accept, StoreRow, Upload, RecordFile, Enqueue,
       MarkFailedRead, MarkFailedWrite, TextStored, TextRow, TextMark,
       TaskStep, StoreOk, StoreConnectionLost, StoreRefused,
       QueueStep, StartJob, DropJob, JobTimeout,
       WorkerStep, Download, Fetch, WriteParsed, Refresh, Process, Gather,
       WriteFinal, StepRaises, Finish, HandlerRead, HandlerWrite, HandlerGivesUp, EndJob
  <2>2. ~ Quiet(d)
    <3>1. ApiStep(d) => apiPc[d] \in InFlight \cup {"new"}
      BY DEF ApiStep, Accept, StoreRow, Upload, RecordFile, Enqueue, MarkFailedRead,
         MarkFailedWrite, TextStored, TextRow, TextMark
    <3>2. TaskStep(d) => \E s \in Stores : Pending(d, s)
      BY DEF TaskStep, StoreOk, StoreConnectionLost, StoreRefused, Turn
    <3>3. QueueStep(d) => jobSt[d] \in {"queued", "running"}
      BY DEF QueueStep, StartJob, DropJob, JobTimeout
    <3>4. WorkerStep(d) => jobSt[d] = "running"
      <4>1. WorkerStep(d) => runPc[d] # "idle"
        BY DEF WorkerStep, Download, Fetch, WriteParsed, Refresh, Process, Gather,
           WriteFinal, StepRaises, Finish, HandlerRead, HandlerWrite, HandlerGivesUp
      <4> QED
        BY <4>1 DEF JobOrder
    <3> QED
      BY <1>1, <3>1, <3>2, <3>3, <3>4 DEF DocStep, Quiet
  <2> QED
    BY <2>1, <2>2 DEF Cleaning
<1>2. ASSUME DeleteStep(d)
      PROVE  /\ UNCHANGED <<req, apiPc, jobSt, task>>
             /\ Quiet(d)' = Quiet(d)
  BY <1>2 DEF DeleteStep, DeleteRead, DeleteRow, DeleteDone, Clean, Quiet, Pending
<1>3. CASE DeleteRead(d)
  <2>1. /\ docs[d] # NoRow /\ delPc'[d] = "row" /\ delDoc'[d] = docs[d]
        /\ exact'[d] = Settled(d)
    BY <1>t, <1>3 DEF DeleteRead, TypeOK
  <2>2. docs[d] \in Rows
    BY <1>t, <2>1, RowOf
  <2>3. Settled(d) => Quiet(d) /\ docs[d].chunks = req[d].targets
    BY <2>1 DEF Settled, Quiet, RowOrder, Complete
  <2> QED
    BY <1>2, <1>3, <2>1, <2>2, <2>3 DEF Cleaning, DeleteStep
<1>4. CASE DeleteRow(d)
  <2>1. UNCHANGED <<rows, blob, delDoc, exact>> /\ delPc[d] = "row"
    BY <1>4 DEF DeleteRow
  <2>2. \/ delPc'[d] = "clean" /\ delTodo'[d] = ToClean(delDoc[d])
        \/ delPc'[d] \in {"abandoned", "idle"}
    BY <1>t, <1>4 DEF DeleteRow, TypeOK
  <2>3. \/ delDoc[d].chunks = {}
        \/ \A s \in Stores : s \in ToClean(delDoc[d])
    BY DEF ToClean
  <2>4. req[d].targets = {} => \A s \in Stores : rows[d][s] = 0
    BY DEF Aimed
  <2>5. delDoc[d].file => "file" \in ToClean(delDoc[d])
    BY DEF ToClean
  <2> QED
    BY <1>2, <1>4, <2>1, <2>2, <2>3, <2>4, <2>5 DEF Cleaning, DeleteStep
<1>5. ASSUME NEW x \in Stores \cup {"file"}, Clean(d, x)
      PROVE  Cleaning(d)'
  <2>1. /\ UNCHANGED <<delPc, delDoc>> /\ delPc[d] = "clean"
        /\ delTodo'[d] = delTodo[d] \ {x}
    BY <1>t, <1>5 DEF Clean, TypeOK
  <2>2. \/ x = "file" /\ ~ blob'[d] /\ UNCHANGED <<rows, exact>>
        \/ /\ x \in Stores /\ UNCHANGED <<blob, exact>>
           /\ \A s \in Stores : rows'[d][s] = IF s = x THEN 0 ELSE rows[d][s]
        \/ ~ exact'[d]
    BY <1>t, <1>5 DEF Clean, DeleteChunks, TypeOK
  <2>3. "file" \notin Stores
    BY DEF Stores
  <2> QED
    BY <1>2, <1>5, <2>1, <2>2, <2>3 DEF Cleaning, DeleteStep
<1>6. CASE DeleteDone(d)
  <2>1. /\ UNCHANGED <<rows, blob, delDoc, exact>>
        /\ delPc[d] = "clean" /\ delTodo[d] = {} /\ delPc'[d] = "done"
    BY <1>t, <1>6 DEF DeleteDone, TypeOK
  <2> QED
    BY <1>2, <1>6, <2>1 DEF Cleaning, DeleteStep
<1> QED
  BY <1>1, <1>3, <1>4, <1>5, <1>6 DEF DeleteStep

LEMMA SettledCrash ==
    ASSUME TypeInv, NEW d \in Docs, Aimed(d), Complete(d), Cleaning(d), ServerCrash \/ WorkerCrash
    PROVE  (Aimed(d) /\ Complete(d) /\ Cleaning(d))'
<1>1. CASE ServerCrash
  <2>1. /\ UNCHANGED <<docs, rows, blob, req, jobSt, runPc, runDoc, delDoc, delTodo, exact>>
        /\ apiPc'[d] = (IF apiPc[d] \in InFlight THEN "crashed" ELSE apiPc[d])
        /\ delPc'[d] = (IF delPc[d] = "row" THEN "idle"
                        ELSE IF delPc[d] = "clean" THEN "abandoned" ELSE delPc[d])
        /\ task'[d] = (IF IsText(d) THEN NoTasks ELSE task[d])
    BY <1>1 DEF ServerCrash
  <2>2. \A x \in Stores : task'[d][x] \in {"idle", task[d][x]}
    BY <2>1 DEF NoTasks
  <2> QED
    BY <2>1, <2>2 DEF Aimed, Complete, Cleaning, Quiet, Pending
<1>2. CASE WorkerCrash
  <2>1. /\ UNCHANGED <<docs, rows, blob, req, apiPc, delPc, delDoc, delTodo, exact>>
        /\ jobSt'[d] = (IF jobSt[d] = "running" THEN "queued" ELSE jobSt[d])
        /\ runPc'[d] = "idle"
        /\ task'[d] = (IF IsText(d) THEN task[d] ELSE NoTasks)
    BY <1>2 DEF WorkerCrash
  <2>2. \A x \in Stores : task'[d][x] \in {"idle", task[d][x]}
    BY <2>1 DEF NoTasks
  <2> QED
    BY <2>1, <2>2 DEF Aimed, Complete, Cleaning, Quiet, Pending
<1> QED
  BY <1>1, <1>2

LEMMA SettledSame ==
    ASSUME NEW e \in Docs, Aimed(e), Complete(e), Cleaning(e), Same(e)
    PROVE  (Aimed(e) /\ Complete(e) /\ Cleaning(e))'
BY DEF Same, Aimed, Complete, Cleaning, Quiet, Pending

LEMMA SettledStep ==
    ASSUME IngestionInv, SettledInv, [Next]_vars
    PROVE  SettledInv'
<1>t. TypeInv /\ TypeOK /\ \A e \in Docs : RowOrder(e) /\ JobOrder(e)
  BY DEF IngestionInv, TypeInv, DocInv
<1>i. \A e \in Docs : Aimed(e) /\ Complete(e) /\ Cleaning(e)
  BY DEF SettledInv
<1> SUFFICES ASSUME NEW e \in Docs
             PROVE  (Aimed(e) /\ Complete(e) /\ Cleaning(e))'
  BY DEF SettledInv
<1>1. CASE UNCHANGED vars
  BY <1>i, <1>1, SettledSame DEF vars, Same
<1>2. ASSUME NEW d \in Docs, DocStep(d)
      PROVE  (Aimed(e) /\ Complete(e) /\ Cleaning(e))'
  <2>1. CASE e # d
    BY <1>t, <1>i, <1>2, <2>1, Frame, SettledSame
  <2>2. CASE e = d
    BY <1>t, <1>i, <1>2, <2>2, AimedStep, CompleteStep, CleaningStep
  <2> QED
    BY <2>1, <2>2
<1>3. CASE ServerCrash \/ WorkerCrash
  BY <1>t, <1>i, <1>3, SettledCrash
<1> QED
  BY <1>1, <1>2, <1>3 DEF Next, DocStep

LEMMA SettledInit == Init => SettledInv
BY DEF Init, SettledInv, Aimed, Complete, Cleaning, NoTasks

LEMMA SettledImplies == SettledInv => SettledDeleteIsComplete
BY DEF SettledInv, Cleaning, SettledDeleteIsComplete

\* A document deleted after everything about it had settled leaves no chunks in either
\* store, and not the file that its row named, whatever crashed or failed before and
\* whichever stores its ingestion aimed at (delete_document).
THEOREM SettledDeleteIsCompleteAlways == Spec => []SettledDeleteIsComplete
<1>1. IngestionInv /\ SettledInv /\ [Next]_vars => SettledInv'
  BY SettledStep
<1> QED
  BY <1>1, IngestionInvariant, SettledInit, SettledImplies, PTL DEF Spec

-----------------------------------------------------------------------------
(* Ingestion implements DocumentCatalog.                                   *)

\* What a step may do to the row of document d and to its being deleted.
RowStep(d) ==
    \/ docs'[d] = docs[d] /\ (docs[d] = NoRow => (Deleted(d)' <=> Deleted(d)))
    \/ /\ docs[d] = NoRow /\ ~ Deleted(d)
       /\ docs'[d] # NoRow /\ docs'[d].status = "processing"
    \/ docs[d] # NoRow /\ docs'[d] # NoRow /\ docs'[d].status = "completed"
    \/ /\ docs[d] # NoRow /\ docs'[d] # NoRow
       /\ docs'[d].chunks = docs[d].chunks
       /\ \/ docs'[d].status \in {"failed", docs[d].status}
          \/ docs[d].status = "failed" /\ docs'[d].status = "processing"
    \/ docs[d] # NoRow /\ docs'[d] = NoRow /\ Deleted(d)'

LEMMA RowSteps ==
    ASSUME IngestionInv, NEW d \in Docs, DocStep(d)
    PROVE  RowStep(d)
<1>t. TypeOK /\ CopyHeld /\ RowOrder(d) /\ StatusOrder(d)
  BY DEF IngestionInv, TypeInv, DocInv
<1>t2. TypeOK'
  BY <1>t, TypeStep DEF IngestionInv, TypeInv, DocStep, Next
<1>r. docs[d] # NoRow => docs[d] \in Rows
  BY <1>t, RowOf
<1>r2. docs'[d] # NoRow => docs'[d] \in Rows
  BY <1>t2 DEF TypeOK, Snapshots
<1>s. docs' = docs /\ delPc' = delPc => RowStep(d)
  BY DEF RowStep, Deleted
<1>0. NewRow # NoRow
  BY NoRowAssumption, NewRowTypes
<1>1. CASE ApiStep(d)
  <2>0. delPc' = delPc
    BY <1>1 DEF ApiStep, Accept, StoreRow, Upload, RecordFile, Enqueue, MarkFailedRead,
       MarkFailedWrite, TextStored, TextRow, TextMark
  <2>1. CASE StoreRow(d)
    <3>1. docs' = docs \/ docs'[d] = NewRow
      BY <1>t, <2>1 DEF StoreRow, StoreDocument, TypeOK
    <3>2. docs[d] = NoRow /\ ~ Deleted(d)
      BY <1>t, <2>1 DEF StoreRow, RowOrder, Deleted
    <3>3. NewRow.status = "processing"
      BY DEF NewRow
    <3> QED
      BY <1>s, <1>0, <2>0, <3>1, <3>2, <3>3 DEF RowStep
  <2>2. CASE RecordFile(d)
    <3> DEFINE row == [docs[d] EXCEPT !.file = TRUE]
    <3>1. docs' = docs \/ UpdateDocument(d, row)
      BY <2>2 DEF RecordFile
    <3>2. docs[d] # NoRow => row.chunks = docs[d].chunks /\ row.status = docs[d].status
                             /\ row \in Rows
      BY <1>r, RowUpdateTypes DEF Rows
    <3> HIDE DEF row
    <3> QED
      BY <1>t, <1>s, <2>0, <3>1, <3>2, UpdateEffect, NoRowAssumption DEF RowStep
  <2>3. CASE MarkFailedWrite(d)
    <3> DEFINE row == [docs[d] EXCEPT !.status = "failed", !.content = apiSeen[d].content]
    <3>1. docs' = docs \/ UpdateDocument(d, row)
      BY <2>3 DEF MarkFailedWrite
    <3>2. docs[d] # NoRow => row.chunks = docs[d].chunks /\ row.status = "failed"
      BY <1>r, Columns
    <3>3. UpdateDocument(d, row) => docs'[d] # NoRow
      <4>1. apiSeen[d] \in Rows
        BY <1>t, <2>3 DEF MarkFailedWrite, CopyHeld
      <4>2. docs[d] # NoRow => row \in Rows
        BY <1>r, <4>1, RowUpdateTypes DEF Statuses
      <4> HIDE DEF row
      <4> QED
        BY <1>t, <4>2, UpdateEffect, NoRowAssumption
    <3> HIDE DEF row
    <3> QED
      BY <1>t, <1>s, <2>0, <3>1, <3>2, <3>3, UpdateEffect DEF RowStep
  <2>4. CASE TextRow(d)
    <3> DEFINE row == [NewRow EXCEPT !.content = "full", !.chunks = req[d].targets]
    <3>1. docs' = docs \/ docs'[d] = row
      BY <1>t, <2>4 DEF TextRow, StoreDocument, TypeOK
    <3>2. docs[d] = NoRow /\ ~ Deleted(d)
      BY <1>t, <2>4 DEF TextRow, RowOrder, Deleted
    <3>3. row.status = "processing"
      BY DEF NewRow
    <3>4. row \in Rows
      BY <1>t, NewRowTypes, TargetsType
    <3> HIDE DEF row
    <3> QED
      BY <1>s, <2>0, <3>1, <3>2, <3>3, <3>4, NoRowAssumption DEF RowStep
  <2>5. CASE TextMark(d)
    <3> DEFINE row == [docs[d] EXCEPT !.status = "completed", !.content = "full"]
    <3>1. docs' = docs \/ UpdateDocument(d, row)
      BY <2>5 DEF TextMark
    <3>2. docs[d] # NoRow => row.status = "completed" /\ row \in Rows
      BY <1>r, Columns, RowUpdateTypes DEF Statuses, Contents
    <3> HIDE DEF row
    <3> QED
      BY <1>t, <1>s, <2>0, <3>1, <3>2, UpdateEffect, NoRowAssumption DEF RowStep
  <2>6. CASE \/ Accept(d) \/ Upload(d) \/ Enqueue(d) \/ MarkFailedRead(d) \/ TextStored(d)
    BY <1>s, <2>6 DEF Accept, Upload, Enqueue, MarkFailedRead, TextStored
  <2> QED
    BY <1>1, <2>1, <2>2, <2>3, <2>4, <2>5, <2>6 DEF ApiStep
<1>2. CASE TaskStep(d) \/ QueueStep(d)
  BY <1>s, <1>2 DEF TaskStep, StoreOk, StoreConnectionLost, StoreRefused,
     QueueStep, StartJob, DropJob, JobTimeout
<1>3. CASE WorkerStep(d)
  <2>0. delPc' = delPc
    BY <1>3 DEF WorkerStep, Download, Fetch, WriteParsed, Refresh, Process, Gather,
       WriteFinal, StepRaises, Finish, HandlerRead, HandlerWrite, HandlerGivesUp, EndJob
  <2>1. CASE WriteParsed(d)
    <3> DEFINE row == [docs[d] EXCEPT !.status = runDoc[d].status, !.content = "full"]
    <3>1. docs' = docs \/ UpdateDocument(d, row)
      BY <2>1 DEF WriteParsed
    <3>2. runDoc[d].status \in Statuses
      BY <1>t, <2>1, RowUpdateTypes DEF WriteParsed, CopyHeld
    <3>3. docs[d] # NoRow => /\ row.chunks = docs[d].chunks
                             /\ row.status = runDoc[d].status
                             /\ docs[d].status \in Statuses
                             /\ row \in Rows
      <4>1. docs[d] # NoRow => row.chunks = docs[d].chunks
        BY <1>r, Columns
      <4>2. docs[d] # NoRow => row.status = runDoc[d].status
        BY <1>r, Columns
      <4>3. docs[d] # NoRow => docs[d].status \in Statuses /\ row \in Rows
        BY <1>r, <3>2, RowUpdateTypes DEF Contents
      <4> QED
        BY <4>1, <4>2, <4>3
    <3>4. docs[d] # NoRow /\ docs[d].status = "completed" => runDoc[d].status = "completed"
      BY <1>t, <2>1 DEF WriteParsed, StatusOrder
    <3> HIDE DEF row
    <3>5. CASE UpdateDocument(d, row)
      <4>1. docs[d] # NoRow /\ docs'[d] = row /\ docs'[d] # NoRow
        BY <1>t, <3>3, <3>5, UpdateEffect, NoRowAssumption
      <4> QED
        BY <3>2, <3>3, <3>4, <4>1 DEF RowStep, Statuses
    <3> QED
      BY <1>s, <2>0, <3>1, <3>5
  <2>2. CASE WriteFinal(d)
    <3> DEFINE row == [runDoc[d] EXCEPT !.chunks = req[d].targets]
    <3>1. docs' = docs \/ UpdateDocument(d, row)
      BY <2>2 DEF WriteFinal
    <3>2. runDoc[d] \in Rows /\ runDoc[d].status = "completed"
      BY <1>t, <2>2 DEF WriteFinal, CopyHeld, StatusOrder
    <3>3. row \in Rows /\ row.status = "completed"
      BY <1>t, <3>2, RowUpdateTypes, TargetsType DEF Rows
    <3> HIDE DEF row
    <3> QED
      BY <1>t, <1>s, <2>0, <3>1, <3>3, UpdateEffect, NoRowAssumption DEF RowStep
  <2>3. CASE HandlerWrite(d)
    <3> DEFINE row == [docs[d] EXCEPT !.status = "failed", !.content = runDoc[d].content]
    <3>1. UpdateDocument(d, row)
      BY <2>3 DEF HandlerWrite
    <3>2. runDoc[d] \in Rows
      BY <1>t, <2>3 DEF HandlerWrite, CopyHeld
    <3>3. docs[d] # NoRow => row.chunks = docs[d].chunks /\ row.status = "failed"
                             /\ row \in Rows
      <4>1. docs[d] # NoRow => row.chunks = docs[d].chunks
        BY <1>r, Columns
      <4>2. docs[d] # NoRow => row.status = "failed"
        BY <1>r, Columns
      <4>3. docs[d] # NoRow => row \in Rows
        BY <1>r, <3>2, RowUpdateTypes DEF Statuses
      <4> QED
        BY <4>1, <4>2, <4>3
    <3> HIDE DEF row
    <3> QED
      BY <1>t, <3>1, <3>3, UpdateEffect, NoRowAssumption DEF RowStep
  <2>4. CASE ~ (WriteParsed(d) \/ WriteFinal(d) \/ HandlerWrite(d))
    BY <1>s, <1>3, <2>0, <2>4 DEF WorkerStep, Download, Fetch, Refresh, Process, Gather,
       StepRaises, Finish, HandlerRead, HandlerGivesUp, EndJob
  <2> QED
    BY <2>1, <2>2, <2>3, <2>4
<1>4. CASE DeleteStep(d)
  BY <1>t, <1>4 DEF DeleteStep, DeleteRead, DeleteRow, DeleteDone, Clean,
     RowStep, Deleted, TypeOK
<1> QED
  BY <1>1, <1>2, <1>3, <1>4 DEF DocStep

\* The stores whose chunks each row names.
NamedChunks == [d \in Docs |-> IF docs[d] # NoRow THEN docs[d].chunks ELSE {}]

\* With every named chunk in place, what a client finds is what the row names.
LEMMA FindableNamed == RecordedChunksExist => CatalogFindable = NamedChunks
<1> SUFFICES ASSUME RecordedChunksExist
             PROVE  CatalogFindable = NamedChunks
  OBVIOUS
<1>1. ASSUME NEW d \in Docs, docs[d] # NoRow
      PROVE  {s \in docs[d].chunks : rows[d][s] > 0} = docs[d].chunks
  BY <1>1 DEF RecordedChunksExist
<1> QED
  BY <1>1 DEF CatalogFindable, NamedChunks

\* A step of Ingestion is a step of DocumentCatalog or changes nothing in it.
LEMMA CatalogStep ==
    ASSUME IngestionInv, IngestionInv', [Next]_vars
    PROVE  [Catalog!Next]_<<CatalogStatus, CatalogFindable>>
<1>t. /\ TypeOK /\ TypeOK' /\ RecordedChunksExist /\ RecordedChunksExist'
  <2>1. TypeOK /\ TypeOK'
    BY DEF IngestionInv, TypeInv
  <2>2. RecordedChunksExist
    BY InvImplies
  <2>3. RecordedChunksExist'
    BY InvImplies, PTL
  <2> QED
    BY <2>1, <2>2, <2>3
<1>f. CatalogFindable = NamedChunks
  BY <1>t, FindableNamed
<1>f2. (CatalogFindable = NamedChunks)'
  BY <1>t, FindableNamed, PTL
<1>1. CASE UNCHANGED vars
  BY <1>1 DEF vars, CatalogStatus, CatalogFindable, Deleted
<1>2. CASE ServerCrash \/ WorkerCrash
  <2>1. docs' = docs /\ rows' = rows /\ \A e \in Docs : Deleted(e)' <=> Deleted(e)
    BY <1>2 DEF ServerCrash, WorkerCrash, Deleted
  <2> QED
    BY <2>1 DEF CatalogStatus, CatalogFindable
<1>3. ASSUME NEW d \in Docs, DocStep(d)
      PROVE  [Catalog!Next]_<<CatalogStatus, CatalogFindable>>
  <2>1. \A e \in Docs : e # d => docs'[e] = docs[e] /\ delPc'[e] = delPc[e]
    BY <1>t, <1>3, Frame DEF Same
  <2> DEFINE st  == CatalogStatus'[d]
             fnd == CatalogFindable'[d]
  <2>2. /\ CatalogStatus' = [CatalogStatus EXCEPT ![d] = st]
        /\ CatalogFindable' = [CatalogFindable EXCEPT ![d] = fnd]
    BY <1>f, <1>f2, <2>1 DEF CatalogStatus, Deleted, NamedChunks
  <2>3. /\ CatalogStatus[d] = IF docs[d] # NoRow THEN docs[d].status
                              ELSE IF Deleted(d) THEN "deleted" ELSE "absent"
        /\ st = IF docs'[d] # NoRow THEN docs'[d].status
                ELSE IF Deleted(d)' THEN "deleted" ELSE "absent"
        /\ CatalogFindable[d] = IF docs[d] # NoRow THEN docs[d].chunks ELSE {}
        /\ fnd = IF docs'[d] # NoRow THEN docs'[d].chunks ELSE {}
    BY <1>f, <1>f2 DEF CatalogStatus, NamedChunks
  <2>4. /\ docs[d] # NoRow => docs[d].status \in Statuses
        /\ docs'[d] # NoRow => docs'[d].chunks \in SUBSET Stores
    <3>1. /\ docs[d] # NoRow => docs[d] \in Rows
          /\ docs'[d] # NoRow => docs'[d] \in Rows
      BY <1>t DEF TypeOK, Snapshots
    <3> QED
      BY <3>1 DEF Rows
  <2>5. /\ CatalogStatus = [CatalogStatus EXCEPT ![d] = CatalogStatus[d]]
        /\ CatalogFindable = [CatalogFindable EXCEPT ![d] = CatalogFindable[d]]
    BY DEF CatalogStatus, CatalogFindable
  <2> HIDE DEF st, fnd
  <2>6. \/ st = CatalogStatus[d] /\ fnd = CatalogFindable[d]
        \/ CatalogStatus[d] = "absent" /\ st = "processing" /\ fnd \in SUBSET Stores
        \/ CatalogStatus[d] \in Statuses /\ st = "completed" /\ fnd \in SUBSET Stores
        \/ CatalogStatus[d] \in Statuses /\ st = "failed" /\ fnd = CatalogFindable[d]
        \/ CatalogStatus[d] = "failed" /\ st = "processing" /\ fnd = CatalogFindable[d]
        \/ CatalogStatus[d] \in Statuses /\ st = "deleted" /\ fnd = {}
    <3>1. RowStep(d)
      BY <1>3, RowSteps
    <3> QED
      BY <2>3, <2>4, <3>1 DEF RowStep
  <2>7. CASE st = CatalogStatus[d] /\ fnd = CatalogFindable[d]
    BY <2>2, <2>5, <2>7
  <2>8. CASE CatalogStatus[d] = "absent" /\ st = "processing" /\ fnd \in SUBSET Stores
    BY <2>2, <2>8 DEF Catalog!Next, Catalog!Accept
  <2>9. CASE CatalogStatus[d] \in Statuses /\ st = "completed" /\ fnd \in SUBSET Stores
    BY <2>2, <2>9 DEF Catalog!Next, Catalog!Complete, Catalog!Live, Statuses
  <2>10. CASE CatalogStatus[d] \in Statuses /\ st = "failed" /\ fnd = CatalogFindable[d]
    BY <2>2, <2>5, <2>10 DEF Catalog!Next, Catalog!Fail, Catalog!Live, Statuses
  <2>11. CASE CatalogStatus[d] = "failed" /\ st = "processing" /\ fnd = CatalogFindable[d]
    BY <2>2, <2>5, <2>11 DEF Catalog!Next, Catalog!Reopen
  <2>12. CASE CatalogStatus[d] \in Statuses /\ st = "deleted" /\ fnd = {}
    BY <2>2, <2>12 DEF Catalog!Next, Catalog!Delete, Catalog!Live, Statuses
  <2> QED
    BY <2>6, <2>7, <2>8, <2>9, <2>10, <2>11, <2>12
<1> QED
  BY <1>1, <1>2, <1>3 DEF Next, DocStep

\* Ingestion implements DocumentCatalog: what a client sees of a document's status and
\* of the chunks it can find follows the catalog under every fault and interleaving.
THEOREM ImplementsCatalog == Spec => CatalogSpec
<1>1. Init => Catalog!Init
  BY DEF Init, Catalog!Init, CatalogStatus, CatalogFindable, Deleted
<1>2. IngestionInv /\ IngestionInv' /\ [Next]_vars
         => [Catalog!Next]_<<CatalogStatus, CatalogFindable>>
  BY CatalogStep
<1> QED
  BY <1>1, <1>2, IngestionInvariant, PTL DEF Spec, CatalogSpec, Catalog!Spec
=============================================================================

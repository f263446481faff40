# Morphik core in TLA+

Morphik ingests documents into a Postgres table, two vector stores and an object
store, answers queries over them, and builds knowledge graphs from them.  Its
requests and background jobs share these stores without locks or transactions that
span them.  This directory specifies that behaviour, checks it on small instances
with TLC and proves nearly all of the safety properties with TLAPS.

## 1. Inventory

| component | state | operations | shares it with |
|---|---|---|---|
| **Ingestion API** (`core/api.py`, `core/services/document_service.py`) | the request in progress | `ingest_file`, `ingest_file_content` (connectors), `ingest_text`, `batch_ingest_files` | documents table, object store, queue |
| **Ingestion worker** (`core/workers/ingestion_worker.py`) | the run in progress, a local copy of the row | `process_ingestion_job` and its exception handler | documents table, vector stores, object store, queue |
| **Job queue** (arq) | job state, number of starts | start, drop after `max_tries`, time out after `job_timeout`, start again after a crash | API, worker |
| **Deletion** (`DocumentService.delete_document`) | a copy of the row | row, then chunks and files by that copy | all stores |
| **Document update** (`DocumentService.update_document`, `set_folder_rule`) | a copy of the row, one field of the service object | new text or file, new metadata, new version, new chunks | all stores, folders |
| **Folders** (`core/api.py`, `postgres_database.py`) | a list of document ids per folder, a folder name per document | create, add, remove, delete with contents, ingest into | documents table |
| **Usage limits** (`core/limits_utils.py`, `user_service.py`, `user_limits_db.py`) | one row of counters per user | verify, record, create the row | every counted request |
| **Applications** (`app_provisioning_service.py`, `user_service.py`, `ee/routers/cloud_uri.py`) | Neon project, bucket, two tables, list of app ids | provision, register, two ways to delete | limits, routing |
| **Routing** (`ee/db_router.py`, `auth_utils.py`) | connection caches, fields of the one `DocumentService` | the stores of the app in the token, for every request | all requests |
| **Knowledge graphs** (`graph_service.py`, `entity_resolution.py`) | one row per graph | stub, background build, update, merge; walks of queries | documents, server process |
| **Retrieval** (`document_service.py`) | the call in progress | `retrieve_chunks`, `retrieve_docs`, `batch_retrieve_chunks`, `query` | rows, vector stores, files |
| **Document caches** (`document_service.py`, `llama_cache.py`) | a row, a stored state, `active_caches` | create, load, add documents, query | each other |
| **Agent** (`core/agent.py`) | `conversation_history` of the process | `run`, its tool calls, overflow of the context | all users |
| **Drive connector** (`ee/routers/connectors_router.py`, `google_drive_connector.py`) | session cookie, token file per user | authorise, callback, status, files, disconnect | requests of a browser |
| **Startup** (`start_server.py`, `app_factory.py`, the `initialize` methods) | the catalogue of Postgres, Redis, processes | start, create and migrate tables, stop | server and worker |
| **Python SDK** (`sdks/python/morphik`) | none; a scope per handle | reads, ingestion, graphs, operations by file name, waiting | the routes it calls |
| parsers, models, telemetry, UI, scripts | none that the others read | external calls | |

What is hard here: requests of the server, runs of the worker and the storage tasks
inside a run interleave at every `await`; either process may die between two writes;
a reply may be lost after the write took effect; `asyncio.gather` leaves tasks running
when another fails; most database methods turn errors into `False`, and some callers
do not look; rows are read, changed and written back in separate sessions; objects of
the process (the service's stores, `_last_aggregated_metadata`, the agent's history,
the active caches) are shared by all requests.  The hazards, each at its line with the
properties about it, are in `PROJECT.json`.

What makes each component right:

* ingestion and deletion: rows name only chunks that exist; chunks are not inserted
  more often than a retry explains; a job finds its file; completed documents stay
  completed and deleted ones deleted; polling ends; a deletion of a settled document
  leaves nothing; a batch answers for its files;
* folders and updates: calls one at a time are not lost; the list of a folder and the
  names in the rows agree; content, files and version are those of the updates that
  succeeded; metadata is of the document it is stored with;
* limits: nobody is charged for more than was done, nobody whose calls do not overlap gets
  more than allowed, nobody is refused without reason;
* applications and routing: every external resource is recorded or released; a request
  works on the stores of its own app until it ends;
* graphs: changes are not forgotten, builds end, merged relationships only name
  entities of the graph; a search for paths finds what is within its hops and nothing else,
  and the expansion of a query goes by whole hops and not beyond them;
* retrieval, caches, agent, connector, startup, SDK: an undisturbed search is full; the
  stored cache is the described one; a run ends and no question blocks the others for long;
  tokens are the user's own; running processes find whole stores; a handle reads its
  scope, and its delete by file name takes the document that was named.

## 2. Modules

| module | what it is | run in |
|---|---|---|
| `DocumentCatalog` | abstract: what a client may rely on about a document's status and chunks | `MCIngestion` |
| `Ingestion`, `Ingestion_proofs` | API, queue, worker, storage tasks and deletion; implements `DocumentCatalog` | `MCIngestion` |
| `DocumentRows` | the columns of a stored document's row that folders and updates share | `MCWorkspace` |
| `Folders` | folder rows, the calls on them, and deletion with contents | `MCWorkspace` |
| `DocumentUpdate` | updates, folder rules and deletion of ingested documents | `MCWorkspace` |
| `Workspace`, `Workspace_proofs` | composes the last three | `MCWorkspace` |
| `UsageLimits`, `UsageLimits_proofs` | the counters of the free tier, and the calls that check and record | `MCAccounts`, `MCUsageLimits` |
| `Apps` | the applications of an account, created and deleted in four ways | `MCAccounts` |
| `Routing`, `Routing_proofs` | requests that are routed to the stores of an application, over `Apps`; the proofs are on both and on `Accounts` | `MCAccounts` |
| `Accounts` | composes limits, applications and routing | `MCAccounts` |
| `KnowledgeGraph`, `KnowledgeGraph_proofs` | a knowledge graph: stub, background build, updates, extraction and merging; the proofs are on it, `GraphSearch` and `GraphService` | `MCGraphService`, `MCKnowledgeGraph` |
| `GraphSearch` | the walk of a query over a graph | `MCGraphService` |
| `GraphService` | composes the two | `MCGraphService` |
| `DriveConnector` | the OAuth connection to Google Drive | `MCServices` |
| `Retrieval` | searches next to ingestion and deletion | `MCServices` |
| `Agent` | the loop of `MorphikAgent.run` with its shared history | `MCServices` |
| `Startup`, `Startup_proofs` | start and end of the processes, creation and migration of the tables; the proofs are on it and `Retrieval` | `MCServices` |
| `Clients`, `Clients_proofs` | the handles of the SDK and what the server makes of their scope; the proofs are on it, `Batches` and `Caches` | `MCServices` |
| `Batches` | a batch of files, and clients that wait for its documents | `MCServices` |
| `Caches` | a cache of documents in the state of a language model | `MCServices` |
| `Services`, `Services_proofs` | composes the last seven; the proofs are on it, `DriveConnector` and `Agent` | `MCServices` |

`Workspace` and `Routing` compose parts that work on the same variables.  `Accounts`,
`GraphService` and `Services` put parts next to each other that share no variable: there
the variable `part`, chosen in the initial state, says which one moves, because a
behaviour of several unrelated parts shows nothing that behaviours of each do not.  `Next`
of these modules names all the actions.

### Ingestion

One action is what the code does between two awaits that touch a shared store.

| variable | in the code |
|---|---|
| `docs[d]` | the row of `documents`: `system_metadata.status`, `system_metadata.content` (absent, blank, full), the stores its `chunk_ids` come from, whether `storage_info` is set |
| `rows[d][s]` | how often the document's chunks were inserted in vector store `s` |
| `blob[d]` | the uploaded file |
| `apiPc`, `apiSeen` | where the ingest request is; the row that its `update_document` merges with |
| `jobSt`, `tries` | the arq job and its starts |
| `runPc`, `runDoc` | where `process_ingestion_job` is; its variable `doc` |
| `task`, `attempt` | the `store_with_retry` tasks and their failed attempts |
| `delPc`, `delDoc`, `delTodo` | where `delete_document` is; its copy of the row; the deletions it gathered |
| `exact`, `lost` | history, for properties only |

`ApiStep` is `ingest_file` and `ingest_file_content` (`Accept` ... `Enqueue`,
`MarkFailedRead`, `MarkFailedWrite`) and `ingest_text` (`TextStored` ... `TextMark`);
`WorkerStep` is `process_ingestion_job` in the order of its phases, with
`StepRaises` for any call that may raise and `HandlerRead`, `HandlerWrite`,
`HandlerGivesUp` for the exception handler; `TaskStep` is `store_with_retry`;
`QueueStep` is arq; `DeleteStep` is `delete_document`.  A document's chunks are one
batch per store, since `store_embeddings` inserts them in one transaction.

Three details matter.  `update_document` reads, merges and writes in two sessions:
where the update names both status and content the merge has no effect and the call
is one step; where it does not (`MarkFailed...`) it is two.  `update_document` without
a row returns `False`; it never inserts.  ColPali's store is synchronous: it blocks
the event loop, so its insert ends before the regular one can (`Turn`), and its
errors never match the message that makes `store_with_retry` try again.

`Faults` selects what may go wrong: `server` and `worker` (the process dies),
`timeout` (`job_timeout`), `step` (a call raises), `db` (an error the callee
swallows), `conn` (the reply is lost after the effect), `clean` (a clean-up fails).

Every module has definitions that no specification uses, marked "Variant with a fault":
plausible bugs, which show that each property can fail.

### DocumentCatalog

The statuses a client can see and the stores where the chunks a row names can be
found.  A document appears once, settles as completed or failed, is deleted once.
`Reopen` is there because `enqueue_job` may fail after it queued the job: the request
marks the document failed, and the worker then writes back "processing", which it had
read before.  The refinement mapping is `CatalogStatus`, `CatalogFindable`.

### UsageLimits

A call is one counted request: `Begin`, `Load` (`get_user_limits`), `Create`,
`Reload`, `Check` (`check_limit`), `ReadUsage` and `WriteUsage` (the two halves of
`update_usage`).  A query charges before it is served.  A file verifies, uploads and
charges, and a refusal after the upload is only logged.  The clock ticks in units of
the model; the windows of an hour and a month are `HourLen` and `MonthLen` ticks.
"query" stands for "agent" too, which has the same code, and "file" for
"storage_size" and "ingest".  `graph`, `cache` and `cache_query` charge like a query
without windows.

### Folders, DocumentUpdate, Workspace

`docs` is the row of a stored document: version, content, the content its `chunk_ids`
cut up, storage files, folder name and metadata.  Contents, files and extracted metadata
are told apart by the call they come from, so what is there shows whose work it is.

| variable | in the code |
|---|---|
| `folders[f]` | the row of a folder: name and `document_ids` |
| `fcall[c]`, `sub[c][d]`, `subSeen` | a folder call; the tasks `delete_folder` gathers, and the list each has read |
| `chunks[d]`, `blobs[d][v]` | the batches inserted for a document; whose upload lies under the key of a version |
| `last` | `_last_aggregated_metadata` of the service |
| `ucall[u]` | an update, a folder rule or a delete: its copy of the row and where it is |
| `want`, `crossed`, `raced`, `apart`, `busy`, `failed`, `mixed` | history, for properties only |

A folder call reads the folder in one session and writes the list back in another.
`delete_folder` takes each document out of the list in its own task, then deletes the
rows and the folder.  An update copies the row, keeps the copy as long as parsing and
embedding take, and writes whole columns back, the folder name among them; that write
back is how updates disturb folders (`Reverted` in `Workspace`).

### Apps, Routing, Accounts

A call of `Apps` provisions an application (`provision`), makes its URI and registers it
(`uri`), deletes it with all that belongs to it (`nuke`) or deletes its row (`delete`), each
as its sequence of remote calls and sessions: `projects`, `buckets` are outside, `metaRows`, `appRows` and
`appIds` are three tables.  None is undone when a later step fails.  `Routing` adds what
`verify_token` does to `stores`, the fields of the one `DocumentService`, and
`resolved`, the cache of connection strings; a request turns to the fields `MaxUses` times
after it was routed, with awaits between.

### KnowledgeGraph

One graph, and a set of requests `Ops` that create or update it.  `docSt` says which
documents exist; they come and go as in `Ingestion`, and no graph is told.

| variable | in the code |
|---|---|
| `graph` | the row of `graphs`: `system_metadata.status`, `document_ids`, `filters`, `entities` by label, `relationships` |
| `req[o]` | create or update; `additional_documents`; the filters (as the documents that match them); the scope of `folder_name` and `end_user_id` |
| `pc[o]` | where the request is, or the task that `create_graph` leaves behind |
| `snap[o]` | `existing_graph`, a copy of the row |
| `found[o]`, `objs[o]` | `document_ids`, `document_objects` |
| `stale[o]`, `muted` | history, for properties only |

`Create` is `create_graph` up to its `create_task`; `Get`, `Match`, `Load`, `Extract`
(or `ExtractRaises`) and `Write`, or `WriteEmpty` when there is nothing to add, are
`GraphService.update_graph`; `HandlerRead` and `HandlerWrite` are the exception handler of
`_build_graph_async`.  The merge is a set of pure operators named after the methods:
`MergeEntities`, `MergeRelations`, `MergedFilters`, and for the extraction before it
`NewEntities` and `NewPairs`.

What is abstracted: a document's chunks are one piece of text, which names a
relationship once and all of one type; the order of chunks is any order (`Orders`), and
the entity that survives resolution is the first in it (`Origins`); chunks may be passed
over, and the resolver answers with any of `Resolutions`, `None` standing for an answer
without groups, after which the code skips the remapping.  An entity's id, a fresh uuid,
is the triple of operation, document and label it comes from.  The two queries of
`_get_new_document_ids` are one step, and so are the two of `batch_retrieve_documents`,
but each may fail on its own.  What merged filters match is any set.  A query for
documents that fails is an empty list, a read of the graph that fails is no graph, a
write that fails is `False`.

A scoped operation sees `document_ids` cut down to its scope (`View`) and writes the
list back like that, so `SourcesAreListed` and `NothingForgotten` are about operations
without a scope.

### GraphSearch, GraphService

A walk starts from any graph of the given size, any seed and any hop depth.  `ExpandHop` is one
round of `_expand_entities`; `SearchStep` takes one path off the queue of
`_find_relationship_paths`, or goes on with the next seed.  `WalksKeepTheirDepth` compares
the result with distances defined without queue.  The two do not agree on what a hop is: a
path may have `hop_depth` relations, while the expansion makes one round less than `hop_depth`.
The property asks of the expansion only what does not depend on that: that it reaches all within a
whole number of hops, `hop_depth` or one less, and nothing else.  Section 4 has what the
documentation says of the number.

### DriveConnector

One browser, used by several users in turn.  A request carries the cookie it was sent with and
its response replaces the browser's, so responses may arrive out of order.  A flow is named by its
OAuth state and stands for the tokens it leads to.  `tokenFile[u]` is the pickle of a user: no
file, tokens of a flow (valid, expired, unusable).  `told` is what the user was shown last.

### Retrieval

A call takes its rows, then the chunks of each store, then rows again, each in a session of its own,
while `Store...` and `Delete...` of documents go on.  Which chunks are nearest is any choice of at
most `TopK`.

### Agent

`history` is `conversation_history` of the one instance; a run sends its last `Window` messages
and is told by the model to call tools, to answer, or that the context overflows (exactly
when an oversized question is among the messages).

### Startup

`start_server.py` step by step: Redis, the worker process, the server's own initialisation.  Server and
workers both look at the catalogue and act on what they saw; Postgres refuses to create what
another transaction made meanwhile, and `initialize` returns `False`, which is only logged.
`MultiVectorStore` commits each statement by itself.

### Clients

A handle is a client, a folder or a user scope, synchronous or not.  `Ask` gives the request each
of its methods makes; `Served` is what the routes answer.  `Wide` and `Narrow` name the reads
where the source asks for more or less than the scope; everything else is exact
(`ScopesHold`).  The operations by file name look the id up first and act on it in a second
request; `named[c]` is such a call, with its handle, the name, the id it was given, and whether
another call has renamed that document since (history, for the property only).

### Batches

`batch_ingest_files` file by file: row, limits, upload, record, charge, queue.  An exception ends the
batch with HTTP 500 and leaves what was done.  Clients poll the status of a document.

### Caches

`described` is the row, `saved` the stored state, `active` what is in memory: the list of
documents, the state and what the model holds.  A creation writes the row, builds
the state and stores it; a load reads the row, then the state, and replaces the active cache.
Adding documents and queries change the active cache alone.

## 3. Runs

| run | instance | shows |
|---|---|---|
| `ingestion_faults` | one document of any of three kinds, all faults, 2 starts, 2 attempts, 1 lost reply per document (224 thousand states) | type invariant, `RecordedChunksExist`, `CopiesBounded`, `SettledDeleteIsComplete`, `JobFindsItsFile`, and that `Ingestion` implements `DocumentCatalog` |
| `ingestion_liveness` | two documents, one worker slot, 1 start, faults `worker` and `step` | `QueuedJobsSettle` |
| `delete_orphans` | one file, no fault | **violated**: a deletion during ingestion leaves chunks in the vector store |
| `content_lost` | one file with rules but no post-chunking text rule | **violated**: the text is lost |
| `workspace` | two calls of any kind on two documents, two folders and two folder names, with failures and server deaths (537 thousand states) | type invariant, `OrderlyFoldersAreExact`, `FolderNameAgrees`, `DeletedFoldersAreGone`, `ListedChunksAreStored`, `QuietUpdatesHold`, `DeleteLeavesOnlyStrays`, `TagsAreOwn` |
| `usage_limits` | limits: three calls of one user, hour 1, month 2, files 1, clock 0..3, failing database; applications: three calls, two names, one application allowed, all faults; routing: two requests next to two of these calls (700 thousand states) | type invariants, `NeverOvercharged`, `OrderlyCallsAreHeld`, `AppsAreWhole`, `OrderlyLimitHolds`, `RequestsKeepTheirStores` |
| `window_lockout` | three calls of one user, no failures | **violated**: a full window is never restarted |
| `storage_overshoot` | the same | **violated**: concurrent uploads exceed the limit |
| `deleted_files_count` | the same | **violated**: a deleted file keeps its place in the limit |
| `graphs` | three requests of four kinds, two documents, two labels, three answers of the resolver, all faults; walks over three ids, up to three relations, one seed, two hops (597 thousand states) | type invariant, `EndpointsExist`, `MergesAreExact`, `BuildsAlone`, `ProcessingIsExplained`, `NothingForgotten`, `WalksKeepTheirDepth` |
| `graph_build_stuck` | one build from one named document, no fault | **violated**: a build may end without ending "processing" |
| `services` | two users and two OAuth flows, two requests under way; two documents and a search for one chunk; three runs of the agent with a window of 2; a server, two workers, one process that meets trouble; handles of two folders and a user over two documents, two calls by file name, one graph; a batch of two files; a cache of two documents and three calls; all faults of each (534 thousand states) | type invariants, `ConnectionsAreSound`, `UndisturbedQueriesAreFull`, `AgentRecovers`, `StoresAreWholeAfterStart`, `ChunksSurviveStarts`, `NoStrayWorkers`, `ScopesHold`, `NameDeletesTakeTheNamed`, `BatchesAreAccounted`, `OrderlyCachesAgree` |

Why the bounds are enough.

* Ingestion: documents interact only through the worker's slots: safety needs one, and the
  proofs below cover any number; liveness uses two documents for one slot.  With two starts
  there is a first run, a repeated one and a dropped job; with two attempts a repeated insert
  and an exhausted retry (the code has 5 and 3); one lost reply per document shows a
  duplicate, and the bound stands in a guard (`LoseReply`).
* Workspace: an anomaly needs two calls, the second in the middle of the first;
  `delete_folder` has concurrent tasks of its own for the two documents.  `MaxCalls` bounds
  the calls, `MaxFiles` the files of a document, which two calls on any initial state cannot
  reach.
* Limits: users share nothing, three calls are enough for two that overlap and one that finds
  what they left, and three ticks outlast both windows.
* Applications: three calls are two that race for the last place and one that finds the
  result.  While requests are routed, `MaxRouted` allows two such calls (one that makes the
  application and one that deletes it) and `MaxFaulty` = 0 no failing one, for the failures are
  in the other part; a request uses its stores once after the one await that matters.
* Graphs: three requests are a build and two updates that overlap, or two builds (the second
  after a restart or a failure of the first is refused by the unique index) and an update; two
  documents that state the same things make one relationship new, known, stated twice and
  dropped; three answers of the resolver are "all different", "the same" and "nothing".  Three
  relations over three ids have chains, cycles, doubled relations and missing ends, and two hops
  end inside them.
* Services: two users of one browser with a flow each can have their cookies and responses
  crossed by two requests under way; a search for one chunk among two documents can lose it to a
  deletion or to a chunk out of scope; a window of two shows a question that is followed,
  drops out, and is cut by an overflow (`Keep` 1; the code has 10 and 6); two workers are one that
  races with the server and one of a later start, `MaxRetries` 2 is a failed attempt and a last
  one; a handle with folder, one with another, one with a user are all the relations of two
  scopes; a second file of a batch sees what a failure at the first leaves; a third call on
  a cache finds what two that overlapped left.

Deadlock is not checked: requests are finite, and everything stops when they are done.
Symmetry is used for calls, requests and ids that the properties treat alike, and not in the
runs of a liveness property.

Fairness (`FairSpec` of `Ingestion`): the worker's event loop runs every run and storage task it
holds, and arq polls its queue (`poll_delay`), so weak fairness of `StartJob \/
DropJob`, `WorkerStep`, `TaskStep`.  No fairness for requests, deletions and crashes.
The liveness run leaves out `db` and `timeout`: with them the document does stay
"processing", which no comment of the code denies.  In `KnowledgeGraph` the server's event loop
runs every request and task it holds: weak fairness of each `OpStep(o)`, none of
`Create`, of crashes and of documents that come and go.  A walk of `GraphSearch` is one coroutine without
awaits on others, so weak fairness of its steps; no run checks a property under it.  The other
modules state safety only.

## 4. What the code does not do

Each of these is a run that TLC ends with a counterexample; `PROJECT.json` quotes what the
repository says.

* Deletion promises to remove "all its associated data".  Overlapped by ingestion it leaves the
  chunks: it read the row before the worker named its chunks there, so it deletes none
  (`delete_orphans`).
* Rules without a post-chunking text rule replace a document's text by nothing (`content_lost`).
* A free user who has filled an hour or a month is refused for ever (`window_lockout`).
* The number of files in storage exceeds its maximum when uploads overlap (`storage_overshoot`).
* A user at that maximum is told to "delete some files"; deleting them gives nothing back, for
  the counter only grows, and the next upload is refused as before (`deleted_files_count`).
* A graph none of whose documents can be read says "processing" for ever (`graph_build_stuck`).

These disagreements have no run of their own; the models have the code's behaviour, and no
property that passes denies what the repository says:

* a deletion that reads the row before the request records its upload there leaves the uploaded
  file, although `document_service.py:1978` says "Deletes the original file from storage if
  present"; `SettledDeleteIsComplete` is about deletions begun when ingestion was over (`Ingestion`);
* `ingestion_worker.py:827` says "Retry failed jobs up to 5 times"; the job returns its failure as a
  result (line 577), so the queue counts it as done and never starts it again (`Ingestion`);
* `request.py:21` says of `hop_depth` "Number of relationship hops to traverse in the graph", and so
  do `graph_service.py:952`, the SDK and an example; `_expand_entities` makes one hop less
  (`graph_service.py:1162`), none at the default of 1 (line 1151), while a path may have
  `hop_depth` relations; `WalksKeepTheirDepth` allows the expansion either number (`GraphSearch`);
* `sync.py:569` says of a folder's delete by file name "within this folder"; the route of the lookup
  reads `folder_name` from the body (`api.py:937`) and the SDK sends it in the query (`sync.py:578`),
  so the document of the name is deleted in whatever folder it is; `NameDeletesTakeTheNamed` says
  nothing of the folder (`Bearers` in `Clients`);
* `postgres_database.py:428` and `sync.py:1948` say of several documents with a name that a lookup
  "returns the most recently updated one", and line 455 orders them for it; `scalar_one_or_none`
  (line 462) raises on the second, and the answer is that there is none (`ByName` in `Clients`);
  `NameDeletesTakeTheNamed` would hold of either;
* `document_service.py:1615` says of an update "this will replace existing chunks"; the new ones
  are inserted next to the old ones (`DocumentUpdate`);
* the `errors` of a batch's answer are always empty: a failure ends the batch (`Batches`);
* `create_graph` of a folder's or a user's handle raises when it reads the answer, after the
  server has made the graph (`Clients`);
* the list route reads `folder_name` from the body while the SDK sends it in the query, an
  asynchronous user scope has no `_merge_folders` (`Wide`, `Narrow`, `Raised` in `Clients`).

Where a property excepts the failing case of a hazard through a history variable, the note of that
hazard in `PROJECT.json` says so.  `OrderlyCallsAreHeld` asks that a user whose calls do not overlap
keeps to the limits, and not that deleted files go on counting.

## 5. Proofs

`Ingestion_proofs` proves, for any set of documents, any `MaxTries`, `MaxJobs`,
`MaxStoreAttempts`, `MaxLost`, any set of requests and any set of faults (the
assumptions named in `Ingestion`):

| theorem | statement |
|---|---|
| `TypeCorrect` | `Spec => []TypeOK` |
| `RecordedChunksExistAlways` | `Spec => []RecordedChunksExist` |
| `CopiesBoundedAlways` | `Spec => []CopiesBounded` |
| `JobFindsItsFileAlways` | `Spec => []JobFindsItsFile` |
| `SettledDeleteIsCompleteAlways` | `Spec => []SettledDeleteIsComplete` |
| `ImplementsCatalog` | `Spec => CatalogSpec` |

The argument is one inductive invariant, `IngestionInv`: the types, and for each
document (`DocInv`)

* `RowOrder`, `Inserted`: a run that is about to write its row has inserted the chunks it
  will name, and they can only go once the row has gone, which is before `delTodo` is set;
* `CopiesLeft`: the copies of chunks, plus one for an insert still pending, are at most
  the starts plus the lost replies, and one less while a run has not begun to store;
* `JobOrder`: which places of request, job and run go together;
* `FileOrder`: a job is queued after its file is stored;
* `StatusOrder`: what a local copy of the row may say, given the row's status: what
  keeps an old "processing" from overwriting "completed".

`Frame` says that a step on one document changes nothing of another, so each part is
proved for the document that moves.  For `SettledDeleteIsComplete` a second invariant, `SettledInv`,
rests on the first: only the stores the request aims at ever get chunks (`Aimed`), a completed row
names all of these (`Complete`), and a deletion begun on a settled document has it for itself, so that
what is still stored is among what it has yet to delete (`Cleaning`).  `ImplementsCatalog` maps each step to a step
of `DocumentCatalog` or a stutter.

`UsageLimits_proofs` proves `TypeCorrect` (`Spec => []TypeOK`),
`NeverOverchargedAlways` (`Spec => []NeverOvercharged`) and `OrderlyCallsAlwaysHeld`
(`Spec => []OrderlyCallsAreHeld`) for any number of calls, any limits and windows.  `NeverOvercharged` is not inductive: a call holds a copy of the row
between the halves of `update_usage`.  `UsageInv` adds that such a copy is no more
charged than what was done (`RowPaid`), that it exists while it is held (`RowInHand`),
and which calls have yet to be charged for what they did (`CallOrder`).  For a user whose calls
come one at a time, `TidyInv` adds that what the one active call has checked or read is still so
(`Checked`), and that the row counts every upload but the one this call is about to charge for
(`FilesExact`); the second check of a file can then not refuse what the first let through.
`CountedInv` adds that each window of the row counts every query recorded after the window began
(`WindowFull`), and that nothing was recorded later than the time a call is about to write.

`KnowledgeGraph_proofs` proves, for any documents, labels, texts, requests, answers of the
resolver and faults:

| theorem | statement |
|---|---|
| `TypeCorrect` | `Spec => []TypeOK` |
| `EndpointsExistAlways` | `Spec => []EndpointsExist` |
| `BuildsAloneAlways` | `Spec => []BuildsAlone` |
| `MergesAreExactAlways` | `Spec => []MergesAreExact` |
| `NothingForgottenAlways` | `Spec => NothingForgotten` |
| `ProcessingIsExplainedAlways` | `Spec => []ProcessingIsExplained` |

The lemmas come first: merging entities keeps all labels and the ids of the old entities
(`MergeEntitiesType`), so old relationships keep their ends, and new ones are given ids
of the merged entities (`MergeRelationsType`, `ExtractedGraph`).  The invariant
`GraphInv` demands `WholeGraph` of the row and of every copy, because any copy may
become the row; `CopiesInHand` says who holds a copy, that the one about to be written
says "completed", and that only builds have a handler, which is what `BuildsAlone` needs
when the handler writes back "failed".  The steps come in five kinds (keep or drop a
copy, take one, replace it, write it, end), with a lemma for each.

Two further invariants rest on `GraphInv`.  `MergeInv` says that the row and all copies are merged
well and hold nothing of an operation that has yet to extract, which is why the ids of an extraction
are new to the graph, and that a copy that is up to date is the row or, once merged, extends it.
`ExplainedInv` adds that a graph that says "processing" is still the stub.

Of `GraphSearch` it proves, for any entities, relations, seeds and hop depth, `WalksAlwaysKeepTheirDepth`
(`GraphSearchSpec => []WalksKeepTheirDepth`).  The reference, `Within`, is a recursive function of the
number of hops, and the inner loop of the search is a fold over the relations.  Both are unfolded by
`SetInduction`, which gets induction from the library's theorem that strict inclusion is well
founded on finite sets: `ReachNext` says that a further hop adds the neighbours, `FollowFinds` that
the inner loop visits all that is next to the end of its path.  `WalkInv` keeps the argument for
breadth-first search: the queue is in the order of the lengths, which differ by 1 at most
(`Ordered`); what was visited is in the queue, or has all its neighbours visited, or is as far away as the
search goes (`Searched`).  So all that is nearer than the head of the queue was visited
(`NearerThanHead`), a new end is on a shortest way (`ExtendStep`), and an empty queue means
that everything within reach was found (`SearchEnds`).

`Services_proofs` proves of `DriveConnector`, for any users, flows, faults and number of requests under way,
`DriveTypesCorrect` and `ConnectionsAreAlwaysSound` (`DriveSpec => []ConnectionsAreSound`).  What
a callback stores is decided by the cookie it carries, so `DriveInv` adds that every cookie, the
browser's and those under way, that remembers a flow remembers the user who began it
(`OwnCookie`): crossed responses lose a flow, they never give it to another user.

Of `Agent` it proves, for any number of runs and any window, `AgentTypesCorrect` and
`AgentAlwaysRecovers` (`AgentSpec => []AgentRecovers`), which has two parts.  A run stops by its sixth
request: `PaceInv` bounds the iteration by the choice of tools, because the choice only gets
narrower.  An oversized question fails fewer other runs than the window holds messages: `FollowInv`
keeps, for each question in the history, that every other run that sent it has put a message after
it, so that the number of these runs is at most the distance from the end.

`Clients_proofs` proves of `Batches`, for any batches of any size, `BatchesTypesCorrect` and
`BatchesAreAlwaysAccounted` (`BatchesSpec => []BatchesAreAccounted`).  The invariant `Sound` says of
every file what is known of it by its place before, at or after the file the batch is at; that at most one
row is left without a job follows because only the file it failed at can be one.

Of `Caches` it proves, for any documents and calls, `CachesTypesCorrect` and
`OrderlyCachesAlwaysAgree` (`CachesSpec => []OrderlyCachesAgree`).  `CachesInv` adds that, unless
creations overlapped or failed, the one that runs has described what it builds (`Described`).

Of `Clients` it proves, for any folders, users, names and documents:

| theorem | statement |
|---|---|
| `ClientsTypesCorrect` | `ClientsSpec => []ClientsTypeOK` |
| `ScopesAlwaysHold` | `ClientsSpec => []ScopesHold` |
| `NameDeletesAlwaysTakeTheNamed` | `ClientsSpec => NameDeletesTakeTheNamed` |

`ScopesHold` holds of whatever is stored, and its proof goes through what each kind of handle asks
for (`FolderAsks`, `RootAsks`, `SyncUserAsks`, `AsyncUserAsks`).  `NameDeletesTakeTheNamed` relates a
delete to a lookup some steps earlier: `CallsInv` keeps for every call that holds an id that its
document, as long as it is there, is of the user of the handle, since no update moves a document to
another user, and bears the name until another call renames it (`Looked`).

`Startup_proofs` proves, for any workers, retries, faults and state the stores are found in:

| theorem | statement |
|---|---|
| `StartupTypesCorrect` | `StartupSpec => []StartupTypeOK` |
| `NeverStrayWorkers` | `StartupSpec => []NoStrayWorkers` |
| `ChunksAlwaysSurvive` | `StartupSpec => []ChunksSurviveStarts` |
| `StoresAreAlwaysWholeAfterStart` | `StartupSpec => []StoresAreWholeAfterStart` |

`StrayInv` says which worker may run at which stage of its server.  `AskInv` says that whoever is
asking about the vector table saw it of the old dimension and that it still is, unless two asked at
once.  What is promised when nobody starts any more needs `WholeInv` of those who do: whoever lost a
race leaves behind a store that is whole or another process that is about to make it so
(`TablesWhole`, `VectorsWhole`, `PagesWhole`).

Of `Retrieval` it proves, for any documents, queries and limits, `RetrievalTypesCorrect` and
`UndisturbedQueriesStayFull` (`RetrievalSpec => []UndisturbedQueriesAreFull`).  `RetrievalInv` follows
what was due to a call: it is in the store until the search and in the answer from then on, and the
documents keep their rows (`Fair`); what a call has found belongs to its scope, disturbed or not
(`Scoped`).

`Routing_proofs` proves, for any calls, names, plans, limit, faults and requests:

| theorem | statement |
|---|---|
| `AppsTypesCorrect` | `AppsSpec => []AppsTypeOK` |
| `AppsStayWhole` | `AppsSpec => []AppsAreWhole` |
| `OrderlyLimitAlwaysHolds` | `AppsSpec => []OrderlyLimitHolds` |
| `RoutingImplementsApps` | `RoutingSpec => AppsSpec` |
| `RoutingTypesCorrect` | `RoutingSpec => []RoutingTypeOK` |
| `RequestsAlwaysKeepTheirStores` | `RoutingSpec => []RequestsKeepTheirStores` |
| `AccountsParts` | `AccountsSpec => Spec /\ AppsSpec /\ RoutingSpec` |
| `AccountsKeepTheirPromises` | the invariants of the run `usage_limits`, of `AccountsSpec` |

An application is nobody's but its maker's until its rows are saved (`OwnInv`); until then, and while
calls on it run, `AppsInv` says for each step what of project, bucket, rows and `app_ids` is there
(`MadeWhole`, `Phase`).  `LimitInv` adds that a call alone finds the room it has seen.  For the
requests, `RoutedInv` says that the fields of the service fit the request that works, as long as no other
crossed it, and `RememberedInv` that nothing is remembered of an application before it is made, which
is why "no database of its own" never becomes wrong.  `RoutingImplementsApps` carries what is proved of
`Apps` over to `Routing`, where a restart of the server also forgets.

`Workspace_proofs` proves, for any documents, folders, names, calls of both kinds, versions and faults:

| theorem | statement |
|---|---|
| `WorkspaceTypesCorrect` | `Spec => []TypeOK` |
| `FoldersStayOrderly` | `Spec => []OrderlyFoldersAreExact` |
| `FolderNamesKeepAgreeing` | `Spec => []FolderNameAgrees` |
| `DeletedFoldersStayGone` | `Spec => []DeletedFoldersAreGone` |
| `ListedChunksStayStored` | `Spec => []ListedChunksAreStored` |
| `TagsStayOwn` | `Spec => []TagsAreOwn` |
| `QuietUpdatesAlwaysHold` | `Spec => []QuietUpdatesHold` |
| `DeletesLeaveOnlyStrays` | `Spec => []DeleteLeavesOnlyStrays` |

All rest on `BaseInv`: the types, which steps a call of each kind goes through and what it has at each
(`CallsPlaced`, `UpdateInv`), and that an id is given out once (`IdsAreFresh`).  The actions are first
summed up, those of a folder call by `CallDoes` and `TaskDoes`, those of an update by `Advanced`, so that
each of the following invariants is shown of a few kinds of step:

* `GoneStays`: what a delete has counted as gone is out of the table, and its id is not given out again;
* `NamesInv`, `ListsInv`: a name found free has no folder while one call is about to make it; a folder no two
  calls work on has a list that is what the one call has read;
* `AgreeInv`: a document's name and the lists agree, or its ingestion is through with the row and has yet
  to list it (`Owes`); `TextsInv` says the same of texts, which are listed before they have a row, and
  `ListableInv` that no list runs ahead of what was given out;
* `Stored`: the chunks an update is about to write into the row are in the store (`Untouched`: no call goes on
  with a document that is not there);
* `TagsInv`: unless two updates were between split and merge at once, the service's field is the one update's;
* `QuietInv`: the one call at work on a document (`Alone`) has a copy of the row with what it has added by now
  (`Follows`), whose files are the ones stored (`Kept`);
* `TidyInv`: the copy a delete cleans up by lists all there is (`Tidy`, `CleansUp`).

The proof of `FolderNamesKeepAgreeing` corrected the model: an ingestion whose folder is made after a second one
has moved or listed the document parts name and lists.  `InsertFolder` did not
record that; now it does exactly then (`Moved`), and the run has a second folder name to show the case.

`ServiceKeepsTheGraph` (in `KnowledgeGraph_proofs`) and `PartsBehave`, `ServicesTypesCorrect` and
`ServicesKeepTheirPromises` (in `Services_proofs`) do for `GraphService` and `Services` what
`AccountsParts` does for `Accounts`: a behaviour of the composition is, for the variables of a part, a behaviour of that
part, and so the theorems on the parts hold in the specifications that the runs check.

The assumptions on the constants of each module are named in it (`IngestionAssumption` and the
others) and evaluated by every run.

Only model-checked: liveness (`QueuedJobsSettle`), which is beyond the prover, and the violated
properties, which are no theorems.  Every invariant and action property of the passing runs is proved.

## 6. Not modelled, and the plan

* Parsers, chunkers and the recursive splitter: functions of the characters of a text, which the
  models do not tell apart.
* Embedding, completion and reranking models: external calls that may raise; their answers are
  choices in the models that use them.
* Telemetry, the UI, scripts and evaluations: nothing that the others read.
* Access control: who may read or write a document is a filter on every query, and one owner makes
  the calls in each model.
* Caches on S3: `load_cache` reads the bytes that S3 answers as a file.  `update_cache` reads a
  field that documents do not have, and two routes declare an answer their result does not fit: they never
  get as far as a step of the model.
* `HuggingFaceCache`, `GraphService.create_graph`, changes of tier: nothing in the repository calls them.
* A job that timed out or was dropped after its last start leaves "processing" in the row; no comment
  denies it, and `QueuedJobsSettle` leaves it out.

The plan, in order:

1. Abstract specifications of a folder (a set with atomic changes) and of a counter (charged when
   served), refined by the orderly behaviours of `Folders` and `UsageLimits`.
2. Liveness of clients that wait (`Batches` over `Ingestion`), of retried starts (`Startup`) and of
   runs of the agent.
3. Access rules of shared documents and folders in `Retrieval` and `Folders`.

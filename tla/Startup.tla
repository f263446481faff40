------------------------------ MODULE Startup ------------------------------
(***************************************************************************)
(* Starting the system.  start_server.py starts Redis, then a worker       *)
(* process, then the API server in its own process.  Server and worker     *)
(* both initialise the stores, at the same time and each for itself:       *)
(*                                                                         *)
(*   PostgresDatabase.initialize   one transaction: tables and columns     *)
(*   PGVectorStore.initialize      two: the extension, the vector table    *)
(*   MultiVectorStore.initialize   each statement on its own (autocommit); *)
(*                                 the worker alone calls it               *)
(*                                                                         *)
(* Each looks at the catalogue first and acts on what it saw.  Postgres    *)
(* refuses to create what another transaction has created meanwhile; the   *)
(* method then returns False, which is only logged.                        *)
(***************************************************************************)
EXTENDS Naturals, FiniteSets

CONSTANTS Server,       \* the process of start_server.py
          Workers,      \* worker processes, each started once
          MaxRetries,   \* max_retries of PGVectorStore
          Colpali,      \* COLPALI_MODE is not "off"
          StartFaults,  \* which of {"db", "kill", "redis"} may happen
          Absent        \* no table, no worker

Vecs  == [dim : {"old", "new"},   \* "new" is the configured dimension
          rows : BOOLEAN]         \* it holds chunks
Pages == [cols : BOOLEAN,         \* it has document_id and the columns beside it
          strict : BOOLEAN,       \* document_id is NOT NULL
          nulls : BOOLEAN]        \* it has rows from before those columns

ASSUME StartupAssumption ==
    /\ Server \notin Workers
    /\ Absent \notin Workers \cup {Server} \cup Vecs \cup Pages
    /\ MaxRetries \in Nat \ {0}
    /\ Colpali \in BOOLEAN
    /\ StartFaults \subseteq {"db", "kill", "redis"}

VARIABLES
    tables,   \* the tables of PostgresDatabase, "old" without the added columns
    ext,      \* the extension "vector" exists
    vecs,     \* vector_embeddings
    pages,    \* multi_vector_embeddings
    maxSim,   \* the function max_sim exists
    redis,    \* Redis accepts connections
    proc,     \* proc[p]: the local state of process p
    child,    \* worker_process of the server
    used,     \* workers that have been started
    hurt,     \* history: processes that met a fault, a refusal or their end half-way
    twice,    \* history: a process found the old dimension while another was asking
    lost      \* history: chunks of the configured dimension have been dropped

startupVars == <<tables, ext, vecs, pages, maxSim, redis, proc, child, used, hurt, twice, lost>>

Procs  == {Server} \cup Workers
Starts == {"tables", "tables2", "ext", "ext2", "vecs", "ask", "vecs2"}
PageSteps == {"pages", "create", "columns", "strict", "drop", "function"}
ProcPcs   == Starts \cup PageSteps \cup {"off", "redis", "wait", "spawn", "pool", "up"}
Proc   == [pc : ProcPcs, saw : {"none", "old", "new", "whole"}, tries : 0 .. MaxRetries]

StartupTypeOK ==
    /\ tables \in {"none", "old", "whole"}
    /\ ext    \in BOOLEAN
    /\ vecs   \in {Absent} \cup Vecs
    /\ pages  \in {Absent} \cup Pages
    /\ maxSim \in BOOLEAN
    /\ redis  \in BOOLEAN
    /\ proc   \in [Procs -> Proc]
    /\ child  \in {Absent} \cup Workers
    /\ used   \in SUBSET Workers
    /\ hurt   \in SUBSET Procs
    /\ twice  \in BOOLEAN
    /\ lost   \in BOOLEAN

Off == [pc |-> "off", saw |-> "none", tries |-> 0]

\* A new database, or one that an earlier version or configuration has left.
StartupInit ==
    /\ \/ /\ tables = "none" /\ ext = FALSE
          /\ vecs = Absent /\ pages = Absent /\ maxSim = FALSE
       \/ /\ tables \in {"old", "whole"} /\ ext = TRUE
          /\ vecs \in [dim : {"old", "new"}, rows : {TRUE}]
          /\ pages \in [cols : {FALSE}, strict : {FALSE}, nulls : BOOLEAN]
                  \cup [cols : {TRUE}, strict : {TRUE}, nulls : {FALSE}]
          /\ maxSim = TRUE
    /\ redis  \in BOOLEAN
    /\ proc   = [p \in Procs |-> Off]
    /\ child  = Absent
    /\ used   = {}
    /\ hurt   = {}
    /\ twice  = FALSE
    /\ lost   = FALSE

PStep(p, pc) == proc[p].pc = pc
PGoto(p, pc) == proc' = [proc EXCEPT ![p].pc = pc, ![p].tries = 0]
Running(p)   == proc[p].pc # "off"
Starting(p)  == proc[p].pc \notin {"off", "up"}

schema == <<tables, ext, vecs, pages, maxSim>>
system == <<redis, child, used>>
notes  == <<hurt, twice, lost>>

\* After a store method, whatever it returned: the next store, or the end.
AfterTables == "ext"
AfterVectors(p) == IF p = Server THEN "pool" ELSE IF Colpali THEN "pages" ELSE "up"

\* The method returns False because of a fault.
Fault(p, next) ==
    /\ "db" \in StartFaults
    /\ PGoto(p, next)
    /\ hurt' = hurt \cup {p}
    /\ UNCHANGED <<schema, twice, lost>>
-----------------------------------------------------------------------------
(* start_server.py.                                                        *)

Launch ==
    /\ PStep(Server, "off") /\ Workers \ used # {}
    /\ PGoto(Server, "redis")
    /\ UNCHANGED <<schema, system, notes>>

\* check_and_start_redis: the container is running, is started or is made; an error
\* of docker ends the process.
StartRedis ==
    /\ PStep(Server, "redis")
    /\ \/ PGoto(Server, "wait") /\ redis' \in {redis, TRUE}
       \/ "redis" \in StartFaults /\ PGoto(Server, "off") /\ UNCHANGED redis
    /\ UNCHANGED <<schema, child, used, notes>>

\* wait_for_redis: a connection within 20 seconds, or the end of the process.
WaitForRedis ==
    /\ PStep(Server, "wait")
    /\ PGoto(Server, IF redis THEN "spawn" ELSE "off")
    /\ UNCHANGED <<schema, system, notes>>

\* start_arq_worker: nobody waits for the worker or looks after it.  It is a new
\* process, whichever.
StartWorker ==
    /\ PStep(Server, "spawn")
    /\ LET w == CHOOSE w \in Workers : w \notin used IN
          /\ proc' = [proc EXCEPT ![Server].pc = "tables", ![w].pc = "tables"]
          /\ child' = w
          /\ used' = used \cup {w}
    /\ UNCHANGED <<schema, redis, notes>>

\* The Redis pool of the server; without it the application does not start.
MakePool ==
    /\ PStep(Server, "pool")
    /\ \/ redis /\ PGoto(Server, "up") /\ UNCHANGED <<child, hurt>>
       \/ /\ ~redis
          /\ proc' = [p \in Procs |-> IF p \in {Server, child} THEN Off ELSE proc[p]]
          /\ child' = Absent
          /\ hurt' = hurt \cup {p \in {child} \cap Workers : Starting(p)}
    /\ UNCHANGED <<schema, redis, used, twice, lost>>

RedisStops ==
    /\ "redis" \in StartFaults /\ redis
    /\ redis' = FALSE
    /\ UNCHANGED <<schema, proc, child, used, notes>>

\* Variant with a fault: the worker is left to itself.
KeepWorker == {Server}

\* Whom the end of start_server.py ends: cleanup_processes terminates the worker, and
\* kills it after five seconds.
Cleaned == {Server, child} \cap Procs

\* SIGINT, SIGTERM or the end of uvicorn.
Exit ==
    /\ Running(Server)
    /\ proc' = [p \in Procs |-> IF p \in Cleaned THEN Off ELSE proc[p]]
    /\ child' = Absent
    /\ hurt' = hurt \cup {p \in Cleaned : Starting(p)}
    /\ UNCHANGED <<schema, redis, used, twice, lost>>

\* A process dies at once: nothing is cleaned up, and nobody starts a worker again.
Killed(p) ==
    /\ "kill" \in StartFaults /\ Running(p)
    /\ proc' = [proc EXCEPT ![p] = Off]
    /\ child' = IF p = Server THEN Absent ELSE child
    /\ hurt' = hurt \cup {p}
    /\ UNCHANGED <<schema, redis, used, twice, lost>>
-----------------------------------------------------------------------------
(* PostgresDatabase.initialize.                                            *)

\* create_all finds out which tables there are.
LookTables(p) ==
    /\ PStep(p, "tables")
    /\ proc' = [proc EXCEPT ![p].pc = "tables2", ![p].saw = tables]
    /\ UNCHANGED <<schema, system, notes>>

\* It makes the others, and columns that an earlier version did not have are added if
\* they are not there by then; all of it or nothing.
CommitTables(p) ==
    /\ PStep(p, "tables2")
    /\ \/ LET outrun == proc[p].saw = "none" /\ tables # "none" IN
          /\ PGoto(p, AfterTables)
          /\ tables' = IF outrun THEN tables ELSE "whole"
          /\ UNCHANGED <<ext, vecs, pages, maxSim, notes>>
       \/ Fault(p, AfterTables)
    /\ UNCHANGED system
-----------------------------------------------------------------------------
(* PGVectorStore.initialize.                                               *)

\* CREATE EXTENSION IF NOT EXISTS: it is there, or will have to be made.
LookExtension(p) ==
    /\ PStep(p, "ext")
    /\ proc' = [proc EXCEPT ![p].pc = IF ext THEN "vecs" ELSE "ext2"]
    /\ UNCHANGED <<schema, system, notes>>

\* Operational errors are tried again, a few times; any other, as when another process
\* has made the extension meanwhile, ends the method before it gets to the table.
MakeExtension(p) ==
    /\ PStep(p, "ext2")
    /\ \/ /\ PGoto(p, IF ext THEN AfterVectors(p) ELSE "vecs")
          /\ ext' = TRUE
          /\ UNCHANGED <<tables, vecs, pages, maxSim, notes>>
       \/ /\ "db" \in StartFaults /\ proc[p].tries + 1 < MaxRetries
          /\ proc' = [proc EXCEPT ![p].pc = "ext", ![p].tries = @ + 1]
          /\ UNCHANGED <<schema, notes>>
       \/ /\ proc[p].tries + 1 = MaxRetries
          /\ Fault(p, AfterVectors(p))
    /\ UNCHANGED system

\* Variant with a fault: the dimension read is not corrected by 4.
DimensionMisread == "old"

\* The dimension of the table, which the code reads less 4 and compares plus 4.
Dimension == vecs.dim

Asking(p) == proc[p].pc \in {"ask", "vecs2"} /\ proc[p].saw = "old"

\* Is the table there, and does its dimension fit?
LookVectors(p) ==
    LET saw == IF vecs = Absent THEN "none" ELSE Dimension IN
    /\ PStep(p, "vecs")
    /\ proc' = [proc EXCEPT ![p].saw = saw, ![p].tries = 0, ![p].pc =
          CASE saw = "none" -> "vecs2" [] saw = "old" -> "ask" [] saw = "new" -> AfterVectors(p)]
    /\ twice' = (twice \/ (saw = "old" /\ \E q \in Procs \ {p} : Asking(q)))
    /\ UNCHANGED <<schema, system, hurt, lost>>

\* The process asks on its terminal.  Anything but yes, or no terminal, and the method
\* ends with an error.
AskToRecreate(p) ==
    /\ PStep(p, "ask")
    /\ \/ PGoto(p, "vecs2") /\ UNCHANGED hurt
       \/ PGoto(p, AfterVectors(p)) /\ hurt' = hurt \cup {p}
    /\ UNCHANGED <<schema, system, twice, lost>>

\* The table is made, or dropped as it is by now and made again.
CommitVectors(p) ==
    /\ PStep(p, "vecs2")
    /\ \/ LET outrun == proc[p].saw = "none" /\ vecs # Absent IN
          /\ PGoto(p, AfterVectors(p))
          /\ vecs' = IF outrun THEN vecs ELSE [dim |-> "new", rows |-> FALSE]
          /\ lost' = (lost \/ (proc[p].saw = "old" /\ vecs = [dim |-> "new", rows |-> TRUE]))
          /\ UNCHANGED <<tables, ext, pages, maxSim, hurt, twice>>
       \/ Fault(p, AfterVectors(p))
    /\ UNCHANGED system
-----------------------------------------------------------------------------
(* MultiVectorStore.initialize, in the worker.                             *)

\* A connection is no use without the extension.
LookPages(w) ==
    /\ PStep(w, "pages")
    /\ \/ PGoto(w, CASE ~ext                            -> "up"
                     [] ext /\ pages = Absent           -> "create"
                     [] ext /\ pages # Absent /\ pages.cols  -> "drop"
                     [] ext /\ pages # Absent /\ ~pages.cols -> "columns")
          /\ UNCHANGED <<schema, notes>>
       \/ Fault(w, "up")
    /\ UNCHANGED system

\* CREATE TABLE IF NOT EXISTS.
CreatePages(w) ==
    /\ PStep(w, "create")
    /\ \/ /\ PGoto(w, "drop")
          /\ pages' = IF pages = Absent THEN [cols |-> TRUE, strict |-> TRUE, nulls |-> FALSE]
                      ELSE pages
          /\ UNCHANGED <<tables, ext, vecs, maxSim, notes>>
       \/ Fault(w, "up")
    /\ UNCHANGED system

\* The two ALTERs of an old table, each for good once it is done.  The first fails if
\* another worker has done it, the second over rows that have no document.
AddColumns(w) ==
    /\ PStep(w, "columns")
    /\ \/ /\ PGoto(w, IF pages.cols THEN "up" ELSE "strict")
          /\ pages' = [pages EXCEPT !.cols = TRUE]
          /\ UNCHANGED <<tables, ext, vecs, maxSim, notes>>
       \/ Fault(w, "up")
    /\ UNCHANGED system

DemandDocument(w) ==
    /\ PStep(w, "strict")
    /\ \/ /\ PGoto(w, IF pages.nulls THEN "up" ELSE "drop")
          /\ pages' = [pages EXCEPT !.strict = ~pages.nulls]
          /\ UNCHANGED <<tables, ext, vecs, maxSim, notes>>
       \/ Fault(w, "up")
    /\ UNCHANGED system

\* max_sim is dropped and made again, in two steps; an error of either is logged, as is
\* one of the index before them, and the method still returns True.
DropMaxSim(w) ==
    /\ PStep(w, "drop")
    /\ \/ PGoto(w, "function") /\ maxSim' = FALSE /\ UNCHANGED <<tables, ext, vecs, pages, notes>>
       \/ Fault(w, "up")
    /\ UNCHANGED system

\* Variant with a fault: the function is made only where there was none.
MakeMaxSimOnce(w) ==
    /\ PStep(w, "function")
    /\ PGoto(w, "up")
    /\ UNCHANGED <<schema, system, notes>>

MakeMaxSim(w) ==
    /\ PStep(w, "function")
    /\ \/ PGoto(w, "up") /\ maxSim' = TRUE /\ UNCHANGED <<tables, ext, vecs, pages, notes>>
       \/ Fault(w, "up")
    /\ UNCHANGED system
-----------------------------------------------------------------------------
\* A worker that has started stores the chunks of a document.
StoreChunksOf(w) ==
    /\ PStep(w, "up")
    /\ vecs # Absent /\ vecs.dim = "new"
    /\ vecs' = [vecs EXCEPT !.rows = TRUE]
    /\ UNCHANGED <<tables, ext, pages, maxSim, proc, system, notes>>

StoreSteps(p) ==
    \/ LookTables(p) \/ CommitTables(p)
    \/ LookExtension(p) \/ MakeExtension(p)
    \/ LookVectors(p) \/ AskToRecreate(p) \/ CommitVectors(p)
    \/ Killed(p)

WorkerSteps(w) ==
    \/ LookPages(w) \/ CreatePages(w) \/ AddColumns(w) \/ DemandDocument(w)
    \/ DropMaxSim(w) \/ MakeMaxSim(w) \/ StoreChunksOf(w)

StartupNext ==
    \/ Launch \/ StartRedis \/ WaitForRedis \/ StartWorker \/ MakePool \/ Exit \/ RedisStops
    \/ \E p \in Procs : StoreSteps(p)
    \/ \E w \in Workers : WorkerSteps(w)

StartupSpec == StartupInit /\ [][StartupNext]_startupVars
-----------------------------------------------------------------------------
(* Properties.                                                             *)

\* Server and worker race to make the stores, and the loser's method reports failure
\* and goes no further.  Still, when no process is starting any more, every store that
\* a running process uses is whole, unless a process met a fault, a refusal or its end.
StoresAreWholeAfterStart ==
    hurt = {} /\ (\A p \in Procs : ~Starting(p)) =>
       /\ (\E p \in Procs : Running(p)) => tables = "whole" /\ vecs # Absent /\ vecs.dim = "new"
       /\ Colpali /\ (\E w \in Workers : Running(w)) =>
             pages # Absent /\ pages.cols /\ (pages.strict \/ pages.nulls) /\ maxSim

\* Chunks of the configured dimension are dropped by a start only if two processes
\* asked at the same time: the question is not asked again about the new table.
ChunksSurviveStarts == lost => twice

\* A worker runs only beside the server that started it, unless a process was killed:
\* cleanup_processes ends it with the server, at whatever stage that is.
NoStrayWorkers ==
    \A w \in Workers : Running(w) /\ Server \notin hurt => child = w /\ Running(Server)
=============================================================================

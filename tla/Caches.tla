------------------------------- MODULE Caches ------------------------------
(***************************************************************************)
(* The caches of documents in the state of a language model: created by    *)
(* DocumentService.create_cache, loaded into active_caches by the routes   *)
(* that need them, added to and queried there.                             *)
(*                                                                         *)
(* A cache is described by a row of the database (the documents it was     *)
(* made of), stored as a file (the state) and active as both.  Storage is  *)
(* the local one: that of S3 answers bytes, which load_cache cannot read.  *)
(***************************************************************************)
EXTENDS Integers, FiniteSets

CONSTANTS CacheDocs,    \* documents
          CacheCalls,   \* calls that create or load the cache of one name
          CacheFaults   \* which steps may fail: a subset of {"db", "model", "file"}

ASSUME CachesAssumption == CacheFaults \subseteq {"db", "model", "file"}

VARIABLES described,  \* the documents in the row of the cache, {} before there is one
          saved,      \* those in the stored state, {} before there is one
          active,     \* [docs, state, held]: the cache in memory, the documents in its
                      \* state, and what the language model holds
          cacheCall,  \* call -> [pc, docs]
          torn        \* a creation overlapped another one, or failed after its row

cacheVars == <<described, saved, active, cacheCall, torn>>

Question == "question"   \* the tokens of a query and of its answer
NotActive == [docs |-> {}, state |-> {}, held |-> {}]

CachesInit ==
    /\ described = {} /\ saved = {} /\ active = NotActive /\ torn = FALSE
    /\ cacheCall = [c \in CacheCalls |-> [pc |-> "idle", docs |-> {}]]

Steps(c, pc, D) == cacheCall' = [cacheCall EXCEPT ![c] = [pc |-> pc, docs |-> D]]
CacheAt(c, pc) == cacheCall[c].pc = pc
Creating == {c \in CacheCalls : CacheAt(c, "build")}
CacheFault(x) == x \in CacheFaults

\* The route gathers the documents (none: HTTP 400), and the row is written, over one
\* of the same name, before there is anything it describes.
Describe(c, D) ==
    /\ CacheAt(c, "idle") /\ D # {}
    /\ described' = D
    /\ Steps(c, "build", D)
    /\ torn' = (torn \/ Creating # {})
    /\ UNCHANGED <<saved, active>>

\* The model evaluates the documents, and its state is stored under the name.
SaveState(c) ==
    /\ CacheAt(c, "build")
    /\ saved' = cacheCall[c].docs
    /\ Steps(c, "ok", {})
    /\ UNCHANGED <<described, active, torn>>

FailCreate(c) ==
    /\ \/ CacheAt(c, "idle") /\ CacheFault("db") /\ torn' = torn
       \/ CacheAt(c, "build") /\ (CacheFault("model") \/ CacheFault("file")) /\ torn' = TRUE
    /\ Steps(c, "failed", {})
    /\ UNCHANGED <<described, saved, active>>

\* load_cache: the row, then the file; the cache of that name is replaced.
ReadRow(c) ==
    /\ CacheAt(c, "idle") /\ described # {}
    /\ Steps(c, "download", described)
    /\ UNCHANGED <<described, saved, active, torn>>

Activate(c) ==
    /\ CacheAt(c, "download") /\ saved # {}
    /\ active' = [docs |-> cacheCall[c].docs, state |-> saved, held |-> saved]
    /\ torn' = (torn \/ cacheCall[c].docs # described \/ Creating # {})
    /\ Steps(c, "ok", {})
    /\ UNCHANGED <<described, saved>>

\* Without a file, or when a step fails, the answer is an object all the same, so the
\* routes take it for success.
FailLoad(c) ==
    /\ CacheAt(c, "download") /\ (saved = {} \/ CacheFault("file") \/ CacheFault("model"))
    /\ Steps(c, "ok", {})
    /\ UNCHANGED <<described, saved, active, torn>>

\* Variant with a fault: the documents go into the stored state, and not into the row.
AddDocsStored(D) ==
    /\ active # NotActive /\ D # {}
    /\ active' = [active EXCEPT !.state = active.held \cup D, !.held = @ \cup D]
    /\ saved' = saved \cup D
    /\ UNCHANGED <<described, cacheCall, torn>>

\* add_docs goes into the state in memory only, and not into the list of documents,
\* which the next call compares with: it adds them again.  The answer breaks the type
\* of the route, after the work.  The model goes on from what it holds, which after a
\* query is more than the state.
AddDocs(D) ==
    /\ active # NotActive /\ D # {}
    /\ active' = [active EXCEPT !.state = active.held \cup D, !.held = @ \cup D]
    /\ UNCHANGED <<described, saved, cacheCall, torn>>

\* The model may give up on the documents and hold them all the same.
FailAdd(D) ==
    /\ active # NotActive /\ D # {} /\ CacheFault("model")
    /\ active' = [active EXCEPT !.held = @ \cup D]
    /\ UNCHANGED <<described, saved, cacheCall, torn>>

\* A query starts from the state.
QueryCache ==
    /\ active # NotActive
    /\ active' = [active EXCEPT !.held = active.state \cup {Question}]
    /\ UNCHANGED <<described, saved, cacheCall, torn>>

\* The process ends; its caches go with it.
StopServer ==
    LET lost == {c \in CacheCalls : CacheAt(c, "build") \/ CacheAt(c, "download")} IN
    /\ active # NotActive \/ lost # {}
    /\ active' = NotActive
    /\ cacheCall' = [c \in CacheCalls |-> IF c \in lost THEN [pc |-> "failed", docs |-> {}]
                                          ELSE cacheCall[c]]
    /\ torn' = (torn \/ Creating # {})
    /\ UNCHANGED <<described, saved>>

CachesNext ==
    \/ \E c \in CacheCalls :
          \/ \E D \in SUBSET CacheDocs : Describe(c, D)
          \/ SaveState(c) \/ FailCreate(c)
          \/ ReadRow(c) \/ Activate(c) \/ FailLoad(c)
    \/ \E D \in SUBSET CacheDocs : AddDocs(D) \/ FailAdd(D)
    \/ QueryCache
    \/ StopServer

CachesSpec == CachesInit /\ [][CachesNext]_cacheVars

-----------------------------------------------------------------------------

CachesTypeOK ==
    /\ described \subseteq CacheDocs /\ torn \in BOOLEAN
    /\ active \in [docs: SUBSET CacheDocs, state: SUBSET (CacheDocs \cup {Question}),
                   held: SUBSET (CacheDocs \cup {Question})]
    /\ cacheCall \in [CacheCalls -> [pc: {"idle", "build", "download", "ok", "failed"},
                                     docs: SUBSET CacheDocs]]

\* As long as no creation overlapped another one or a load, and none failed half way,
\* the row and the stored state are of the same documents whenever no creation runs,
\* and the cache in memory knows every document it lists.  The state that is stored
\* is of documents only, whatever was asked meanwhile, and what was added to the one
\* in memory stays in it.
OrderlyCachesAgree ==
    /\ saved \subseteq CacheDocs
    /\ active.state \subseteq active.held
    /\ ~torn => /\ Creating = {} => described = saved
                /\ active.docs \subseteq active.state
=============================================================================

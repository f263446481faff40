------------------------------- MODULE KnowledgeGraph -------------------------------
(***************************************************************************)
(* A knowledge graph, from POST /graph/create to the updates that follow.  *)
(*                                                                         *)
(* create_graph stores an empty stub with the status "processing" and      *)
(* leaves the work to a task of the server process, which runs             *)
(* GraphService.update_graph like POST /graph/{name}/update does: it reads *)
(* the graph, finds documents, extracts entities and relationships from    *)
(* their chunks, merges them into its copy and writes the copy back.       *)
(* Nothing but the status of the stub keeps two of them apart, and they    *)
(* hold their copies for as long as a language model takes to answer.      *)
(*                                                                         *)
(* There is one graph: graphs do not meet.  A document's chunks are one    *)
(* piece of text.  What it says is a constant; what the models make of it  *)
(* (chunks passed over, labels taken for one another) is chosen each time. *)
(***************************************************************************)
EXTENDS Naturals, FiniteSets

CONSTANTS Docs,         \* document ids
          Labels,       \* entity labels
          Ops,          \* requests that create or update the graph
          Requests,     \* what they may ask for
          Text,         \* Text[d]: the labels in d, and the pairs of them it relates, once
          Resolutions,  \* answers of the entity resolver: canonical labels, or None
          Faults,       \* which of FaultKinds may happen
          None

FaultKinds == {"server",  \* the server process dies
               "llm",     \* extraction raises
               "db",      \* a database error that the callee swallows
               "conn"}    \* the reply to a write is lost after it took effect

\* filter: the documents that match the request's metadata filters; scope: those in
\* the folder, or of the end user, that it names.  A create passes its filter on in
\* the stub, an update as additional_filters.
RequestType == [create : BOOLEAN, explicit : SUBSET Docs,
                filter : {None} \cup SUBSET Docs, scope : {None} \cup SUBSET Docs]

\* An entity's id is a fresh uuid: it tells what it was extracted from, and for whom.
\* docs is the set of documents named in chunk_sources.
Ids       == Ops \X Docs \X Labels
Entities  == [id : Ids, docs : SUBSET Docs]
EntityMap == UNION {[S -> Entities] : S \in SUBSET Labels}
Relations == [src : Ids, dst : Ids, docs : SUBSET Docs]
Statuses  == {"processing", "completed", "failed"}
Graph     == [status : Statuses, docs : SUBSET Docs, filter : {None} \cup SUBSET Docs,
              ents : EntityMap, rels : SUBSET Relations]

ASSUME NoneAssumption     == None \notin Graph /\ \A D \in SUBSET Docs : D # None
ASSUME RequestsAssumption == Requests \subseteq RequestType
ASSUME TextAssumption ==
    /\ Text \in [Docs -> [labels : SUBSET Labels, pairs : SUBSET (Labels \X Labels)]]
    /\ \A d \in Docs : Text[d].pairs \subseteq Text[d].labels \X Text[d].labels
ASSUME ResolutionsAssumption == Resolutions \subseteq [Labels -> Labels] \cup {None}
ASSUME FaultsAssumption      == Faults \subseteq FaultKinds

VARIABLES
    graph,   \* the row of graphs, or None
    docSt,   \* docSt[d]: not there yet, there, or deleted (an id does not come back)
    req,     \* req[o]: what is asked for (chosen at the start and never changed)
    pc,      \* pc[o]: where the request, or the task it left behind, is
    snap,    \* snap[o]: existing_graph, its copy of the row
    found,   \* found[o]: document_ids, the documents to add
    objs,    \* objs[o]: document_objects, the documents to read
    stale,   \* history: stale[o]: the row was written after o had read it
    muted    \* history: a database error was swallowed, or a stub has no task

vars == <<graph, docSt, req, pc, snap, found, objs, stale, muted>>

Pcs == {"new", "get", "match", "empty", "load", "extract", "write", "raised",
        "failing", "done", "unread", "error", "crashed"}

TypeOK ==
    /\ graph \in Graph \cup {None}
    /\ docSt \in [Docs -> {"new", "here", "gone"}]
    /\ req \in [Ops -> Requests]
    /\ pc \in [Ops -> Pcs]
    /\ snap \in [Ops -> Graph \cup {None}]
    /\ found \in [Ops -> SUBSET Docs]
    /\ objs \in [Ops -> SUBSET Docs]
    /\ stale \in [Ops -> BOOLEAN]
    /\ muted \in BOOLEAN

Init ==
    /\ graph = None
    /\ docSt \in [Docs -> {"new", "here"}]
    /\ req \in [Ops -> Requests]
    /\ pc = [o \in Ops |-> IF req[o].create THEN "new" ELSE "get"]
    /\ snap = [o \in Ops |-> None]
    /\ found = [o \in Ops |-> {}]
    /\ objs = [o \in Ops |-> {}]
    /\ stale = [o \in Ops |-> FALSE]
    /\ muted = FALSE

known        == {d \in Docs : docSt[d] = "here"}
InScope(o)   == IF req[o].scope = None THEN Docs ELSE req[o].scope
AddFilter(o) == IF req[o].create THEN None ELSE req[o].filter

\* A query for documents that fails returns the empty list.
Answers(D) == {D} \cup (IF "db" \in Faults THEN {{}} ELSE {})

Goto(o, to) == pc' = [pc EXCEPT ![o] = to]

\* The request or task ends, or an exception ends its try block: nothing is held.
Forget(o, to) ==
    /\ Goto(o, to)
    /\ snap' = [snap EXCEPT ![o] = None]
    /\ found' = [found EXCEPT ![o] = {}]
    /\ objs' = [objs EXCEPT ![o] = {}]

End(o, to) == Forget(o, to) /\ stale' = [stale EXCEPT ![o] = FALSE]

\* An exception: an error for the client, or for the handler of _build_graph_async.
Handler(o) == IF req[o].create THEN "raised" ELSE "error"
Raise(o)   == End(o, Handler(o))

\* update_graph of the database finds the row by its id and writes every column: the
\* copies that others hold are out of date.
StoreAndForget(o, g, to) ==
    /\ graph' = g
    /\ stale' = [p \in Ops |-> p # o /\ (stale[p] \/ snap[p] # None)]
    /\ Forget(o, to)
-----------------------------------------------------------------------------
(* The steps of create_graph and update_graph.                             *)

\* store_graph with the stub; an owner cannot have two graphs of one name.
Create(o) ==
    /\ pc[o] = "new"
    /\ \/ /\ graph = None
          /\ graph' = [status |-> "processing", docs |-> {}, filter |-> req[o].filter,
                       ents |-> [l \in {} |-> None], rels |-> {}]
          /\ \/ Goto(o, "get") /\ UNCHANGED muted
             \/ "conn" \in Faults /\ Goto(o, "error") /\ muted' = TRUE
       \/ /\ graph # None \/ "db" \in Faults
          /\ Goto(o, "error")
          /\ UNCHANGED <<graph, muted>>
    /\ UNCHANGED <<docSt, req, snap, found, objs, stale>>

\* get_graph: for a scope, a graph with documents appears with those in the scope that
\* still exist, and not at all if there are none.
View(o) ==
    IF graph = None \/ req[o].scope = None \/ graph.docs = {} THEN graph
    ELSE LET in == graph.docs \cap known \cap req[o].scope
         IN  IF in = {} THEN None ELSE [graph EXCEPT !.docs = in]

Views(o) == {View(o)} \cup (IF "db" \in Faults THEN {None} ELSE {})

\* Variant with a fault: whoever asks, the status is not looked at.
Usable(o, g) == g # None
\* The status is checked only here, and only an update waits for a build.
Ready(o, g) == g # None /\ (g.status # "processing" \/ req[o].create)

Get(o) ==
    /\ pc[o] = "get"
    /\ \E g \in Views(o) :
          \/ /\ Ready(o, g)
             /\ snap' = [snap EXCEPT ![o] = g]
             /\ Goto(o, "match")
             /\ UNCHANGED <<found, objs, stale>>
          \/ ~Ready(o, g) /\ Raise(o)
    /\ UNCHANGED <<graph, docSt, req, muted>>

\* _get_new_document_ids: the documents asked for, those that match the additional
\* filters or are in the scope, and those that match the graph's own filters.
MatchedNow(o) ==
    IF AddFilter(o) # None THEN AddFilter(o) \cap known \cap InScope(o)
    ELSE IF req[o].scope # None THEN known \cap InScope(o) ELSE {}

MatchedBefore(o) ==
    IF snap[o].filter # None THEN snap[o].filter \cap known \cap InScope(o) ELSE {}

Match(o) ==
    /\ pc[o] = "match"
    /\ \E A \in Answers(MatchedNow(o)), B \in Answers(MatchedBefore(o)) :
          LET fresh == (req[o].explicit \cup A \cup B) \ snap[o].docs IN
          /\ found' = [found EXCEPT ![o] = fresh]
          /\ Goto(o, IF fresh \cup req[o].explicit = {} THEN "empty" ELSE "load")
    /\ UNCHANGED <<graph, docSt, req, snap, objs, stale, muted>>

\* Variant with a fault: the documents the graph has are left out.
NewDocs(o) == found[o] \cup req[o].explicit

\* all_doc_ids, whether or not the documents can be read.
AllDocs(o) == snap[o].docs \cup found[o] \cup req[o].explicit

\* batch_retrieve_documents, for the documents to add; with additional filters, once
\* more for the others.
Load(o) ==
    LET there(S) == S \cap known \cap InScope(o)
        rest(D)  == IF AddFilter(o) # None THEN AllDocs(o) \ D ELSE {}
    IN
    /\ pc[o] = "load"
    /\ \E A \in Answers(there(found[o] \cup req[o].explicit)) : \E B \in Answers(there(rest(A))) :
          LET D == A \cup B IN
          \/ /\ D # {}
             /\ objs' = [objs EXCEPT ![o] = D]
             /\ Goto(o, "extract")
             /\ UNCHANGED <<snap, found, stale>>
          \/ D = {} /\ End(o, "unread")   \* returns existing_graph as it was read
    /\ UNCHANGED <<graph, docSt, req, muted>>
-----------------------------------------------------------------------------
(* Extraction and merging: pure functions of the copy and of the answers.  *)

Mentioned(got) == UNION {Text[d].labels : d \in got}

\* Without an answer there is no mapping and labels stay as they are.
Canon(m, l) == IF m = None THEN l ELSE m[l]

\* A single label is not put to the resolver.
Resolve(got) == IF Cardinality(Mentioned(got)) > 1 THEN Resolutions
                ELSE {[l \in Labels |-> l]}

CanonLabels(got, m)  == {Canon(m, l) : l \in Mentioned(got)}
Mentioning(got, m, c) == {d \in got : \E l \in Text[d].labels : Canon(m, l) = c}

\* The entity that stands for a label is the first that was extracted for it: origin[c]
\* is the document and the label it comes from, given the order of the chunks.
Orders(got) == {rank \in [got -> 1 .. Cardinality(got)] :
                  \A d, e \in got : rank[d] = rank[e] => d = e}
Origins(got, m) ==
    {origin \in [CanonLabels(got, m) -> got \X Labels] :
       /\ \A c \in CanonLabels(got, m) :
             /\ origin[c][2] \in Text[origin[c][1]].labels
             /\ Canon(m, origin[c][2]) = c
       /\ \E rank \in Orders(got) : \A c \in CanonLabels(got, m) :
             \A d \in Mentioning(got, m, c) : rank[origin[c][1]] <= rank[d]}

NewEntities(o, got, m, origin) ==
    [c \in CanonLabels(got, m) |-> [id |-> <<o, origin[c][1], origin[c][2]>>,
                                    docs |-> Mentioning(got, m, c)]]

\* The documents that relate one canonical label to another.  Without a mapping a
\* relationship keeps the ids it was extracted with, and is passed over unless they
\* are those of the entities kept.
Relating(got, m, origin, p) ==
    {d \in got : \E q \in Text[d].pairs :
        /\ Canon(m, q[1]) = p[1] /\ Canon(m, q[2]) = p[2]
        /\ m = None => origin[q[1]][1] = d /\ origin[q[2]][1] = d}

NewPairs(got, m, origin) ==
    {[from |-> p[1], to |-> p[2], docs |-> Relating(got, m, origin, p)] :
        p \in {p \in CanonLabels(got, m) \X CanonLabels(got, m) :
                 Relating(got, m, origin, p) # {}}}

\* Variant with a fault: the entity extracted last replaces the one the graph has.
NewestEntities(old, new) ==
    [l \in DOMAIN old \cup DOMAIN new |-> IF l \in DOMAIN new THEN new[l] ELSE old[l]]

\* _merge_entities: a label that the graph knows keeps its entity.
MergeEntities(old, new) ==
    [l \in DOMAIN old \cup DOMAIN new |->
        IF l \notin DOMAIN new THEN old[l]
        ELSE IF l \notin DOMAIN old THEN new[l]
        ELSE [old[l] EXCEPT !.docs = @ \cup new[l].docs]]

\* _merge_relationships: ends are found by their labels; a relationship that the graph
\* has already gets the new sources.
Same(r, p, ents) == r.src = ents[p.from].id /\ r.dst = ents[p.to].id

\* Variant with a fault: whether the graph has it is not looked at.
AppendRelations(old, pairs, ents) ==
    old \cup {[src |-> ents[p.from].id, dst |-> ents[p.to].id, docs |-> p.docs] : p \in pairs}

MergeRelations(old, pairs, ents) ==
    {[r EXCEPT !.docs = @ \cup UNION {p.docs : p \in {p \in pairs : Same(r, p, ents)}}] :
        r \in old}
    \cup {[src |-> ents[p.from].id, dst |-> ents[p.to].id, docs |-> p.docs] :
            p \in {p \in pairs : \A r \in old : ~Same(r, p, ents)}}

\* _smart_merge_filters: only for a graph that has filters; what the result matches is
\* anyone's guess (keys are added or overwritten, lists are united).
MergedFilters(o) ==
    IF AddFilter(o) = None \/ snap[o].filter = None THEN {snap[o].filter}
    ELSE SUBSET Docs

\* _process_documents_for_entities and _merge_graph_data, on the copy; a chunk whose
\* extraction fails in an expected way is passed over.
Extract(o) ==
    /\ pc[o] = "extract"
    /\ \E got \in SUBSET objs[o] : \E m \in Resolve(got) :
       \E origin \in Origins(got, m) : \E fl \in MergedFilters(o) :
          LET ents == MergeEntities(snap[o].ents, NewEntities(o, got, m, origin)) IN
          snap' = [snap EXCEPT ![o] =
                     [status |-> "completed",
                      docs   |-> AllDocs(o) \cup objs[o],
                      filter |-> fl,
                      ents   |-> ents,
                      rels   |-> MergeRelations(@.rels, NewPairs(got, m, origin), ents)]]
    /\ Goto(o, "write")
    /\ UNCHANGED <<graph, docSt, req, found, objs, stale, muted>>

\* Any other error of the extraction.
ExtractRaises(o) ==
    /\ "llm" \in Faults
    /\ pc[o] = "extract"
    /\ Raise(o)
    /\ UNCHANGED <<graph, docSt, req, muted>>

\* The copy becomes the row; False is turned into an exception.
Write(o) ==
    /\ pc[o] = "write"
    /\ \/ StoreAndForget(o, snap[o], "done")
       \/ "conn" \in Faults /\ StoreAndForget(o, snap[o], Handler(o))
       \/ "db" \in Faults /\ Raise(o) /\ UNCHANGED graph
    /\ UNCHANGED <<docSt, req, muted>>

\* Variant with a fault: a graph without documents keeps the status it had.
WriteEmptyAsIs(o) ==
    /\ pc[o] = "empty"
    /\ StoreAndForget(o, snap[o], "done")
    /\ UNCHANGED <<docSt, req, muted>>

\* Nothing to add: only the status is changed, and the result is not looked at.
WriteEmpty(o) ==
    /\ pc[o] = "empty"
    /\ \/ /\ StoreAndForget(o, [snap[o] EXCEPT !.status = "completed"], "done")
          /\ UNCHANGED muted
       \/ /\ "db" \in Faults
          /\ End(o, "done")
          /\ muted' = TRUE
          /\ UNCHANGED graph
    /\ UNCHANGED <<docSt, req>>

\* The handler of _build_graph_async reads the graph once more...
HandlerRead(o) ==
    /\ pc[o] = "raised"
    /\ \E g \in Views(o) :
          \/ /\ g # None
             /\ snap' = [snap EXCEPT ![o] = g]
             /\ Goto(o, "failing")
             /\ UNCHANGED <<found, objs, stale, muted>>
          \/ g = None /\ End(o, "done") /\ muted' = (muted \/ View(o) # None)
    /\ UNCHANGED <<graph, docSt, req>>

\* Variant with a fault: a status that no client knows.
HandlerWriteError(o) ==
    /\ pc[o] = "failing"
    /\ StoreAndForget(o, [snap[o] EXCEPT !.status = "error"], "done")
    /\ UNCHANGED <<docSt, req, muted>>

\* ... and writes it back as failed.
HandlerWrite(o) ==
    /\ pc[o] = "failing"
    /\ \/ /\ StoreAndForget(o, [snap[o] EXCEPT !.status = "failed"], "done")
          /\ UNCHANGED muted
       \/ /\ "db" \in Faults
          /\ End(o, "done")
          /\ muted' = TRUE
          /\ UNCHANGED graph
    /\ UNCHANGED <<docSt, req>>
-----------------------------------------------------------------------------
Active(o) == pc[o] \notin {"new", "done", "unread", "error", "crashed"}

\* The server dies with everything it runs.
Crash ==
    /\ "server" \in Faults
    /\ pc' = [o \in Ops |-> IF Active(o) THEN "crashed" ELSE pc[o]]
    /\ snap' = [o \in Ops |-> None]
    /\ found' = [o \in Ops |-> {}]
    /\ objs' = [o \in Ops |-> {}]
    /\ stale' = [o \in Ops |-> FALSE]
    /\ UNCHANGED <<graph, docSt, req, muted>>

\* Documents are ingested and deleted; no graph is told.
Ingest(d) ==
    /\ docSt[d] = "new"
    /\ docSt' = [docSt EXCEPT ![d] = "here"]
    /\ UNCHANGED <<graph, req, pc, snap, found, objs, stale, muted>>

Delete(d) ==
    /\ docSt[d] = "here"
    /\ docSt' = [docSt EXCEPT ![d] = "gone"]
    /\ UNCHANGED <<graph, req, pc, snap, found, objs, stale, muted>>

OpStep(o) ==
    \/ Get(o) \/ Match(o) \/ Load(o) \/ Extract(o) \/ ExtractRaises(o)
    \/ Write(o) \/ WriteEmpty(o) \/ HandlerRead(o) \/ HandlerWrite(o)

Next == \/ \E o \in Ops : Create(o) \/ OpStep(o)
        \/ Crash
        \/ \E d \in Docs : Ingest(d) \/ Delete(d)

Spec == Init /\ [][Next]_vars

\* The event loop of the server runs every request and task it has.
FairSpec == Spec /\ \A o \in Ops : WF_vars(OpStep(o))
-----------------------------------------------------------------------------
(* What holds.                                                             *)

\* Every relationship of the graph joins two of its entities: resolution and merging map
\* every id to the entity that is kept (_merge_relationships).
EndpointsExist ==
    graph # None =>
        LET ids == {graph.ents[l].id : l \in DOMAIN graph.ents}
        IN  \A r \in graph.rels : r.src \in ids /\ r.dst \in ids

\* A relationship is there once, however often documents that state it are added: what the
\* merge finds in the graph gets new sources (an extraction states it once, see Text).
RelationsUnique ==
    graph # None =>
        \A r, s \in graph.rels : r.src = s.src /\ r.dst = s.dst => r = s

\* Unless operations are scoped, what an entity or a relationship says it was found in
\* is a document of the graph (_merge_graph_data keeps both lists).
SourcesAreListed ==
    (graph # None /\ \A o \in Ops : req[o].scope = None) =>
        /\ \A l \in DOMAIN graph.ents : graph.ents[l].docs \subseteq graph.docs
        /\ \A r \in graph.rels : r.docs \subseteq graph.docs

\* Merging a document into the graph adds what is new in it and nothing else
\* (_merge_graph_data).
MergesAreExact == RelationsUnique /\ SourcesAreListed

\* While the graph is being built, no update has a copy of it to write back.
BuildsAlone ==
    (graph # None /\ graph.status = "processing") =>
        \A o \in Ops : snap[o] # None => req[o].create

\* A graph is left "processing" only while its build runs, or after a crash, a swallowed
\* database error, or a build that could read none of the documents it was given.
ProcessingIsExplained ==
    (graph # None /\ graph.status = "processing" /\ ~muted) =>
        \E o \in Ops : req[o].create /\ (Active(o) \/ pc[o] \in {"unread", "crashed"})

\* An operation whose copy is up to date, and not cut down to a scope, only adds to the
\* graph: no document, entity or source is forgotten.
NothingForgotten ==
    [][\A o \in Ops :
         (snap[o] # None /\ pc'[o] # pc[o] /\ ~stale[o] /\ req[o].scope = None) =>
             /\ graph.docs \subseteq graph'.docs
             /\ \A l \in DOMAIN graph.ents :
                   /\ l \in DOMAIN graph'.ents
                   /\ graph'.ents[l].id = graph.ents[l].id
                   /\ graph.ents[l].docs \subseteq graph'.ents[l].docs
             /\ \A r \in graph.rels : \E s \in graph'.rels :
                   s.src = r.src /\ s.dst = r.dst /\ r.docs \subseteq s.docs]_vars
-----------------------------------------------------------------------------
(* What the repository says and the code does not do.                      *)

\* "A background task then fills in entities/relationships and marks the graph as
\* completed" (create_graph): a build ends.
BuildEnds ==
    (graph # None /\ graph.status = "processing")
        ~> (graph # None /\ graph.status # "processing")
=============================================================================

----------------------------- MODULE Retrieval -----------------------------
(***************************************************************************)
(* Retrieval by DocumentService: retrieve_chunks, retrieve_docs, query     *)
(* without a graph, and batch_retrieve_chunks.  A call reads the rows of   *)
(* the documents, then the vector stores, then the rows again, once or     *)
(* twice, each in a session of its own, while documents are stored and     *)
(* deleted: it may find chunks whose document is gone, and documents whose *)
(* file is gone.                                                           *)
(*                                                                         *)
(* The chunks of a document are stored and deleted together.  Which chunks *)
(* are nearest to the question is any choice the limit k allows; it stands *)
(* for the embeddings, the scores and the rerankers.                       *)
(***************************************************************************)
EXTENDS Naturals, FiniteSets

CONSTANTS QDocs,     \* the documents that may be stored
          Queries,   \* the calls
          ChunkNos,  \* the chunk numbers of a document
          TopK,      \* the limit k of a search
          QFaults    \* what may fail: "db", "pages", "files"

ASSUME RetrievalAssumption ==
    /\ IsFiniteSet(QDocs) /\ IsFiniteSet(ChunkNos)
    /\ TopK \in Nat
    /\ QFaults \subseteq {"db", "pages", "files"}

VARIABLES rowState,   \* the row of each document: "none", "stored" or "deleted"
          textStore,  \* the documents with chunks in the pgvector table
          pageStore,  \* the documents with pages in the multi-vector table
          gone,       \* the documents whose file was deleted
          qcall,      \* the calls
          upset       \* the calls during which a row was deleted or a step failed

retrievalVars == <<rowState, textStore, pageStore, gone, qcall, upset>>

QChunk == [doc : QDocs, n : ChunkNos]
QOps   == {"chunks", "docs", "query", "batch"}
QPcs   == {"idle", "search", "results", "urls", "documents", "links", "done", "failed"}
QCall  == [op : QOps \cup {"none"}, pc : QPcs, todo : SUBSET {"text", "pages"},
           scope : SUBSET QDocs, docs : SUBSET QDocs, asked : SUBSET QChunk, due : SUBSET QChunk,
           text : SUBSET QChunk, pages : SUBSET QChunk, known : SUBSET QDocs]

Rows            == {d \in QDocs : rowState[d] = "stored"}
DocsOf(chunks)  == {c.doc : c \in chunks}
ChunksOf(ds)    == {c \in QChunk : c.doc \in ds}
Found(q)        == qcall[q].text \cup qcall[q].pages
Least(a, b)     == IF a < b THEN a ELSE b

-----------------------------------------------------------------------------
(* The documents come and go.                                              *)

StoreRow(d) ==
    /\ rowState[d] = "none"
    /\ rowState' = [rowState EXCEPT ![d] = "stored"]
    /\ UNCHANGED <<textStore, pageStore, gone, qcall, upset>>

StoreChunks(d) ==
    /\ d \in Rows
    /\ \/ d \notin textStore /\ textStore' = textStore \cup {d} /\ UNCHANGED pageStore
       \/ d \notin pageStore /\ pageStore' = pageStore \cup {d} /\ UNCHANGED textStore
    /\ UNCHANGED <<rowState, gone, qcall, upset>>

\* delete_document deletes the row first ...
RemoveRow(d) ==
    /\ d \in Rows
    /\ rowState' = [rowState EXCEPT ![d] = "deleted"]
    /\ upset' = upset \cup {q \in Queries : qcall[q].pc \notin {"idle", "done", "failed"}}
    /\ UNCHANGED <<textStore, pageStore, gone, qcall>>

\* ... then the chunks, the pages and the file; any of them may fail and stay.
RemoveRest(d) ==
    /\ rowState[d] = "deleted"
    /\ \/ d \in textStore /\ textStore' = textStore \ {d} /\ UNCHANGED <<pageStore, gone>>
       \/ d \in pageStore /\ pageStore' = pageStore \ {d} /\ UNCHANGED <<textStore, gone>>
       \/ d \notin gone /\ gone' = gone \cup {d} /\ UNCHANGED <<textStore, pageStore>>
    /\ UNCHANGED <<rowState, qcall, upset>>

DocumentStep == \E d \in QDocs : StoreRow(d) \/ StoreChunks(d) \/ RemoveRow(d) \/ RemoveRest(d)

-----------------------------------------------------------------------------
(* The steps of a call.                                                    *)

\* A read of the documents table: its handler turns an error into no rows.
Reads(q, ds, result) ==
    \/ result = ds /\ UNCHANGED upset
    \/ "db" \in QFaults /\ result = {} /\ upset' = upset \cup {q}

\* The documents of the call's scope are found; without any the answer is empty.
Authorize(q) ==
    /\ qcall[q].pc = "idle"
    /\ \E op \in QOps, colpali \in BOOLEAN, scope \in SUBSET QDocs, asked \in SUBSET QChunk,
          docs \in SUBSET QDocs :
          LET wanted == IF op = "batch" THEN scope \cap DocsOf(asked) ELSE scope
              open   == {d \in wanted : d \in Rows}
          IN /\ op = "batch" <=> asked # {}
             /\ Reads(q, open, docs)
             /\ qcall' = [qcall EXCEPT ![q] =
                   [@ EXCEPT !.op = op, !.scope = scope, !.asked = asked, !.docs = docs,
                             !.due = ChunksOf(open \cap textStore),
                             !.pc = IF docs = {} THEN "done" ELSE "search",
                             !.todo = IF colpali THEN {"text", "pages"} ELSE {"text"}]]
    /\ UNCHANGED <<rowState, textStore, pageStore, gone>>

\* Variant with a fault: the documents do not restrict the search.
NearestAnywhere(q, store) ==
    LET open == ChunksOf(store)
    IN {S \in SUBSET open : Cardinality(S) = Least(TopK, Cardinality(open))}

\* query_similar: the k nearest chunks of the documents.
Nearest(q, store) ==
    LET open == ChunksOf(store \cap qcall[q].docs)
    IN {S \in SUBSET open : Cardinality(S) = Least(TopK, Cardinality(open))}

\* get_chunks_by_id: the chunks asked for, of the documents.
Asked(q, store) == {qcall[q].asked \cap ChunksOf(store \cap qcall[q].docs)}

Hits(q, store) == IF qcall[q].op = "batch" THEN Asked(q, store) ELSE Nearest(q, store)

\* Both stores are searched at once.
After(q, store) == IF qcall[q].todo = {store} THEN "results" ELSE "search"

\* The pgvector store turns an error into no chunks.
SearchText(q) ==
    /\ qcall[q].pc = "search" /\ "text" \in qcall[q].todo
    /\ \/ /\ \E S \in Hits(q, textStore) :
                qcall' = [qcall EXCEPT ![q] =
                   [@ EXCEPT !.text = S, !.todo = qcall[q].todo \ {"text"}, !.pc = After(q, "text")]]
          /\ UNCHANGED upset
       \/ /\ "db" \in QFaults
          /\ qcall' = [qcall EXCEPT ![q] =
                [@ EXCEPT !.todo = qcall[q].todo \ {"text"}, !.pc = After(q, "text")]]
          /\ upset' = upset \cup {q}
    /\ UNCHANGED <<rowState, textStore, pageStore, gone>>

\* The multi-vector store raises; only a batch goes on without its pages.
SearchPages(q) ==
    /\ qcall[q].pc = "search" /\ "pages" \in qcall[q].todo
    /\ \/ /\ \E S \in Hits(q, pageStore) :
                qcall' = [qcall EXCEPT ![q] =
                   [@ EXCEPT !.pages = S, !.todo = qcall[q].todo \ {"pages"}, !.pc = After(q, "pages")]]
          /\ UNCHANGED upset
       \/ /\ "pages" \in QFaults
          /\ qcall' = [qcall EXCEPT ![q] =
                [@ EXCEPT !.todo = qcall[q].todo \ {"pages"},
                          !.pc = IF qcall[q].op = "batch" THEN After(q, "pages") ELSE "failed"]]
          /\ upset' = upset \cup {q}
    /\ UNCHANGED <<rowState, textStore, pageStore, gone>>

\* Of a batch, a page takes the place of the chunk of the same number.
Merged(q) == IF qcall[q].op = "batch" THEN qcall[q].text \ qcall[q].pages ELSE qcall[q].text

\* _create_chunk_results reads the rows of the chunks it was given ...
CreateChunkResults(q) ==
    /\ qcall[q].pc = "results"
    /\ \E known \in SUBSET QDocs :
          /\ IF Found(q) = {} THEN known = {} /\ UNCHANGED upset
                              ELSE Reads(q, DocsOf(Found(q)) \cap Rows, known)
          /\ qcall' = [qcall EXCEPT ![q] = [@ EXCEPT !.known = known, !.text = Merged(q), !.pc = "urls"]]
    /\ UNCHANGED <<rowState, textStore, pageStore, gone>>

\* Local storage has no URL for a file that is gone.
Unreachable(q) == "files" \in QFaults /\ qcall[q].known \cap gone # {}

\* ... makes their download URLs, and leaves out the chunks without a row.
LinkChunks(q) ==
    /\ qcall[q].pc = "urls"
    /\ LET kept == ChunksOf(qcall[q].known)
           rest == IF qcall[q].op \in {"docs", "query"} /\ Found(q) \cap kept # {}
                   THEN "documents" ELSE "done"
       IN qcall' = [qcall EXCEPT ![q] =
             [@ EXCEPT !.text = qcall[q].text \cap kept, !.pages = qcall[q].pages \cap kept,
                       !.pc = IF Unreachable(q) THEN "failed" ELSE rest]]
    /\ UNCHANGED <<rowState, textStore, pageStore, gone, upset>>

\* _create_document_results reads the rows once more ...
CreateDocumentResults(q) ==
    /\ qcall[q].pc = "documents"
    /\ \E known \in SUBSET QDocs :
          /\ Reads(q, DocsOf(Found(q)) \cap Rows, known)
          /\ qcall' = [qcall EXCEPT ![q] = [@ EXCEPT !.known = known, !.pc = "links"]]
    /\ UNCHANGED <<rowState, textStore, pageStore, gone>>

\* ... and makes the URLs of the documents that are not text.  A query then
\* looks up the document of every chunk, and raises KeyError if one is missing.
LinkDocuments(q) ==
    /\ qcall[q].pc = "links"
    /\ \/ Unreachable(q) /\ qcall' = [qcall EXCEPT ![q].pc = "failed"]
       \/ qcall' = [qcall EXCEPT ![q].pc =
             IF qcall[q].op = "query" /\ ~ DocsOf(Found(q)) \subseteq qcall[q].known
             THEN "failed" ELSE "done"]
    /\ UNCHANGED <<rowState, textStore, pageStore, gone, upset>>

-----------------------------------------------------------------------------
RetrievalInit ==
    /\ rowState = [d \in QDocs |-> "none"]
    /\ textStore = {} /\ pageStore = {} /\ gone = {}
    /\ qcall = [q \in Queries |->
          [op |-> "none", pc |-> "idle", todo |-> {}, scope |-> {}, docs |-> {}, asked |-> {},
           due |-> {}, text |-> {}, pages |-> {}, known |-> {}]]
    /\ upset = {}

QueryStep(q) ==
    \/ Authorize(q)          \/ SearchText(q)  \/ SearchPages(q)
    \/ CreateChunkResults(q) \/ LinkChunks(q)
    \/ CreateDocumentResults(q) \/ LinkDocuments(q)

RetrievalNext == DocumentStep \/ \E q \in Queries : QueryStep(q)

RetrievalSpec == RetrievalInit /\ [][RetrievalNext]_retrievalVars

RetrievalTypeOK ==
    /\ rowState \in [QDocs -> {"none", "stored", "deleted"}]
    /\ textStore \subseteq QDocs /\ pageStore \subseteq QDocs /\ gone \subseteq QDocs
    /\ qcall \in [Queries -> QCall]
    /\ upset \subseteq Queries

\* A call during which no row was deleted and no step failed ends without an
\* error, and its answer is full: every stored chunk a batch asked for, or as
\* many chunks as the limit allows of those that were stored when it began.
\* Chunks left behind by deletions, and chunks outside its scope, neither
\* appear nor take the place of others (the doc_ids filter of query_similar,
\* the rows read again by _create_chunk_results).
UndisturbedQueriesAreFull ==
    \A q \in Queries :
        LET c == qcall[q] IN
        /\ DocsOf(Found(q)) \subseteq c.scope
        /\ c.pc \in {"done", "failed"} /\ q \notin upset =>
              /\ c.pc = "done"
              /\ c.op = "batch" => c.asked \cap c.due \subseteq Found(q)
              /\ c.op # "batch" => Cardinality(c.text) >= Least(TopK, Cardinality(c.due))
              /\ c.op \in {"docs", "query"} /\ Found(q) # {} => c.known = DocsOf(Found(q))
=============================================================================

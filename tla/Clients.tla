------------------------------ MODULE Clients ------------------------------
(***************************************************************************)
(* The handles of the Python SDK: a client (Morphik), its folders (Folder) *)
(* and its users (UserScope), each in a synchronous and an asynchronous    *)
(* form.  An operation of a handle turns its scope into a request; the     *)
(* server serves the documents the request matches, as far as the route    *)
(* reads it.  The operations by file name take two requests, one for the   *)
(* id of the document and one for the work.                                *)
(*                                                                         *)
(* A document is its name and the folder and end user it is stored under.  *)
(* What is asked of the documents (query text, filters, ranking) is left   *)
(* to Retrieval, and how one comes to be stored to Ingestion.              *)
(***************************************************************************)

CONSTANTS CDocs,     \* documents
          CCalls,    \* calls of the operations by file name
          CFolders,  \* folder names
          CUsers,    \* end users
          CNames,    \* file names
          Binary,    \* the name bytes are uploaded under
          CGraphs    \* graph names

VARIABLES rows,    \* document -> its row, or NoRow
          named,   \* call -> the operation by file name it makes
          graphs   \* graph name -> its row, or NoRow

clientVars == <<rows, named, graphs>>

NoScope == "none"     \* no folder or no user given
Unnamed == "unnamed"  \* no file name: a text without one, and bytes
NoRow == [name |-> NoScope, folder |-> NoScope, user |-> NoScope]

ASSUME ClientsAssumption ==
    /\ Binary \in CNames
    /\ NoScope \notin CNames \cup CFolders \cup CUsers \cup CCalls

-----------------------------------------------------------------------------
(* The handles.                                                            *)

FolderHandles == [kind: {"folder"}, async: BOOLEAN, folder: CFolders, user: {NoScope}]
UserHandles == [kind: {"user"}, async: BOOLEAN, folder: CFolders \cup {NoScope}, user: CUsers]
RootHandles == [kind: {"root"}, async: BOOLEAN, folder: {NoScope}, user: {NoScope}]

Root == [kind |-> "root", async |-> FALSE, folder |-> NoScope, user |-> NoScope]

\* Anyone with the client's token can have any of them; a folder need not exist.
Handles == RootHandles \cup FolderHandles \cup UserHandles

OwnFolder(h) == {h.folder} \ {NoScope}
OwnUser(h) == {h.user} \ {NoScope}

FolderMerge(h, more) == {h.folder} \cup more

\* Variant with a fault: the folders of the call take the place of the handle's own.
UserMergeInstead(h, more) == IF more = {} THEN OwnFolder(h) ELSE more

UserMerge(h, more) == OwnFolder(h) \cup more

Request(F, U) == [folders |-> F, users |-> U, sent |-> TRUE]
Raised == [folders |-> {}, users |-> {}, sent |-> FALSE]

-----------------------------------------------------------------------------
(* What each class asks the server for, "more" being the additional        *)
(* folders of the call (for the client itself: the folders of the call).   *)

FolderSearch(h, more) == Request(FolderMerge(h, more), {})
FolderListing(h, more) == Request(FolderMerge(h, more), {})

\* The folder of the handle replaces the merged ones.
UserRetrieve(h, more) ==
    Request(IF OwnFolder(h) # {} THEN OwnFolder(h) ELSE UserMerge(h, more), OwnUser(h))
UserQuery(h, more) == Request(UserMerge(h, more), OwnUser(h))
UserListing(h, more) == Request(UserMerge(h, more), OwnUser(h))
\* The user is not sent.
UserChunks(h, more) == Request(UserMerge(h, more), {})

RootRetrieve(more) == Request(more, {})
RootQuery(more) == Request(more, {})
RootList(more) == Request(more, {})
\* Without folders a bare list is sent, and the route takes an object only.
RootDocs(more) == IF more = {} THEN Raised ELSE Request(more, {})
RootChunks(more) == Request(more, {})

AsyncFolderSearch(h, more) == Request(FolderMerge(h, more), {})
AsyncFolderListing(h, more) == Request(FolderMerge(h, more), {})
\* AsyncUserScope has no _merge_folders.
AsyncUserSearch(h, more) == Raised
AsyncUserList(h, more) == Request(more, OwnUser(h))
AsyncUserBatch(h, more) == Request(OwnFolder(h), OwnUser(h))
AsyncRootRetrieve(more) == Request(more, {})
AsyncRootQuery(more) == Request(more, {})
AsyncRootList(more) == Request(more, {})
AsyncRootDocs(more) == Request(more, {})
AsyncRootChunks(more) == Request(more, {})

ReadOps == {"retrieve", "query", "list", "docs", "chunks"}

SyncAsk(h, op, more) ==
    CASE h.kind = "folder" /\ op \in {"retrieve", "query"} -> FolderSearch(h, more)
      [] h.kind = "folder" /\ op \in {"list", "docs", "chunks"} -> FolderListing(h, more)
      [] h.kind = "user" /\ op = "retrieve" -> UserRetrieve(h, more)
      [] h.kind = "user" /\ op = "query" -> UserQuery(h, more)
      [] h.kind = "user" /\ op \in {"list", "docs"} -> UserListing(h, more)
      [] h.kind = "user" /\ op = "chunks" -> UserChunks(h, more)
      [] h.kind = "root" /\ op = "retrieve" -> RootRetrieve(more)
      [] h.kind = "root" /\ op = "query" -> RootQuery(more)
      [] h.kind = "root" /\ op = "list" -> RootList(more)
      [] h.kind = "root" /\ op = "docs" -> RootDocs(more)
      [] h.kind = "root" /\ op = "chunks" -> RootChunks(more)

AsyncAsk(h, op, more) ==
    CASE h.kind = "folder" /\ op \in {"retrieve", "query"} -> AsyncFolderSearch(h, more)
      [] h.kind = "folder" /\ op \in {"list", "docs", "chunks"} -> AsyncFolderListing(h, more)
      [] h.kind = "user" /\ op \in {"retrieve", "query"} -> AsyncUserSearch(h, more)
      [] h.kind = "user" /\ op = "list" -> AsyncUserList(h, more)
      [] h.kind = "user" /\ op \in {"docs", "chunks"} -> AsyncUserBatch(h, more)
      [] h.kind = "root" /\ op = "retrieve" -> AsyncRootRetrieve(more)
      [] h.kind = "root" /\ op = "query" -> AsyncRootQuery(more)
      [] h.kind = "root" /\ op = "list" -> AsyncRootList(more)
      [] h.kind = "root" /\ op = "docs" -> AsyncRootDocs(more)
      [] h.kind = "root" /\ op = "chunks" -> AsyncRootChunks(more)

Ask(h, op, more) == IF h.async THEN AsyncAsk(h, op, more) ELSE SyncAsk(h, op, more)

-----------------------------------------------------------------------------
(* What the server makes of a request.                                     *)

Stored == {d \in CDocs : rows[d] # NoRow}

\* Any of the values of a key, and every key; no value, no condition.
Matches(r, F, U) == /\ F # {} => r.folder \in F
                    /\ U # {} => r.user \in U

Documents(F, U) == {d \in Stored : Matches(rows[d], F, U)}
DocumentsById(F, U) == {d \in Stored : Matches(rows[d], F, U)}   \* of all ids

Retrieved(a) == Documents(a.folders, a.users)
Queried(a) == Documents(a.folders, a.users)
\* folder_name is read from the body, and the SDK sends it in the query string.
Listed(a) == Documents({}, a.users)
DocsById(a) == DocumentsById(a.folders, a.users)
\* Chunks are served for the documents that the ids are authorised for.
ChunksById(a) == DocumentsById(a.folders, a.users)

\* The documents served to a request for an operation.
Served(op, a) ==
    CASE ~a.sent -> {}
      [] op = "retrieve" -> Retrieved(a)
      [] op = "query" -> Queried(a)
      [] op = "list" -> Listed(a)
      [] op = "docs" -> DocsById(a)
      [] op = "chunks" -> ChunksById(a)

\* The lookup by file name; the folder is not read here either.
Bearers(n, U) == {d \in Stored : rows[d].name = n /\ Matches(rows[d], {}, U)}

\* A second match makes the query fail, and the answer is that there is none.
ByName(n, U) == {d \in Bearers(n, U) : Bearers(n, U) = {d}}

-----------------------------------------------------------------------------
(* Ingestion through a handle: a file is its own name, or Unnamed.         *)

\* The name a single file goes under; Unnamed stands for the ValueError.
UploadName(f, given) == IF given # Unnamed THEN given ELSE f
\* The name one of several goes under.
UploadNames(f) == IF f = Unnamed THEN Binary ELSE f

FolderRow(h, n) == [name |-> n, folder |-> h.folder, user |-> NoScope]
UserRow(h, n) == [name |-> n, folder |-> h.folder, user |-> h.user]
UserRows(h, n) == [name |-> n, folder |-> h.folder, user |-> h.user]
RootRow(n) == [name |-> n, folder |-> NoScope, user |-> NoScope]
RootRows(n) == [name |-> n, folder |-> NoScope, user |-> NoScope]

RowBy(h, n) == CASE h.kind = "folder" -> FolderRow(h, n)
                 [] h.kind = "user" -> UserRow(h, n)
                 [] h.kind = "root" -> RootRow(n)

RowsBy(h, n) == CASE h.kind = "folder" -> FolderRow(h, n)
                  [] h.kind = "user" -> UserRows(h, n)
                  [] h.kind = "root" -> RootRows(n)

\* The id of a document is never given out again.
New(d) == d \notin Stored /\ \A c \in CCalls : d \notin named[c].id

IngestText(h, d, given) ==
    /\ New(d)
    /\ rows' = [rows EXCEPT ![d] = RowBy(h, given)]
    /\ UNCHANGED <<named, graphs>>

IngestFile(h, d, f, given) ==
    /\ UploadName(f, given) # Unnamed
    /\ IngestText(h, d, UploadName(f, given))

\* ingest_files and ingest_directory; D are the new documents, F their files.
IngestFiles(h, D, F) ==
    /\ D # {} /\ \A d \in D : New(d)
    /\ rows' = [d \in CDocs |-> IF d \in D THEN RowsBy(h, UploadNames(F[d])) ELSE rows[d]]
    /\ UNCHANGED <<named, graphs>>

-----------------------------------------------------------------------------
(* The operations by file name.                                            *)

\* "by" is the handle of the call, "id" what its lookup found; "renamed" remembers that
\* another call has renamed that document since.
Idle == [pc |-> "idle", op |-> "-", by |-> Root, name |-> NoScope, new |-> NoScope,
         id |-> {}, renamed |-> FALSE]

FolderLookup(h) == Request({h.folder}, {})

\* Variant with a fault: the user is not sent, as with the chunks of a user.
UserLookupOfAll(h) == Request(OwnFolder(h), {})

UserLookup(h) == Request(OwnFolder(h), OwnUser(h))
RootLookup(h) == Request({}, {})

LookupBy(h) == CASE h.kind = "folder" -> FolderLookup(h)
                 [] h.kind = "user" -> UserLookup(h)
                 [] h.kind = "root" -> RootLookup(h)

Lookup(c, h, op, n, m) ==
    LET found == ByName(n, LookupBy(h).users)
    IN  /\ named[c].pc = "idle"
        /\ named' = [named EXCEPT ![c] =
                        IF found = {} THEN [Idle EXCEPT !.pc = "failed"]
                        ELSE [pc |-> "looked", op |-> op, by |-> h, name |-> n, new |-> m,
                              id |-> found, renamed |-> FALSE]]
        /\ UNCHANGED <<rows, graphs>>

Ended(c, pc) == [named EXCEPT ![c] = [Idle EXCEPT !.pc = pc]]

DeleteByName(c) ==
    /\ named[c].pc = "looked" /\ named[c].op = "delete"
    /\ named[c].id \subseteq Stored
    /\ rows' = [d \in CDocs |-> IF d \in named[c].id THEN NoRow ELSE rows[d]]
    /\ named' = Ended(c, "ok")
    /\ UNCHANGED graphs

\* Variant with a fault: a name that is not given erases the old one.
RenamedOrErased(r, n) == [r EXCEPT !.name = IF n = r.name THEN NoScope ELSE n]

\* An update of text or metadata takes the new name if one is given, one from a
\* file takes the name of the file otherwise: the model has it in "new".
Renamed(r, n) == [r EXCEPT !.name = n]

UpdateByName(c) ==
    /\ named[c].pc = "looked" /\ named[c].op = "update"
    /\ named[c].id \subseteq Stored
    /\ rows' = [d \in CDocs |-> IF d \in named[c].id
                                THEN Renamed(rows[d], named[c].new) ELSE rows[d]]
    /\ named' = [e \in CCalls |->
                    IF e # c /\ named[e].id \cap named[c].id # {}
                    THEN [named[e] EXCEPT !.renamed = TRUE] ELSE Ended(c, "ok")[e]]
    /\ UNCHANGED graphs

\* The document is gone by the time of the second request.
GoneByName(c) ==
    /\ named[c].pc = "looked" /\ ~(named[c].id \subseteq Stored)
    /\ named' = Ended(c, "failed")
    /\ UNCHANGED <<rows, graphs>>

\* delete_document with an id.
DeleteById(d) ==
    /\ d \in Stored
    /\ rows' = [rows EXCEPT ![d] = NoRow]
    /\ UNCHANGED <<named, graphs>>

-----------------------------------------------------------------------------
(* Graphs.                                                                 *)

FolderGraph(h) == Request({h.folder}, {})
UserGraph(h) == Request(OwnFolder(h), OwnUser(h))
RootGraph(h) == Request({}, {})

GraphRequest(h) == CASE h.kind = "folder" -> FolderGraph(h)
                     [] h.kind = "user" -> UserGraph(h)
                     [] h.kind = "root" -> RootGraph(h)

Of(S) == IF S = {} THEN NoScope ELSE CHOOSE x \in S : TRUE

\* The stub of the server.  Names are unique for their owner, whatever the folder.
\* (The handles of folders and users raise when they read the answer: the graph is
\* there all the same.)
CreateGraph(h, g) ==
    LET a == GraphRequest(h)
    IN  /\ graphs[g] = NoRow
        /\ graphs' = [graphs EXCEPT ![g] =
                        [name |-> g, folder |-> Of(a.folders), user |-> Of(a.users)]]
        /\ UNCHANGED <<rows, named>>

\* The graphs that an update through the handle reaches.
Updatable(h) == LET a == GraphRequest(h)
                IN  {g \in CGraphs : graphs[g] # NoRow /\ Matches(graphs[g], a.folders, a.users)}

-----------------------------------------------------------------------------

ClientsInit ==
    /\ rows = [d \in CDocs |-> NoRow]
    /\ named = [c \in CCalls |-> Idle]
    /\ graphs = [g \in CGraphs |-> NoRow]

IngestStep ==
    \E h \in Handles : h.async = FALSE /\
        \/ \E d \in CDocs, given \in CNames \cup {Unnamed} : IngestText(h, d, given)
        \/ \E d \in CDocs, f, given \in CNames \cup {Unnamed} : IngestFile(h, d, f, given)
        \/ \E D \in SUBSET CDocs : \E F \in [D -> CNames \cup {Unnamed}] : IngestFiles(h, D, F)

LookupStep ==
    \E c \in CCalls, h \in Handles, n, m \in CNames :
        \/ h.async = FALSE /\ Lookup(c, h, "delete", n, n)
        \/ h.async = FALSE /\ h.kind = "root" /\ Lookup(c, h, "update", n, m)

ClientsNext ==
    \/ IngestStep
    \/ LookupStep
    \/ \E c \in CCalls : DeleteByName(c) \/ UpdateByName(c) \/ GoneByName(c)
    \/ \E d \in CDocs : DeleteById(d)

GraphClientsNext == \E h \in Handles, g \in CGraphs : CreateGraph(h, g)

ClientsSpec == ClientsInit /\ [][ClientsNext \/ GraphClientsNext]_clientVars

-----------------------------------------------------------------------------

ClientsTypeOK ==
    /\ rows \in [CDocs -> [name: CNames \cup {Unnamed}, folder: CFolders \cup {NoScope},
                           user: CUsers \cup {NoScope}] \cup {NoRow}]
    /\ \A c \in CCalls : /\ named[c].pc \in {"idle", "looked", "ok", "failed"}
                         /\ named[c].id \subseteq CDocs /\ named[c].by \in Handles
    /\ \A g \in CGraphs : graphs[g] = NoRow \/ graphs[g].name = g

\* What a handle and the additional folders of a call confine it to.
InScope(h, more, r) == /\ (OwnFolder(h) \cup more # {}) => r.folder \in OwnFolder(h) \cup more
                       /\ (h.user # NoScope) => r.user = h.user

\* The reads that are served documents from outside, as the source has them: a list
\* with a folder, the chunks of a synchronous UserScope, and what an asynchronous one
\* without a folder of its own reads in the folders of a call.
Wide(h, op, more) == \/ op = "list" /\ OwnFolder(h) \cup more # {}
                     \/ op = "chunks" /\ h.kind = "user" /\ ~h.async
                     \/ /\ op \in {"docs", "chunks"} /\ h.kind = "user" /\ h.async
                        /\ OwnFolder(h) = {} /\ more # {}

\* The reads that leave out the additional folders.
Narrow(h, op, more) ==
    /\ h.kind = "user" /\ OwnFolder(h) # {} /\ ~(more \subseteq OwnFolder(h))
    /\ (~h.async /\ op = "retrieve") \/ (h.async /\ op \in {"docs", "chunks"})

\* Every read of every handle is served the documents of its scope and no others,
\* whichever handles stored them; the exceptions are the ones named above.  An update
\* of a graph reaches a graph of its scope only.
ScopesHold ==
    /\ \A d \in Stored : \A h \in Handles, op \in ReadOps, more \in SUBSET CFolders :
          LET a == Ask(h, op, more)
          IN  a.sent =>
                /\ Wide(h, op, more) \/ (d \in Served(op, a) => InScope(h, more, rows[d]))
                /\ Narrow(h, op, more) \/ (InScope(h, more, rows[d]) => d \in Served(op, a))
    /\ \A g \in CGraphs : graphs[g] # NoRow =>
          \A h \in Handles : g \in Updatable(h) => InScope(h, {}, graphs[g])

OfUser(h, r) == h.user # NoScope => r.user = h.user

DeletedByName(c) == named[c].pc = "looked" /\ named[c].op = "delete" /\ named'[c].pc = "ok"

\* A delete by file name takes one document and touches no other: one of the user of
\* the handle, if it is the handle of a user, that bears the name, unless another call
\* has renamed it between the two requests of this one.  The folder of the handle is not
\* part of it, for it never gets to the lookup (Bearers).
NameDeletesTakeTheNamed ==
    [][\A c \in CCalls : DeletedByName(c) =>
          \E d \in Stored : /\ OfUser(named[c].by, rows[d])
                            /\ (rows[d].name = named[c].name \/ named[c].renamed)
                            /\ rows' = [rows EXCEPT ![d] = NoRow]]_clientVars
=============================================================================

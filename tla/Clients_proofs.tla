--------------------------- MODULE Clients_proofs ---------------------------
(***************************************************************************)
(* Machine-checked theorems about Clients, for any documents, names,       *)
(* folders, users and calls, about Batches, for any number of batches, any *)
(* size of a batch and any faults, and about Caches, for any documents,    *)
(* calls and faults.                                                       *)
(***************************************************************************)
EXTENDS Clients, Batches, Caches, FiniteSetTheorems, TLAPS

-----------------------------------------------------------------------------
(* Clients.                                                                *)

-----------------------------------------------------------------------------
(* What each kind of handle asks for.                                      *)

LEMMA FolderAsks ==
    ASSUME NEW h \in FolderHandles, NEW op \in ReadOps, NEW more
    PROVE  Ask(h, op, more) = Request(OwnFolder(h) \cup more, {})
<1>1. h.kind = "folder" /\ OwnFolder(h) = {h.folder}
  BY ClientsAssumption DEF FolderHandles, OwnFolder
<1>2. op \in {"retrieve", "query"} \/ op \in {"list", "docs", "chunks"}
  BY DEF ReadOps
<1> QED
  BY <1>1, <1>2 DEF Ask, SyncAsk, AsyncAsk, FolderSearch, FolderListing, AsyncFolderSearch,
                    AsyncFolderListing, FolderMerge

LEMMA RootAsks ==
    ASSUME NEW h \in RootHandles, NEW op \in ReadOps, NEW more, Ask(h, op, more).sent
    PROVE  Ask(h, op, more) = Request(more, {})
<1>1. h.kind = "root"
  BY DEF RootHandles
<1>2. op \in {"retrieve", "query", "list", "docs", "chunks"}
  BY DEF ReadOps
<1> QED
  BY <1>1, <1>2 DEF Ask, SyncAsk, AsyncAsk, RootRetrieve, RootQuery, RootList, RootDocs, RootChunks,
                    AsyncRootRetrieve, AsyncRootQuery, AsyncRootList, AsyncRootDocs, AsyncRootChunks,
                    Raised, Request

LEMMA UserOf ==
    ASSUME NEW h \in UserHandles
    PROVE  h.kind = "user" /\ h.user # NoScope /\ OwnUser(h) = {h.user}
BY ClientsAssumption DEF UserHandles, OwnUser

LEMMA SyncUserAsks ==
    ASSUME NEW h \in UserHandles, ~h.async, NEW op \in ReadOps, NEW more
    PROVE  Ask(h, op, more) =
             CASE op = "retrieve" -> Request(IF OwnFolder(h) # {} THEN OwnFolder(h) ELSE more, OwnUser(h))
               [] op \in {"query", "list", "docs"} -> Request(OwnFolder(h) \cup more, OwnUser(h))
               [] op = "chunks" -> Request(OwnFolder(h) \cup more, {})
<1>1. h.kind = "user"
  BY UserOf
<1>2. CASE op = "retrieve"
  <2>1. Ask(h, op, more) = UserRetrieve(h, more)
    BY <1>1, <1>2 DEF Ask, SyncAsk
  <2>2. OwnFolder(h) = {} => OwnFolder(h) \cup more = more
    OBVIOUS
  <2> QED
    BY <1>2, <2>1, <2>2 DEF UserRetrieve, UserMerge
<1>3. CASE op \in {"query", "list", "docs"}
  BY <1>1, <1>3 DEF Ask, SyncAsk, UserQuery, UserListing, UserMerge
<1>4. CASE op = "chunks"
  BY <1>1, <1>4 DEF Ask, SyncAsk, UserChunks, UserMerge
<1> QED
  BY <1>2, <1>3, <1>4 DEF ReadOps

LEMMA AsyncUserAsks ==
    ASSUME NEW h \in UserHandles, h.async, NEW op \in ReadOps, NEW more
    PROVE  Ask(h, op, more) =
             CASE op \in {"retrieve", "query"} -> Raised
               [] op = "list" -> Request(more, OwnUser(h))
               [] op \in {"docs", "chunks"} -> Request(OwnFolder(h), OwnUser(h))
<1>1. h.kind = "user"
  BY UserOf
<1>2. CASE op \in {"retrieve", "query"}
  BY <1>1, <1>2 DEF Ask, AsyncAsk, AsyncUserSearch
<1>3. CASE op = "list"
  BY <1>1, <1>3 DEF Ask, AsyncAsk, AsyncUserList
<1>4. CASE op \in {"docs", "chunks"}
  BY <1>1, <1>4 DEF Ask, AsyncAsk, AsyncUserBatch
<1> QED
  BY <1>2, <1>3, <1>4 DEF ReadOps

\* The routes read the user of a request, and all but the list its folders.
LEMMA ServedIs ==
    ASSUME NEW d \in Stored, NEW op \in ReadOps, NEW a, a.sent
    PROVE  d \in Served(op, a) <=>
              Matches(rows[d], IF op = "list" THEN {} ELSE a.folders, a.users)
<1>1. CASE op = "list"
  BY <1>1 DEF Served, Listed, Documents, Stored
<1>2. CASE op \in {"retrieve", "query"}
  BY <1>2 DEF Served, Retrieved, Queried, Documents, Stored
<1>3. CASE op \in {"docs", "chunks"}
  BY <1>3 DEF Served, DocsById, ChunksById, DocumentsById, Stored
<1> QED
  BY <1>1, <1>2, <1>3 DEF ReadOps

-----------------------------------------------------------------------------
(* Scopes.                                                                 *)

LEMMA ReadsHold ==
    ASSUME NEW d \in Stored, NEW h \in Handles, NEW op \in ReadOps, NEW more \in SUBSET CFolders,
           Ask(h, op, more).sent
    PROVE  /\ Wide(h, op, more) \/ (d \in Served(op, Ask(h, op, more)) => InScope(h, more, rows[d]))
           /\ Narrow(h, op, more) \/ (InScope(h, more, rows[d]) => d \in Served(op, Ask(h, op, more)))
<1> DEFINE a == Ask(h, op, more)
           r == rows[d]
<1> SUFFICES /\ Wide(h, op, more) \/ (d \in Served(op, a) => InScope(h, more, r))
             /\ Narrow(h, op, more) \/ (InScope(h, more, r) => d \in Served(op, a))
  OBVIOUS
<1>1. d \in Served(op, a) <=> Matches(r, IF op = "list" THEN {} ELSE a.folders, a.users)
  BY ServedIs
<1>2. CASE h \in FolderHandles
  <2>1. a.folders = OwnFolder(h) \cup more /\ a.users = {} /\ h.user = NoScope /\ OwnFolder(h) # {}
    BY <1>2, FolderAsks, ClientsAssumption DEF Request, FolderHandles, OwnFolder
  <2> HIDE DEF a, r
  <2> QED
    BY <1>1, <2>1 DEF Wide, Narrow, Matches, InScope, FolderHandles
<1>3. CASE h \in RootHandles
  <2>1. a.folders = more /\ a.users = {} /\ h.user = NoScope /\ OwnFolder(h) = {}
    BY <1>3, RootAsks DEF Request, RootHandles, OwnFolder
  <2> HIDE DEF a, r
  <2> QED
    BY <1>1, <2>1 DEF Wide, Narrow, Matches, InScope
<1>4. CASE h \in UserHandles
  <2>1. h.kind = "user" /\ h.user # NoScope /\ OwnUser(h) = {h.user} /\ h.async \in BOOLEAN
    BY <1>4, UserOf DEF UserHandles
  <2>2. CASE ~h.async
    <3>1. CASE op = "retrieve"
      <4>1. a.folders = (IF OwnFolder(h) # {} THEN OwnFolder(h) ELSE more) /\ a.users = {h.user}
        BY <1>4, <2>1, <2>2, <3>1, SyncUserAsks DEF Request
      <4>2. OwnFolder(h) = {} \/ OwnFolder(h) = {h.folder}
        BY DEF OwnFolder
      <4> HIDE DEF a, r
      <4> QED
        BY <1>1, <2>1, <2>2, <3>1, <4>1, <4>2 DEF Wide, Narrow, Matches, InScope
    <3>2. CASE op \in {"query", "list", "docs"}
      <4>1. a.folders = OwnFolder(h) \cup more /\ a.users = {h.user}
        BY <1>4, <2>1, <2>2, <3>2, SyncUserAsks DEF Request
      <4> HIDE DEF a, r
      <4> QED
        BY <1>1, <2>1, <2>2, <3>2, <4>1 DEF Wide, Narrow, Matches, InScope
    <3>3. CASE op = "chunks"
      <4>1. a.folders = OwnFolder(h) \cup more /\ a.users = {}
        BY <1>4, <2>1, <2>2, <3>3, SyncUserAsks DEF Request
      <4> HIDE DEF a, r
      <4> QED
        BY <1>1, <2>1, <2>2, <3>3, <4>1 DEF Wide, Narrow, Matches, InScope
    <3> QED
      BY <3>1, <3>2, <3>3 DEF ReadOps
  <2>3. CASE h.async
    <3>1. CASE op \in {"retrieve", "query"}
      BY <1>4, <2>3, <3>1, AsyncUserAsks DEF Raised
    <3>2. CASE op = "list"
      <4>1. a.folders = more /\ a.users = {h.user}
        BY <1>4, <2>1, <2>3, <3>2, AsyncUserAsks DEF Request
      <4> HIDE DEF a, r
      <4> QED
        BY <1>1, <2>1, <2>3, <3>2, <4>1 DEF Wide, Narrow, Matches, InScope
    <3>3. CASE op \in {"docs", "chunks"}
      <4>1. a.folders = OwnFolder(h) /\ a.users = {h.user}
        BY <1>4, <2>1, <2>3, <3>3, AsyncUserAsks DEF Request
      <4>2. OwnFolder(h) = {} \/ OwnFolder(h) = {h.folder}
        BY DEF OwnFolder
      <4> HIDE DEF a, r
      <4> QED
        BY <1>1, <2>1, <2>3, <3>3, <4>1, <4>2 DEF Wide, Narrow, Matches, InScope
    <3> QED
      BY <3>1, <3>2, <3>3 DEF ReadOps
  <2> QED
    BY <2>1, <2>2, <2>3
<1> QED
  BY <1>2, <1>3, <1>4 DEF Handles

LEMMA UpdatesHold ==
    ASSUME NEW g \in CGraphs, NEW h \in Handles, g \in Updatable(h)
    PROVE  InScope(h, {}, graphs[g])
<1> DEFINE a == GraphRequest(h)
<1>1. Matches(graphs[g], a.folders, a.users)
  BY DEF Updatable
<1>2. a.folders = OwnFolder(h) /\ a.users = OwnUser(h)
  <2>1. CASE h \in FolderHandles
    BY <2>1, ClientsAssumption DEF FolderHandles, GraphRequest, FolderGraph, Request, OwnFolder, OwnUser
  <2>2. CASE h \in RootHandles
    BY <2>2 DEF RootHandles, GraphRequest, RootGraph, Request, OwnFolder, OwnUser
  <2>3. CASE h \in UserHandles
    BY <2>3 DEF UserHandles, GraphRequest, UserGraph, Request
  <2> QED
    BY <2>1, <2>2, <2>3 DEF Handles
<1> HIDE DEF a
<1> QED
  BY <1>1, <1>2 DEF Matches, InScope, OwnUser

\* For any folders and users, and whatever is stored, every read of every handle
\* is served the documents of its scope, but for the named exceptions, and an
\* update of a graph reaches graphs of its scope (the scope methods of Folder,
\* UserScope, Morphik and their asynchronous forms).
THEOREM ScopesAlwaysHold == ClientsSpec => []ScopesHold
<1>1. ScopesHold
  BY ReadsHold, UpdatesHold DEF ScopesHold
<1> QED
  BY <1>1, PTL

-----------------------------------------------------------------------------
(* Deletes by file name.                                                   *)

Row == [name: CNames \cup {Unnamed}, folder: CFolders \cup {NoScope}, user: CUsers \cup {NoScope}]

HandleCall == [pc: {"idle", "looked", "ok", "failed"}, op: {"-", "delete", "update"},
         by: Handles, name: CNames \cup {NoScope}, new: CNames \cup {NoScope},
         id: SUBSET CDocs, renamed: BOOLEAN]

\* A call that holds an id holds one.  As long as the document is there it is one of
\* the user of the handle (its user never changes), and bears the name until another
\* call renames it.
Looked(c) ==
    named[c].pc = "looked" =>
        /\ \E d \in CDocs : named[c].id = {d}
        /\ named[c].new \in CNames
        /\ \A d \in named[c].id : rows[d] # NoRow =>
              /\ OfUser(named[c].by, rows[d])
              /\ rows[d].name = named[c].name \/ named[c].renamed

CallsInv ==
    /\ rows \in [CDocs -> Row \cup {NoRow}]
    /\ named \in [CCalls -> HandleCall]
    /\ graphs = [g \in CGraphs |-> graphs[g]]
    /\ \A g \in CGraphs : graphs[g] = NoRow \/ graphs[g].name = g
    /\ \A c \in CCalls : Looked(c)

\* What a step has to keep of a call that holds an id.
LEMMA StillLooked ==
    ASSUME NEW c \in CCalls, Looked(c),
           /\ named'[c].pc = named[c].pc /\ named'[c].name = named[c].name
           /\ named'[c].new = named[c].new /\ named'[c].id = named[c].id
           /\ named'[c].by = named[c].by,
           named[c].renamed => named'[c].renamed,
           \A d \in named[c].id : rows'[d] # NoRow =>
              /\ rows[d] # NoRow /\ rows'[d].user = rows[d].user
              /\ rows'[d].name = rows[d].name \/ named'[c].renamed
    PROVE  Looked(c)'
BY DEF Looked, OfUser

LEMMA RowsOfHandles ==
    ASSUME NEW h \in Handles, NEW n \in CNames \cup {Unnamed}
    PROVE  RowBy(h, n) \in Row /\ RowsBy(h, n) \in Row
<1>1. CASE h \in FolderHandles
  BY <1>1 DEF FolderHandles, RowBy, RowsBy, FolderRow, Row
<1>2. CASE h \in UserHandles
  <2>1. UserRow(h, n) \in Row /\ UserRows(h, n) \in Row
    BY <1>2 DEF UserHandles, UserRow, UserRows, Row
  <2> QED
    BY <1>2, <2>1 DEF UserHandles, RowBy, RowsBy
<1>3. CASE h \in RootHandles
  <2>1. RootRow(n) \in Row
    BY DEF RootRow, Row
  <2>2. RootRows(n) \in Row
    BY DEF RootRows, Row
  <2> QED
    BY <1>3, <2>1, <2>2 DEF RootHandles, RowBy, RowsBy
<1> QED
  BY <1>1, <1>2, <1>3 DEF Handles

LEMMA IdleIsACall == Idle \in HandleCall
<1>1. Root \in Handles
  BY DEF Root, Handles, RootHandles
<1> QED
  BY <1>1 DEF Idle, HandleCall

LEMMA IngestKeeps ==
    ASSUME CallsInv, NEW D \in SUBSET CDocs, \A d \in D : New(d),
           rows' \in [CDocs -> Row \cup {NoRow}], \A d \in CDocs \ D : rows'[d] = rows[d],
           UNCHANGED named, UNCHANGED graphs
    PROVE  CallsInv'
<1>1. \A c \in CCalls : Looked(c)'
  <2> SUFFICES ASSUME NEW c \in CCalls PROVE Looked(c)'
    OBVIOUS
  <2>1. \A d \in named[c].id : d \in CDocs \ D
    BY DEF CallsInv, New, HandleCall
  <2> QED
    BY <2>1, StillLooked DEF CallsInv
<1>2. (named \in [CCalls -> HandleCall])'
  BY DEF CallsInv
<1> QED
  BY <1>1, <1>2 DEF CallsInv

LEMMA IngestStepKeeps ==
    ASSUME CallsInv, IngestStep
    PROVE  CallsInv'
<1>1. ASSUME NEW h \in Handles, NEW d \in CDocs, NEW given \in CNames \cup {Unnamed},
             IngestText(h, d, given)
      PROVE  CallsInv'
  <2>1. /\ \A e \in {d} : New(e)
        /\ rows' \in [CDocs -> Row \cup {NoRow}] /\ \A e \in CDocs \ {d} : rows'[e] = rows[e]
    BY <1>1, RowsOfHandles DEF IngestText, CallsInv
  <2>2. UNCHANGED named /\ UNCHANGED graphs
    BY <1>1 DEF IngestText
  <2>3. {d} \in SUBSET CDocs
    OBVIOUS
  <2> QED
    BY <2>1, <2>2, <2>3, IngestKeeps
<1>2. ASSUME NEW h \in Handles, NEW d \in CDocs, NEW f \in CNames \cup {Unnamed},
             NEW given \in CNames \cup {Unnamed}, IngestFile(h, d, f, given)
      PROVE  CallsInv'
  <2>1. UploadName(f, given) \in CNames \cup {Unnamed}
    BY DEF UploadName
  <2>2. IngestText(h, d, UploadName(f, given))
    BY <1>2 DEF IngestFile
  <2> HIDE DEF IngestText
  <2> QED
    BY <1>1, <2>1, <2>2
<1>3. ASSUME NEW h \in Handles, NEW D \in SUBSET CDocs, NEW F \in [D -> CNames \cup {Unnamed}],
             IngestFiles(h, D, F)
      PROVE  CallsInv'
  <2>1. \A d \in D : UploadNames(F[d]) \in CNames \cup {Unnamed}
    BY ClientsAssumption DEF UploadNames
  <2>2. \A d \in D : RowsBy(h, UploadNames(F[d])) \in Row
    BY <2>1, RowsOfHandles
  <2>3. /\ rows' \in [CDocs -> Row \cup {NoRow}] /\ \A d \in CDocs \ D : rows'[d] = rows[d]
    BY <1>3, <2>2 DEF IngestFiles, CallsInv
  <2>4. (\A d \in D : New(d)) /\ UNCHANGED named /\ UNCHANGED graphs
    BY <1>3 DEF IngestFiles
  <2> QED
    BY <2>3, <2>4, IngestKeeps
<1> QED
  BY <1>1, <1>2, <1>3 DEF IngestStep

\* The lookup finds the documents of the handle's user (LookupBy, Bearers).
LEMMA FoundAreOfUser ==
    ASSUME NEW h \in Handles, NEW n, NEW d \in Bearers(n, LookupBy(h).users)
    PROVE  d \in CDocs /\ rows[d].name = n /\ OfUser(h, rows[d])
<1>1. d \in CDocs /\ rows[d].name = n /\ Matches(rows[d], {}, LookupBy(h).users)
  BY DEF Bearers, Stored
<1>2. CASE h \in UserHandles
  <2>1. LookupBy(h).users = OwnUser(h)
    BY <1>2 DEF UserHandles, LookupBy, UserLookup, Request
  <2>2. OwnUser(h) = {h.user}
    BY <1>2, ClientsAssumption DEF UserHandles, OwnUser
  <2> QED
    BY <1>1, <2>1, <2>2 DEF Matches, OfUser
<1>3. CASE h \in FolderHandles \cup RootHandles
  BY <1>1, <1>3 DEF FolderHandles, RootHandles, OfUser
<1> QED
  BY <1>2, <1>3 DEF Handles

LEMMA LookupKeeps ==
    ASSUME CallsInv, NEW c \in CCalls, NEW h \in Handles, NEW op \in {"delete", "update"},
           NEW n \in CNames, NEW m \in CNames, Lookup(c, h, op, n, m)
    PROVE  CallsInv'
<1> DEFINE found == ByName(n, LookupBy(h).users)
<1>1. UNCHANGED <<rows, graphs>>
  BY DEF Lookup
<1>2. PICK k \in HandleCall :
         /\ named' = [named EXCEPT ![c] = k]
         /\ k.pc = "looked" => /\ k.by = h /\ k.name = n /\ k.new = m /\ k.id = found
                               /\ found # {}
  <2>1. found \in SUBSET CDocs
    BY DEF ByName, Bearers, Stored
  <2>2. CASE found = {}
    <3>1. [Idle EXCEPT !.pc = "failed"] \in HandleCall /\ [Idle EXCEPT !.pc = "failed"].pc = "failed"
      BY IdleIsACall DEF Idle, HandleCall
    <3> QED
      BY <2>2, <3>1 DEF Lookup
  <2>3. CASE found # {}
    <3>1. [pc |-> "looked", op |-> op, by |-> h, name |-> n, new |-> m,
           id |-> found, renamed |-> FALSE] \in HandleCall
      <4> HIDE DEF found
      <4> QED
        BY <2>1 DEF HandleCall
    <3>2. named' = [named EXCEPT ![c] = [pc |-> "looked", op |-> op, by |-> h, name |-> n,
                        new |-> m, id |-> found, renamed |-> FALSE]]
      BY <2>3 DEF Lookup
    <3> HIDE DEF found
    <3> QED
      BY <2>3, <3>1, <3>2
  <2> QED
    BY <2>2, <2>3
<1>3. named' \in [CCalls -> HandleCall]
  BY <1>2 DEF CallsInv
<1>4. ASSUME NEW e \in CCalls PROVE Looked(e)'
  <2>1. CASE e # c
    <3>1. named'[e] = named[e]
      BY <1>2, <2>1
    <3> QED
      BY <1>1, <3>1 DEF CallsInv, Looked, OfUser
  <2>2. CASE e = c
    <3>1. named'[e] = k
      BY <1>2, <2>2 DEF CallsInv
    <3>2. \A d \in found : /\ d \in CDocs /\ found = {d}
                           /\ rows[d].name = n /\ OfUser(h, rows[d])
      BY FoundAreOfUser DEF ByName
    <3> HIDE DEF found
    <3> QED
      BY <1>1, <1>2, <3>1, <3>2 DEF Looked, OfUser
  <2> QED
    BY <2>1, <2>2
<1> QED
  BY <1>1, <1>3, <1>4 DEF CallsInv

LEMMA EndedIs ==
    ASSUME named \in [CCalls -> HandleCall], NEW c \in CCalls, NEW pc \in {"ok", "failed"}
    PROVE  /\ Ended(c, pc) \in [CCalls -> HandleCall] /\ Ended(c, pc)[c].pc = pc
           /\ \A e \in CCalls \ {c} : Ended(c, pc)[e] = named[e]
<1>1. [Idle EXCEPT !.pc = pc] \in HandleCall /\ [Idle EXCEPT !.pc = pc].pc = pc
  BY IdleIsACall DEF Idle, HandleCall
<1> QED
  BY <1>1 DEF Ended

\* A call by name that ends without renaming a document.
LEMMA EndKeeps ==
    ASSUME CallsInv, NEW c \in CCalls, NEW pc \in {"ok", "failed"}, named' = Ended(c, pc),
           UNCHANGED graphs, rows' \in [CDocs -> Row \cup {NoRow}],
           \A d \in CDocs : rows'[d] # NoRow => rows'[d] = rows[d]
    PROVE  CallsInv'
<1>1. (named \in [CCalls -> HandleCall])'
  BY EndedIs DEF CallsInv
<1>2. ASSUME NEW e \in CCalls PROVE Looked(e)'
  <2>1. CASE e = c
    BY <2>1, EndedIs DEF CallsInv, Looked
  <2>2. CASE e # c
    <3>1. named'[e] = named[e]
      BY <2>2, EndedIs DEF CallsInv
    <3>2. \A d \in named[e].id : d \in CDocs
      BY DEF CallsInv, HandleCall
    <3> QED
      BY <3>1, <3>2, StillLooked DEF CallsInv
  <2> QED
    BY <2>1, <2>2
<1> QED
  BY <1>1, <1>2 DEF CallsInv

LEMMA RenamedIs ==
    ASSUME NEW r \in Row, NEW n \in CNames
    PROVE  Renamed(r, n) \in Row /\ Renamed(r, n).user = r.user
BY DEF Renamed, Row

LEMMA UpdateKeeps ==
    ASSUME CallsInv, NEW c \in CCalls, UpdateByName(c)
    PROVE  CallsInv'
<1>1. named[c].new \in CNames /\ UNCHANGED graphs
  BY DEF UpdateByName, CallsInv, Looked
<1>2. ASSUME NEW d \in CDocs
      PROVE  /\ rows'[d] \in Row \cup {NoRow}
             /\ rows'[d] # NoRow => rows[d] # NoRow /\ rows'[d].user = rows[d].user
             /\ d \notin named[c].id => rows'[d] = rows[d]
  <2>1. CASE d \in named[c].id
    <3>1. rows[d] \in Row /\ rows[d] # NoRow
      BY <2>1 DEF UpdateByName, Stored, CallsInv
    <3>2. rows'[d] = Renamed(rows[d], named[c].new)
      BY <2>1 DEF UpdateByName
    <3> QED
      BY <1>1, <2>1, <3>1, <3>2, RenamedIs
  <2>2. CASE d \notin named[c].id
    BY <2>2 DEF UpdateByName, CallsInv
  <2> QED
    BY <2>1, <2>2
<1>3. rows' \in [CDocs -> Row \cup {NoRow}]
  BY <1>2 DEF UpdateByName
<1>4. ASSUME NEW e \in CCalls, e # c
      PROVE  /\ named'[e] \in HandleCall /\ Looked(e)'
  <2>1. named'[e] = IF named[e].id \cap named[c].id # {}
                    THEN [named[e] EXCEPT !.renamed = TRUE] ELSE named[e]
    BY <1>4, EndedIs DEF UpdateByName, CallsInv
  <2>2. named[e] \in HandleCall /\ Looked(e)
    BY DEF CallsInv
  <2>3. /\ named'[e] \in HandleCall /\ named'[e].pc = named[e].pc /\ named'[e].name = named[e].name
        /\ named'[e].new = named[e].new /\ named'[e].id = named[e].id /\ named'[e].by = named[e].by
        /\ named[e].renamed => named'[e].renamed
        /\ named[e].id \cap named[c].id # {} => named'[e].renamed
    BY <2>1, <2>2 DEF HandleCall
  <2>4. \A d \in named[e].id : d \in CDocs /\ (d \in named[c].id => named'[e].renamed)
    BY <2>2, <2>3 DEF HandleCall
  <2>5. Looked(e)'
    BY <1>2, <2>2, <2>3, <2>4, StillLooked
  <2> QED
    BY <2>3, <2>5
<1>5. named'[c] \in HandleCall /\ Looked(c)'
  <2>1. named'[c] = Ended(c, "ok")[c]
    BY DEF UpdateByName
  <2> QED
    BY <2>1, EndedIs DEF CallsInv, Looked
<1>6. (named \in [CCalls -> HandleCall])'
  BY <1>4, <1>5 DEF UpdateByName
<1> QED
  BY <1>1, <1>3, <1>4, <1>5, <1>6 DEF CallsInv

LEMMA ByNameKeeps ==
    ASSUME CallsInv, NEW c \in CCalls, DeleteByName(c) \/ UpdateByName(c) \/ GoneByName(c)
    PROVE  CallsInv'
<1>1. CASE DeleteByName(c)
  <2>1. /\ rows' \in [CDocs -> Row \cup {NoRow}]
        /\ \A d \in CDocs : rows'[d] # NoRow => rows'[d] = rows[d]
    BY <1>1 DEF DeleteByName, CallsInv
  <2>2. named' = Ended(c, "ok") /\ UNCHANGED graphs
    BY <1>1 DEF DeleteByName
  <2> QED
    BY <2>1, <2>2, EndKeeps
<1>2. CASE GoneByName(c)
  <2>1. named' = Ended(c, "failed") /\ UNCHANGED <<rows, graphs>>
    BY <1>2 DEF GoneByName
  <2>2. rows' \in [CDocs -> Row \cup {NoRow}]
    BY <2>1 DEF CallsInv
  <2> QED
    BY <2>1, <2>2, EndKeeps
<1> QED
  BY <1>1, <1>2, UpdateKeeps

LEMMA DeleteByIdKeeps ==
    ASSUME CallsInv, NEW d \in CDocs, DeleteById(d)
    PROVE  CallsInv'
<1>1. rows' \in [CDocs -> Row \cup {NoRow}] /\ \A e \in CDocs : rows'[e] # NoRow => rows'[e] = rows[e]
  BY DEF DeleteById, CallsInv
<1>2. UNCHANGED named /\ UNCHANGED graphs
  BY DEF DeleteById
<1>3. ASSUME NEW c \in CCalls PROVE Looked(c)'
  <2>1. \A e \in named[c].id : e \in CDocs
    BY DEF CallsInv, HandleCall
  <2> QED
    BY <1>1, <1>2, <2>1, StillLooked DEF CallsInv
<1>4. (named \in [CCalls -> HandleCall])'
  BY <1>2 DEF CallsInv
<1> QED
  BY <1>1, <1>2, <1>3, <1>4 DEF CallsInv

LEMMA GraphKeeps ==
    ASSUME CallsInv, NEW h \in Handles, NEW g \in CGraphs, CreateGraph(h, g)
    PROVE  CallsInv'
<1>1. (graphs = [x \in CGraphs |-> graphs[x]])' /\ (\A x \in CGraphs : graphs[x] = NoRow \/ graphs[x].name = x)'
  BY DEF CreateGraph, CallsInv
<1>2. \A c \in CCalls : Looked(c)'
  BY DEF CreateGraph, CallsInv, Looked, OfUser
<1> QED
  BY <1>1, <1>2 DEF CreateGraph, CallsInv

LEMMA CallsInductive ==
    ASSUME CallsInv, [ClientsNext \/ GraphClientsNext]_clientVars
    PROVE  CallsInv'
<1>1. CASE ClientsNext
  <2>1. ASSUME NEW c \in CCalls, NEW h \in Handles, NEW n \in CNames, NEW m \in CNames,
               \/ h.async = FALSE /\ Lookup(c, h, "delete", n, n)
               \/ h.async = FALSE /\ h.kind = "root" /\ Lookup(c, h, "update", n, m)
        PROVE  CallsInv'
    BY <2>1, LookupKeeps
  <2> QED
    BY <1>1, <2>1, IngestStepKeeps, ByNameKeeps, DeleteByIdKeeps DEF ClientsNext, LookupStep
<1>2. CASE GraphClientsNext
  BY <1>2, GraphKeeps DEF GraphClientsNext
<1>3. CASE UNCHANGED clientVars
  <2>1. UNCHANGED rows /\ UNCHANGED named /\ UNCHANGED graphs
    BY <1>3 DEF clientVars
  <2> QED
    BY <2>1 DEF CallsInv, Looked, OfUser
<1> QED
  BY <1>1, <1>2, <1>3

LEMMA CallsInitially ==
    ASSUME ClientsInit
    PROVE  CallsInv
<1>1. \A c \in CCalls : named[c] = Idle
  BY DEF ClientsInit
<1>2. Idle.pc = "idle"
  BY DEF Idle
<1> QED
  BY <1>1, <1>2, IdleIsACall DEF ClientsInit, CallsInv, Looked

LEMMA CallsInvAlways == ClientsSpec => []CallsInv
BY CallsInitially, CallsInductive, PTL DEF ClientsSpec

\* Documents, calls and graphs keep their types, for any of them and for any names,
\* folders and users (the rows that the SDK's ingestion makes and its renames keep).
THEOREM ClientsTypesCorrect == ClientsSpec => []ClientsTypeOK
<1>1. CallsInv => ClientsTypeOK
  BY DEF CallsInv, ClientsTypeOK, HandleCall, Row
<1> QED
  BY <1>1, CallsInvAlways, PTL

\* Only the second request of a delete by file name ends it with "ok".
LEMMA OnlyItsDeleteEndsIt ==
    ASSUME CallsInv, ClientsNext \/ GraphClientsNext, NEW c \in CCalls, DeletedByName(c)
    PROVE  DeleteByName(c)
<1> USE DEF DeletedByName
<1>1. ~UNCHANGED named
  OBVIOUS
<1>2. ~IngestStep
  BY <1>1 DEF IngestStep, IngestText, IngestFile, IngestFiles
<1>3. CASE LookupStep
  <2>1. PICK e \in CCalls : named[e].pc = "idle" /\ named' = [named EXCEPT ![e] = named'[e]]
    BY <1>3 DEF LookupStep, Lookup, CallsInv
  <2> QED
    BY <2>1 DEF CallsInv
<1>4. ASSUME NEW e \in CCalls, DeleteByName(e) \/ GoneByName(e), e # c
      PROVE  FALSE
  <2>1. PICK pc \in {"ok", "failed"} : named' = Ended(e, pc)
    BY <1>4 DEF DeleteByName, GoneByName
  <2>2. named'[c] = named[c]
    BY <1>4, <2>1, EndedIs DEF CallsInv
  <2> QED
    BY <2>2
<1>5. ASSUME NEW e \in CCalls, UpdateByName(e)
      PROVE  FALSE
  <2>1. e # c
    BY <1>5 DEF UpdateByName
  <2>2. named'[c] = IF named[c].id \cap named[e].id # {}
                    THEN [named[c] EXCEPT !.renamed = TRUE] ELSE named[c]
    BY <1>5, <2>1, EndedIs DEF UpdateByName, CallsInv
  <2> QED
    BY <2>2 DEF CallsInv, HandleCall
<1>6. ~GoneByName(c)
  BY EndedIs DEF GoneByName, CallsInv
<1>7. ASSUME NEW d \in CDocs, DeleteById(d)
      PROVE  FALSE
  BY <1>1, <1>7 DEF DeleteById
<1>8. ~GraphClientsNext
  BY <1>1 DEF GraphClientsNext, CreateGraph
<1> QED
  BY <1>2, <1>3, <1>4, <1>5, <1>6, <1>7, <1>8 DEF ClientsNext

\* For any documents, names and calls, a delete by file name takes exactly one document
\* and changes no other: one of the user of the handle, and of the name unless another
\* call renamed it between the two requests (delete_document_by_filename).
THEOREM NameDeletesAlwaysTakeTheNamed == ClientsSpec => NameDeletesTakeTheNamed
<1> DEFINE Takes(c) == DeletedByName(c) =>
              \E d \in Stored : /\ OfUser(named[c].by, rows[d])
                                /\ (rows[d].name = named[c].name \/ named[c].renamed)
                                /\ rows' = [rows EXCEPT ![d] = NoRow]
<1>1. ASSUME CallsInv, NEW c \in CCalls, DeleteByName(c) PROVE Takes(c)
  <2>1. /\ Looked(c) /\ named[c].pc = "looked" /\ named[c].id \subseteq Stored
        /\ rows' = [d \in CDocs |-> IF d \in named[c].id THEN NoRow ELSE rows[d]]
    BY <1>1 DEF CallsInv, DeleteByName
  <2>2. PICK d \in CDocs : named[c].id = {d}
    BY <2>1 DEF Looked
  <2>3. d \in Stored /\ rows[d] # NoRow
    BY <2>1, <2>2 DEF Stored
  <2>4. rows' = [rows EXCEPT ![d] = NoRow]
    BY <1>1, <2>1, <2>2 DEF CallsInv
  <2>5. OfUser(named[c].by, rows[d]) /\ (rows[d].name = named[c].name \/ named[c].renamed)
    BY <2>1, <2>2, <2>3 DEF Looked
  <2> QED
    BY <2>3, <2>4, <2>5
<1>2. ASSUME CallsInv, [ClientsNext \/ GraphClientsNext]_clientVars
      PROVE  [\A c \in CCalls : Takes(c)]_clientVars
  <2> SUFFICES ASSUME ClientsNext \/ GraphClientsNext PROVE \A c \in CCalls : Takes(c)
    BY <1>2
  <2> QED
    BY <1>1, <1>2, OnlyItsDeleteEndsIt
<1> QED
  BY <1>2, CallsInvAlways, PTL DEF ClientsSpec, NameDeletesTakeTheNamed

-----------------------------------------------------------------------------
(* Batches.                                                                *)

Uploading == {"record", "charge", "queue"}
Pcs == {"idle", "row", "limits", "upload", "ok", "failed"} \cup Uploading
Place == [pc: Pcs, at: 0 .. BatchSize]
File == [status: {"none", "processing", "completed", "failed", "deleted"}, kept: BOOLEAN,
         info: BOOLEAN, charged: BOOLEAN, job: {"none", "queued", "ended"}]
Wait == {"no", "polling", "seen", "document", "error", "missing", "timeout"}

\* A batch is at one of its files from the first one on, and ends after the last.
Placed(p) == /\ p \in Place
             /\ (p.pc = "idle") <=> (p.at = 0)
             /\ (p.pc = "ok") => p.at = BatchSize

\* What is known of the file f with the number i, for which w waits, while its
\* batch is at p.
Sound(f, i, p, w) ==
    /\ (i < p.at \/ (i = p.at /\ p.pc = "ok")) => f.kept /\ f.job # "none"
    /\ (i > p.at \/ (i = p.at /\ p.pc = "row")) => f = Unsent
    /\ (i = p.at /\ p.pc \in {"limits", "upload"} \cup Uploading) => f.job = "none"
    /\ (i = p.at /\ p.pc \in Uploading) => f.kept
    /\ (f.charged \/ f.info) => f.kept
    /\ f.status = "completed" => f.job = "ended"
    /\ f.status = "none" => w = "no"
    /\ w \in {"seen", "document"} => f.status \in {"completed", "deleted"} /\ f.job = "ended"

BatchesInv ==
    /\ batch \in [BatchIds -> Place]
    /\ files \in [BatchIds -> [Nos -> File]]
    /\ waiting \in [BatchIds -> [Nos -> Wait]]
    /\ \A b \in BatchIds : /\ Placed(batch[b])
                           /\ \A i \in Nos : Sound(files[b][i], i, batch[b], waiting[b][i])

LEMMA UnsentIsFile == Unsent \in File
BY DEF Unsent, File

LEMMA BatchesInvInit == BatchesInit => BatchesInv
<1> SUFFICES ASSUME BatchesInit PROVE BatchesInv
  OBVIOUS
<1>1. /\ batch \in [BatchIds -> Place]
      /\ files \in [BatchIds -> [Nos -> File]]
      /\ waiting \in [BatchIds -> [Nos -> Wait]]
  BY UnsentIsFile, BatchesAssumption DEF BatchesInit, Place, Pcs, Wait
<1>2. ASSUME NEW b \in BatchIds PROVE Placed(batch[b])
  BY <1>1, BatchesAssumption DEF BatchesInit, Placed
<1>3. ASSUME NEW b \in BatchIds, NEW i \in Nos
      PROVE  Sound(files[b][i], i, batch[b], waiting[b][i])
  <2>1. files[b][i] = Unsent /\ batch[b] = [pc |-> "idle", at |-> 0] /\ waiting[b][i] = "no"
    BY DEF BatchesInit
  <2>2. i > 0
    BY BatchesAssumption DEF Nos
  <2> QED
    BY <2>1, <2>2 DEF Sound, Unsent, Uploading, Nos
<1> QED
  BY <1>1, <1>2, <1>3 DEF BatchesInv

-----------------------------------------------------------------------------
(* The two kinds of steps: of the loop, and on one file.                   *)

LEMMA LoopStep ==
    ASSUME BatchesInv, NEW b \in BatchIds, NEW p, NEW g \in [Nos -> File],
           batch' = [batch EXCEPT ![b] = p], files' = [files EXCEPT ![b] = g],
           waiting' = waiting,
           Placed(p), \A i \in Nos : Sound(g[i], i, p, waiting[b][i])
    PROVE  BatchesInv'
<1>1. /\ batch' \in [BatchIds -> Place]
      /\ files' \in [BatchIds -> [Nos -> File]]
      /\ waiting' \in [BatchIds -> [Nos -> Wait]]
  BY DEF BatchesInv, Placed
<1>2. batch'[b] = p /\ files'[b] = g
  BY DEF BatchesInv
<1>3. \A c \in BatchIds : c # b => batch'[c] = batch[c] /\ files'[c] = files[c]
  BY DEF BatchesInv
<1>4. ASSUME NEW c \in BatchIds
      PROVE  /\ Placed(batch'[c])
             /\ \A i \in Nos : Sound(files'[c][i], i, batch'[c], waiting'[c][i])
  <2>1. CASE c = b
    BY <2>1, <1>2
  <2>2. CASE c # b
    BY <2>2, <1>3 DEF BatchesInv
  <2> QED
    BY <2>1, <2>2
<1> QED
  BY <1>1, <1>4 DEF BatchesInv

LEMMA OneFileStep ==
    ASSUME BatchesInv, NEW b \in BatchIds, NEW i \in Nos, NEW f \in File, NEW w \in Wait,
           batch' = batch, files' = [files EXCEPT ![b][i] = f],
           waiting' = [waiting EXCEPT ![b][i] = w],
           Sound(f, i, batch[b], w)
    PROVE  BatchesInv'
<1>1. /\ batch' \in [BatchIds -> Place]
      /\ files' \in [BatchIds -> [Nos -> File]]
      /\ waiting' \in [BatchIds -> [Nos -> Wait]]
  BY DEF BatchesInv
<1>2. files'[b][i] = f /\ waiting'[b][i] = w
  BY DEF BatchesInv
<1>3. \A c \in BatchIds, j \in Nos : ~(c = b /\ j = i) =>
         files'[c][j] = files[c][j] /\ waiting'[c][j] = waiting[c][j]
  BY DEF BatchesInv
<1>4. ASSUME NEW c \in BatchIds, NEW j \in Nos
      PROVE  Sound(files'[c][j], j, batch'[c], waiting'[c][j])
  <2>1. CASE c = b /\ j = i
    BY <2>1, <1>2
  <2>2. CASE ~(c = b /\ j = i)
    BY <2>2, <1>3 DEF BatchesInv
  <2> QED
    BY <2>1, <2>2
<1>5. \A c \in BatchIds : Placed(batch'[c])
  BY DEF BatchesInv
<1> QED
  BY <1>1, <1>4, <1>5 DEF BatchesInv

LEMMA UnsentSound ==
    ASSUME NEW i \in Nos, NEW p \in Place, i > p.at \/ (i = p.at /\ p.pc = "row")
    PROVE  Sound(Unsent, i, p, "no")
BY BatchesAssumption DEF Sound, Unsent, Uploading, Nos, Place

\* A batch that has begun is at one of its files.
LEMMA AtAFile ==
    ASSUME BatchesInv, NEW b \in BatchIds, batch[b].pc # "idle"
    PROVE  /\ batch[b].at \in Nos
           /\ This(b) \in File
           /\ waiting[b][batch[b].at] \in Wait
           /\ Sound(This(b), batch[b].at, batch[b], waiting[b][batch[b].at])
<1>1. Placed(batch[b])
  BY DEF BatchesInv
<1>2. batch[b].at \in Nos
  BY <1>1, BatchesAssumption DEF Placed, Place, Nos
<1> QED
  BY <1>2 DEF BatchesInv, This

\* A step of the loop that stays at its file.
LEMMA StayStep ==
    ASSUME BatchesInv, NEW b \in BatchIds, batch[b].pc # "idle",
           NEW pc \in Pcs \ {"idle", "ok"}, NEW f \in File,
           Goes(b, pc), Sets(b, f), waiting' = waiting,
           Sound(f, batch[b].at, [batch[b] EXCEPT !.pc = pc], waiting[b][batch[b].at])
    PROVE  BatchesInv'
<1> DEFINE n == batch[b].at
           p == [batch[b] EXCEPT !.pc = pc]
           g == [files[b] EXCEPT ![n] = f]
<1>1. n \in Nos /\ batch[b] \in Place /\ files[b] \in [Nos -> File]
  BY AtAFile DEF BatchesInv
<1>2. p \in Place /\ p.at = n /\ p.pc = pc
  BY <1>1 DEF Place
<1>3. Placed(p)
  BY <1>1, <1>2, BatchesAssumption DEF Placed, Nos
<1>4. g \in [Nos -> File]
  BY <1>1
<1>5. batch' = [batch EXCEPT ![b] = p]
  BY DEF Goes
<1>6. files' = [files EXCEPT ![b] = g]
  BY DEF Sets
<1>7. ASSUME NEW i \in Nos PROVE Sound(g[i], i, p, waiting[b][i])
  <2>1. CASE i = n
    BY <2>1, <1>1
  <2>2. CASE i # n
    <3>1. g[i] = files[b][i] /\ Sound(files[b][i], i, batch[b], waiting[b][i])
      BY <2>2, <1>1 DEF BatchesInv
    <3> QED
      BY <3>1, <2>2, <1>2 DEF Sound
  <2> QED
    BY <2>1, <2>2
<1> HIDE DEF p, g
<1> QED
  BY <1>3, <1>4, <1>5, <1>6, <1>7, LoopStep

LEMMA SameFiles ==
    ASSUME BatchesInv, NEW b \in BatchIds, batch[b].pc # "idle", UNCHANGED files
    PROVE  Sets(b, This(b))
<1>1. batch[b].at \in Nos /\ files \in [BatchIds -> [Nos -> File]]
  BY AtAFile DEF BatchesInv
<1> QED
  BY <1>1 DEF Sets, This

LEMMA SendKeepsInv ==
    ASSUME BatchesInv, NEW b \in BatchIds, SendBatch(b)
    PROVE  BatchesInv'
<1> DEFINE p == [pc |-> "row", at |-> 1]
<1>1. batch[b].at = 0 /\ files[b] \in [Nos -> File] /\ batch[b].pc = "idle"
  BY DEF SendBatch, At, BatchesInv, Placed
<1>2. Placed(p)
  BY BatchesAssumption DEF Placed, Place, Pcs
<1>3. ASSUME NEW i \in Nos PROVE Sound(files[b][i], i, p, waiting[b][i])
  <2>1. i > 0 /\ i >= 1 /\ Sound(files[b][i], i, batch[b], waiting[b][i])
    BY BatchesAssumption DEF BatchesInv, Nos
  <2>2. files[b][i] = Unsent
    BY <1>1, <2>1 DEF Sound
  <2>3. waiting[b][i] = "no"
    BY <2>1, <2>2 DEF Sound, Unsent
  <2>4. i > p.at \/ (i = p.at /\ p.pc = "row")
    BY <2>1, BatchesAssumption DEF Nos
  <2> QED
    BY <2>2, <2>3, <2>4, <1>2, UnsentSound DEF Placed
<1>4. batch' = [batch EXCEPT ![b] = p] /\ files' = [files EXCEPT ![b] = files[b]] /\ waiting' = waiting
  BY DEF SendBatch, BatchesInv
<1> HIDE DEF p
<1> QED
  BY <1>1, <1>2, <1>3, <1>4, LoopStep

LEMMA RowKeepsInv ==
    ASSUME BatchesInv, NEW b \in BatchIds, StoreFileRow(b)
    PROVE  BatchesInv'
<1> DEFINE f == [Unsent EXCEPT !.status = "processing"]
           n == batch[b].at
<1>1. /\ batch[b].pc = "row" /\ Sets(b, f) /\ Goes(b, "limits") /\ waiting' = waiting
      /\ f \in File /\ batch[b] \in Place
  BY DEF StoreFileRow, At, Unsent, File, BatchesInv
<1>2. This(b) = Unsent /\ waiting[b][n] = "no"
  BY <1>1, AtAFile DEF Sound, Unsent
<1>3. Sound(f, n, [batch[b] EXCEPT !.pc = "limits"], waiting[b][n])
  BY <1>1, <1>2 DEF Sound, Unsent, Place, Uploading
<1> HIDE DEF f
<1> QED
  BY <1>1, <1>3, StayStep DEF Pcs

LEMMA UploadKeepsInv ==
    ASSUME BatchesInv, NEW b \in BatchIds, CheckLimits(b) \/ UploadFile(b)
    PROVE  BatchesInv'
<1>1. CASE CheckLimits(b)
  <2>1. batch[b].pc = "limits" /\ Sets(b, This(b)) /\ Goes(b, "upload") /\ waiting' = waiting
    BY <1>1, SameFiles DEF CheckLimits, At
  <2>2. Sound(This(b), batch[b].at, [batch[b] EXCEPT !.pc = "upload"], waiting[b][batch[b].at])
    BY <2>1, AtAFile DEF Sound, BatchesInv, Place, Uploading
  <2> QED
    BY <2>1, <2>2, AtAFile, StayStep DEF Pcs
<1>2. CASE UploadFile(b)
  <2> DEFINE f == [This(b) EXCEPT !.kept = TRUE]
  <2>1. batch[b].pc = "upload" /\ Sets(b, f) /\ Goes(b, "record") /\ waiting' = waiting
    BY <1>2 DEF UploadFile, At
  <2>2. f \in File
    BY <2>1, AtAFile DEF File
  <2>3. Sound(f, batch[b].at, [batch[b] EXCEPT !.pc = "record"], waiting[b][batch[b].at])
    BY <2>1, AtAFile DEF Sound, BatchesInv, Place, Uploading, File
  <2> HIDE DEF f
  <2> QED
    BY <2>1, <2>2, <2>3, StayStep DEF Pcs, Uploading
<1> QED
  BY <1>1, <1>2

LEMMA RecordKeepsInv ==
    ASSUME BatchesInv, NEW b \in BatchIds, RecordStorage(b) \/ ChargeStorage(b)
    PROVE  BatchesInv'
<1>1. CASE RecordStorage(b)
  <2>1. PICK done \in BOOLEAN : Sets(b, [This(b) EXCEPT !.info = done])
    BY <1>1 DEF RecordStorage
  <2> DEFINE f == [This(b) EXCEPT !.info = done]
  <2>2. batch[b].pc = "record" /\ Sets(b, f) /\ Goes(b, "charge") /\ waiting' = waiting
    BY <1>1, <2>1 DEF RecordStorage, At
  <2>3. f \in File
    BY <2>2, AtAFile DEF File
  <2>4. Sound(f, batch[b].at, [batch[b] EXCEPT !.pc = "charge"], waiting[b][batch[b].at])
    BY <2>2, AtAFile DEF Sound, BatchesInv, Place, Uploading, File
  <2> HIDE DEF f
  <2> QED
    BY <2>2, <2>3, <2>4, StayStep DEF Pcs, Uploading
<1>2. CASE ChargeStorage(b)
  <2>1. PICK done \in BOOLEAN : Sets(b, [This(b) EXCEPT !.charged = done])
    BY <1>2 DEF ChargeStorage
  <2> DEFINE f == [This(b) EXCEPT !.charged = done]
  <2>2. batch[b].pc = "charge" /\ Sets(b, f) /\ Goes(b, "queue") /\ waiting' = waiting
    BY <1>2, <2>1 DEF ChargeStorage, At
  <2>3. f \in File
    BY <2>2, AtAFile DEF File
  <2>4. Sound(f, batch[b].at, [batch[b] EXCEPT !.pc = "queue"], waiting[b][batch[b].at])
    BY <2>2, AtAFile DEF Sound, BatchesInv, Place, Uploading, File
  <2> HIDE DEF f
  <2> QED
    BY <2>2, <2>3, <2>4, StayStep DEF Pcs, Uploading
<1> QED
  BY <1>1, <1>2

LEMMA QueueKeepsInv ==
    ASSUME BatchesInv, NEW b \in BatchIds, QueueJob(b)
    PROVE  BatchesInv'
<1> DEFINE n == batch[b].at
           f == [This(b) EXCEPT !.job = "queued"]
           g == [files[b] EXCEPT ![n] = f]
           p == IF n < BatchSize THEN [pc |-> "row", at |-> n + 1] ELSE [pc |-> "ok", at |-> BatchSize]
<1>1. /\ batch[b].pc = "queue" /\ Sets(b, f) /\ waiting' = waiting
      /\ batch' = [batch EXCEPT ![b] = p]
  BY DEF QueueJob, At
<1>2. n \in Nos /\ f \in File /\ files[b] \in [Nos -> File] /\ g \in [Nos -> File]
  BY <1>1, AtAFile DEF File, BatchesInv
<1>3. Placed(p)
  BY <1>2, BatchesAssumption DEF Placed, Place, Pcs, Nos
<1>4. f.kept /\ f.job = "queued" /\ Sound(f, n, p, waiting[b][n])
  <2>1. /\ f.kept = This(b).kept /\ f.info = This(b).info /\ f.charged = This(b).charged
        /\ f.status = This(b).status /\ f.job = "queued"
    BY <1>1, AtAFile DEF File
  <2>2. /\ This(b).kept /\ This(b).job = "none" /\ This(b).status # "completed"
        /\ This(b).status = "none" => waiting[b][n] = "no"
        /\ waiting[b][n] \notin {"seen", "document"}
    BY <1>1, AtAFile DEF Sound, Uploading
  <2>3. n < p.at \/ (n = p.at /\ p.pc = "ok")
    BY <1>2, BatchesAssumption DEF Nos
  <2> HIDE DEF f
  <2> QED
    BY <2>1, <2>2, <2>3, <1>2, <1>3 DEF Sound, Uploading, Placed, Place, Nos
<1>5. ASSUME NEW i \in Nos PROVE Sound(g[i], i, p, waiting[b][i])
  <2>1. CASE i = n
    BY <2>1, <1>2, <1>4
  <2>2. CASE i # n
    <3>1. g[i] = files[b][i] /\ Sound(files[b][i], i, batch[b], waiting[b][i])
      BY <2>2, <1>2 DEF BatchesInv
    <3>2. CASE i < n
      BY <3>1, <3>2, <1>1, <1>2, BatchesAssumption DEF Sound, Uploading, Nos
    <3>3. CASE i > n
      <4>1. files[b][i] = Unsent /\ p = [pc |-> "row", at |-> n + 1] /\ i >= n + 1
        BY <3>1, <3>3, <1>2, BatchesAssumption DEF Sound, Nos
      <4>2. waiting[b][i] = "no"
        BY <3>1, <4>1 DEF Sound, Unsent
      <4>3. i > p.at \/ (i = p.at /\ p.pc = "row")
        BY <4>1, <1>2, BatchesAssumption DEF Nos
      <4> HIDE DEF p
      <4> QED
        BY <3>1, <4>1, <4>2, <4>3, <1>3, UnsentSound DEF Placed
    <3> QED
      BY <2>2, <3>2, <3>3, <1>2, BatchesAssumption DEF Nos
  <2> QED
    BY <2>1, <2>2
<1>6. files' = [files EXCEPT ![b] = g]
  BY <1>1 DEF Sets
<1> HIDE DEF p, g, f
<1> QED
  BY <1>1, <1>2, <1>3, <1>5, <1>6, LoopStep

LEMMA FailKeepsInv ==
    ASSUME BatchesInv, NEW b \in BatchIds, FailBatch(b)
    PROVE  BatchesInv'
<1>1. /\ batch[b].pc \in {"row", "limits", "upload", "queue"}
      /\ Goes(b, "failed") /\ waiting' = waiting
  BY DEF FailBatch, At
<1>2. CASE UNCHANGED files
  <2>1. Sound(This(b), batch[b].at, [batch[b] EXCEPT !.pc = "failed"], waiting[b][batch[b].at])
    BY <1>1, AtAFile DEF Sound, BatchesInv, Place, Uploading
  <2> QED
    BY <1>1, <1>2, <2>1, AtAFile, SameFiles, StayStep DEF Pcs
<1>3. CASE At(b, "queue") /\ Sets(b, [This(b) EXCEPT !.job = "queued"])
  <2> DEFINE f == [This(b) EXCEPT !.job = "queued"]
  <2>1. f \in File
    BY <1>1, AtAFile DEF File
  <2>2. Sound(f, batch[b].at, [batch[b] EXCEPT !.pc = "failed"], waiting[b][batch[b].at])
    BY <1>1, <1>3, AtAFile DEF Sound, At, BatchesInv, Place, Uploading, File
  <2> HIDE DEF f
  <2> QED
    BY <1>1, <1>3, <2>1, <2>2, StayStep DEF Pcs, f
<1> QED
  BY <1>2, <1>3 DEF FailBatch

-----------------------------------------------------------------------------
(* Workers, deletes and clients.                                           *)

LEMMA FileKnown ==
    ASSUME BatchesInv, NEW b \in BatchIds, NEW i \in Nos
    PROVE  /\ files[b][i] \in File /\ waiting[b][i] \in Wait
           /\ Sound(files[b][i], i, batch[b], waiting[b][i])
           /\ batch[b] \in Place
           /\ waiting = [waiting EXCEPT ![b][i] = waiting[b][i]]
           /\ files = [files EXCEPT ![b][i] = files[b][i]]
BY DEF BatchesInv

LEMMA WorkKeepsInv ==
    ASSUME BatchesInv, NEW b \in BatchIds, NEW i \in Nos,
           (\E status \in {"completed", "failed"} : EndJob(b, i, status)) \/ DropJob(b, i) \/ DeleteFile(b, i)
    PROVE  BatchesInv'
<1>1. ASSUME NEW status \in {"completed", "failed"}, EndJob(b, i, status) PROVE BatchesInv'
  <2> DEFINE told == IF files[b][i].status = "deleted" THEN "deleted" ELSE status
             f == [files[b][i] EXCEPT !.job = "ended", !.status = told]
  <2>1. files[b][i].job = "queued" /\ files' = [files EXCEPT ![b][i] = f] /\ UNCHANGED <<batch, waiting>>
    BY <1>1, FileKnown DEF EndJob
  <2>2. f \in File
    BY FileKnown DEF File
  <2>3. /\ f.kept = files[b][i].kept /\ f.info = files[b][i].info
        /\ f.charged = files[b][i].charged /\ f.job = "ended"
        /\ f.status = IF files[b][i].status = "deleted" THEN "deleted" ELSE status
    BY FileKnown DEF File
  <2>4. f.status \in {"completed", "failed", "deleted"} /\ waiting[b][i] \notin {"seen", "document"}
    BY <2>1, <2>3, FileKnown DEF Sound
  <2> HIDE DEF f
  <2>5. Sound(f, i, batch[b], waiting[b][i])
    BY <2>1, <2>3, <2>4, FileKnown DEF Sound, Place, Uploading, Unsent
  <2> QED
    BY <2>1, <2>2, <2>5, FileKnown, OneFileStep
<1>2. CASE DropJob(b, i)
  <2> DEFINE f == [files[b][i] EXCEPT !.job = "ended"]
  <2>1. files[b][i].job = "queued" /\ files' = [files EXCEPT ![b][i] = f] /\ UNCHANGED <<batch, waiting>>
    BY <1>2, FileKnown DEF DropJob
  <2>2. f \in File
    BY FileKnown DEF File
  <2>3. Sound(f, i, batch[b], waiting[b][i])
    BY <2>1, FileKnown DEF Sound, File, Place, Uploading, Unsent
  <2> HIDE DEF f
  <2> QED
    BY <2>1, <2>2, <2>3, FileKnown, OneFileStep
<1>3. CASE DeleteFile(b, i)
  <2> DEFINE f == [files[b][i] EXCEPT !.status = "deleted"]
  <2>1. /\ files[b][i].status \notin {"none", "deleted"}
        /\ files' = [files EXCEPT ![b][i] = f] /\ UNCHANGED <<batch, waiting>>
    BY <1>3, FileKnown DEF DeleteFile
  <2>2. f \in File
    BY FileKnown DEF File
  <2>3. Sound(f, i, batch[b], waiting[b][i])
    BY <2>1, FileKnown DEF Sound, File, Place, Uploading, Unsent
  <2> HIDE DEF f
  <2> QED
    BY <2>1, <2>2, <2>3, FileKnown, OneFileStep
<1> QED
  BY <1>1, <1>2, <1>3

LEMMA WaitKeepsInv ==
    ASSUME BatchesInv, NEW b \in BatchIds, NEW i \in Nos,
           StartWait(b, i) \/ Poll(b, i) \/ Fetch(b, i) \/ GiveUpWait(b, i)
    PROVE  BatchesInv'
<1>1. ASSUME NEW w \in Wait, waiting' = [waiting EXCEPT ![b][i] = w], UNCHANGED <<batch, files>>,
             files[b][i].status # "none",
             w \in {"seen", "document"} =>
                files[b][i].status \in {"completed", "deleted"} /\ files[b][i].job = "ended"
      PROVE  BatchesInv'
  <2>1. Sound(files[b][i], i, batch[b], w)
    BY <1>1, FileKnown DEF Sound
  <2> QED
    BY <1>1, <2>1, FileKnown, OneFileStep
<1>2. files[b][i].status = "completed" => files[b][i].job = "ended"
  BY FileKnown DEF Sound
<1>3. waiting[b][i] # "no" => files[b][i].status # "none"
  BY FileKnown DEF Sound
<1>4. CASE StartWait(b, i) \/ GiveUpWait(b, i)
  BY <1>1, <1>3, <1>4 DEF StartWait, GiveUpWait, Wait
<1>5. CASE Poll(b, i)
  <2>1. files[b][i].status \in {"completed", "failed", "deleted"}
    BY <1>3, <1>5, FileKnown DEF Poll, File
  <2> DEFINE answer == [completed |-> "seen", failed |-> "error", deleted |-> "missing"]
             w == answer[files[b][i].status]
  <2>2. w \in Wait /\ (w = "seen" => files[b][i].status = "completed") /\ w # "document"
    <3>1. answer["completed"] = "seen" /\ answer["failed"] = "error" /\ answer["deleted"] = "missing"
      OBVIOUS
    <3> HIDE DEF answer
    <3> QED
      BY <2>1, <3>1 DEF Wait
  <2>3. waiting' = [waiting EXCEPT ![b][i] = w] /\ UNCHANGED <<batch, files>>
    BY <1>5 DEF Poll
  <2> HIDE DEF w
  <2> QED
    BY <1>1, <1>2, <2>1, <2>2, <2>3
<1>6. CASE Fetch(b, i)
  <2>1. waiting[b][i] = "seen" /\ files[b][i].status \in {"completed", "deleted"} /\ files[b][i].job = "ended"
    BY <1>6, FileKnown DEF Fetch, Sound
  <2> QED
    BY <1>1, <1>6, <2>1 DEF Fetch, Wait
<1> QED
  BY <1>4, <1>5, <1>6

LEMMA BatchesInvHolds == BatchesSpec => []BatchesInv
<1>1. BatchesInv /\ [BatchesNext]_batchVars => BatchesInv'
  <2> SUFFICES ASSUME BatchesInv, [BatchesNext]_batchVars PROVE BatchesInv'
    OBVIOUS
  <2>1. CASE UNCHANGED batchVars
    BY <2>1 DEF batchVars, BatchesInv
  <2>2. ASSUME NEW b \in BatchIds, BatchStep(b) PROVE BatchesInv'
    BY <2>2, SendKeepsInv, RowKeepsInv, UploadKeepsInv, RecordKeepsInv, QueueKeepsInv, FailKeepsInv
       DEF BatchStep
  <2>3. ASSUME NEW b \in BatchIds, NEW i \in Nos, FileStep(b, i) PROVE BatchesInv'
    BY <2>3, WorkKeepsInv, WaitKeepsInv DEF FileStep
  <2> QED
    BY <2>1, <2>2, <2>3 DEF BatchesNext
<1> QED
  BY BatchesInvInit, <1>1, PTL DEF BatchesSpec

\* Batches, files and waits keep their types, for any number of batches and any
\* size (BatchesTypeOK).
THEOREM BatchesTypesCorrect == BatchesSpec => []BatchesTypeOK
<1>1. BatchesInv => BatchesTypeOK
  <2> SUFFICES ASSUME BatchesInv PROVE BatchesTypeOK
    OBVIOUS
  <2>1. \A b \in BatchIds : batch[b].at \in 0 .. BatchSize
    BY DEF BatchesInv, Place
  <2> QED
    BY <2>1 DEF BatchesInv, BatchesTypeOK, File, Wait
<1> QED
  BY BatchesInvHolds, <1>1, PTL

\* Whatever fails in a batch of any size, and whatever workers, deletes and
\* clients do meanwhile, every file before the one it is at is kept and has its
\* job, none after it has anything, at most one row is left without a job, and
\* a client is handed only documents that were completed (batch_ingest_files).
THEOREM BatchesAreAlwaysAccounted == BatchesSpec => []BatchesAreAccounted
<1>1. ASSUME BatchesInv, NEW b \in BatchIds, NEW i \in Nos
      PROVE  LET f == files[b][i] IN
              /\ (At(b, "ok") \/ i < batch[b].at) => f.kept /\ f.job # "none"
              /\ (i > batch[b].at) => f = Unsent
              /\ f.charged => f.kept
              /\ f.info => f.kept
              /\ (waiting[b][i] = "document") => f.status \in {"completed", "deleted"} /\ f.job = "ended"
  <2>1. Sound(files[b][i], i, batch[b], waiting[b][i]) /\ Placed(batch[b])
    BY <1>1 DEF BatchesInv
  <2>2. At(b, "ok") => i < batch[b].at \/ i = batch[b].at
    BY <2>1, BatchesAssumption DEF At, Placed, Nos
  <2> QED
    BY <2>1, <2>2 DEF Sound, At
<1>2. ASSUME BatchesInv, NEW b \in BatchIds, At(b, "failed")
      PROVE  Cardinality({i \in Nos : files[b][i].status = "processing" /\ files[b][i].job = "none"}) <= 1
  <2> DEFINE T == {i \in Nos : files[b][i].status = "processing" /\ files[b][i].job = "none"}
             n == batch[b].at
  <2>1. n \in Nos
    BY <1>2, AtAFile DEF At
  <2>2. \A i \in T : i = n
    <3> SUFFICES ASSUME NEW i \in T, i # n PROVE FALSE
      OBVIOUS
    <3>1. Sound(files[b][i], i, batch[b], waiting[b][i])
      BY <1>2 DEF BatchesInv
    <3> QED
      BY <2>1, <3>1, BatchesAssumption DEF Sound, Unsent, Nos
  <2> HIDE DEF T
  <2>3. T \subseteq {n} /\ IsFiniteSet({n}) /\ Cardinality({n}) = 1
    BY <2>2, FS_Singleton
  <2>4. Cardinality(T) <= 1
    BY <2>3, FS_Subset
  <2> QED
    BY <2>4 DEF T
<1>3. BatchesInv => BatchesAreAccounted
  BY <1>1, <1>2 DEF BatchesAreAccounted
<1> QED
  BY BatchesInvHolds, <1>3, PTL

-----------------------------------------------------------------------------
(* Caches.                                                                 *)

CreateCall == [pc: {"idle", "build", "download", "ok", "failed"}, docs: SUBSET CacheDocs]

\* What the memory holds: a state of which the language model has all, and
\* that knows the documents of its list unless a creation was torn.
Held ==
    /\ active \in [docs: SUBSET CacheDocs, state: SUBSET (CacheDocs \cup {Question}),
                   held: SUBSET (CacheDocs \cup {Question})]
    /\ active.state \subseteq active.held
    /\ ~torn => active.docs \subseteq active.state

\* Creations come one at a time unless torn, and the one that runs has
\* described what it builds.
Described ==
    ~torn => /\ Creating = {} => described = saved
             /\ \A c \in Creating : Creating = {c} /\ cacheCall[c].docs = described

CachesInv ==
    /\ described \subseteq CacheDocs /\ saved \subseteq CacheDocs /\ torn \in BOOLEAN
    /\ cacheCall \in [CacheCalls -> CreateCall]
    /\ Held
    /\ Described

LEMMA CachesInvInit == CachesInit => CachesInv
<1> SUFFICES ASSUME CachesInit PROVE CachesInv
  OBVIOUS
<1>1. cacheCall \in [CacheCalls -> CreateCall] /\ Creating = {}
  BY DEF CachesInit, CreateCall, Creating, CacheAt
<1>2. Held
  BY DEF CachesInit, Held, NotActive
<1>3. Described
  BY <1>1 DEF CachesInit, Described
<1> QED
  BY <1>1, <1>2, <1>3 DEF CachesInit, CachesInv

\* What a step of one call does to the set of creations.
LEMMA CreatingAfter ==
    ASSUME CachesInv, NEW c \in CacheCalls, NEW pc, NEW D, Steps(c, pc, D)
    PROVE  Creating' = IF pc = "build" THEN Creating \cup {c} ELSE Creating \ {c}
BY DEF CachesInv, CreateCall, Steps, Creating, CacheAt

LEMMA CallTyped ==
    ASSUME CachesInv, NEW c \in CacheCalls, NEW D \in SUBSET CacheDocs,
           NEW pc \in {"idle", "build", "download", "ok", "failed"}, Steps(c, pc, D)
    PROVE  cacheCall' \in [CacheCalls -> CreateCall]
BY DEF CachesInv, CreateCall, Steps

\* The calls that create keep the invariant.
LEMMA CreationKeepsInv ==
    ASSUME CachesInv, NEW c \in CacheCalls,
           (\E D \in SUBSET CacheDocs : Describe(c, D)) \/ SaveState(c) \/ FailCreate(c)
    PROVE  CachesInv'
<1>1. ASSUME NEW D \in SUBSET CacheDocs, Describe(c, D) PROVE CachesInv'
  <2>1. Creating' = Creating \cup {c} /\ cacheCall' \in [CacheCalls -> CreateCall]
    BY <1>1, CreatingAfter, CallTyped DEF Describe
  <2>2. described' = D /\ torn' = (torn \/ Creating # {}) /\ UNCHANGED <<saved, active>>
    BY <1>1 DEF Describe
  <2>3. cacheCall'[c].docs = D
    BY <1>1 DEF Describe, Steps, CachesInv
  <2>4. Held'
    BY <2>2 DEF CachesInv, Held
  <2>5. Described'
    BY <2>1, <2>2, <2>3 DEF Described
  <2> QED
    BY <2>1, <2>2, <2>4, <2>5 DEF CachesInv
<1>2. CASE SaveState(c)
  <2>1. /\ c \in Creating /\ saved' = cacheCall[c].docs
        /\ Steps(c, "ok", {}) /\ UNCHANGED <<described, active, torn>>
    BY <1>2 DEF SaveState, Creating
  <2>2. Creating' = Creating \ {c} /\ cacheCall' \in [CacheCalls -> CreateCall]
    BY <2>1, CreatingAfter, CallTyped
  <2>3. saved' \subseteq CacheDocs
    BY <2>1 DEF CachesInv, CreateCall
  <2>4. Held'
    BY <2>1 DEF CachesInv, Held
  <2>5. Described'
    BY <2>1, <2>2 DEF CachesInv, Described
  <2> QED
    BY <2>1, <2>2, <2>3, <2>4, <2>5 DEF CachesInv
<1>3. CASE FailCreate(c)
  <2>1. /\ (c \in Creating /\ torn' = TRUE) \/ (c \notin Creating /\ torn' = torn)
        /\ Steps(c, "failed", {}) /\ UNCHANGED <<described, saved, active>>
    BY <1>3 DEF FailCreate, Creating, CacheAt
  <2>2. Creating' = Creating \ {c} /\ cacheCall' \in [CacheCalls -> CreateCall]
    BY <2>1, CreatingAfter, CallTyped
  <2>3. Held'
    BY <2>1 DEF CachesInv, Held
  <2>4. ASSUME NEW e \in Creating, e # c PROVE cacheCall'[e] = cacheCall[e]
    BY <2>1, <2>4 DEF Steps, CachesInv, Creating
  <2>5. Described'
    BY <2>1, <2>2, <2>4 DEF CachesInv, Described
  <2> QED
    BY <2>1, <2>2, <2>3, <2>5 DEF CachesInv
<1> QED
  BY <1>1, <1>2, <1>3

\* The calls that load keep it.
LEMMA LoadKeepsInv ==
    ASSUME CachesInv, NEW c \in CacheCalls, ReadRow(c) \/ Activate(c) \/ FailLoad(c)
    PROVE  CachesInv'
<1> DEFINE pc == IF CacheAt(c, "idle") THEN "download" ELSE "ok"
           D  == IF CacheAt(c, "idle") THEN described ELSE {}
<1>1. /\ c \notin Creating /\ UNCHANGED <<described, saved>>
      /\ Steps(c, pc, D) /\ D \in SUBSET CacheDocs
      /\ pc \in {"download", "ok"}
  BY DEF ReadRow, Activate, FailLoad, CacheAt, Creating, CachesInv
<1> HIDE DEF pc, D
<1>2. Creating' = Creating /\ cacheCall' \in [CacheCalls -> CreateCall]
  BY <1>1, CreatingAfter, CallTyped
<1>3. \A e \in Creating : cacheCall'[e] = cacheCall[e]
  BY <1>1 DEF Steps, CachesInv, Creating
<1>4. torn' \in BOOLEAN /\ (torn => torn')
  BY DEF ReadRow, Activate, FailLoad, CachesInv
<1>5. Described'
  BY <1>1, <1>2, <1>3, <1>4 DEF CachesInv, Described
<1>6. Held'
  <2>1. CASE Activate(c)
    <3>1. /\ active' = [docs |-> cacheCall[c].docs, state |-> saved, held |-> saved]
          /\ torn' = (torn \/ cacheCall[c].docs # described \/ Creating # {})
      BY <2>1 DEF Activate
    <3>2. cacheCall[c].docs \in SUBSET CacheDocs /\ saved \in SUBSET CacheDocs
      BY DEF CachesInv, CreateCall
    <3>3. ~torn' => cacheCall[c].docs = saved
      BY <3>1 DEF CachesInv, Described
    <3> QED
      BY <3>1, <3>2, <3>3 DEF Held
  <2>2. CASE ReadRow(c) \/ FailLoad(c)
    <3>1. UNCHANGED <<active, torn>>
      BY <2>2 DEF ReadRow, FailLoad
    <3> QED
      BY <3>1 DEF CachesInv, Held
  <2> QED
    BY <2>1, <2>2
<1> QED
  BY <1>1, <1>2, <1>4, <1>5, <1>6 DEF CachesInv

\* So do the calls on the cache in memory.
LEMMA UseKeepsInv ==
    ASSUME CachesInv, (\E D \in SUBSET CacheDocs : AddDocs(D) \/ FailAdd(D)) \/ QueryCache
    PROVE  CachesInv'
<1>1. UNCHANGED <<described, saved, cacheCall, torn>>
  BY DEF AddDocs, FailAdd, QueryCache
<1>2. Creating' = Creating
  BY <1>1 DEF Creating, CacheAt
<1>3. Described'
  BY <1>1, <1>2 DEF CachesInv, Described
<1>4. Held'
  <2>1. ASSUME NEW D \in SUBSET CacheDocs, AddDocs(D) PROVE Held'
    <3> DEFINE N == active.held \cup D
    <3>1. /\ N \in SUBSET (CacheDocs \cup {Question}) /\ active.state \subseteq N
          /\ ~torn => active.docs \subseteq active.state
      BY DEF CachesInv, Held
    <3>2. active' = [active EXCEPT !.state = N, !.held = N]
      BY <2>1 DEF AddDocs
    <3> HIDE DEF N
    <3>3. active' = [docs |-> active.docs, state |-> N, held |-> N]
          /\ active.docs \in SUBSET CacheDocs
      BY <3>2 DEF CachesInv, Held
    <3> QED
      BY <1>1, <3>1, <3>3 DEF Held
  <2>2. ASSUME NEW D \in SUBSET CacheDocs, FailAdd(D) PROVE Held'
    BY <1>1, <2>2 DEF FailAdd, CachesInv, Held
  <2>3. CASE QueryCache
    BY <1>1, <2>3 DEF QueryCache, CachesInv, Held
  <2> QED
    BY <2>1, <2>2, <2>3
<1> QED
  BY <1>1, <1>3, <1>4 DEF CachesInv

\* The end of the process leaves no creation running.
LEMMA StopKeepsInv ==
    ASSUME CachesInv, StopServer
    PROVE  CachesInv'
<1>1. /\ active' = NotActive /\ torn' = (torn \/ Creating # {}) /\ UNCHANGED <<described, saved>>
      /\ cacheCall' \in [CacheCalls -> CreateCall]
      /\ \A c \in CacheCalls : cacheCall'[c].pc # "build"
  BY DEF StopServer, CachesInv, CreateCall, CacheAt
<1>2. Creating' = {}
  BY <1>1 DEF Creating, CacheAt
<1>3. Described' /\ Held'
  BY <1>1, <1>2 DEF CachesInv, Described, Held, NotActive
<1> QED
  BY <1>1, <1>3 DEF CachesInv

LEMMA CachesInvHolds == CachesSpec => []CachesInv
<1>1. CachesInv /\ [CachesNext]_cacheVars => CachesInv'
  <2> SUFFICES ASSUME CachesInv, [CachesNext]_cacheVars PROVE CachesInv'
    OBVIOUS
  <2>1. CASE UNCHANGED cacheVars
    BY <2>1 DEF cacheVars, CachesInv, Held, Described, Creating, CacheAt
  <2>2. CASE CachesNext
    BY <2>2, CreationKeepsInv, LoadKeepsInv, UseKeepsInv, StopKeepsInv DEF CachesNext
  <2> QED
    BY <2>1, <2>2
<1> QED
  BY CachesInvInit, <1>1, PTL DEF CachesSpec

\* Row, state, memory and calls keep their types, for any documents and calls
\* (CachesTypeOK).
THEOREM CachesTypesCorrect == CachesSpec => []CachesTypeOK
<1>1. CachesInv => CachesTypeOK
  BY DEF CachesInv, CachesTypeOK, Held, CreateCall
<1> QED
  BY CachesInvHolds, <1>1, PTL

\* However creations, loads, additions and queries of one cache follow one
\* another, the stored state is of documents only, and without a torn creation
\* row, state and memory agree (create_cache, load_cache, add_docs_to_cache).
THEOREM OrderlyCachesAlwaysAgree == CachesSpec => []OrderlyCachesAgree
<1>1. CachesInv => OrderlyCachesAgree
  BY DEF CachesInv, OrderlyCachesAgree, Held, Described
<1> QED
  BY CachesInvHolds, <1>1, PTL
=============================================================================

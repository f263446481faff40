------------------------------ MODULE Folders ------------------------------
(***************************************************************************)
(* Folders.  A folder is a row with a list of document ids, and a document *)
(* carries the name of its folder: listings use the one, searches the      *)
(* other.  Both are written by calls that first read the folder in one     *)
(* database session and write it back in another, without a lock:          *)
(*                                                                         *)
(*   create      POST /folders                                             *)
(*   text, file  ingestion into a folder, through _ensure_folder_exists    *)
(*   add         POST /folders/{id}/documents/{id}                         *)
(*   remove      DELETE /folders/{id}/documents/{id}                       *)
(*   delete      DELETE /folders/{name}, which removes every document of   *)
(*               the folder in concurrent tasks, then deletes their rows   *)
(*               and the folder                                            *)
(*                                                                         *)
(* One owner makes all the calls.  Each action is what runs between two    *)
(* awaits on the database.                                                 *)
(***************************************************************************)
EXTENDS DocumentRows

CONSTANTS FolderIds,   \* uuids, each given to one folder at most
          FCalls,      \* calls
          Cloud,       \* settings.MODE = "cloud": folders are checked for the user's id
          FolderFaults \* which of {"db", "crash"} may happen

Folder  == [name : Names,
            docs : SUBSET Docs,
            open : BOOLEAN]     \* access_control names the user

ASSUME FoldersAssumption == /\ None \notin FolderIds \cup Folder
                            /\ IsFiniteSet(Docs)
                            /\ Cloud \in BOOLEAN
                            /\ FolderFaults \subseteq {"db", "crash"}

VARIABLES
    folders,   \* folders[f]: the row of f, or None
    fcall,     \* fcall[c]: the local state of call c
    sub,       \* sub[c][d]: the task of a delete call for document d
    subSeen,   \* subSeen[c][d]: the list that task has read
    used,      \* the ids given out, to folders and to documents
    want,      \* history: want[f], the list if every call were atomic
    crossed,   \* history: folders that two calls were working on at once
    raced,     \* history: names that two calls found free at the same time
    apart      \* history: documents whose folder name was parted from the lists

folderVars == <<folders, fcall, sub, subSeen, used, want, crossed, raced, apart>>

Ops     == {"create", "text", "file", "add", "remove", "delete"}
Steps   == {"row", "lookup", "check", "insert", "read", "readDoc", "write",
            "empty", "purge", "drop"}
CallPcs == Steps \cup {"new", "ok", "error", "crashed"}
Call    == [op : Ops, name : Names \cup {None}, doc : Docs \cup {None},
            f : FolderIds \cup {None}, seen : SUBSET Docs, pc : CallPcs]
SubSts  == {"none", "read", "write", "removed", "failed", "gone", "missing"}

FoldersTypeOK ==
    /\ folders \in [FolderIds -> {None} \cup Folder]
    /\ fcall   \in [FCalls -> Call]
    /\ sub     \in [FCalls -> [Docs -> SubSts]]
    /\ subSeen \in [FCalls -> [Docs -> SUBSET Docs]]
    /\ used    \in SUBSET (FolderIds \cup Docs)
    /\ want    \in [FolderIds -> SUBSET Docs]
    /\ crossed \in SUBSET FolderIds
    /\ raced   \in SUBSET Names
    /\ apart   \in SUBSET Docs

NewCall(op) == [op |-> op, name |-> None, doc |-> None, f |-> None, seen |-> {}, pc |-> "new"]
NoSub       == [d \in Docs |-> "none"]

\* Orderly calls have created folder f of name n with the documents D, or nothing.
FoldersInit ==
    /\ \/ /\ folders = [g \in FolderIds |-> None]
          /\ used = {d \in Docs : Exists(d)}
          /\ want = [g \in FolderIds |-> {}]
          /\ \A d \in Docs : Exists(d) => docs[d].folder \in NoFolder
       \/ \E f \in FolderIds, n \in Names, D \in SUBSET {d \in Docs : Exists(d)} :
             /\ folders = [g \in FolderIds |->
                             IF g = f THEN [name |-> n, docs |-> D, open |-> TRUE] ELSE None]
             /\ used = {f} \cup {d \in Docs : Exists(d)}
             /\ want = [g \in FolderIds |-> IF g = f THEN D ELSE {}]
             /\ \A d \in Docs :
                   Exists(d) => docs[d].folder \in IF d \in D THEN {n} ELSE NoFolder
    /\ fcall   = [c \in FCalls |-> NewCall("create")]
    /\ sub     = [c \in FCalls |-> NoSub]
    /\ subSeen = [c \in FCalls |-> [d \in Docs |-> {}]]
    /\ crossed = {}
    /\ raced   = {}
    /\ apart   = {}
-----------------------------------------------------------------------------
InStep(c, op, pc) == fcall[c].op \in op /\ fcall[c].pc = pc
ToStep(c, pc)     == fcall' = [fcall EXCEPT ![c].pc = pc]
Ingests       == {"text", "file"}

\* After _ensure_folder_exists, whose result and errors ingestion ignores.
Ensured(c) == IF fcall[c].op = "text" THEN "row" ELSE "ok"

\* _check_folder_access for the owner, who has no admin permission of its own.
Access(f) == Cloud => folders[f].open

Named(n)  == {f \in FolderIds : folders[f] # None /\ folders[f].name = n}
Listing(d) == {f \in FolderIds : folders[f] # None /\ d \in folders[f].docs}

\* A call is still at work on folder f, a task of a failed delete included.
WorksOn(c, f) ==
    /\ fcall[c].f = f
    /\ fcall[c].pc \in Steps \/ \E d \in Docs : sub[c][d] \in {"read", "write"}

\* Call c, about to work on f, finds others there.
Crossing(c, f) == IF \E b \in FCalls \ {c} : WorksOn(b, f) THEN {f} ELSE {}

\* Documents whose listing a write-back from an outdated list changes by accident.
Disturbed(f, seen) == (seen \ folders[f].docs) \cup (folders[f].docs \ seen)

\* Variant with a fault: the name is never taken back.
KeepFolderName(d, n) ==
    docs' = IF Exists(d) /\ n # None THEN [docs EXCEPT ![d].folder = n] ELSE docs

\* jsonb_set on one key of the row, if there is one.
SetFolderName(d, n) ==
    docs' = IF Exists(d) THEN [docs EXCEPT ![d].folder = n] ELSE docs

Fail(c, pc) ==
    /\ ToStep(c, pc)
    /\ UNCHANGED <<folders, docs, sub, subSeen, used, want, crossed, raced>>
-----------------------------------------------------------------------------
(* What a client may ask for.                                              *)

Start(c, call) ==
    /\ fcall[c].pc = "new"
    /\ fcall' = [fcall EXCEPT ![c] = call]
    /\ UNCHANGED <<folders, docs, sub, subSeen, want, raced, apart>>

\* POST /folders.
StartCreate(c) ==
    /\ \E n \in Names : Start(c, [NewCall("create") EXCEPT !.name = n, !.pc = "check"])
    /\ UNCHANGED <<used, crossed>>

\* DELETE /folders/{name}.
StartDelete(c) ==
    /\ \E n \in Names : Start(c, [NewCall("delete") EXCEPT !.name = n, !.pc = "lookup"])
    /\ UNCHANGED <<used, crossed>>

\* Ingestion into a folder, under a fresh document id: ingest_text looks after the
\* folder before the row exists, the routes for files after it.
StartIngest(c) ==
    /\ \E n \in Names, d \in Docs \ used :
          /\ used' = used \cup {d}
          /\ \/ Start(c, [NewCall("text") EXCEPT !.name = n, !.doc = d, !.pc = "lookup"])
             \/ Start(c, [NewCall("file") EXCEPT !.name = n, !.doc = d, !.pc = "row"])
    /\ UNCHANGED crossed

\* The two routes that take a folder's id and a document's id.
StartMove(c) ==
    \E f \in used \cap FolderIds, d \in used \cap Docs, op \in {"add", "remove"} :
       /\ Start(c, [NewCall(op) EXCEPT !.doc = d, !.f = f, !.pc = "read"])
       /\ crossed' = crossed \cup Crossing(c, f)
       /\ UNCHANGED used
-----------------------------------------------------------------------------
(* create_folder and get_folder_by_name.                                   *)

\* The SELECT of create_folder.  One row of the name: reported as success, the
\* document ids given are dropped.  Several: scalar_one_or_none raises, which is
\* False.  Ingestion takes no notice of either.
CheckName(c) ==
    LET n == fcall[c].name
        ingest == fcall[c].op \in Ingests
        racing == \E b \in FCalls \ {c} : fcall[b].name = n /\ fcall[b].pc = "insert"
    IN
    /\ fcall[c].pc = "check"
    /\ \/ /\ Named(n) = {}
          /\ ToStep(c, "insert")
          /\ raced' = IF racing THEN raced \cup {n} ELSE raced
          /\ UNCHANGED apart
       \/ /\ Named(n) # {} \/ "db" \in FolderFaults
          /\ ToStep(c, IF ingest THEN Ensured(c)
                       ELSE IF Cardinality(Named(n)) = 1 THEN "ok" ELSE "error")
          /\ apart' = IF ingest THEN apart \cup {fcall[c].doc} ELSE apart
          /\ UNCHANGED raced
    /\ UNCHANGED <<folders, docs, sub, subSeen, used, want, crossed>>

\* Other calls have moved document d, which had a row with folder name n at first.
Moved(d, n) == Exists(d) /\ (docs[d].folder # n \/ Listing(d) # {})

\* The insert.  A folder that ingestion creates lists the document, whatever has or
\* will become of it, and its access control does not name the user.
InsertFolder(c) ==
    LET ingest == fcall[c].op \in Ingests
        D == IF ingest THEN {fcall[c].doc} ELSE {}
        moved == ingest /\ Moved(fcall[c].doc, fcall[c].name)
    IN
    /\ fcall[c].pc = "insert"
    /\ \/ /\ \E f \in FolderIds \ used :
                /\ folders' = [folders EXCEPT ![f] =
                      [name |-> fcall[c].name, docs |-> D, open |-> ~ingest]]
                /\ used' = used \cup {f}
                /\ want' = [want EXCEPT ![f] = D]
          /\ ToStep(c, IF ingest THEN Ensured(c) ELSE "ok")
          /\ apart' = IF moved THEN apart \cup D ELSE apart
       \/ /\ "db" \in FolderFaults
          /\ ToStep(c, IF ingest THEN Ensured(c) ELSE "error")
          /\ apart' = apart \cup D
          /\ UNCHANGED <<folders, used, want>>
    /\ UNCHANGED <<docs, sub, subSeen, crossed, raced>>

\* get_folder_by_name: some row of the name, if the owner passes the access check;
\* an error is None as well.  Ingestion then goes on to add_document_to_folder, and
\* without a folder to create_folder; delete_folder takes the id of None and fails.
LookupFolder(c) ==
    LET found == Named(fcall[c].name) IN
    /\ fcall[c].pc = "lookup"
    /\ \/ /\ found = {} \/ (\E f \in found : ~Access(f)) \/ "db" \in FolderFaults
          /\ ToStep(c, IF fcall[c].op = "delete" THEN "error" ELSE "check")
          /\ UNCHANGED <<sub, crossed>>
       \/ \E f \in {g \in found : Access(g)} :
             LET D == folders[f].docs IN
             IF fcall[c].op = "delete"
             THEN /\ fcall' = [fcall EXCEPT ![c].f = f, ![c].seen = D, ![c].pc = "empty"]
                  /\ sub' = [sub EXCEPT ![c] = [d \in Docs |->
                                IF d \in D THEN "read" ELSE "none"]]
                  /\ crossed' = crossed \cup Crossing(c, f)
                                \cup (IF Cardinality(D) > 1 THEN {f} ELSE {})
             ELSE /\ fcall' = [fcall EXCEPT ![c].f = f, ![c].pc = "read"]
                  /\ crossed' = crossed \cup Crossing(c, f)
                  /\ UNCHANGED sub
    /\ UNCHANGED <<folders, docs, subSeen, used, want, raced, apart>>
-----------------------------------------------------------------------------
(* add_document_to_folder and remove_document_from_folder.                 *)

\* How add_document_to_folder ends when it returns False.
NotAdded(c) ==
    /\ Fail(c, IF fcall[c].op \in Ingests THEN Ensured(c) ELSE "error")
    /\ apart' = IF fcall[c].op \in Ingests THEN apart \cup {fcall[c].doc} ELSE apart

Adds(c) == fcall[c].op \in Ingests \cup {"add"}

\* get_folder.  A remove of a document that is not listed succeeds at once.
ReadFolder(c) ==
    LET f == fcall[c].f
        readable == folders[f] # None /\ Access(f)
    IN
    /\ fcall[c].pc = "read"
    /\ \/ /\ readable
          /\ fcall' = [fcall EXCEPT ![c].seen = folders[f].docs, ![c].pc =
                IF Adds(c) THEN "readDoc"
                ELSE IF fcall[c].doc \in folders[f].docs THEN "write" ELSE "ok"]
          /\ UNCHANGED <<folders, docs, sub, subSeen, used, want, crossed, raced, apart>>
       \/ /\ ~readable \/ "db" \in FolderFaults
          /\ NotAdded(c)

\* get_document, before the look into the list.
ReadDocument(c) ==
    /\ fcall[c].pc = "readDoc"
    /\ \/ /\ Exists(fcall[c].doc)
          /\ ToStep(c, IF fcall[c].doc \notin fcall[c].seen THEN "write"
                   ELSE IF fcall[c].op \in Ingests THEN Ensured(c) ELSE "ok")
          /\ UNCHANGED <<folders, docs, sub, subSeen, used, want, crossed, raced, apart>>
       \/ /\ ~Exists(fcall[c].doc) \/ "db" \in FolderFaults
          /\ NotAdded(c)

\* Variant with a fault: an added document replaces the list.
ListOfOne(c) == IF Adds(c) THEN {fcall[c].doc} ELSE fcall[c].seen \ {fcall[c].doc}

\* new_document_ids, made from the list that was read.
NewList(c) == IF Adds(c) THEN fcall[c].seen \cup {fcall[c].doc}
                         ELSE fcall[c].seen \ {fcall[c].doc}

\* The list goes back whole, and the document's row gets the folder's name.
WriteList(c) ==
    LET f == fcall[c].f
        d == fcall[c].doc
        seen == fcall[c].seen
    IN
    /\ fcall[c].pc = "write"
    /\ \/ /\ folders[f] # None
          /\ folders' = [folders EXCEPT ![f].docs = NewList(c)]
          /\ SetFolderName(d, IF Adds(c) THEN folders[f].name ELSE None)
          /\ want' = [want EXCEPT ![f] = IF Adds(c) THEN @ \cup {d} ELSE @ \ {d}]
          /\ ToStep(c, IF fcall[c].op \in Ingests THEN Ensured(c) ELSE "ok")
          /\ apart' = apart \cup (Disturbed(f, seen) \ {d})
                            \cup (IF Listing(d) \ {f} # {} THEN {d} ELSE {})
          /\ UNCHANGED <<sub, subSeen, used, crossed, raced>>
       \/ /\ folders[f] = None \/ "db" \in FolderFaults
          /\ NotAdded(c)
-----------------------------------------------------------------------------
(* The rest of delete_folder.                                              *)

\* get_folder of one of the tasks.
TaskRead(c, d) ==
    LET f == fcall[c].f IN
    /\ sub[c][d] = "read"
    /\ \/ /\ folders[f] # None
          /\ sub' = [sub EXCEPT ![c][d] = IF d \in folders[f].docs THEN "write" ELSE "removed"]
          /\ subSeen' = [subSeen EXCEPT ![c][d] = folders[f].docs]
       \/ /\ folders[f] = None \/ "db" \in FolderFaults
          /\ sub' = [sub EXCEPT ![c][d] = "failed"]
          /\ UNCHANGED subSeen
    /\ UNCHANGED <<folders, docs, fcall, used, want, crossed, raced, apart>>

\* Its write, from a list that the other tasks may have written since.
TaskWrite(c, d) ==
    LET f == fcall[c].f
        seen == subSeen[c][d]
    IN
    /\ sub[c][d] = "write"
    /\ \/ /\ folders[f] # None
          /\ folders' = [folders EXCEPT ![f].docs = seen \ {d}]
          /\ SetFolderName(d, None)
          /\ want' = [want EXCEPT ![f] = @ \ {d}]
          /\ apart' = apart \cup (Disturbed(f, seen) \ {d})
                            \cup (IF Listing(d) \ {f} # {} THEN {d} ELSE {})
          /\ sub' = [sub EXCEPT ![c][d] = "removed"]
       \/ /\ folders[f] = None \/ "db" \in FolderFaults
          /\ sub' = [sub EXCEPT ![c][d] = "failed"]
          /\ UNCHANGED <<folders, docs, want, apart>>
    /\ UNCHANGED <<fcall, subSeen, used, crossed, raced>>

\* gather raises the first failure and leaves the other tasks running; with all
\* of them done the rows are deleted, in tasks again.
Emptied(c) ==
    /\ InStep(c, {"delete"}, "empty")
    /\ \/ (\E d \in fcall[c].seen : sub[c][d] = "failed") /\ ToStep(c, "error")
       \/ (\A d \in fcall[c].seen : sub[c][d] = "removed") /\ ToStep(c, "purge")
    /\ UNCHANGED <<folders, docs, sub, subSeen, used, want, crossed, raced, apart>>

\* db.delete_document: the row alone, neither chunks nor files.
TaskPurge(c, d) ==
    /\ fcall[c].pc = "purge" /\ sub[c][d] = "removed"
    /\ \/ /\ Exists(d)
          /\ docs' = [docs EXCEPT ![d] = None]
          /\ sub' = [sub EXCEPT ![c][d] = "gone"]
       \/ /\ ~Exists(d) \/ "db" \in FolderFaults
          /\ sub' = [sub EXCEPT ![c][d] = "missing"]
          /\ UNCHANGED docs
    /\ UNCHANGED <<folders, fcall, subSeen, used, want, crossed, raced, apart>>

\* Variant with a fault: documents that could not be deleted are passed over.
PurgedAnyway(c) ==
    /\ InStep(c, {"delete"}, "purge")
    /\ (\A d \in fcall[c].seen : sub[c][d] \in {"gone", "missing"}) /\ ToStep(c, "drop")
    /\ UNCHANGED <<folders, docs, sub, subSeen, used, want, crossed, raced, apart>>

\* Every task has ended; one that found no row is a failure.
Purged(c) ==
    LET ended == \A d \in fcall[c].seen : sub[c][d] \in {"gone", "missing"} IN
    /\ InStep(c, {"delete"}, "purge") /\ ended
    /\ ToStep(c, IF \E d \in fcall[c].seen : sub[c][d] = "missing" THEN "error" ELSE "drop")
    /\ UNCHANGED <<folders, docs, sub, subSeen, used, want, crossed, raced, apart>>

\* db.delete_folder, whether or not the list is empty by now.
DropFolder(c) ==
    LET f == fcall[c].f IN
    /\ InStep(c, {"delete"}, "drop")
    /\ \/ /\ folders[f] # None
          /\ folders' = [folders EXCEPT ![f] = None]
          /\ apart' = apart \cup folders[f].docs
          /\ ToStep(c, "ok")
       \/ /\ folders[f] = None \/ "db" \in FolderFaults
          /\ ToStep(c, "error")
          /\ UNCHANGED <<folders, apart>>
    /\ UNCHANGED <<docs, sub, subSeen, used, want, crossed, raced>>
-----------------------------------------------------------------------------
\* The row of the ingested document: last for a text, first for a file, and with
\* the folder's name in it already.  What else ingestion does is in Ingestion.
IngestRow(c) ==
    LET d == fcall[c].doc
        files == IF fcall[c].op = "text" THEN <<>> ELSE <<Base>>
    IN
    /\ InStep(c, Ingests, "row")
    /\ \/ /\ docs' = [docs EXCEPT ![d] = Ingested({Base}, files, fcall[c].name)]
          /\ ToStep(c, IF fcall[c].op = "text" THEN "ok" ELSE "lookup")
          /\ apart' = IF fcall[c].op = "text" /\ Listing(d) = {}
                      THEN apart \cup {d} ELSE apart
       \/ /\ ToStep(c, "error")
          /\ UNCHANGED <<docs, apart>>
    /\ UNCHANGED <<folders, sub, subSeen, used, want, crossed, raced>>

\* The server dies with every call in it.
FoldersCrash ==
    /\ "crash" \in FolderFaults
    /\ \E c \in FCalls : fcall[c].pc \in Steps
    /\ fcall' = [c \in FCalls |-> IF fcall[c].pc \in Steps
                                  THEN [fcall[c] EXCEPT !.pc = "crashed"] ELSE fcall[c]]
    /\ sub' = [c \in FCalls |-> NoSub]
    /\ apart' = apart \cup {d \in Docs : \E c \in FCalls :
                    fcall[c].doc = d /\ fcall[c].op \in Ingests /\ fcall[c].pc \in Steps}
    /\ UNCHANGED <<folders, docs, subSeen, used, want, crossed, raced>>

FoldersStep(c) ==
    \/ StartCreate(c) \/ StartDelete(c) \/ StartIngest(c) \/ StartMove(c)
    \/ CheckName(c) \/ InsertFolder(c) \/ LookupFolder(c)
    \/ ReadFolder(c) \/ ReadDocument(c) \/ WriteList(c)
    \/ Emptied(c) \/ Purged(c) \/ DropFolder(c) \/ IngestRow(c)
    \/ \E d \in Docs : TaskRead(c, d) \/ TaskWrite(c, d) \/ TaskPurge(c, d)

FoldersNext == FoldersCrash \/ \E c \in FCalls : FoldersStep(c)
-----------------------------------------------------------------------------
(* Properties.                                                             *)

\* create_folder looks for the name and inserts in a second step, and so two
\* folders of one name need two calls that found the name free before either
\* inserted.
NamesAreUnique ==
    \A n \in Names : n \notin raced => \A f, g \in Named(n) : f = g

\* A list that is read, changed and written back in another session is what the
\* calls on it amount to, as long as no two of them worked on the folder at once;
\* delete_folder's own tasks count as two.
OrderlyListsAreExact ==
    \A f \in FolderIds \ crossed : folders[f] # None => folders[f].docs = want[f]

\* Folders go wrong by overlapping calls alone, in their names and in their lists.
OrderlyFoldersAreExact == NamesAreUnique /\ OrderlyListsAreExact

\* No call is at work on document d.
Quiet(d) == \A c \in FCalls :
               /\ fcall[c].pc \in Steps => fcall[c].doc # d /\ sub[c][d] = "none"
               /\ sub[c][d] \notin {"read", "write"}

\* Searches go by the name in the document's row, listings by the folder's list.
\* They part only where a list was written back outdated, a document was put into a
\* second folder, ingestion could not list it, had its listing removed before the row
\* was there or made its folder after the row had been moved, or a folder was dropped
\* with documents in it.
FolderNameAgrees ==
    \A d \in Docs \ apart :
       Exists(d) /\ Quiet(d) =>
          {folders[f].name : f \in Listing(d)} = {docs[d].folder} \ NoFolder

\* A delete_folder that reports success has left neither the folder nor a row of
\* the documents it listed at the start, and no late write brings them back.
DeletedFoldersAreGone ==
    \A c \in FCalls :
       InStep(c, {"delete"}, "ok") =>
          folders[fcall[c].f] = None /\ \A d \in fcall[c].seen : ~Exists(d)
=============================================================================

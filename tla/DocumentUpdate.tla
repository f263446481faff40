--------------------------- MODULE DocumentUpdate ---------------------------
(***************************************************************************)
(* Calls on a document that ingestion has completed:                       *)
(*                                                                         *)
(*   text, file, meta  the three update routes, over                       *)
(*                     DocumentService.update_document                     *)
(*   rules             what set_folder_rule does to one document of the    *)
(*                     folder                                              *)
(*   delete            DocumentService.delete_document                     *)
(*                                                                         *)
(* Each works on a copy of the row, for as long as parsing and embedding   *)
(* take, and writes whole columns back.  They share the row, the vector    *)
(* store, the object store and one field of the service object,            *)
(* _last_aggregated_metadata.                                              *)
(*                                                                         *)
(* A batch of chunks stands for the content it was cut from; the regular   *)
(* and the ColPali store are filled together and are one here (module      *)
(* Ingestion tells them apart).                                            *)
(***************************************************************************)
EXTENDS DocumentRows

CONSTANTS UpdateFaults,  \* which of {"step", "db", "crash"} may happen
          RuledOps,      \* which updates may come with rules
          MaxFiles       \* bound on the files of a document

ASSUME UpdateAssumption == /\ UpdateFaults \subseteq {"step", "db", "crash"}
                           /\ RuledOps \subseteq {"text", "file"}
                           /\ MaxFiles \in Nat \ {0}

VARIABLES
    chunks,     \* chunks[d]: the batches that were inserted for d
    blobs,      \* blobs[d][v]: whose upload lies under the key of version v of d
    last,       \* _last_aggregated_metadata: the call whose rule results it holds
    ucall,      \* ucall[u]: the local state of call u
    busy,       \* history: documents that two calls were working on at once
    failed,     \* history: documents that an update failed on half-way
    mixed       \* history: two updates were between split and merge at once

updateVars == <<chunks, blobs, last, ucall, busy, failed, mixed>>

Versions  == 1 .. MaxFiles
Updates   == {"text", "file", "meta"}
UpdateOps == Updates \cup {"rules", "delete"}
UpdateSteps == {"access", "upload1", "upload2", "split", "merge", "store", "apply",
                "existing", "write", "remove", "clean"}
UpdatePcs == UpdateSteps \cup {"new", "ok", "error", "crashed"}
UpdateCall ==
    [op : UpdateOps, doc : Docs \cup {None}, ruled : BOOLEAN, copy : Snapshot,
     current : Snapshot, todo : SUBSET ({0} \cup Versions), pc : UpdatePcs]

UpdatesTypeOK ==
    /\ docs   \in [Docs -> Snapshot]
    /\ chunks \in [Docs -> SUBSET SUBSET Parts]
    /\ blobs  \in [Docs -> [Versions -> {None} \cup Parts]]
    /\ last   \in {None} \cup UCalls
    /\ ucall  \in [UCalls -> UpdateCall]
    /\ busy   \in SUBSET Docs
    /\ failed \in SUBSET Docs
    /\ mixed  \in BOOLEAN

Idle == [op |-> "meta", doc |-> None, ruled |-> FALSE, copy |-> None,
         current |-> None, todo |-> {}, pc |-> "new"]

UpdatesInit ==
    /\ chunks = [d \in Docs |-> IF Exists(d) /\ docs[d].text # {} THEN {docs[d].text} ELSE {}]
    /\ blobs  = [d \in Docs |-> [v \in Versions |->
                   IF Exists(d) /\ v <= Len(docs[d].files) THEN Base ELSE None]]
    /\ last   = None
    /\ ucall  = [u \in UCalls |-> Idle]
    /\ busy   = {}
    /\ failed = {}
    /\ mixed  = FALSE
-----------------------------------------------------------------------------
Doc(u)    == ucall[u].doc
Copy(u)   == ucall[u].copy
UStep(u, pc)  == ucall[u].pc = pc
UGoto(u, pc)  == ucall' = [ucall EXCEPT ![u].pc = pc]
Working(u, d) == Doc(u) = d /\ ucall[u].pc \in UpdateSteps
UnchangedStores == UNCHANGED <<docs, chunks, blobs>>
UnchangedNotes  == UNCHANGED <<busy, mixed>>

\* An update that ends without its row written may leave chunks and files behind.
UFail(u) ==
    /\ UGoto(u, "error")
    /\ failed' = failed \cup {Doc(u)}

\* _validate_update_access reads the document; get_documents_by_id for the rules.
\* delete_document reads it the same way.
Read(u) ==
    /\ UStep(u, "new")
    /\ \E d \in Docs, op \in UpdateOps, ruled \in BOOLEAN :
          /\ ruled => op \in RuledOps
          /\ ucall' = [ucall EXCEPT ![u] =
                [Idle EXCEPT !.op = op, !.doc = d, !.ruled = ruled, !.copy = docs[d],
                 !.pc = IF ~Exists(d) THEN "error"
                        ELSE IF op = "rules" THEN "apply" ELSE "access"]]
          /\ busy' = IF \E w \in UCalls \ {u} : Working(w, d) THEN busy \cup {d} ELSE busy
    /\ UnchangedStores
    /\ UNCHANGED <<last, failed, mixed>>

FirstStep == [file |-> "upload1", text |-> "split", meta |-> "existing", delete |-> "remove"]

\* check_access reads the row again.
CheckAccess(u) ==
    /\ UStep(u, "access")
    /\ UGoto(u, IF Exists(Doc(u)) THEN FirstStep[ucall[u].op] ELSE "error")
    /\ UnchangedStores /\ UnchangedNotes
    /\ UNCHANGED <<last, failed>>
-----------------------------------------------------------------------------
(* The update routes.                                                      *)

\* Variant with a fault: the key is that of the newest version.
SameVersion(u) == Len(Copy(u).files)

\* The version of a new file: one more than the copy lists.
NextVersion(u) == Len(Copy(u).files) + 1

\* _update_storage_info, called by _process_file_update and by update_document
\* again: two versions for one file.  The key is made of the id and the version.
Upload(u) ==
    LET v == NextVersion(u) IN
    /\ ucall[u].pc \in {"upload1", "upload2"}
    /\ \/ /\ v \in Versions
          /\ blobs' = [blobs EXCEPT ![Doc(u)][v] = u]
          /\ ucall' = [ucall EXCEPT ![u].copy.files = Append(@, u), ![u].pc =
                          IF UStep(u, "upload1") THEN "upload2" ELSE "split"]
          /\ UNCHANGED failed
       \/ "step" \in UpdateFaults /\ UFail(u) /\ UNCHANGED blobs
    /\ UnchangedNotes
    /\ UNCHANGED <<docs, chunks, last>>

\* Variant with a fault: an update without rules leaves the field alone.
LeaveRules(u) == last' = IF ucall[u].ruled THEN u ELSE last

\* _last_aggregated_metadata is set by every update, to nothing without rules.
HoldRules(u) == last' = IF ucall[u].ruled THEN u ELSE None

\* The new content is appended to the copy's, unless parsing found no text; the
\* version goes up; the whole content is split.  Without chunks the update ends
\* here, files stored or not.  The rules' results wait in the service object while
\* the chunks are embedded.
Split(u) ==
    /\ UStep(u, "split")
    /\ \E text \in {Copy(u).text \cup {u}} \cup
                    (IF ucall[u].op = "file" THEN {Copy(u).text} ELSE {}) :
          IF text = {}
          THEN UFail(u) /\ UNCHANGED <<last, mixed>>
          ELSE /\ ucall' = [ucall EXCEPT ![u].copy.text = text,
                                         ![u].copy.version = @ + 1, ![u].pc = "merge"]
               /\ HoldRules(u)
               /\ mixed' = (mixed \/ \E w \in UCalls \ {u} : UStep(w, "merge"))
               /\ UNCHANGED failed
    /\ UnchangedStores
    /\ UNCHANGED busy

\* The embeddings are there: what the service object holds by now is merged into
\* the document's metadata.  The rules of the document have been there all along.
Merge(u) ==
    /\ UStep(u, "merge")
    /\ \/ /\ ucall' = [ucall EXCEPT ![u].copy.tags = @ \cup ({last} \ {None}), ![u].pc = "store"]
          /\ last' = None
          /\ UNCHANGED failed
       \/ "step" \in UpdateFaults /\ UFail(u) /\ UNCHANGED last
    /\ UnchangedStores /\ UnchangedNotes

\* Variant with a fault, or what the comment above the call says: new chunks replace
\* the old ones.
Replace(d, batch) == chunks' = [chunks EXCEPT ![d] = {batch}]

\* store_embeddings only inserts.
Insert(d, batch) == chunks' = [chunks EXCEPT ![d] = @ \cup {batch}]

\* _store_chunks_and_doc inserts all chunks of the new content; the old ones stay.
Store(u) ==
    /\ UStep(u, "store")
    /\ \/ /\ Insert(Doc(u), Copy(u).text)
          /\ ucall' = [ucall EXCEPT ![u].copy.chunked = Copy(u).text, ![u].pc = "existing"]
          /\ UNCHANGED failed
       \/ /\ "step" \in UpdateFaults
          /\ UFail(u)
          /\ Insert(Doc(u), Copy(u).text) \/ UNCHANGED chunks
    /\ UnchangedNotes
    /\ UNCHANGED <<docs, blobs, last>>

\* Database.update_document reads the row, to merge into its system_metadata.
ReadExisting(u) ==
    /\ UStep(u, "existing")
    /\ \/ /\ Exists(Doc(u))
          /\ ucall' = [ucall EXCEPT ![u].current = docs[Doc(u)], ![u].pc = "write"]
          /\ UNCHANGED failed
       \/ ~Exists(Doc(u)) /\ UFail(u)
    /\ UnchangedStores /\ UnchangedNotes
    /\ UNCHANGED last

\* The folder name that the merge ends up with: the copy's, if it has the key.
MergedFolder(u) ==
    IF Copy(u).folder = Unset THEN ucall[u].current.folder ELSE Copy(u).folder

\* Every key of the copy wins over the row's.  Chunk ids are among the columns
\* unless only metadata is updated, which makes the version go up as well.
Written(u) ==
    LET meta == ucall[u].op = "meta" IN
    [Copy(u) EXCEPT !.folder = MergedFolder(u),
                    !.version = IF meta THEN @ + 1 ELSE @,
                    !.chunked = IF meta THEN docs[Doc(u)].chunked ELSE @]

\* The write of update_document, in another session.
Write(u) ==
    /\ UStep(u, "write") /\ ucall[u].op \in Updates
    /\ \/ /\ Exists(Doc(u))
          /\ docs' = [docs EXCEPT ![Doc(u)] = Written(u)]
          /\ UGoto(u, "ok")
          /\ UNCHANGED failed
       \/ (~Exists(Doc(u)) \/ "db" \in UpdateFaults) /\ UFail(u) /\ UNCHANGED docs
    /\ UnchangedNotes
    /\ UNCHANGED <<chunks, blobs, last>>
-----------------------------------------------------------------------------
(* set_folder_rule, for one document.                                      *)

\* A language model extracts metadata from the copy's content: nothing to do
\* without content, given up after three attempts.
Apply(u) ==
    /\ UStep(u, "apply")
    /\ \/ /\ Copy(u).text # {}
          /\ ucall' = [ucall EXCEPT ![u].copy.tags = @ \cup {u}, ![u].pc = "existing"]
       \/ (Copy(u).text = {} \/ "step" \in UpdateFaults) /\ UGoto(u, "error")
    /\ UnchangedStores /\ UnchangedNotes
    /\ UNCHANGED <<last, failed>>

\* The metadata and the content are the copy's, the rest of system_metadata is what
\* update_document has read, the other columns stay.
WriteRules(u) ==
    LET row == docs[Doc(u)]
        new == [row EXCEPT !.tags = Copy(u).tags, !.text = Copy(u).text,
                           !.version = ucall[u].current.version,
                           !.folder = ucall[u].current.folder]
    IN
    /\ UStep(u, "write") /\ ucall[u].op = "rules"
    /\ \/ Exists(Doc(u)) /\ docs' = [docs EXCEPT ![Doc(u)] = new] /\ UGoto(u, "ok")
       \/ (~Exists(Doc(u)) \/ "db" \in UpdateFaults) /\ UGoto(u, "error") /\ UNCHANGED docs
    /\ UnchangedNotes
    /\ UNCHANGED <<chunks, blobs, last, failed>>
-----------------------------------------------------------------------------
(* delete_document.                                                        *)

\* Variant with a fault: the newest file is passed over.
CleanOlder(u) == (1 .. Len(Copy(u).files) - 1) \cup (IF Copy(u).chunked = {} THEN {} ELSE {0})

\* What the copy says there is to clean up: the files it lists and, if it lists
\* chunks, every chunk of the document (0 in todo).
CleanUp(u) == (1 .. Len(Copy(u).files)) \cup (IF Copy(u).chunked = {} THEN {} ELSE {0})

\* The row goes first.
RemoveRow(u) ==
    /\ UStep(u, "remove")
    /\ \/ /\ Exists(Doc(u))
          /\ docs' = [docs EXCEPT ![Doc(u)] = None]
          /\ ucall' = [ucall EXCEPT ![u].todo = CleanUp(u), ![u].pc = "clean"]
       \/ (~Exists(Doc(u)) \/ "db" \in UpdateFaults) /\ UGoto(u, "error") /\ UNCHANGED docs
    /\ UnchangedNotes
    /\ UNCHANGED <<chunks, blobs, last, failed>>

\* The clean-up tasks run concurrently; the failure of one is logged.
Clean(u, i) ==
    /\ UStep(u, "clean") /\ i \in ucall[u].todo
    /\ ucall' = [ucall EXCEPT ![u].todo = @ \ {i}]
    /\ \/ /\ i = 0
          /\ chunks' = [chunks EXCEPT ![Doc(u)] = {}]
          /\ UNCHANGED <<blobs, failed>>
       \/ /\ i # 0
          /\ blobs' = [blobs EXCEPT ![Doc(u)][i] = None]
          /\ UNCHANGED <<chunks, failed>>
       \/ /\ "step" \in UpdateFaults
          /\ failed' = failed \cup {Doc(u)}
          /\ UNCHANGED <<chunks, blobs>>
    /\ UnchangedNotes
    /\ UNCHANGED <<docs, last>>

Deleted(u) ==
    /\ UStep(u, "clean") /\ ucall[u].todo = {}
    /\ UGoto(u, "ok")
    /\ UnchangedStores /\ UnchangedNotes
    /\ UNCHANGED <<last, failed>>
-----------------------------------------------------------------------------
\* The server dies with every call in it, and the service object is a new one.
UpdatesCrash ==
    /\ "crash" \in UpdateFaults
    /\ \E u \in UCalls : ucall[u].pc \in UpdateSteps
    /\ failed' = failed \cup {d \in Docs : \E u \in UCalls : Working(u, d)}
    /\ ucall' = [u \in UCalls |-> IF ucall[u].pc \in UpdateSteps
                                  THEN [ucall[u] EXCEPT !.pc = "crashed"] ELSE ucall[u]]
    /\ last' = None
    /\ UnchangedStores /\ UnchangedNotes

UpdatesStep(u) ==
    \/ Read(u) \/ CheckAccess(u)
    \/ Upload(u) \/ Split(u) \/ Merge(u) \/ Store(u) \/ Write(u)
    \/ Apply(u) \/ ReadExisting(u) \/ WriteRules(u)
    \/ RemoveRow(u) \/ Deleted(u) \/ \E i \in {0} \cup Versions : Clean(u, i)

UpdatesNext == UpdatesCrash \/ \E u \in UCalls : UpdatesStep(u)
-----------------------------------------------------------------------------
(* Properties.                                                             *)

\* Chunks are stored before the row that names them and deleted after it: no
\* interleaving of updates, rules, deletions and failures leaves a row that names
\* chunks which are not in the store.
ListedChunksAreStored ==
    \A d \in Docs : Exists(d) /\ docs[d].chunked # {} => docs[d].chunked \in chunks[d]

\* The content in the row is the content its chunks were cut from, unless two calls
\* worked on the document at once: an update of metadata, or rules applied to the
\* folder, write their copy of the content over a newer one.
ContentMatchesChunks ==
    \A d \in Docs \ busy : Exists(d) => docs[d].text = docs[d].chunked

\* Each version the row lists has its own file under its key, unless two calls
\* worked on the document at once: they take the same version for their files, and
\* the later upload replaces the earlier one even if its update then fails.
VersionsKeepTheirFiles ==
    \A d \in Docs \ busy : Exists(d) =>
       \A v \in 1 .. Len(docs[d].files) : blobs[d][v] = docs[d].files[v]

\* The version counts the updates that succeeded, unless two calls worked on the
\* document at once, when the later one writes over the earlier one.
VersionsCountUpdates ==
    \A d \in Docs \ busy : Exists(d) =>
       docs[d].version =
          1 + Cardinality({u \in UCalls : ucall[u].op \in Updates /\ Doc(u) = d /\ UStep(u, "ok")})

\* Content, files and version of a document are those of the updates that succeeded,
\* one after the other (update_document, set_folder_rule).
QuietUpdatesHold == ContentMatchesChunks /\ VersionsKeepTheirFiles /\ VersionsCountUpdates

\* A delete that reports success leaves nothing, unless another call worked on the
\* document meanwhile or an earlier one failed half-way: delete_document cleans up
\* what its copy of the row lists.
DeleteLeavesOnlyStrays ==
    \A u \in UCalls :
       UStep(u, "ok") /\ ucall[u].op = "delete" /\ Doc(u) \notin busy \cup failed =>
          chunks[Doc(u)] = {} /\ \A v \in Versions : blobs[Doc(u)][v] = None

\* The metadata in a row was extracted from calls on that document, unless two
\* updates, of whatever documents, were waiting for embeddings at once and found
\* each other's results in the service object.
TagsAreOwn ==
    ~mixed => \A d \in Docs : Exists(d) =>
       \A t \in docs[d].tags : t \in UCalls => Doc(t) = d
=============================================================================

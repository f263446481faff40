----------------------------- MODULE Workspace -----------------------------
(***************************************************************************)
(* Folders and document updates together, over the documents table they    *)
(* share.  An update writes back the folder name of its copy, and          *)
(* delete_folder takes rows away from under the updates.                   *)
(***************************************************************************)
EXTENDS Folders, DocumentUpdate

CONSTANT MaxCalls   \* bound on the calls of a behaviour

vars == <<docs, folderVars, updateVars>>

\* Some documents have been ingested, one of images alone perhaps.
Init ==
    /\ \E D \in SUBSET Docs, F \in [Docs -> Names \cup {None}] :
       \E text \in {{}, {Base}}, files \in {<<>>, <<Base>>} :
          /\ text # {} \/ files # <<>>
          /\ docs = [d \in Docs |-> IF d \in D THEN Ingested(text, files, F[d]) ELSE None]
    /\ FoldersInit
    /\ UpdatesInit

Started == {c \in FCalls : fcall[c].pc # "new"} \cup {u \in UCalls : ucall[u].pc # "new"}

\* A folder call ingests documents, updates only find them ingested: their chunks
\* and the file are there when the row is (Ingestion has the whole story).
IngestStores ==
    LET born == {d \in Docs : ~Exists(d) /\ docs'[d] # None} IN
    /\ chunks' = [d \in Docs |-> IF d \in born THEN {docs'[d].text} ELSE chunks[d]]
    /\ blobs'  = [d \in Docs |-> IF d \in born /\ docs'[d].files # <<>>
                               THEN [blobs[d] EXCEPT ![1] = Base] ELSE blobs[d]]
    /\ UNCHANGED <<last, ucall, busy, failed, mixed>>

\* Rows that a step of an update gives another folder name than the lists have.
Reverted == {d \in Docs : Exists(d) /\ docs'[d] # None /\ docs'[d].folder # docs[d].folder}

FolderCalls == FoldersNext /\ IngestStores
UpdateCalls == /\ UpdatesNext
               /\ apart' = apart \cup Reverted
               /\ UNCHANGED <<folders, fcall, sub, subSeen, used, want, crossed, raced>>

Next == /\ FolderCalls \/ UpdateCalls
        /\ Cardinality(Started') <= MaxCalls

Spec == Init /\ [][Next]_vars

TypeOK == FoldersTypeOK /\ UpdatesTypeOK
=============================================================================

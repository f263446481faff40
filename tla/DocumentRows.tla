---------------------------- MODULE DocumentRows ----------------------------
(***************************************************************************)
(* The columns of the documents table that the calls on a stored document  *)
(* change: module Folders writes the folder name, module DocumentUpdate    *)
(* the content, the version, the chunk ids, the files and the metadata.    *)
(* Both work on this one variable, each through its own database sessions. *)
(***************************************************************************)
EXTENDS Naturals, Sequences, FiniteSets

CONSTANTS Docs,     \* document ids
          Names,    \* folder names
          UCalls,   \* calls of module DocumentUpdate
          Base,     \* what ingestion itself contributed to a document
          None,     \* no folder name, no folder, no row
          Unset     \* the row has no key for the folder name

\* Contents, files and extracted metadata are told apart by the call they came from.
Parts == UCalls \cup {Base}

VARIABLE docs       \* docs[d]: the row of d, or None

Row == [version : Nat \ {0},            \* system_metadata.version
        text    : SUBSET Parts,         \* system_metadata.content: what was appended
        chunked : SUBSET Parts,         \* the content that the listed chunk_ids cut up
        files   : Seq(Parts),           \* storage_files: the i-th is version i
        folder  : Names \cup {None, Unset}, \* system_metadata.folder_name
        tags    : SUBSET Parts]         \* metadata: the rule results merged into it
Snapshot == {None} \cup Row

NoFolder == {None, Unset}

ASSUME NoneAssumption == /\ None \notin Row
                         /\ NoFolder \cap Names = {}
                         /\ Base \notin UCalls

Exists(d) == docs[d] # None

\* Variant with a fault: versions are counted from zero.
IngestedUnversioned(text, files, folder) ==
    [version |-> 0, text |-> text, chunked |-> text, files |-> files,
     folder |-> IF folder = None /\ files # <<>> THEN Unset ELSE folder, tags |-> {}]

\* What a completed ingestion leaves.  A file of images alone has no text, and a
\* document ingested as text has no file; its row has the key for a folder name in
\* any case, that of a file only if there was one.
Ingested(text, files, folder) ==
    [version |-> 1, text |-> text, chunked |-> text, files |-> files,
     folder |-> IF folder = None /\ files # <<>> THEN Unset ELSE folder, tags |-> {}]
=============================================================================

-------------------------- MODULE Workspace_proofs --------------------------
(***************************************************************************)
(* Machine-checked theorems about Workspace: folders, updates and          *)
(* deletions over the documents they share, for any calls, documents,      *)
(* names and faults.                                                       *)
(***************************************************************************)
EXTENDS Workspace, FiniteSetTheorems, TLAPS

-----------------------------------------------------------------------------
(* The calls on folders.                                                   *)

\* The steps that a call of each kind goes through.
Way == [create |-> {"check", "insert"},
        text   |-> {"lookup", "check", "insert", "read", "readDoc", "write", "row"},
        file   |-> {"lookup", "check", "insert", "read", "readDoc", "write", "row"},
        add    |-> {"read", "readDoc", "write"},
        remove |-> {"read", "write"},
        delete |-> {"lookup", "empty", "purge", "drop"}]

\* A call has what its next step takes.
Placed(k) ==
    /\ k.pc \in Steps => k.pc \in Way[k.op]
    /\ k.pc \in {"new", "lookup", "check", "insert"} => k.f = None
    /\ k.pc = "row" /\ k.op = "file" => k.f = None
    /\ k.pc # "new" /\ k.op \notin {"add", "remove"} => k.name \in Names
    /\ k.pc # "new" /\ k.op \notin {"create", "delete"} => k.doc \in Docs
    /\ \/ k.pc \in {"read", "readDoc", "write", "empty", "purge", "drop"}
       \/ k.op = "delete" /\ k.pc = "ok"
       => k.f \in FolderIds

\* Tasks belong to a delete call that has found its folder.
TasksPlaced(c) ==
    \A d \in Docs : sub[c][d] # "none" =>
       fcall[c].op = "delete" /\ fcall[c].f \in FolderIds /\ fcall[c].pc # "new"

CallsPlaced == \A c \in FCalls : Placed(fcall[c]) /\ TasksPlaced(c)

\* From call record j to call record k.
Onward(j, k) ==
    /\ k \in Call /\ Placed(k) /\ k.pc # "new"
    /\ \/ j.pc = "new" /\ k.pc \in Steps /\ k.seen = {}
       \/ /\ j.pc \in Steps /\ k.op = j.op /\ k.name = j.name /\ k.doc = j.doc
          /\ k.f = j.f \/ j.pc = "lookup"
          /\ k.pc = "row" => k.op # "file"
          /\ k.seen = j.seen \/ j.pc \in {"lookup", "read"}

Turns(c, k) == fcall' = [fcall EXCEPT ![c] = k] /\ Onward(fcall[c], k)

LEMMA GoesOn ==
    ASSUME FoldersTypeOK, CallsPlaced, NEW c \in FCalls, NEW pc \in CallPcs \ {"new"},
           fcall[c].pc \in Steps, ToStep(c, pc),
           pc \in Steps => pc \in Way[fcall[c].op],
           pc \in {"lookup", "check", "insert"} => fcall[c].f = None,
           pc = "row" => fcall[c].op # "file",
           pc \in {"read", "readDoc", "write", "empty", "purge", "drop"} => fcall[c].f \in FolderIds,
           fcall[c].op = "delete" /\ pc = "ok" => fcall[c].f \in FolderIds
    PROVE  \E k : /\ Turns(c, k) /\ k.pc = pc /\ k.f = fcall[c].f
                  /\ k.seen = fcall[c].seen /\ k.op = fcall[c].op
<1>1. fcall[c] \in Call /\ Placed(fcall[c])
  BY DEF FoldersTypeOK, CallsPlaced
<1>2. PICK k : k = [fcall[c] EXCEPT !.pc = pc]
  OBVIOUS
<1>3. /\ k \in Call /\ k.pc = pc /\ k.f = fcall[c].f /\ k.seen = fcall[c].seen
      /\ k.op = fcall[c].op /\ k.name = fcall[c].name /\ k.doc = fcall[c].doc
  BY <1>1, <1>2 DEF Call
<1>4. Placed(k)
  BY <1>1, <1>3 DEF Placed, Steps
<1>5. fcall' = [fcall EXCEPT ![c] = k]
  BY <1>2 DEF ToStep
<1> QED
  BY <1>3, <1>4, <1>5 DEF Turns, Onward, Call

\* Every step of a call but those of its tasks.
CallStep(c) ==
    \/ StartCreate(c) \/ StartDelete(c) \/ StartIngest(c) \/ StartMove(c)
    \/ CheckName(c) \/ InsertFolder(c) \/ LookupFolder(c)
    \/ ReadFolder(c) \/ ReadDocument(c) \/ WriteList(c)
    \/ Emptied(c) \/ Purged(c) \/ DropFolder(c) \/ IngestRow(c)

LEMMA StartTurns ==
    ASSUME FoldersTypeOK, NEW c \in FCalls,
           StartCreate(c) \/ StartDelete(c) \/ StartIngest(c) \/ StartMove(c)
    PROVE  \E k : Turns(c, k)
<1>1. ASSUME NEW k \in Call, Start(c, k), Placed(k), k.pc \in Steps, k.seen = {} PROVE \E kk : Turns(c, kk)
  BY <1>1 DEF Start, Turns, Onward, Steps
<1>2. CASE StartCreate(c)
  <2>1. PICK n \in Names : Start(c, [NewCall("create") EXCEPT !.name = n, !.pc = "check"])
    BY <1>2 DEF StartCreate
  <2>2. PICK k : k = [NewCall("create") EXCEPT !.name = n, !.pc = "check"]
    OBVIOUS
  <2>3. /\ k.op = "create" /\ k.name = n /\ k.doc = None /\ k.f = None /\ k.seen = {} /\ k.pc = "check"
        /\ k \in Call
    BY <2>2 DEF NewCall, Call, Ops, CallPcs, Steps
  <2>4. Placed(k)
    BY <2>3 DEF Placed, Way
  <2> QED
    BY <1>1, <2>1, <2>2, <2>3, <2>4 DEF Steps
<1>3. CASE StartDelete(c)
  <2>1. PICK n \in Names : Start(c, [NewCall("delete") EXCEPT !.name = n, !.pc = "lookup"])
    BY <1>3 DEF StartDelete
  <2>2. PICK k : k = [NewCall("delete") EXCEPT !.name = n, !.pc = "lookup"]
    OBVIOUS
  <2>3. /\ k.op = "delete" /\ k.name = n /\ k.doc = None /\ k.f = None /\ k.seen = {} /\ k.pc = "lookup"
        /\ k \in Call
    BY <2>2 DEF NewCall, Call, Ops, CallPcs, Steps
  <2>4. Placed(k)
    BY <2>3 DEF Placed, Way
  <2> QED
    BY <1>1, <2>1, <2>2, <2>3, <2>4 DEF Steps
<1>4. CASE StartIngest(c)
  <2>1. PICK n \in Names, d \in Docs :
           \/ Start(c, [NewCall("text") EXCEPT !.name = n, !.doc = d, !.pc = "lookup"])
           \/ Start(c, [NewCall("file") EXCEPT !.name = n, !.doc = d, !.pc = "row"])
    BY <1>4 DEF StartIngest
  <2>2. PICK k : /\ Start(c, k)
                 /\ \/ k = [NewCall("text") EXCEPT !.name = n, !.doc = d, !.pc = "lookup"]
                    \/ k = [NewCall("file") EXCEPT !.name = n, !.doc = d, !.pc = "row"]
    BY <2>1
  <2>3. /\ \/ k.op = "text" /\ k.pc = "lookup"
           \/ k.op = "file" /\ k.pc = "row"
        /\ k.name = n /\ k.doc = d /\ k.f = None /\ k.seen = {}
        /\ k \in Call
    BY <2>2 DEF NewCall, Call, Ops, CallPcs, Steps
  <2>4. Placed(k)
    BY <2>3 DEF Placed, Way
  <2> QED
    BY <1>1, <2>2, <2>3, <2>4 DEF Steps
<1>5. CASE StartMove(c)
  <2>1. PICK f \in FolderIds, d \in Docs, op \in {"add", "remove"} :
           Start(c, [NewCall(op) EXCEPT !.doc = d, !.f = f, !.pc = "read"])
    BY <1>5 DEF StartMove
  <2>2. PICK k : k = [NewCall(op) EXCEPT !.doc = d, !.f = f, !.pc = "read"]
    OBVIOUS
  <2>3. /\ k.op = op /\ k.name = None /\ k.doc = d /\ k.f = f /\ k.seen = {} /\ k.pc = "read"
        /\ k \in Call
    BY <2>2 DEF NewCall, Call, Ops, CallPcs, Steps
  <2>4. Placed(k)
    BY <2>3 DEF Placed, Way
  <2> QED
    BY <1>1, <2>1, <2>2, <2>3, <2>4 DEF Steps
<1> QED
  BY <1>2, <1>3, <1>4, <1>5

\* Where ingestion goes when it is through with the folder.
LEMMA EnsuredGoesOn ==
    ASSUME NEW c \in FCalls, fcall[c].op \in Ingests
    PROVE  /\ Ensured(c) \in {"row", "ok"} /\ Ensured(c) \in CallPcs \ {"new"}
           /\ Ensured(c) \in Steps => Ensured(c) \in Way[fcall[c].op]
BY DEF Ensured, Ingests, CallPcs, Steps, Way

LEMMA NotAddedTurns ==
    ASSUME FoldersTypeOK, CallsPlaced, NEW c \in FCalls, NotAdded(c), fcall[c].pc \in Steps,
           fcall[c].op \notin {"create", "delete"}
    PROVE  \E k : Turns(c, k) /\ k.pc \in {"row", "ok", "error"} /\ (k.pc = "row" => k.op = "text")
<1>1. PICK pc \in {"row", "ok", "error"} : /\ ToStep(c, pc)
                                           /\ pc = "row" => fcall[c].op = "text"
  BY EnsuredGoesOn DEF NotAdded, Fail, Ensured
<1>2. pc \in CallPcs \ {"new"} /\ (pc \in Steps => pc \in Way[fcall[c].op])
  BY <1>1 DEF CallPcs, Steps, Way
<1> QED
  BY <1>1, <1>2, GoesOn

LEMMA NameTurns ==
    ASSUME FoldersTypeOK, CallsPlaced, NEW c \in FCalls, CheckName(c) \/ InsertFolder(c)
    PROVE  \E k : Turns(c, k)
<1>1. fcall[c] \in Call /\ Placed(fcall[c])
  BY DEF FoldersTypeOK, CallsPlaced
<1>2. fcall[c].pc \in Steps /\ fcall[c].op \in {"create", "text", "file"} /\ fcall[c].f = None
  BY <1>1 DEF CheckName, InsertFolder, Steps, Placed, Way, Call, Ops
<1>3. PICK pc \in {"insert", "row", "ok", "error"} :
         /\ ToStep(c, pc)
         /\ pc = "row" => fcall[c].op = "text"
         /\ pc = "insert" => fcall[c].op \in {"create", "text", "file"}
  BY <1>2, EnsuredGoesOn DEF CheckName, InsertFolder, Ensured
<1>4. pc \in CallPcs \ {"new"} /\ (pc \in Steps => pc \in Way[fcall[c].op])
  BY <1>2, <1>3 DEF CallPcs, Steps, Way
<1> QED
  BY <1>2, <1>3, <1>4, GoesOn

LEMMA LookupTurns ==
    ASSUME FoldersTypeOK, CallsPlaced, NEW c \in FCalls, LookupFolder(c)
    PROVE  \E k : Turns(c, k)
<1>1. fcall[c] \in Call /\ Placed(fcall[c]) /\ fcall[c].pc = "lookup"
  BY DEF FoldersTypeOK, CallsPlaced, LookupFolder
<1>2. fcall[c].op \in {"text", "file", "delete"} /\ fcall[c].f = None
  BY <1>1 DEF Steps, Placed, Way, Call, Ops
<1>3. CASE ToStep(c, IF fcall[c].op = "delete" THEN "error" ELSE "check")
  <2>1. PICK pc \in {"error", "check"} : ToStep(c, pc) /\ (pc = "check" => fcall[c].op \in {"text", "file"})
    BY <1>2, <1>3
  <2>2. pc \in CallPcs \ {"new"} /\ (pc \in Steps => pc \in Way[fcall[c].op])
    BY <1>2, <2>1 DEF CallPcs, Steps, Way
  <2> QED
    BY <1>1, <1>2, <2>1, <2>2, GoesOn DEF Steps
<1>4. ASSUME NEW f \in Named(fcall[c].name),
             fcall[c].op = "delete",
             fcall' = [fcall EXCEPT ![c].f = f, ![c].seen = folders[f].docs, ![c].pc = "empty"]
      PROVE  \E k : Turns(c, k)
  <2>1. PICK k : k = [fcall[c] EXCEPT !.f = f, !.seen = folders[f].docs, !.pc = "empty"]
    OBVIOUS
  <2>2. f \in FolderIds /\ folders[f].docs \in SUBSET Docs
    BY DEF Named, FoldersTypeOK, Folder
  <2>3. /\ k \in Call /\ k.f = f /\ k.seen = folders[f].docs /\ k.pc = "empty"
        /\ k.op = fcall[c].op /\ k.name = fcall[c].name /\ k.doc = fcall[c].doc
    BY <1>1, <2>1, <2>2 DEF Call, CallPcs, Steps
  <2>4. Placed(k)
    BY <1>1, <1>4, <2>2, <2>3 DEF Placed, Steps, Way
  <2>5. fcall' = [fcall EXCEPT ![c] = k]
    BY <1>4, <2>1
  <2> QED
    BY <1>1, <2>3, <2>4, <2>5 DEF Turns, Onward, Steps
<1>5. ASSUME NEW f \in Named(fcall[c].name),
             fcall[c].op # "delete",
             fcall' = [fcall EXCEPT ![c].f = f, ![c].pc = "read"]
      PROVE  \E k : Turns(c, k)
  <2>1. PICK k : k = [fcall[c] EXCEPT !.f = f, !.pc = "read"]
    OBVIOUS
  <2>2. f \in FolderIds
    BY DEF Named
  <2>3. /\ k \in Call /\ k.f = f /\ k.seen = fcall[c].seen /\ k.pc = "read"
        /\ k.op = fcall[c].op /\ k.name = fcall[c].name /\ k.doc = fcall[c].doc
    BY <1>1, <2>1, <2>2 DEF Call, CallPcs, Steps
  <2>4. Placed(k)
    BY <1>1, <1>2, <1>5, <2>2, <2>3 DEF Placed, Steps, Way
  <2>5. fcall' = [fcall EXCEPT ![c] = k]
    BY <1>5, <2>1
  <2> QED
    BY <1>1, <2>3, <2>4, <2>5 DEF Turns, Onward, Steps
<1> QED
  BY <1>3, <1>4, <1>5 DEF LookupFolder

LEMMA ListTurns ==
    ASSUME FoldersTypeOK, CallsPlaced, NEW c \in FCalls,
           ReadFolder(c) \/ ReadDocument(c) \/ WriteList(c)
    PROVE  \E k : Turns(c, k)
<1>1. /\ fcall[c] \in Call /\ Placed(fcall[c])
      /\ fcall[c].pc \in {"read", "readDoc", "write"} /\ fcall[c].pc \in Steps
  BY DEF FoldersTypeOK, CallsPlaced, ReadFolder, ReadDocument, WriteList, Steps
<1>2. /\ fcall[c].op \in {"text", "file", "add", "remove"} /\ fcall[c].f \in FolderIds
      /\ fcall[c].pc = "readDoc" => fcall[c].op # "remove"
  BY <1>1 DEF Placed, Way, Call, Ops
<1>3. CASE NotAdded(c)
  BY <1>1, <1>2, <1>3, NotAddedTurns
<1>4. CASE ReadFolder(c) /\ ~NotAdded(c)
  <2>1. PICK pc \in {"readDoc", "write", "ok"} :
           /\ fcall' = [fcall EXCEPT ![c].seen = folders[fcall[c].f].docs, ![c].pc = pc]
           /\ pc = "readDoc" => fcall[c].op # "remove"
           /\ folders[fcall[c].f] # None
    BY <1>2, <1>4 DEF ReadFolder, Adds, Ingests
  <2>2. PICK k : k = [fcall[c] EXCEPT !.seen = folders[fcall[c].f].docs, !.pc = pc]
    OBVIOUS
  <2>3. folders[fcall[c].f].docs \in SUBSET Docs
    BY <1>2, <2>1 DEF FoldersTypeOK, Folder
  <2>4. /\ k \in Call /\ k.f = fcall[c].f /\ k.pc = pc
        /\ k.op = fcall[c].op /\ k.name = fcall[c].name /\ k.doc = fcall[c].doc
    BY <1>1, <2>1, <2>2, <2>3 DEF Call, CallPcs, Steps
  <2>5. Placed(k)
    BY <1>1, <1>2, <2>1, <2>4 DEF Placed, Steps, Way
  <2>6. fcall' = [fcall EXCEPT ![c] = k]
    BY <2>1, <2>2
  <2> QED
    BY <1>1, <1>4, <2>1, <2>4, <2>5, <2>6 DEF Turns, Onward, ReadFolder
<1>5. CASE (ReadDocument(c) \/ WriteList(c)) /\ ~NotAdded(c)
  <2>1. PICK pc \in {"write", "row", "ok"} : /\ ToStep(c, pc)
                                             /\ pc = "row" => fcall[c].op = "text"
    BY <1>2, <1>5, EnsuredGoesOn DEF ReadDocument, WriteList, Ensured
  <2>2. pc \in CallPcs \ {"new"} /\ (pc \in Steps => pc \in Way[fcall[c].op])
    BY <1>2, <2>1 DEF CallPcs, Steps, Way
  <2> QED
    BY <1>1, <1>2, <2>1, <2>2, GoesOn
<1> QED
  BY <1>3, <1>4, <1>5

LEMMA EndTurns ==
    ASSUME FoldersTypeOK, CallsPlaced, NEW c \in FCalls,
           Emptied(c) \/ Purged(c) \/ DropFolder(c) \/ IngestRow(c)
    PROVE  \E k : Turns(c, k)
<1>1. /\ fcall[c] \in Call /\ Placed(fcall[c]) /\ fcall[c].pc \in Steps
  BY DEF FoldersTypeOK, CallsPlaced, Emptied, Purged, DropFolder, IngestRow, InStep, Steps
<1>2. CASE IngestRow(c)
  <2>1. fcall[c].pc = "row" /\ fcall[c].op \in {"text", "file"}
    BY <1>2 DEF IngestRow, InStep, Ingests
  <2>2. PICK pc \in {"ok", "lookup", "error"} : ToStep(c, pc) /\ (pc = "lookup" => fcall[c].op = "file")
    BY <1>2, <2>1 DEF IngestRow
  <2>3. pc \in CallPcs \ {"new"} /\ (pc \in Steps => pc \in Way[fcall[c].op])
    BY <2>1, <2>2 DEF CallPcs, Steps, Way
  <2>4. pc = "lookup" => fcall[c].f = None
    BY <1>1, <2>1, <2>2 DEF Placed
  <2> QED
    BY <1>1, <2>1, <2>2, <2>3, <2>4, GoesOn
<1>3. CASE Emptied(c) \/ Purged(c) \/ DropFolder(c)
  <2>1. fcall[c].op = "delete" /\ fcall[c].f \in FolderIds
    BY <1>1, <1>3 DEF Emptied, Purged, DropFolder, InStep, Placed
  <2>2. PICK pc \in {"error", "purge", "drop", "ok"} : ToStep(c, pc)
    BY <1>3 DEF Emptied, Purged, DropFolder
  <2>3. pc \in CallPcs \ {"new"} /\ (pc \in Steps => pc \in Way[fcall[c].op])
    BY <2>1, <2>2 DEF CallPcs, Steps, Way
  <2> QED
    BY <1>1, <2>1, <2>2, <2>3, GoesOn
<1> QED
  BY <1>2, <1>3

LEMMA CallTurns ==
    ASSUME FoldersTypeOK, CallsPlaced, NEW c \in FCalls, CallStep(c)
    PROVE  \E k : Turns(c, k)
BY StartTurns, NameTurns, LookupTurns, ListTurns, EndTurns DEF CallStep

\* What the call steps do to the variables but fcall.
OthersTyped ==
    /\ folders \in [FolderIds -> {None} \cup Folder]
    /\ sub     \in [FCalls -> [Docs -> SubSts]]
    /\ subSeen \in [FCalls -> [Docs -> SUBSET Docs]]
    /\ used    \in SUBSET (FolderIds \cup Docs)
    /\ want    \in [FolderIds -> SUBSET Docs]
    /\ crossed \in SUBSET FolderIds
    /\ raced   \in SUBSET Names
    /\ apart   \in SUBSET Docs

LEMMA EarlyStepTypes ==
    ASSUME FoldersTypeOK, CallsPlaced, NEW c \in FCalls,
           \/ StartCreate(c) \/ StartDelete(c) \/ StartIngest(c) \/ StartMove(c)
           \/ CheckName(c) \/ InsertFolder(c)
    PROVE  OthersTyped'
<1>1. OthersTyped /\ fcall[c] \in Call /\ Placed(fcall[c])
  BY DEF OthersTyped, FoldersTypeOK, CallsPlaced
<1>2. ASSUME NEW f \in FolderIds PROVE Crossing(c, f) \subseteq FolderIds
  BY DEF Crossing
<1>3. CASE StartCreate(c) \/ StartDelete(c)
  BY <1>1, <1>3 DEF StartCreate, StartDelete, Start, OthersTyped
<1>4. CASE StartIngest(c)
  BY <1>1, <1>4 DEF StartIngest, Start, OthersTyped
<1>5. CASE StartMove(c)
  BY <1>1, <1>2, <1>5 DEF StartMove, Start, OthersTyped
<1>6. CASE CheckName(c) \/ InsertFolder(c)
  <2>1. /\ fcall[c].op \in {"create", "text", "file"} /\ fcall[c].name \in Names
        /\ fcall[c].op \in Ingests => fcall[c].doc \in Docs
    BY <1>1, <1>6 DEF CheckName, InsertFolder, Steps, Placed, Way, Call, Ops, Ingests
  <2>2. CASE CheckName(c)
    BY <1>1, <2>1, <2>2 DEF CheckName, OthersTyped
  <2>3. CASE InsertFolder(c)
    <3> DEFINE D == IF fcall[c].op \in Ingests THEN {fcall[c].doc} ELSE {}
    <3>1. D \in SUBSET Docs
      BY <2>1
    <3>2. apart' \in SUBSET Docs /\ UNCHANGED <<sub, subSeen, crossed, raced>>
      BY <1>1, <2>3, <3>1 DEF InsertFolder, OthersTyped
    <3>3. CASE UNCHANGED <<folders, used, want>>
      BY <1>1, <3>2, <3>3 DEF OthersTyped
    <3>4. ASSUME NEW f \in FolderIds,
                 folders' = [folders EXCEPT ![f] =
                      [name |-> fcall[c].name, docs |-> D, open |-> fcall[c].op \notin Ingests]],
                 used' = used \cup {f}, want' = [want EXCEPT ![f] = D]
          PROVE  OthersTyped'
      <4>1. PICK r : r = [name |-> fcall[c].name, docs |-> D, open |-> fcall[c].op \notin Ingests]
        OBVIOUS
      <4>2. r \in Folder
        BY <2>1, <3>1, <4>1 DEF Folder
      <4> QED
        BY <1>1, <3>1, <3>2, <3>4, <4>1, <4>2 DEF OthersTyped
    <3> QED
      BY <2>3, <3>3, <3>4 DEF InsertFolder
  <2> QED
    BY <1>6, <2>2, <2>3
<1> QED
  BY <1>3, <1>4, <1>5, <1>6

\* A new list for folder f.
LEMMA RelistTyped ==
    ASSUME OthersTyped, NEW f \in FolderIds, folders[f] # None, NEW L \in SUBSET Docs,
           folders' = [folders EXCEPT ![f].docs = L]
    PROVE  /\ folders' \in [FolderIds -> {None} \cup Folder]
           /\ folders'[f] # None /\ folders'[f].docs = L /\ folders'[f].name = folders[f].name
           /\ \A g \in FolderIds \ {f} : folders'[g] = folders[g]
<1>1. PICK r : r = [folders[f] EXCEPT !.docs = L]
  OBVIOUS
<1>2. folders[f] \in Folder
  BY DEF OthersTyped
<1>3. r \in Folder /\ r.docs = L /\ r.name = folders[f].name
  BY <1>1, <1>2 DEF Folder
<1>4. folders' = [folders EXCEPT ![f] = r]
  BY <1>1
<1>5. folders \in [FolderIds -> {None} \cup Folder]
  BY DEF OthersTyped
<1>6. r # None
  BY <1>3, FoldersAssumption
<1> QED
  BY <1>3, <1>4, <1>5, <1>6

LEMMA LateStepTypes ==
    ASSUME FoldersTypeOK, CallsPlaced, NEW c \in FCalls,
           \/ LookupFolder(c) \/ ReadFolder(c) \/ ReadDocument(c) \/ WriteList(c)
           \/ Emptied(c) \/ Purged(c) \/ DropFolder(c) \/ IngestRow(c)
    PROVE  OthersTyped'
<1>1. OthersTyped /\ fcall[c] \in Call /\ Placed(fcall[c])
  BY DEF OthersTyped, FoldersTypeOK, CallsPlaced
<1>2. ASSUME NotAdded(c), fcall[c].pc \in {"read", "readDoc", "write"} PROVE OthersTyped'
  <2>1. fcall[c].op \in Ingests => fcall[c].doc \in Docs
    BY <1>1, <1>2 DEF Placed, Ingests
  <2> QED
    BY <1>1, <1>2, <2>1 DEF NotAdded, Fail, OthersTyped
<1>3. CASE LookupFolder(c)
  <2>1. \A f \in Named(fcall[c].name) : Crossing(c, f) \subseteq FolderIds /\ f \in FolderIds
    BY DEF Crossing, Named
  <2>2. sub' \in [FCalls -> [Docs -> SubSts]]
    <3>1. ASSUME NEW D, sub' = [sub EXCEPT ![c] = [d \in Docs |-> IF d \in D THEN "read" ELSE "none"]]
          PROVE  sub' \in [FCalls -> [Docs -> SubSts]]
      <4>1. PICK t : t = [d \in Docs |-> IF d \in D THEN "read" ELSE "none"]
        OBVIOUS
      <4>2. t \in [Docs -> SubSts] /\ sub' = [sub EXCEPT ![c] = t]
        BY <3>1, <4>1 DEF SubSts
      <4> QED
        BY <1>1, <4>2 DEF OthersTyped
    <3>2. \/ UNCHANGED sub
          \/ \E D : sub' = [sub EXCEPT ![c] = [d \in Docs |-> IF d \in D THEN "read" ELSE "none"]]
      BY <1>3 DEF LookupFolder
    <3> QED
      BY <1>1, <3>1, <3>2 DEF OthersTyped
  <2>3. crossed' \in SUBSET FolderIds
    BY <1>1, <1>3, <2>1 DEF LookupFolder, OthersTyped
  <2> QED
    BY <1>1, <1>3, <2>2, <2>3 DEF LookupFolder, OthersTyped
<1>4. CASE ReadFolder(c) \/ ReadDocument(c)
  <2>1. NotAdded(c) \/ UNCHANGED <<folders, sub, subSeen, used, want, crossed, raced, apart>>
    BY <1>4 DEF ReadFolder, ReadDocument
  <2> QED
    BY <1>1, <1>2, <1>4, <2>1 DEF ReadFolder, ReadDocument, OthersTyped
<1>5. CASE WriteList(c) /\ ~NotAdded(c)
  <2> DEFINE f == fcall[c].f
             d == fcall[c].doc
  <2>1. f \in FolderIds /\ d \in Docs /\ fcall[c].seen \in SUBSET Docs
    BY <1>1, <1>5 DEF WriteList, Placed, Call, Ops, Way, Steps
  <2>2. NewList(c) \in SUBSET Docs
    BY <2>1 DEF NewList
  <2>3. folders[f] # None /\ folders' = [folders EXCEPT ![f].docs = NewList(c)]
    BY <1>5 DEF WriteList
  <2>4. folders' \in [FolderIds -> {None} \cup Folder]
    BY <1>1, <2>1, <2>2, <2>3, RelistTyped
  <2>5. want' \in [FolderIds -> SUBSET Docs]
    BY <1>1, <1>5, <2>1 DEF WriteList, OthersTyped
  <2>6. apart' \in SUBSET Docs
    <3>1. Disturbed(f, fcall[c].seen) \in SUBSET Docs
      BY <1>1, <2>1, <2>3 DEF Disturbed, OthersTyped, Folder
    <3> QED
      BY <1>1, <1>5, <2>1, <3>1 DEF WriteList, OthersTyped
  <2> QED
    BY <1>1, <1>5, <2>4, <2>5, <2>6 DEF WriteList, OthersTyped
<1>6. CASE Emptied(c) \/ Purged(c)
  BY <1>1, <1>6 DEF Emptied, Purged, OthersTyped
<1>7. CASE DropFolder(c)
  <2>1. fcall[c].f \in FolderIds
    BY <1>1, <1>7 DEF DropFolder, InStep, Placed
  <2> QED
    BY <1>1, <1>7, <2>1 DEF DropFolder, OthersTyped, Folder
<1>8. CASE IngestRow(c)
  <2>1. fcall[c].doc \in Docs
    BY <1>1, <1>8 DEF IngestRow, InStep, Ingests, Placed
  <2> QED
    BY <1>1, <1>8, <2>1 DEF IngestRow, OthersTyped
<1>9. CASE WriteList(c) /\ NotAdded(c)
  BY <1>2, <1>9 DEF WriteList
<1> QED
  BY <1>3, <1>4, <1>5, <1>6, <1>7, <1>8, <1>9

\* The task for document d goes on.
LEMMA TaskMoves ==
    ASSUME OthersTyped, NEW c \in FCalls, NEW d \in Docs, NEW st \in SubSts,
           sub' = [sub EXCEPT ![c][d] = st]
    PROVE  /\ sub' \in [FCalls -> [Docs -> SubSts]]
           /\ sub'[c][d] = st
           /\ \A b \in FCalls, e \in Docs : b # c \/ e # d => sub'[b][e] = sub[b][e]
<1>1. PICK t : t = [sub[c] EXCEPT ![d] = st]
  OBVIOUS
<1>2. sub[c] \in [Docs -> SubSts]
  BY DEF OthersTyped
<1>3. t \in [Docs -> SubSts] /\ t[d] = st /\ \A e \in Docs \ {d} : t[e] = sub[c][e]
  BY <1>1, <1>2
<1>4. sub' = [sub EXCEPT ![c] = t]
  BY <1>1
<1> QED
  BY <1>3, <1>4 DEF OthersTyped

LEMMA TaskSees ==
    ASSUME OthersTyped, NEW c \in FCalls, NEW d \in Docs, NEW L \in SUBSET Docs,
           subSeen' = [subSeen EXCEPT ![c][d] = L]
    PROVE  /\ subSeen' \in [FCalls -> [Docs -> SUBSET Docs]]
           /\ subSeen'[c][d] = L
           /\ \A b \in FCalls, e \in Docs : b # c \/ e # d => subSeen'[b][e] = subSeen[b][e]
<1>1. PICK t : t = [subSeen[c] EXCEPT ![d] = L]
  OBVIOUS
<1>2. subSeen[c] \in [Docs -> SUBSET Docs]
  BY DEF OthersTyped
<1>3. t \in [Docs -> SUBSET Docs] /\ t[d] = L /\ \A e \in Docs \ {d} : t[e] = subSeen[c][e]
  BY <1>1, <1>2
<1>4. subSeen' = [subSeen EXCEPT ![c] = t]
  BY <1>1
<1> QED
  BY <1>3, <1>4 DEF OthersTyped

LEMMA TaskTypes ==
    ASSUME FoldersTypeOK, CallsPlaced, NEW c \in FCalls, NEW d \in Docs,
           TaskRead(c, d) \/ TaskWrite(c, d) \/ TaskPurge(c, d)
    PROVE  OthersTyped' /\ UNCHANGED fcall
<1>1. OthersTyped
  BY DEF OthersTyped, FoldersTypeOK
<1>2. fcall[c].f \in FolderIds
  BY DEF CallsPlaced, TasksPlaced, TaskRead, TaskWrite, TaskPurge
<1>3. CASE TaskRead(c, d)
  <2>1. PICK st \in SubSts : sub' = [sub EXCEPT ![c][d] = st]
    BY <1>3 DEF TaskRead, SubSts
  <2>2. sub' \in [FCalls -> [Docs -> SubSts]]
    BY <1>1, <2>1, TaskMoves
  <2>3. subSeen' \in [FCalls -> [Docs -> SUBSET Docs]]
    <3>1. CASE /\ folders[fcall[c].f] # None
               /\ subSeen' = [subSeen EXCEPT ![c][d] = folders[fcall[c].f].docs]
      <4>1. folders[fcall[c].f].docs \in SUBSET Docs
        BY <1>1, <1>2, <3>1 DEF OthersTyped, Folder
      <4> QED
        BY <1>1, <3>1, <4>1, TaskSees
    <3> QED
      BY <1>1, <1>3, <3>1 DEF TaskRead, OthersTyped
  <2> QED
    BY <1>1, <1>3, <2>2, <2>3 DEF TaskRead, OthersTyped
<1>4. CASE TaskPurge(c, d)
  <2>1. PICK st \in SubSts : sub' = [sub EXCEPT ![c][d] = st]
    BY <1>4 DEF TaskPurge, SubSts
  <2>2. sub' \in [FCalls -> [Docs -> SubSts]]
    BY <1>1, <2>1, TaskMoves
  <2> QED
    BY <1>1, <1>4, <2>2 DEF TaskPurge, OthersTyped
<1>5. CASE TaskWrite(c, d)
  <2> DEFINE f == fcall[c].f
             seen == subSeen[c][d]
  <2>1. sub' \in [FCalls -> [Docs -> SubSts]] /\ UNCHANGED <<fcall, subSeen, used, crossed, raced>>
    <3>1. PICK st \in SubSts : sub' = [sub EXCEPT ![c][d] = st]
      BY <1>5 DEF TaskWrite, SubSts
    <3> QED
      BY <1>1, <1>5, <3>1, TaskMoves DEF TaskWrite
  <2>2. CASE UNCHANGED <<folders, docs, want, apart>>
    BY <1>1, <2>1, <2>2 DEF OthersTyped
  <2>3. CASE /\ folders[f] # None
             /\ folders' = [folders EXCEPT ![f].docs = seen \ {d}]
             /\ want' = [want EXCEPT ![f] = @ \ {d}]
             /\ apart' = apart \cup (Disturbed(f, seen) \ {d})
                            \cup (IF Listing(d) \ {f} # {} THEN {d} ELSE {})
    <3>1. seen \in SUBSET Docs
      BY <1>1 DEF OthersTyped
    <3>2. folders' \in [FolderIds -> {None} \cup Folder]
      <4>1. seen \ {d} \in SUBSET Docs
        BY <3>1
      <4> HIDE DEF seen
      <4> QED
        BY <1>1, <1>2, <2>3, <4>1, RelistTyped
    <3>3. Disturbed(f, seen) \in SUBSET Docs
      BY <1>1, <1>2, <2>3, <3>1 DEF Disturbed, OthersTyped, Folder
    <3>4. want' \in [FolderIds -> SUBSET Docs]
      BY <1>1, <1>2, <2>3 DEF OthersTyped
    <3> QED
      BY <1>1, <2>1, <2>3, <3>2, <3>3, <3>4 DEF OthersTyped
  <2> QED
    BY <1>5, <2>2, <2>3 DEF TaskWrite
<1> QED
  BY <1>3, <1>4, <1>5 DEF TaskRead, TaskWrite, TaskPurge

\* A crash ends every call at once.
LEMMA CrashTypes ==
    ASSUME FoldersTypeOK, CallsPlaced, FoldersCrash
    PROVE  /\ FoldersTypeOK' /\ CallsPlaced'
           /\ \A c \in FCalls : /\ fcall'[c].op = fcall[c].op /\ fcall'[c].name = fcall[c].name
                                /\ fcall'[c].doc = fcall[c].doc /\ fcall'[c].f = fcall[c].f
                                /\ fcall'[c].seen = fcall[c].seen
                                /\ fcall'[c].pc = IF fcall[c].pc \in Steps THEN "crashed" ELSE fcall[c].pc
           /\ \A c \in FCalls, d \in Docs : sub'[c][d] = "none"
<1>1. OthersTyped
  BY DEF OthersTyped, FoldersTypeOK
<1>2. OthersTyped'
  BY <1>1 DEF FoldersCrash, OthersTyped, NoSub, SubSts
<1>3. ASSUME NEW c \in FCalls
      PROVE  /\ fcall'[c] \in Call
             /\ fcall'[c].op = fcall[c].op /\ fcall'[c].name = fcall[c].name
             /\ fcall'[c].doc = fcall[c].doc /\ fcall'[c].f = fcall[c].f
             /\ fcall'[c].seen = fcall[c].seen
             /\ fcall'[c].pc = IF fcall[c].pc \in Steps THEN "crashed" ELSE fcall[c].pc
  <2>1. fcall[c] \in Call
    BY DEF FoldersTypeOK
  <2>2. fcall'[c] = IF fcall[c].pc \in Steps THEN [fcall[c] EXCEPT !.pc = "crashed"] ELSE fcall[c]
    BY DEF FoldersCrash
  <2> QED
    BY <2>1, <2>2 DEF Call, CallPcs
<1>4. fcall' \in [FCalls -> Call]
  BY <1>3 DEF FoldersCrash
<1>5. \A c \in FCalls, d \in Docs : sub'[c][d] = "none"
  BY DEF FoldersCrash, NoSub
<1>6. CallsPlaced'
  <2>1. ASSUME NEW c \in FCalls PROVE Placed(fcall[c])'
    <3>1. Placed(fcall[c])
      BY DEF CallsPlaced
    <3> QED
      BY <1>3, <3>1 DEF Placed, Steps
  <2>2. ASSUME NEW c \in FCalls PROVE TasksPlaced(c)'
    BY <1>5 DEF TasksPlaced
  <2> QED
    BY <2>1, <2>2 DEF CallsPlaced
<1> QED
  BY <1>2, <1>3, <1>4, <1>5, <1>6 DEF OthersTyped, FoldersTypeOK

\* After a call's step.
LEMMA CallAfter ==
    ASSUME FoldersTypeOK, NEW c \in FCalls, NEW k, Turns(c, k)
    PROVE  /\ fcall' \in [FCalls -> Call] /\ fcall'[c] = k
           /\ \A b \in FCalls \ {c} : fcall'[b] = fcall[b]
BY DEF FoldersTypeOK, Turns, Onward

\* Only the lookup of a delete call makes tasks.
LEMMA TasksMade ==
    ASSUME FoldersTypeOK, CallsPlaced, NEW c \in FCalls, CallStep(c)
    PROVE  \/ UNCHANGED sub
           \/ /\ fcall'[c].op = "delete" /\ fcall'[c].pc = "empty"
              /\ fcall[c].pc = "lookup" /\ LookupFolder(c)
              /\ \A d \in Docs : sub'[c][d] = IF d \in fcall'[c].seen THEN "read" ELSE "none"
              /\ \A b \in FCalls \ {c} : sub'[b] = sub[b]
<1>1. CASE LookupFolder(c)
  <2>1. CASE UNCHANGED sub
    BY <2>1
  <2>2. ASSUME NEW f \in FolderIds, fcall[c].op = "delete",
               fcall' = [fcall EXCEPT ![c].f = f, ![c].seen = folders[f].docs, ![c].pc = "empty"],
               sub' = [sub EXCEPT ![c] = [d \in Docs |-> IF d \in folders[f].docs THEN "read" ELSE "none"]]
        PROVE  /\ fcall'[c].op = "delete" /\ fcall'[c].pc = "empty"
               /\ fcall[c].pc = "lookup"
               /\ \A d \in Docs : sub'[c][d] = IF d \in fcall'[c].seen THEN "read" ELSE "none"
               /\ \A b \in FCalls \ {c} : sub'[b] = sub[b]
    <3>1. PICK k : k = [fcall[c] EXCEPT !.f = f, !.seen = folders[f].docs, !.pc = "empty"]
      OBVIOUS
    <3>2. fcall[c] \in Call /\ fcall \in [FCalls -> Call] /\ sub \in [FCalls -> [Docs -> SubSts]]
      BY DEF FoldersTypeOK
    <3>3. k.seen = folders[f].docs /\ k.op = "delete" /\ k.pc = "empty"
      BY <2>2, <3>1, <3>2 DEF Call
    <3>4. fcall' = [fcall EXCEPT ![c] = k]
      BY <2>2, <3>1
    <3>5. fcall'[c] = k
      BY <3>2, <3>4
    <3> QED
      BY <1>1, <2>2, <3>2, <3>3, <3>5 DEF LookupFolder
  <2> QED
    BY <1>1, <2>1, <2>2 DEF LookupFolder, Named
<1>2. CASE ~LookupFolder(c)
  <2>1. UNCHANGED sub
    <3>1. CASE StartCreate(c) \/ StartDelete(c) \/ StartIngest(c) \/ StartMove(c)
      BY <3>1 DEF StartCreate, StartDelete, StartIngest, StartMove, Start
    <3>2. CASE CheckName(c) \/ InsertFolder(c)
      BY <3>2 DEF CheckName, InsertFolder
    <3>3. CASE ReadFolder(c) \/ ReadDocument(c) \/ WriteList(c)
      BY <3>3 DEF ReadFolder, ReadDocument, WriteList, NotAdded, Fail
    <3>4. CASE Emptied(c) \/ Purged(c) \/ DropFolder(c) \/ IngestRow(c)
      BY <3>4 DEF Emptied, Purged, DropFolder, IngestRow
    <3> QED
      BY <1>2, <3>1, <3>2, <3>3, <3>4 DEF CallStep
  <2> QED
    BY <2>1
<1> QED
  BY <1>1, <1>2

LEMMA FoldersKeepTypes ==
    ASSUME FoldersTypeOK, CallsPlaced, FoldersNext
    PROVE  FoldersTypeOK' /\ CallsPlaced'
<1>1. CASE FoldersCrash
  BY <1>1, CrashTypes
<1>2. ASSUME NEW c \in FCalls, CallStep(c) PROVE FoldersTypeOK' /\ CallsPlaced'
  <2>1. PICK k : Turns(c, k)
    BY <1>2, CallTurns
  <2>2. /\ fcall' \in [FCalls -> Call] /\ fcall'[c] = k
        /\ \A b \in FCalls \ {c} : fcall'[b] = fcall[b]
    BY <2>1, CallAfter
  <2>3. OthersTyped'
    BY <1>2, EarlyStepTypes, LateStepTypes DEF CallStep
  <2>4. ASSUME NEW b \in FCalls PROVE Placed(fcall[b])'
    BY <2>1, <2>2 DEF Turns, Onward, CallsPlaced
  <2>5. ASSUME NEW b \in FCalls PROVE TasksPlaced(b)'
    <3>1. TasksPlaced(b) /\ Placed(fcall[b])
      BY DEF CallsPlaced
    <3>2. CASE b # c
      <4>1. sub'[b] = sub[b] /\ fcall'[b] = fcall[b]
        BY <1>2, <2>2, <3>2, TasksMade
      <4> QED
        BY <3>1, <4>1 DEF TasksPlaced
    <3>3. CASE b = c /\ UNCHANGED sub
      <4>1. ASSUME NEW d \in Docs, sub[c][d] # "none"
            PROVE  k.op = "delete" /\ k.f \in FolderIds /\ k.pc # "new"
        <5>1. fcall[c].op = "delete" /\ fcall[c].f \in FolderIds /\ fcall[c].pc # "new"
          BY <3>1, <3>3, <4>1 DEF TasksPlaced
        <5>2. fcall[c].pc # "lookup"
          BY <3>1, <3>3, <5>1, FoldersAssumption DEF Placed
        <5> QED
          BY <2>1, <5>1, <5>2 DEF Turns, Onward
      <4> QED
        BY <2>2, <3>3, <4>1 DEF TasksPlaced
    <3>4. CASE b = c /\ ~UNCHANGED sub
      <4>1. fcall'[c].op = "delete" /\ fcall'[c].pc = "empty"
        BY <1>2, <3>4, TasksMade
      <4>2. Placed(k) /\ k.op = "delete" /\ k.pc = "empty"
        BY <2>1, <2>2, <4>1 DEF Turns, Onward
      <4>3. k.f \in FolderIds
        BY <4>2 DEF Placed
      <4> QED
        BY <2>2, <3>4, <4>2, <4>3 DEF TasksPlaced
    <3> QED
      BY <3>2, <3>3, <3>4
  <2> QED
    BY <2>2, <2>3, <2>4, <2>5 DEF FoldersTypeOK, OthersTyped, CallsPlaced
<1>3. ASSUME NEW c \in FCalls, NEW d \in Docs,
             TaskRead(c, d) \/ TaskWrite(c, d) \/ TaskPurge(c, d)
      PROVE  FoldersTypeOK' /\ CallsPlaced'
  <2>1. OthersTyped' /\ UNCHANGED fcall
    BY <1>3, TaskTypes
  <2>2. PICK st \in SubSts : sub' = [sub EXCEPT ![c][d] = st] /\ sub[c][d] # "none"
    BY <1>3 DEF TaskRead, TaskWrite, TaskPurge, SubSts
  <2>3. OthersTyped
    BY DEF FoldersTypeOK, OthersTyped
  <2>4. ASSUME NEW b \in FCalls PROVE TasksPlaced(b)'
    <3>1. TasksPlaced(b)
      BY DEF CallsPlaced
    <3>2. \A e \in Docs : sub'[b][e] # "none" => sub[b][e] # "none"
      BY <2>2, <2>3, TaskMoves
    <3> QED
      BY <2>1, <3>1, <3>2 DEF TasksPlaced
  <2> QED
    BY <2>1, <2>4 DEF FoldersTypeOK, OthersTyped, CallsPlaced
<1> QED
  BY <1>1, <1>2, <1>3 DEF FoldersNext, FoldersStep, CallStep

-----------------------------------------------------------------------------
(* The calls on documents.                                                 *)

\* The steps that a call of each kind goes through.
UpdateWay == [text   |-> {"access", "split", "merge", "store", "existing", "write"},
              file   |-> {"access", "upload1", "upload2", "split", "merge", "store",
                          "existing", "write"},
              meta   |-> {"access", "existing", "write"},
              rules  |-> {"apply", "existing", "write"},
              delete |-> {"access", "remove", "clean"}]

\* A call at work has a document and a copy of its row.
UpdatePlaced(k) ==
    /\ k.pc \in UpdateSteps => k.pc \in UpdateWay[k.op] /\ k.doc \in Docs /\ k.copy # None
    /\ k.pc = "ok" => k.doc \in Docs
    /\ k.pc = "write" => k.current # None

UpdatesPlaced == \A u \in UCalls : UpdatePlaced(ucall[u])

\* Call u has the record k from now on; it goes on with what it is about.
Becomes(u, k) == ucall' = [ucall EXCEPT ![u] = k] /\ k \in UpdateCall
Goes(u, k)    == Becomes(u, k) /\ k.op = ucall[u].op /\ k.doc = Doc(u)

LEMMA UpdateAfter ==
    ASSUME UpdatesTypeOK, NEW u \in UCalls, NEW k, Becomes(u, k)
    PROVE  /\ ucall' \in [UCalls -> UpdateCall] /\ ucall'[u] = k
           /\ \A w \in UCalls \ {u} : ucall'[w] = ucall[w]
BY DEF UpdatesTypeOK, Becomes

\* A step that changes nothing in the call but where it is.
LEMMA UGotoGoes ==
    ASSUME UpdatesTypeOK, NEW u \in UCalls, NEW pc \in UpdatePcs, UGoto(u, pc)
    PROVE  \E k : /\ Goes(u, k) /\ k.pc = pc /\ k.copy = Copy(u)
                  /\ k.current = ucall[u].current /\ k.todo = ucall[u].todo
<1>1. ucall[u] \in UpdateCall
  BY DEF UpdatesTypeOK
<1>2. PICK k : k = [ucall[u] EXCEPT !.pc = pc]
  OBVIOUS
<1>3. /\ k \in UpdateCall /\ k.pc = pc /\ k.copy = Copy(u)
      /\ k.current = ucall[u].current /\ k.todo = ucall[u].todo
      /\ k.op = ucall[u].op /\ k.doc = Doc(u)
  BY <1>1, <1>2 DEF UpdateCall, Copy, Doc
<1>4. ucall' = [ucall EXCEPT ![u] = k]
  BY <1>2 DEF UGoto
<1> QED
  BY <1>3, <1>4 DEF Goes, Becomes

LEMMA UFailGoes ==
    ASSUME UpdatesTypeOK, NEW u \in UCalls, UFail(u)
    PROVE  /\ \E k : Goes(u, k) /\ k.pc = "error" /\ k.copy = Copy(u)
           /\ failed' = failed \cup {Doc(u)}
BY UGotoGoes DEF UFail, UpdatePcs

\* A step that changes the call's copy.
Copies(u, r, pc) == ucall' = [ucall EXCEPT ![u].copy = r, ![u].pc = pc]
LEMMA CopyGoes ==
    ASSUME UpdatesTypeOK, NEW u \in UCalls, NEW r \in Row, NEW pc \in UpdatePcs, Copies(u, r, pc)
    PROVE  \E k : /\ Goes(u, k) /\ k.pc = pc /\ k.copy = r
                  /\ k.current = ucall[u].current /\ k.todo = ucall[u].todo
<1>1. ucall[u] \in UpdateCall
  BY DEF UpdatesTypeOK
<1>2. PICK k : k = [ucall[u] EXCEPT !.copy = r, !.pc = pc]
  OBVIOUS
<1>3. /\ k \in UpdateCall /\ k.pc = pc /\ k.copy = r
      /\ k.current = ucall[u].current /\ k.todo = ucall[u].todo
      /\ k.op = ucall[u].op /\ k.doc = Doc(u)
  BY <1>1, <1>2 DEF UpdateCall, Snapshot, Doc
<1>4. ucall' = [ucall EXCEPT ![u] = k]
  BY <1>2 DEF Copies
<1> QED
  BY <1>3, <1>4 DEF Goes, Becomes

\* Read: a call begins.
LEMMA ReadGoes ==
    ASSUME UpdatesTypeOK, NEW u \in UCalls, Read(u)
    PROVE  \E k \in UpdateCall, d \in Docs :
              /\ Becomes(u, k)
              /\ k.doc = d /\ k.copy = docs[d]
              /\ k.pc = IF ~Exists(d) THEN "error" ELSE IF k.op = "rules" THEN "apply" ELSE "access"
              /\ busy' = IF \E w \in UCalls \ {u} : Working(w, d) THEN busy \cup {d} ELSE busy
<1>1. PICK d \in Docs, op \in UpdateOps, ruled \in BOOLEAN :
         /\ ucall' = [ucall EXCEPT ![u] =
                [Idle EXCEPT !.op = op, !.doc = d, !.ruled = ruled, !.copy = docs[d],
                 !.pc = IF ~Exists(d) THEN "error"
                        ELSE IF op = "rules" THEN "apply" ELSE "access"]]
         /\ busy' = IF \E w \in UCalls \ {u} : Working(w, d) THEN busy \cup {d} ELSE busy
  BY DEF Read
<1>2. PICK pc : pc = IF ~Exists(d) THEN "error" ELSE IF op = "rules" THEN "apply" ELSE "access"
  OBVIOUS
<1>3. PICK k : k = [Idle EXCEPT !.op = op, !.doc = d, !.ruled = ruled, !.copy = docs[d], !.pc = pc]
  OBVIOUS
<1>4. pc \in UpdatePcs /\ docs[d] \in Snapshot
  BY <1>2 DEF UpdatePcs, UpdateSteps, UpdatesTypeOK
<1>5. /\ k \in UpdateCall /\ k.op = op /\ k.doc = d /\ k.copy = docs[d] /\ k.pc = pc
  BY <1>3, <1>4 DEF Idle, UpdateCall, Snapshot
<1>6. ucall' = [ucall EXCEPT ![u] = k]
  BY <1>1, <1>2, <1>3
<1> QED
  BY <1>1, <1>2, <1>5, <1>6 DEF Becomes

\* Upload: a file more in the copy, and under its version's key.
LEMMA UploadGoes ==
    ASSUME UpdatesTypeOK, UpdatesPlaced, NEW u \in UCalls, Upload(u), ~UFail(u)
    PROVE  \E k : /\ Goes(u, k) /\ k.copy \in Row
                  /\ \/ ucall[u].pc = "upload1" /\ k.pc = "upload2"
                     \/ ucall[u].pc = "upload2" /\ k.pc = "split"
                  /\ k.copy.files = Append(Copy(u).files, u)
                  /\ k.copy.text = Copy(u).text /\ k.copy.chunked = Copy(u).chunked
                  /\ k.copy.version = Copy(u).version /\ k.copy.tags = Copy(u).tags
                  /\ k.copy.folder = Copy(u).folder
<1>1. ucall[u] \in UpdateCall /\ Copy(u) \in Row /\ Doc(u) \in Docs /\ ucall[u].pc \in {"upload1", "upload2"}
  BY DEF UpdatesTypeOK, UpdatesPlaced, UpdatePlaced, Upload, UpdateSteps, UpdateCall, Snapshot, Copy, Doc
<1>0. PICK pc : pc = IF UStep(u, "upload1") THEN "upload2" ELSE "split"
  OBVIOUS
<1>2. /\ ucall' = [ucall EXCEPT ![u].copy.files = Append(Copy(u).files, u), ![u].pc = pc]
      /\ \/ ucall[u].pc = "upload1" /\ pc = "upload2"
         \/ ucall[u].pc = "upload2" /\ pc = "split"
  <2>1. ucall' = [ucall EXCEPT ![u].copy.files = Append(Copy(u).files, u), ![u].pc = pc]
    BY <1>0 DEF Upload, Copy
  <2> QED
    BY <1>1, <1>0, <2>1 DEF UStep
<1>3. PICK r : r = [Copy(u) EXCEPT !.files = Append(Copy(u).files, u)]
  OBVIOUS
<1>4. /\ r \in Row /\ r.files = Append(Copy(u).files, u)
      /\ r.text = Copy(u).text /\ r.chunked = Copy(u).chunked
      /\ r.version = Copy(u).version /\ r.tags = Copy(u).tags /\ r.folder = Copy(u).folder
  <2>1. Copy(u).files \in Seq(Parts) /\ u \in Parts
    BY <1>1 DEF Row, Parts
  <2>2. PICK files : files = Append(Copy(u).files, u)
    OBVIOUS
  <2>3. files \in Seq(Parts)
    BY <2>1, <2>2
  <2>4. r = [Copy(u) EXCEPT !.files = files]
    BY <1>3, <2>2
  <2>5. /\ r \in Row /\ r.files = files
        /\ r.text = Copy(u).text /\ r.chunked = Copy(u).chunked
        /\ r.version = Copy(u).version /\ r.tags = Copy(u).tags /\ r.folder = Copy(u).folder
    BY <1>1, <2>3, <2>4 DEF Row
  <2> QED
    BY <2>2, <2>5
<1>5. Copies(u, r, pc)
  BY <1>2, <1>3 DEF Copy, Copies
<1>6. pc \in UpdatePcs
  BY <1>2 DEF UpdatePcs, UpdateSteps
<1>7. PICK k : Goes(u, k) /\ k.copy = r /\ k.pc = pc
  BY <1>4, <1>5, <1>6, CopyGoes
<1> QED
  BY <1>2, <1>4, <1>7

\* Call u is at work.
LEMMA AtWork ==
    ASSUME UpdatesTypeOK, UpdatesPlaced, NEW u \in UCalls, ucall[u].pc \in UpdateSteps
    PROVE  /\ ucall[u] \in UpdateCall /\ Copy(u) \in Row /\ Doc(u) \in Docs
           /\ ucall[u].pc \in UpdateWay[ucall[u].op]
BY DEF UpdatesTypeOK, UpdatesPlaced, UpdatePlaced, UpdateCall, Snapshot, Copy, Doc

\* Split: more content and the next version.
LEMMA SplitGoes ==
    ASSUME UpdatesTypeOK, UpdatesPlaced, NEW u \in UCalls, Split(u), ~UFail(u)
    PROVE  /\ HoldRules(u) /\ mixed' = (mixed \/ \E w \in UCalls \ {u} : UStep(w, "merge"))
           /\ UNCHANGED failed
           /\ \E k : /\ Goes(u, k) /\ k.copy \in Row /\ k.pc = "merge"
                     /\ k.copy.text # {} /\ k.copy.version = Copy(u).version + 1
                     /\ k.copy.files = Copy(u).files /\ k.copy.chunked = Copy(u).chunked
                     /\ k.copy.tags = Copy(u).tags /\ k.copy.folder = Copy(u).folder
<1>1. ucall[u].pc = "split" /\ "split" \in UpdateSteps
  BY DEF Split, UStep, UpdateSteps
<1>2. Copy(u) \in Row /\ Doc(u) \in Docs
  BY <1>1, AtWork
<1>3. PICK text \in {Copy(u).text \cup {u}} \cup {Copy(u).text} :
         /\ text # {}
         /\ ucall' = [ucall EXCEPT ![u].copy.text = text,
                                   ![u].copy.version = @ + 1, ![u].pc = "merge"]
         /\ HoldRules(u) /\ mixed' = (mixed \/ \E w \in UCalls \ {u} : UStep(w, "merge"))
         /\ UNCHANGED failed
  BY DEF Split
<1>4. PICK v : v = Copy(u).version + 1
  OBVIOUS
<1>5. v \in Nat \ {0} /\ text \in SUBSET Parts
  BY <1>2, <1>4 DEF Row, Parts
<1>a. PICK r : r = [Copy(u) EXCEPT !.text = text, !.version = v]
  OBVIOUS
<1>6. /\ r \in Row /\ r.text = text /\ r.version = v
      /\ r.files = Copy(u).files /\ r.chunked = Copy(u).chunked
      /\ r.tags = Copy(u).tags /\ r.folder = Copy(u).folder
  BY <1>2, <1>5, <1>a DEF Row
<1>7. Copies(u, r, "merge")
  BY <1>3, <1>4, <1>a DEF Copy, Copies
<1>8. "merge" \in UpdatePcs
  BY DEF UpdatePcs, UpdateSteps
<1>9. PICK k : Goes(u, k) /\ k.copy = r /\ k.pc = "merge"
  BY <1>6, <1>7, <1>8, CopyGoes
<1> QED
  BY <1>3, <1>4, <1>6, <1>9

\* Merge: what the service object holds comes into the copy's metadata.
LEMMA MergeGoes ==
    ASSUME UpdatesTypeOK, UpdatesPlaced, NEW u \in UCalls, Merge(u), ~UFail(u)
    PROVE  /\ last' = None /\ UNCHANGED failed
           /\ \E k : /\ Goes(u, k) /\ k.copy \in Row /\ k.pc = "store"
                     /\ k.copy.tags = Copy(u).tags \cup ({last} \ {None})
                     /\ k.copy.text = Copy(u).text /\ k.copy.version = Copy(u).version
                     /\ k.copy.files = Copy(u).files /\ k.copy.chunked = Copy(u).chunked
                     /\ k.copy.folder = Copy(u).folder
<1>1. ucall[u].pc = "merge" /\ "merge" \in UpdateSteps
  BY DEF Merge, UStep, UpdateSteps
<1>2. Copy(u) \in Row
  BY <1>1, AtWork
<1>3. /\ ucall' = [ucall EXCEPT ![u].copy.tags = @ \cup ({last} \ {None}), ![u].pc = "store"]
      /\ last' = None /\ UNCHANGED failed
  BY DEF Merge
<1>4. PICK r : r = [Copy(u) EXCEPT !.tags = Copy(u).tags \cup ({last} \ {None})]
  OBVIOUS
<1>5. {last} \ {None} \subseteq Parts
  BY DEF UpdatesTypeOK, Parts
<1>6. /\ r \in Row /\ r.tags = Copy(u).tags \cup ({last} \ {None})
      /\ r.text = Copy(u).text /\ r.version = Copy(u).version
      /\ r.files = Copy(u).files /\ r.chunked = Copy(u).chunked
      /\ r.folder = Copy(u).folder
  BY <1>2, <1>4, <1>5 DEF Row
<1>7. Copies(u, r, "store")
  BY <1>3, <1>4 DEF Copy, Copies
<1>8. "store" \in UpdatePcs
  BY DEF UpdatePcs, UpdateSteps
<1>9. PICK k : Goes(u, k) /\ k.copy = r /\ k.pc = "store"
  BY <1>6, <1>7, <1>8, CopyGoes
<1> QED
  BY <1>3, <1>6, <1>9

\* Store: the copy lists the chunks of its content, which are in the store.
LEMMA StoreGoes ==
    ASSUME UpdatesTypeOK, UpdatesPlaced, NEW u \in UCalls, Store(u), ~UFail(u)
    PROVE  /\ Insert(Doc(u), Copy(u).text) /\ UNCHANGED failed
           /\ \E k : /\ Goes(u, k) /\ k.copy \in Row /\ k.pc = "existing"
                     /\ k.copy.chunked = Copy(u).text
                     /\ k.copy.text = Copy(u).text /\ k.copy.version = Copy(u).version
                     /\ k.copy.files = Copy(u).files /\ k.copy.tags = Copy(u).tags
                     /\ k.copy.folder = Copy(u).folder
<1>1. ucall[u].pc = "store" /\ "store" \in UpdateSteps
  BY DEF Store, UStep, UpdateSteps
<1>2. Copy(u) \in Row
  BY <1>1, AtWork
<1>3. /\ ucall' = [ucall EXCEPT ![u].copy.chunked = Copy(u).text, ![u].pc = "existing"]
      /\ Insert(Doc(u), Copy(u).text) /\ UNCHANGED failed
  BY DEF Store
<1>4. PICK r : r = [Copy(u) EXCEPT !.chunked = Copy(u).text]
  OBVIOUS
<1>5. /\ r \in Row /\ r.chunked = Copy(u).text
      /\ r.text = Copy(u).text /\ r.version = Copy(u).version
      /\ r.files = Copy(u).files /\ r.tags = Copy(u).tags
      /\ r.folder = Copy(u).folder
  BY <1>2, <1>4 DEF Row
<1>6. Copies(u, r, "existing")
  BY <1>3, <1>4 DEF Copy, Copies
<1>7. "existing" \in UpdatePcs
  BY DEF UpdatePcs, UpdateSteps
<1>8. PICK k : Goes(u, k) /\ k.copy = r /\ k.pc = "existing"
  BY <1>5, <1>6, <1>7, CopyGoes
<1> QED
  BY <1>3, <1>5, <1>8

\* Apply: the call's own results come into the copy's metadata.
LEMMA ApplyGoes ==
    ASSUME UpdatesTypeOK, UpdatesPlaced, NEW u \in UCalls, Apply(u), ~UGoto(u, "error")
    PROVE  \E k : /\ Goes(u, k) /\ k.copy \in Row /\ k.pc = "existing"
                  /\ k.copy.tags = Copy(u).tags \cup {u}
                  /\ k.copy.text = Copy(u).text /\ k.copy.version = Copy(u).version
                  /\ k.copy.files = Copy(u).files /\ k.copy.chunked = Copy(u).chunked
                  /\ k.copy.folder = Copy(u).folder
<1>1. ucall[u].pc = "apply" /\ "apply" \in UpdateSteps
  BY DEF Apply, UStep, UpdateSteps
<1>2. Copy(u) \in Row
  BY <1>1, AtWork
<1>3. ucall' = [ucall EXCEPT ![u].copy.tags = @ \cup {u}, ![u].pc = "existing"]
  BY DEF Apply
<1>4. PICK r : r = [Copy(u) EXCEPT !.tags = Copy(u).tags \cup {u}]
  OBVIOUS
<1>5. u \in Parts
  BY DEF Parts
<1>6. /\ r \in Row /\ r.tags = Copy(u).tags \cup {u}
      /\ r.text = Copy(u).text /\ r.version = Copy(u).version
      /\ r.files = Copy(u).files /\ r.chunked = Copy(u).chunked
      /\ r.folder = Copy(u).folder
  BY <1>2, <1>4, <1>5 DEF Row
<1>7. Copies(u, r, "existing")
  BY <1>3, <1>4 DEF Copy, Copies
<1>8. "existing" \in UpdatePcs
  BY DEF UpdatePcs, UpdateSteps
<1>9. PICK k : Goes(u, k) /\ k.copy = r /\ k.pc = "existing"
  BY <1>6, <1>7, <1>8, CopyGoes
<1> QED
  BY <1>6, <1>9

\* ReadExisting: what update_document has read of the row.
LEMMA ReadExistingGoes ==
    ASSUME UpdatesTypeOK, UpdatesPlaced, NEW u \in UCalls, ReadExisting(u), ~UFail(u)
    PROVE  /\ Exists(Doc(u)) /\ UNCHANGED failed
           /\ \E k : /\ Goes(u, k) /\ k.copy = Copy(u) /\ k.pc = "write"
                     /\ k.current = docs[Doc(u)]
<1>1. ucall[u].pc = "existing" /\ "existing" \in UpdateSteps
  BY DEF ReadExisting, UStep, UpdateSteps
<1>2. ucall[u] \in UpdateCall /\ Doc(u) \in Docs /\ docs[Doc(u)] \in Snapshot
  BY <1>1, AtWork DEF UpdatesTypeOK
<1>3. /\ ucall' = [ucall EXCEPT ![u].current = docs[Doc(u)], ![u].pc = "write"]
      /\ Exists(Doc(u)) /\ UNCHANGED failed
  BY DEF ReadExisting
<1>4. PICK k : k = [ucall[u] EXCEPT !.current = docs[Doc(u)], !.pc = "write"]
  OBVIOUS
<1>5. /\ k \in UpdateCall /\ k.pc = "write" /\ k.copy = Copy(u) /\ k.current = docs[Doc(u)]
      /\ k.op = ucall[u].op /\ k.doc = Doc(u)
  BY <1>2, <1>4 DEF UpdateCall, UpdatePcs, UpdateSteps, Copy, Doc
<1>6. ucall' = [ucall EXCEPT ![u] = k]
  BY <1>3, <1>4
<1> QED
  BY <1>3, <1>5, <1>6 DEF Goes, Becomes

\* RemoveRow: the row is gone and the clean-up is laid out.
LEMMA RemoveRowGoes ==
    ASSUME UpdatesTypeOK, UpdatesPlaced, NEW u \in UCalls, RemoveRow(u), ~UGoto(u, "error"),
           \A v \in 1 .. Len(Copy(u).files) : v \in Versions
    PROVE  /\ Exists(Doc(u)) /\ docs' = [docs EXCEPT ![Doc(u)] = None]
           /\ \E k : /\ Goes(u, k) /\ k.copy = Copy(u) /\ k.pc = "clean"
                     /\ k.todo = CleanUp(u)
<1>1. ucall[u].pc = "remove" /\ "remove" \in UpdateSteps
  BY DEF RemoveRow, UStep, UpdateSteps
<1>2. ucall[u] \in UpdateCall /\ Doc(u) \in Docs
  BY <1>1, AtWork
<1>3. /\ ucall' = [ucall EXCEPT ![u].todo = CleanUp(u), ![u].pc = "clean"]
      /\ Exists(Doc(u)) /\ docs' = [docs EXCEPT ![Doc(u)] = None]
  BY DEF RemoveRow
<1>4. PICK k : k = [ucall[u] EXCEPT !.todo = CleanUp(u), !.pc = "clean"]
  OBVIOUS
<1>5. CleanUp(u) \in SUBSET ({0} \cup Versions)
  BY DEF CleanUp
<1>6. /\ k \in UpdateCall /\ k.pc = "clean" /\ k.copy = Copy(u) /\ k.todo = CleanUp(u)
      /\ k.op = ucall[u].op /\ k.doc = Doc(u)
  BY <1>2, <1>4, <1>5 DEF UpdateCall, UpdatePcs, UpdateSteps, Copy, Doc
<1>7. ucall' = [ucall EXCEPT ![u] = k]
  BY <1>3, <1>4
<1> QED
  BY <1>3, <1>6, <1>7 DEF Goes, Becomes

\* Clean: one thing less to do.
LEMMA CleanGoes ==
    ASSUME UpdatesTypeOK, NEW u \in UCalls, NEW i, Clean(u, i)
    PROVE  \E k : /\ Goes(u, k) /\ k.copy = Copy(u) /\ k.pc = "clean" /\ ucall[u].pc = "clean"
                  /\ k.todo = ucall[u].todo \ {i}
<1>1. ucall[u].pc = "clean" /\ ucall[u] \in UpdateCall
  BY DEF Clean, UStep, UpdatesTypeOK
<1>2. ucall' = [ucall EXCEPT ![u].todo = @ \ {i}]
  BY DEF Clean
<1>3. PICK T : T = ucall[u].todo \ {i}
  OBVIOUS
<1>4. T \in SUBSET ({0} \cup Versions)
  BY <1>1, <1>3 DEF UpdateCall
<1>5. PICK k : k = [ucall[u] EXCEPT !.todo = T]
  OBVIOUS
<1>6. /\ k \in UpdateCall /\ k.pc = "clean" /\ k.copy = Copy(u) /\ k.todo = T
      /\ k.op = ucall[u].op /\ k.doc = Doc(u)
  BY <1>1, <1>4, <1>5 DEF UpdateCall, Copy, Doc
<1>7. ucall' = [ucall EXCEPT ![u] = k]
  BY <1>2, <1>3, <1>5
<1> QED
  BY <1>1, <1>3, <1>6, <1>7 DEF Goes, Becomes

\* Write: the copy becomes the row.
LEMMA WriteGoes ==
    ASSUME UpdatesTypeOK, UpdatesPlaced, NEW u \in UCalls, Write(u), ~UFail(u)
    PROVE  /\ Exists(Doc(u)) /\ UNCHANGED failed /\ ucall[u].op \in Updates
           /\ \E k : Goes(u, k) /\ k.pc = "ok" /\ k.copy = Copy(u)
           /\ \E r \in Row :
                 /\ docs' = [docs EXCEPT ![Doc(u)] = r]
                 /\ r.version = Copy(u).version + (IF ucall[u].op = "meta" THEN 1 ELSE 0)
                 /\ r.chunked = IF ucall[u].op = "meta" THEN docs[Doc(u)].chunked ELSE Copy(u).chunked
                 /\ r.text = Copy(u).text /\ r.files = Copy(u).files /\ r.tags = Copy(u).tags
<1>1. ucall[u].pc = "write" /\ "write" \in UpdateSteps
  BY DEF Write, UStep, UpdateSteps
<1>2. ucall[u] \in UpdateCall /\ Copy(u) \in Row /\ Doc(u) \in Docs /\ ucall[u].current \in Row
  BY <1>1, AtWork DEF UpdatesPlaced, UpdatePlaced, UpdateCall, Snapshot
<1>3. /\ Exists(Doc(u)) /\ docs' = [docs EXCEPT ![Doc(u)] = Written(u)]
      /\ UGoto(u, "ok") /\ UNCHANGED failed /\ ucall[u].op \in Updates
  BY DEF Write
<1>4. PICK k : Goes(u, k) /\ k.pc = "ok" /\ k.copy = Copy(u)
  BY <1>3, UGotoGoes DEF UpdatePcs
<1>5. docs[Doc(u)] \in Row
  BY <1>2, <1>3 DEF UpdatesTypeOK, Snapshot, Exists
<1>6. PICK folder, version, chunked :
         /\ folder = MergedFolder(u)
         /\ version = IF ucall[u].op = "meta" THEN Copy(u).version + 1 ELSE Copy(u).version
         /\ chunked = IF ucall[u].op = "meta" THEN docs[Doc(u)].chunked ELSE Copy(u).chunked
  OBVIOUS
<1>7. /\ folder \in Names \cup {None, Unset} /\ version \in Nat \ {0} /\ chunked \in SUBSET Parts
  BY <1>2, <1>5, <1>6 DEF MergedFolder, Row
<1>8. PICK r : r = [Copy(u) EXCEPT !.folder = folder, !.version = version, !.chunked = chunked]
  OBVIOUS
<1>9. /\ r \in Row /\ r.version = version /\ r.chunked = chunked
      /\ r.text = Copy(u).text /\ r.files = Copy(u).files /\ r.tags = Copy(u).tags
  BY <1>2, <1>7, <1>8 DEF Row
<1>10. Written(u) = r
  BY <1>6, <1>8 DEF Written
<1>11. version = Copy(u).version + (IF ucall[u].op = "meta" THEN 1 ELSE 0)
  BY <1>2, <1>6 DEF Row
<1> QED
  BY <1>3, <1>4, <1>6, <1>9, <1>10, <1>11

\* WriteRules: metadata and content of the copy, the rest as it is or was read.
LEMMA WriteRulesGoes ==
    ASSUME UpdatesTypeOK, UpdatesPlaced, NEW u \in UCalls, WriteRules(u), ~UGoto(u, "error")
    PROVE  /\ Exists(Doc(u)) /\ ucall[u].op = "rules"
           /\ \E k : Goes(u, k) /\ k.pc = "ok" /\ k.copy = Copy(u)
           /\ \E r \in Row :
                 /\ docs' = [docs EXCEPT ![Doc(u)] = r]
                 /\ r.version = ucall[u].current.version
                 /\ r.chunked = docs[Doc(u)].chunked
                 /\ r.text = Copy(u).text /\ r.files = docs[Doc(u)].files /\ r.tags = Copy(u).tags
<1>1. ucall[u].pc = "write" /\ "write" \in UpdateSteps /\ ucall[u].op = "rules"
  BY DEF WriteRules, UStep, UpdateSteps
<1>2. ucall[u] \in UpdateCall /\ Copy(u) \in Row /\ Doc(u) \in Docs /\ ucall[u].current \in Row
  BY <1>1, AtWork DEF UpdatesPlaced, UpdatePlaced, UpdateCall, Snapshot
<1>3. /\ Exists(Doc(u)) /\ UGoto(u, "ok")
      /\ docs' = [docs EXCEPT ![Doc(u)] =
                    [docs[Doc(u)] EXCEPT !.tags = Copy(u).tags, !.text = Copy(u).text,
                           !.version = ucall[u].current.version,
                           !.folder = ucall[u].current.folder]]
  BY DEF WriteRules
<1>4. PICK k : Goes(u, k) /\ k.pc = "ok" /\ k.copy = Copy(u)
  BY <1>3, UGotoGoes DEF UpdatePcs
<1>5. docs[Doc(u)] \in Row
  BY <1>2, <1>3 DEF UpdatesTypeOK, Snapshot, Exists
<1>6. PICK r : r = [docs[Doc(u)] EXCEPT !.tags = Copy(u).tags, !.text = Copy(u).text,
                           !.version = ucall[u].current.version,
                           !.folder = ucall[u].current.folder]
  OBVIOUS
<1>7. /\ r \in Row /\ r.version = ucall[u].current.version
      /\ r.chunked = docs[Doc(u)].chunked /\ r.files = docs[Doc(u)].files
      /\ r.text = Copy(u).text /\ r.tags = Copy(u).tags
  BY <1>2, <1>5, <1>6 DEF Row
<1>8. docs' = [docs EXCEPT ![Doc(u)] = r]
  BY <1>3, <1>6
<1> QED
  BY <1>1, <1>3, <1>4, <1>7, <1>8

-----------------------------------------------------------------------------
(* Types of the steps of updates.                                          *)

\* The rows and the copies of them keep within the bound on files.
FilesFit ==
    /\ \A d \in Docs : Exists(d) => Len(docs[d].files) <= MaxFiles
    /\ \A u \in UCalls : Copy(u) # None => Len(Copy(u).files) <= MaxFiles

\* The variables that calls share.
StoresTyped ==
    /\ docs   \in [Docs -> Snapshot]
    /\ chunks \in [Docs -> SUBSET SUBSET Parts]
    /\ blobs  \in [Docs -> [Versions -> {None} \cup Parts]]
    /\ last   \in {None} \cup UCalls
    /\ busy   \in SUBSET Docs
    /\ failed \in SUBSET Docs
    /\ mixed  \in BOOLEAN

UpdateInv == UpdatesTypeOK /\ UpdatesPlaced /\ FilesFit

\* What is left to show of a call's step.
LEMMA UpdateFrame ==
    ASSUME UpdateInv, NEW u \in UCalls, NEW k, Becomes(u, k), StoresTyped', UpdatePlaced(k),
           k.copy # None => Len(k.copy.files) <= MaxFiles,
           \A d \in Docs : Exists(d)' => Len(docs'[d].files) <= MaxFiles
    PROVE  UpdateInv'
<1>1. /\ ucall' \in [UCalls -> UpdateCall] /\ ucall'[u] = k
      /\ \A w \in UCalls \ {u} : ucall'[w] = ucall[w]
  BY UpdateAfter DEF UpdateInv
<1>2. UpdatesTypeOK'
  BY <1>1 DEF UpdatesTypeOK, StoresTyped
<1>3. UpdatesPlaced'
  BY <1>1 DEF UpdatesPlaced, UpdateInv
<1>4. FilesFit'
  <2>1. ASSUME NEW w \in UCalls, Copy(w)' # None PROVE (Len(Copy(w).files) <= MaxFiles)'
    BY <1>1, <2>1 DEF FilesFit, UpdateInv, Copy
  <2> QED
    BY <2>1 DEF FilesFit
<1> QED
  BY <1>2, <1>3, <1>4 DEF UpdateInv

\* A call that ends, or goes on unchanged.
LEMMA PlainFrame ==
    ASSUME UpdateInv, NEW u \in UCalls, ucall[u].pc \in UpdateSteps, NEW pc \in UpdatePcs,
           UGoto(u, pc), StoresTyped',
           pc \in UpdateSteps => pc \in UpdateWay[ucall[u].op], pc # "write",
           \A d \in Docs : Exists(d)' => Len(docs'[d].files) <= MaxFiles
    PROVE  UpdateInv'
<1>1. PICK k : Goes(u, k) /\ k.pc = pc /\ k.copy = Copy(u)
  BY UGotoGoes DEF UpdateInv
<1>2. Copy(u) \in Row /\ Doc(u) \in Docs
  BY AtWork DEF UpdateInv
<1>3. UpdatePlaced(k)
  BY <1>1, <1>2, NoneAssumption DEF UpdatePlaced, Goes
<1> QED
  BY <1>1, <1>3, UpdateFrame DEF UpdateInv, FilesFit, Goes

LEMMA StoresTypedNow == ASSUME UpdateInv PROVE StoresTyped
BY DEF UpdateInv, UpdatesTypeOK, StoresTyped

LEMMA ReadKeepsUpdateInv ==
    ASSUME UpdateInv, NEW u \in UCalls, Read(u) PROVE UpdateInv'
<1>1. PICK k \in UpdateCall, d \in Docs :
         /\ Becomes(u, k)
         /\ k.doc = d /\ k.copy = docs[d]
         /\ k.pc = IF ~Exists(d) THEN "error" ELSE IF k.op = "rules" THEN "apply" ELSE "access"
         /\ busy' = IF \E w \in UCalls \ {u} : Working(w, d) THEN busy \cup {d} ELSE busy
  BY ReadGoes DEF UpdateInv
<1>2. UNCHANGED <<docs, chunks, blobs, last, failed, mixed>>
  BY DEF Read, UnchangedStores
<1>3. StoresTyped'
  BY <1>1, <1>2, StoresTypedNow DEF StoresTyped
<1>4. k.copy # None => k.pc \in UpdateWay[k.op] /\ k.pc # "ok" /\ k.pc # "write" /\ Exists(d)
  <2>1. k.op \in {"text", "file", "meta", "rules", "delete"}
    BY DEF UpdateCall, UpdateOps, Updates
  <2> QED
    BY <1>1, <2>1 DEF UpdateWay, Exists
<1>5. UpdatePlaced(k)
  BY <1>1, <1>4 DEF UpdatePlaced, UpdateSteps, Exists
<1>6. /\ \A e \in Docs : Exists(e)' => Len(docs'[e].files) <= MaxFiles
      /\ k.copy # None => Len(k.copy.files) <= MaxFiles
  BY <1>1, <1>2, <1>4 DEF UpdateInv, FilesFit, Exists
<1> QED
  BY <1>1, <1>3, <1>5, <1>6, UpdateFrame

LEMMA SmallStepsKeepUpdateInv ==
    ASSUME UpdateInv, NEW u \in UCalls, CheckAccess(u) \/ Deleted(u)
    PROVE  UpdateInv'
<1>1. ucall[u].pc \in {"access", "clean"} /\ ucall[u].pc \in UpdateSteps
  BY DEF CheckAccess, Deleted, UStep, UpdateSteps
<1>2. ucall[u].pc \in UpdateWay[ucall[u].op] /\ ucall[u].op \in {"text", "file", "meta", "rules", "delete"}
  BY <1>1, AtWork DEF UpdateInv, UpdateCall, UpdateOps, Updates
<1>3. PICK pc \in {"upload1", "split", "existing", "remove", "error", "ok"} :
         /\ UGoto(u, pc)
         /\ pc \in {"error", "ok"} \/ pc \in UpdateWay[ucall[u].op]
  <2>1. CASE CheckAccess(u)
    <3>1. ucall[u].op # "rules"
      BY <1>2, <2>1 DEF CheckAccess, UStep, UpdateWay
    <3>2. PICK pc : /\ pc = IF Exists(Doc(u)) THEN FirstStep[ucall[u].op] ELSE "error"
                    /\ UGoto(u, pc)
      BY <2>1 DEF CheckAccess
    <3>3. pc = "error" \/ (pc \in {"upload1", "split", "existing", "remove"} /\ pc \in UpdateWay[ucall[u].op])
      BY <1>2, <3>1, <3>2 DEF FirstStep, UpdateWay
    <3> QED
      BY <3>2, <3>3
  <2>2. CASE Deleted(u)
    BY <2>2 DEF Deleted
  <2> QED
    BY <2>1, <2>2
<1>4. UNCHANGED <<docs, chunks, blobs, last, failed, busy, mixed>>
  BY DEF CheckAccess, Deleted, UnchangedStores, UnchangedNotes
<1>5. StoresTyped' /\ \A e \in Docs : Exists(e)' => Len(docs'[e].files) <= MaxFiles
  BY <1>4, StoresTypedNow DEF StoresTyped, UpdateInv, FilesFit, Exists
<1>6. pc \in UpdatePcs /\ (pc \in UpdateSteps => pc \in UpdateWay[ucall[u].op])
  BY <1>3 DEF UpdatePcs, UpdateSteps
<1> QED
  BY <1>1, <1>3, <1>5, <1>6, PlainFrame

\* A call that fails changes no row.
LEMMA FailureKeepsUpdateInv ==
    ASSUME UpdateInv, NEW u \in UCalls, ucall[u].pc \in UpdateSteps, UGoto(u, "error"),
           UNCHANGED <<docs, blobs, last, busy, mixed>>,
           failed' \in {failed, failed \cup {Doc(u)}},
           chunks' \in [Docs -> SUBSET SUBSET Parts]
    PROVE  UpdateInv'
<1>1. Doc(u) \in Docs
  BY AtWork DEF UpdateInv
<1>2. StoresTyped' /\ \A e \in Docs : Exists(e)' => Len(docs'[e].files) <= MaxFiles
  BY <1>1, StoresTypedNow DEF StoresTyped, UpdateInv, FilesFit, Exists
<1> QED
  BY <1>2, PlainFrame DEF UpdatePcs, UpdateSteps

LEMMA InsertTyped ==
    ASSUME UpdateInv, NEW d \in Docs, NEW batch \in SUBSET Parts, Insert(d, batch)
    PROVE  /\ chunks' \in [Docs -> SUBSET SUBSET Parts]
           /\ chunks'[d] = chunks[d] \cup {batch}
           /\ \A e \in Docs \ {d} : chunks'[e] = chunks[e]
BY DEF UpdateInv, UpdatesTypeOK, Insert

\* One key of the object store.
LEMMA PutTyped ==
    ASSUME UpdateInv, NEW d \in Docs, NEW v \in Versions, NEW x \in {None} \cup Parts,
           blobs' = [blobs EXCEPT ![d][v] = x]
    PROVE  /\ blobs' \in [Docs -> [Versions -> {None} \cup Parts]]
           /\ blobs'[d][v] = x
           /\ \A e \in Docs, w \in Versions : e # d \/ w # v => blobs'[e][w] = blobs[e][w]
<1>1. PICK b : b = [blobs[d] EXCEPT ![v] = x]
  OBVIOUS
<1>2. blobs[d] \in [Versions -> {None} \cup Parts] /\ blobs \in [Docs -> [Versions -> {None} \cup Parts]]
  BY DEF UpdateInv, UpdatesTypeOK
<1>3. /\ b \in [Versions -> {None} \cup Parts] /\ b[v] = x
      /\ \A w \in Versions \ {v} : b[w] = blobs[d][w]
  BY <1>1, <1>2
<1>4. blobs' = [blobs EXCEPT ![d] = b]
  BY <1>1
<1> QED
  BY <1>2, <1>3, <1>4

LEMMA ContentStepsKeepUpdateInv ==
    ASSUME UpdateInv, NEW u \in UCalls, Upload(u) \/ Split(u) \/ Merge(u) \/ Store(u)
    PROVE  UpdateInv'
<1>1. /\ ucall[u].pc \in {"upload1", "upload2", "split", "merge", "store"}
      /\ ucall[u].pc \in UpdateSteps
  BY DEF Upload, Split, Merge, Store, UStep, UpdateSteps
<1>2. /\ ucall[u] \in UpdateCall /\ Copy(u) \in Row /\ Doc(u) \in Docs
      /\ ucall[u].pc \in UpdateWay[ucall[u].op]
  BY <1>1, AtWork DEF UpdateInv
<1>3. ucall[u].op \in {"text", "file"} /\ (ucall[u].pc \in {"upload1", "upload2"} => ucall[u].op = "file")
  <2>1. ucall[u].op \in {"text", "file", "meta", "rules", "delete"}
    BY <1>2 DEF UpdateCall, UpdateOps, Updates
  <2> QED
    BY <1>1, <1>2, <2>1 DEF UpdateWay
<1>4. UNCHANGED docs /\ \A e \in Docs : Exists(e)' => Len(docs'[e].files) <= MaxFiles
  BY DEF Upload, Split, Merge, Store, UnchangedStores, UpdateInv, FilesFit, Exists
<1>5. Len(Copy(u).files) <= MaxFiles /\ Len(Copy(u).files) \in Nat /\ MaxFiles \in Nat \ {0}
  BY <1>2, NoneAssumption, UpdateAssumption DEF UpdateInv, FilesFit, Row
<1>6. CASE UFail(u)
  <2>1. failed' = failed \cup {Doc(u)} /\ UGoto(u, "error")
    BY <1>6 DEF UFail
  <2>2. UNCHANGED <<busy>> /\ chunks' \in [Docs -> SUBSET SUBSET Parts]
    <3>1. Copy(u).text \in SUBSET Parts
      BY <1>2 DEF Row
    <3>2. CASE Insert(Doc(u), Copy(u).text)
      BY <1>2, <3>1, <3>2, InsertTyped DEF Upload, Split, Merge, Store, UnchangedNotes
    <3>3. CASE ~Insert(Doc(u), Copy(u).text)
      <4>1. UNCHANGED chunks
        BY <1>6, <3>3 DEF Upload, Split, Merge, Store, UnchangedStores
      <4> QED
        BY <4>1 DEF UpdateInv, UpdatesTypeOK, Upload, Split, Merge, Store, UnchangedNotes
    <3> QED
      BY <3>2, <3>3
  <2>3. PICK k : Goes(u, k) /\ k.pc = "error" /\ k.copy = Copy(u)
    BY <1>6, UFailGoes DEF UpdateInv
  <2>4. UpdatePlaced(k)
    BY <2>3 DEF UpdatePlaced, UpdateSteps
  <2>5. StoresTyped'
    <3>1. mixed' \in BOOLEAN /\ last' \in {None} \cup UCalls
      <4>1. CASE Split(u)
        BY <4>1, StoresTypedNow DEF Split, HoldRules, StoresTyped
      <4>2. CASE Upload(u) \/ Merge(u) \/ Store(u)
        BY <4>2, StoresTypedNow DEF Upload, Merge, Store, UnchangedNotes, StoresTyped
      <4> QED
        BY <4>1, <4>2
    <3>2. blobs' \in [Docs -> [Versions -> {None} \cup Parts]]
      <4>1. CASE UNCHANGED blobs
        BY <4>1, StoresTypedNow DEF StoresTyped
      <4>2. CASE /\ NextVersion(u) \in Versions
                 /\ blobs' = [blobs EXCEPT ![Doc(u)][NextVersion(u)] = u]
        BY <1>2, <4>2, PutTyped DEF Parts
      <4> QED
        BY <4>1, <4>2 DEF Upload, Split, Merge, Store, UnchangedStores
    <3> QED
      BY <1>2, <1>4, <2>1, <2>2, <3>1, <3>2, StoresTypedNow DEF StoresTyped
  <2> QED
    BY <1>4, <1>5, <2>3, <2>4, <2>5, UpdateFrame DEF Goes
<1>7. CASE Upload(u) /\ ~UFail(u)
  <2>1. PICK k : /\ Goes(u, k) /\ k.copy \in Row
                 /\ \/ ucall[u].pc = "upload1" /\ k.pc = "upload2"
                    \/ ucall[u].pc = "upload2" /\ k.pc = "split"
                 /\ k.copy.files = Append(Copy(u).files, u)
    BY <1>7, UploadGoes DEF UpdateInv
  <2>2. /\ NextVersion(u) \in Versions /\ blobs' = [blobs EXCEPT ![Doc(u)][NextVersion(u)] = u]
        /\ UNCHANGED <<chunks, last, busy, mixed, failed>>
    BY <1>7 DEF Upload, UnchangedNotes
  <2>3. StoresTyped'
    <3>1. blobs' \in [Docs -> [Versions -> {None} \cup Parts]]
      BY <1>2, <2>2, PutTyped DEF Parts
    <3> QED
      BY <1>4, <2>2, <3>1, StoresTypedNow DEF StoresTyped
  <2>4. UpdatePlaced(k)
    <3>1. k.op = "file" /\ k.doc \in Docs /\ k.copy # None /\ k.pc \in {"upload2", "split"}
      BY <1>1, <1>2, <1>3, <2>1, NoneAssumption DEF Goes, UpdateWay
    <3> QED
      BY <3>1 DEF UpdatePlaced, UpdateWay
  <2>5. Len(k.copy.files) <= MaxFiles
    <3>1. Copy(u).files \in Seq(Parts)
      BY <1>2 DEF Row
    <3>2. Len(Append(Copy(u).files, u)) = Len(Copy(u).files) + 1
      BY <3>1
    <3> QED
      BY <1>5, <2>1, <2>2, <3>2 DEF NextVersion, Versions
  <2> QED
    BY <1>4, <2>1, <2>3, <2>4, <2>5, UpdateFrame DEF Goes
<1>8. CASE Split(u) /\ ~UFail(u)
  <2>1. /\ HoldRules(u) /\ mixed' = (mixed \/ \E w \in UCalls \ {u} : UStep(w, "merge"))
        /\ UNCHANGED <<failed, busy, chunks, blobs>>
    BY <1>8, SplitGoes DEF UpdateInv, Split, UnchangedStores
  <2>2. PICK k : /\ Goes(u, k) /\ k.copy \in Row /\ k.pc = "merge" /\ k.copy.files = Copy(u).files
    BY <1>8, SplitGoes DEF UpdateInv
  <2>3. StoresTyped'
    <3>1. mixed' \in BOOLEAN /\ last' \in {None} \cup UCalls
      BY <2>1, StoresTypedNow DEF HoldRules, StoresTyped
    <3> QED
      BY <1>4, <2>1, <3>1, StoresTypedNow DEF StoresTyped
  <2>4. UpdatePlaced(k)
    BY <1>2, <1>3, <2>2, NoneAssumption DEF UpdatePlaced, Goes, UpdateWay
  <2> QED
    BY <1>4, <1>5, <2>2, <2>3, <2>4, UpdateFrame DEF Goes
<1>9. CASE Merge(u) /\ ~UFail(u)
  <2>1. last' = None /\ UNCHANGED <<failed, busy, mixed, chunks, blobs>>
    BY <1>9, MergeGoes DEF UpdateInv, Merge, UnchangedStores, UnchangedNotes
  <2>2. PICK k : /\ Goes(u, k) /\ k.copy \in Row /\ k.pc = "store" /\ k.copy.files = Copy(u).files
    BY <1>9, MergeGoes DEF UpdateInv
  <2>3. StoresTyped'
    BY <1>4, <2>1, StoresTypedNow DEF StoresTyped
  <2>4. UpdatePlaced(k)
    BY <1>2, <1>3, <2>2, NoneAssumption DEF UpdatePlaced, Goes, UpdateWay
  <2> QED
    BY <1>4, <1>5, <2>2, <2>3, <2>4, UpdateFrame DEF Goes
<1>10. CASE Store(u) /\ ~UFail(u)
  <2>1. Insert(Doc(u), Copy(u).text) /\ UNCHANGED <<failed, busy, mixed, last, blobs>>
    BY <1>10, StoreGoes DEF UpdateInv, Store, UnchangedNotes
  <2>2. PICK k : /\ Goes(u, k) /\ k.copy \in Row /\ k.pc = "existing" /\ k.copy.files = Copy(u).files
    BY <1>10, StoreGoes DEF UpdateInv
  <2>3. StoresTyped'
    <3>1. Copy(u).text \in SUBSET Parts
      BY <1>2 DEF Row
    <3>2. chunks' \in [Docs -> SUBSET SUBSET Parts]
      BY <1>2, <2>1, <3>1, InsertTyped
    <3> QED
      BY <1>4, <2>1, <3>2, StoresTypedNow DEF StoresTyped
  <2>4. UpdatePlaced(k)
    BY <1>2, <1>3, <2>2, NoneAssumption DEF UpdatePlaced, Goes, UpdateWay
  <2> QED
    BY <1>4, <1>5, <2>2, <2>3, <2>4, UpdateFrame DEF Goes
<1> QED
  BY <1>6, <1>7, <1>8, <1>9, <1>10

LEMMA RowStepsKeepUpdateInv ==
    ASSUME UpdateInv, NEW u \in UCalls,
           Apply(u) \/ ReadExisting(u) \/ Write(u) \/ WriteRules(u) \/ RemoveRow(u)
    PROVE  UpdateInv'
<1>1. /\ ucall[u].pc \in {"apply", "existing", "write", "remove"}
      /\ ucall[u].pc \in UpdateSteps
  BY DEF Apply, ReadExisting, Write, WriteRules, RemoveRow, UStep, UpdateSteps
<1>2. /\ ucall[u] \in UpdateCall /\ Copy(u) \in Row /\ Doc(u) \in Docs
      /\ ucall[u].pc \in UpdateWay[ucall[u].op]
      /\ ucall[u].op \in {"text", "file", "meta", "rules", "delete"}
  BY <1>1, AtWork DEF UpdateInv, UpdateCall, UpdateOps, Updates
<1>3. UNCHANGED <<chunks, blobs, last, busy, mixed>>
  BY DEF Apply, ReadExisting, Write, WriteRules, RemoveRow, UnchangedStores, UnchangedNotes
<1>4. StoresTyped
  BY StoresTypedNow
<1>5. CASE UGoto(u, "error")
  <2>1. failed' \in {failed, failed \cup {Doc(u)}}
    BY <1>5 DEF Apply, ReadExisting, Write, WriteRules, RemoveRow, UFail
  <2>2. UNCHANGED docs
    <3>1. PICK k : Goes(u, k) /\ k.pc = "error"
      BY <1>5, UGotoGoes DEF UpdateInv, UpdatePcs
    <3>2. ucall'[u].pc = "error"
      BY <3>1, UpdateAfter DEF UpdateInv, Goes
    <3>3. ASSUME ~UNCHANGED docs PROVE FALSE
      <4>1. UGoto(u, "ok") \/ ucall' = [ucall EXCEPT ![u].todo = CleanUp(u), ![u].pc = "clean"]
        BY <3>3 DEF Apply, ReadExisting, Write, WriteRules, RemoveRow, UnchangedStores
      <4>2. ucall \in [UCalls -> UpdateCall]
        BY DEF UpdateInv, UpdatesTypeOK
      <4>3. ucall'[u].pc \in {"ok", "clean"}
        BY <1>2, <4>1, <4>2 DEF UGoto, UpdateCall
      <4> QED
        BY <3>2, <4>3
    <3> QED
      BY <3>3
  <2> QED
    BY <1>1, <1>3, <1>4, <1>5, <2>1, <2>2, FailureKeepsUpdateInv DEF StoresTyped
<1>6. CASE Apply(u) /\ ~UGoto(u, "error")
  <2>1. UNCHANGED <<docs, failed>>
    BY <1>6 DEF Apply, UnchangedStores
  <2>2. PICK k : Goes(u, k) /\ k.copy \in Row /\ k.pc = "existing" /\ k.copy.files = Copy(u).files
    BY <1>6, ApplyGoes DEF UpdateInv
  <2>3. UpdatePlaced(k)
    <3>1. ucall[u].op = "rules"
      BY <1>2, <1>6 DEF Apply, UStep, UpdateWay
    <3> QED
      BY <1>2, <2>2, <3>1, NoneAssumption DEF UpdatePlaced, Goes, UpdateWay
  <2>4. StoresTyped' /\ \A e \in Docs : Exists(e)' => Len(docs'[e].files) <= MaxFiles
    BY <1>3, <1>4, <2>1 DEF StoresTyped, UpdateInv, FilesFit, Exists
  <2>5. Len(k.copy.files) <= MaxFiles
    BY <1>2, <2>2, NoneAssumption DEF UpdateInv, FilesFit
  <2> QED
    BY <2>2, <2>3, <2>4, <2>5, UpdateFrame DEF Goes
<1>7. CASE ReadExisting(u) /\ ~UGoto(u, "error")
  <2>1. Exists(Doc(u)) /\ UNCHANGED <<docs, failed>>
    BY <1>7, ReadExistingGoes DEF UpdateInv, ReadExisting, UnchangedStores, UFail
  <2>2. PICK k : Goes(u, k) /\ k.copy = Copy(u) /\ k.pc = "write" /\ k.current = docs[Doc(u)]
    BY <1>7, ReadExistingGoes DEF UpdateInv, UFail
  <2>3. UpdatePlaced(k)
    <3>1. "write" \in UpdateWay[ucall[u].op]
      BY <1>2, <1>7 DEF ReadExisting, UStep, UpdateWay
    <3> QED
      BY <1>2, <2>1, <2>2, <3>1, NoneAssumption DEF UpdatePlaced, Goes, Exists
  <2>4. StoresTyped' /\ \A e \in Docs : Exists(e)' => Len(docs'[e].files) <= MaxFiles
    BY <1>3, <1>4, <2>1 DEF StoresTyped, UpdateInv, FilesFit, Exists
  <2>5. Len(k.copy.files) <= MaxFiles
    BY <1>2, <2>2, NoneAssumption DEF UpdateInv, FilesFit
  <2> QED
    BY <2>2, <2>3, <2>4, <2>5, UpdateFrame DEF Goes
<1>8. CASE (Write(u) \/ WriteRules(u)) /\ ~UGoto(u, "error")
  <2>1. /\ Exists(Doc(u)) /\ UNCHANGED failed
        /\ \E k : Goes(u, k) /\ k.pc = "ok" /\ k.copy = Copy(u)
        /\ \E r \in Row : /\ docs' = [docs EXCEPT ![Doc(u)] = r]
                          /\ r.files \in {Copy(u).files, docs[Doc(u)].files}
    <3>1. CASE Write(u)
      BY <1>8, <3>1, WriteGoes DEF UpdateInv, UFail
    <3>2. CASE WriteRules(u)
      BY <1>8, <3>2, WriteRulesGoes DEF UpdateInv, WriteRules
    <3> QED
      BY <1>8, <3>1, <3>2
  <2>2. PICK k : Goes(u, k) /\ k.pc = "ok" /\ k.copy = Copy(u)
    BY <2>1
  <2>3. PICK r \in Row : /\ docs' = [docs EXCEPT ![Doc(u)] = r]
                         /\ r.files \in {Copy(u).files, docs[Doc(u)].files}
    BY <2>1
  <2>4. UpdatePlaced(k)
    BY <1>2, <2>2 DEF UpdatePlaced, Goes, UpdateSteps
  <2>5. Len(Copy(u).files) <= MaxFiles /\ Len(docs[Doc(u)].files) <= MaxFiles
    BY <1>2, <2>1, NoneAssumption DEF UpdateInv, FilesFit
  <2>6. StoresTyped' /\ \A e \in Docs : Exists(e)' => Len(docs'[e].files) <= MaxFiles
    <3>1. docs' \in [Docs -> Snapshot]
      BY <1>4, <2>3 DEF StoresTyped, Snapshot
    <3>2. ASSUME NEW e \in Docs, Exists(e)' PROVE Len(docs'[e].files) <= MaxFiles
      <4>1. docs'[e] = IF e = Doc(u) THEN r ELSE docs[e]
        BY <1>4, <2>3 DEF StoresTyped
      <4> QED
        BY <2>3, <2>5, <3>2, <4>1 DEF UpdateInv, FilesFit, Exists
    <3> QED
      BY <1>3, <1>4, <2>1, <3>1, <3>2 DEF StoresTyped
  <2> QED
    BY <2>2, <2>4, <2>5, <2>6, UpdateFrame DEF Goes
<1>9. CASE RemoveRow(u) /\ ~UGoto(u, "error")
  <2>1. Len(Copy(u).files) <= MaxFiles /\ Len(Copy(u).files) \in Nat /\ MaxFiles \in Nat \ {0}
    BY <1>2, NoneAssumption, UpdateAssumption DEF UpdateInv, FilesFit, Row
  <2>2. \A v \in 1 .. Len(Copy(u).files) : v \in Versions
    BY <2>1 DEF Versions
  <2>3. docs' = [docs EXCEPT ![Doc(u)] = None] /\ UNCHANGED failed
    BY <1>9, <2>2, RemoveRowGoes DEF UpdateInv, RemoveRow
  <2>4. PICK k : Goes(u, k) /\ k.copy = Copy(u) /\ k.pc = "clean"
    BY <1>9, <2>2, RemoveRowGoes DEF UpdateInv
  <2>5. UpdatePlaced(k)
    <3>1. ucall[u].op = "delete"
      BY <1>2, <1>9 DEF RemoveRow, UStep, UpdateWay
    <3> QED
      BY <1>2, <2>4, <3>1, NoneAssumption DEF UpdatePlaced, Goes, UpdateWay
  <2>6. StoresTyped' /\ \A e \in Docs : Exists(e)' => Len(docs'[e].files) <= MaxFiles
    BY <1>2, <1>3, <1>4, <2>3 DEF StoresTyped, UpdateInv, FilesFit, Exists, Snapshot
  <2> QED
    BY <2>1, <2>4, <2>5, <2>6, UpdateFrame DEF Goes
<1> QED
  BY <1>5, <1>6, <1>7, <1>8, <1>9

LEMMA CleanKeepsUpdateInv ==
    ASSUME UpdateInv, NEW u \in UCalls, NEW i \in {0} \cup Versions, Clean(u, i)
    PROVE  UpdateInv'
<1>1. ucall[u].pc = "clean" /\ "clean" \in UpdateSteps
  BY DEF Clean, UStep, UpdateSteps
<1>2. /\ ucall[u] \in UpdateCall /\ Copy(u) \in Row /\ Doc(u) \in Docs
      /\ ucall[u].pc \in UpdateWay[ucall[u].op]
  BY <1>1, AtWork DEF UpdateInv
<1>3. PICK k : Goes(u, k) /\ k.copy = Copy(u) /\ k.pc = "clean"
  BY CleanGoes DEF UpdateInv
<1>4. UpdatePlaced(k)
  BY <1>1, <1>2, <1>3, NoneAssumption DEF UpdatePlaced, Goes
<1>5. blobs' \in [Docs -> [Versions -> {None} \cup Parts]]
  <2>1. CASE i # 0 /\ blobs' = [blobs EXCEPT ![Doc(u)][i] = None]
    BY <1>2, <2>1, PutTyped
  <2>2. CASE UNCHANGED blobs
    BY <2>2, StoresTypedNow DEF StoresTyped
  <2> QED
    BY <2>1, <2>2 DEF Clean
<1>6. StoresTyped' /\ \A e \in Docs : Exists(e)' => Len(docs'[e].files) <= MaxFiles
  BY <1>2, <1>5, StoresTypedNow DEF Clean, UnchangedNotes, StoresTyped, UpdateInv, FilesFit, Exists
<1>7. Len(Copy(u).files) <= MaxFiles
  BY <1>2, NoneAssumption DEF UpdateInv, FilesFit
<1> QED
  BY <1>3, <1>4, <1>6, <1>7, UpdateFrame DEF Goes

\* A crash ends every call at once.
LEMMA UpdatesCrashEnds ==
    ASSUME UpdateInv, UpdatesCrash
    PROVE  /\ ucall' \in [UCalls -> UpdateCall]
           /\ \A u \in UCalls :
                 /\ ucall'[u].op = ucall[u].op /\ ucall'[u].doc = ucall[u].doc
                 /\ ucall'[u].copy = ucall[u].copy
                 /\ ucall'[u].pc = IF ucall[u].pc \in UpdateSteps THEN "crashed" ELSE ucall[u].pc
<1>1. ASSUME NEW u \in UCalls
      PROVE  /\ ucall'[u] \in UpdateCall
             /\ ucall'[u].op = ucall[u].op /\ ucall'[u].doc = ucall[u].doc
             /\ ucall'[u].copy = ucall[u].copy
             /\ ucall'[u].pc = IF ucall[u].pc \in UpdateSteps THEN "crashed" ELSE ucall[u].pc
  <2>1. ucall[u] \in UpdateCall
    BY DEF UpdateInv, UpdatesTypeOK
  <2>2. ucall'[u] = IF ucall[u].pc \in UpdateSteps THEN [ucall[u] EXCEPT !.pc = "crashed"] ELSE ucall[u]
    BY DEF UpdatesCrash
  <2> QED
    BY <2>1, <2>2 DEF UpdateCall, UpdatePcs
<1> QED
  BY <1>1 DEF UpdatesCrash

LEMMA UpdatesCrashKeepsUpdateInv ==
    ASSUME UpdateInv, UpdatesCrash PROVE UpdateInv'
<1>1. StoresTyped'
  BY StoresTypedNow DEF UpdatesCrash, UnchangedStores, UnchangedNotes, StoresTyped
<1>2. UpdatesTypeOK'
  BY <1>1, UpdatesCrashEnds DEF UpdatesTypeOK, StoresTyped
<1>3. UpdatesPlaced'
  <2>1. ASSUME NEW u \in UCalls PROVE UpdatePlaced(ucall[u])'
    <3>1. UpdatePlaced(ucall[u])
      BY DEF UpdateInv, UpdatesPlaced
    <3>2. ucall'[u].pc \notin UpdateSteps /\ (ucall'[u].pc = "ok" => ucall[u].pc = "ok")
      BY UpdatesCrashEnds DEF UpdateSteps
    <3> QED
      BY <3>1, <3>2, UpdatesCrashEnds DEF UpdatePlaced, UpdateSteps
  <2> QED
    BY <2>1 DEF UpdatesPlaced
<1>4. FilesFit'
  BY UpdatesCrashEnds DEF UpdateInv, FilesFit, Copy, UpdatesCrash, UnchangedStores, Exists
<1> QED
  BY <1>2, <1>3, <1>4 DEF UpdateInv

LEMMA UpdatesKeepUpdateInv ==
    ASSUME UpdateInv, UpdatesNext PROVE UpdateInv'
BY ReadKeepsUpdateInv, SmallStepsKeepUpdateInv, ContentStepsKeepUpdateInv, RowStepsKeepUpdateInv,
   CleanKeepsUpdateInv, UpdatesCrashKeepsUpdateInv DEF UpdatesNext, UpdatesStep

-----------------------------------------------------------------------------
(* The lives of documents and ids.                                         *)

Ingesting(c) == fcall[c].op \in Ingests /\ fcall[c].pc # "new"

\* Call c has yet to make the row of its document.
PreRow(c)  == \/ fcall[c].op = "text" /\ fcall[c].pc \in Steps
              \/ fcall[c].op = "file" /\ fcall[c].pc = "row"
Pending(d) == \E c \in FCalls : PreRow(c) /\ fcall[c].doc = d
Unborn(d)  == d \notin used \/ Pending(d)
Dead(d)    == ~Exists(d) /\ ~Unborn(d)

\* Ids are given out once, and a document's row comes after its id.
IdsAreFresh ==
    /\ \A f \in FolderIds : folders[f] # None => f \in used
    /\ \A c \in FCalls : fcall[c].f # None => fcall[c].f \in used
    /\ \A c \in FCalls : Ingesting(c) => fcall[c].doc \in used
    /\ \A b, c \in FCalls :
          Ingesting(b) /\ Ingesting(c) /\ fcall[b].doc = fcall[c].doc => b = c
    /\ \A d \in Docs : Unborn(d) => ~Exists(d)

BaseInv == FoldersTypeOK /\ CallsPlaced /\ UpdateInv /\ IdsAreFresh

\* What a folder call does to the documents.
StoresStay == UNCHANGED <<docs, chunks, blobs>>

Renamed(d, n) ==
    /\ Exists(d) /\ UNCHANGED <<chunks, blobs>>
    /\ \E r \in Row :
          /\ docs' = [docs EXCEPT ![d] = r] /\ r.folder = n
          /\ r.version = docs[d].version /\ r.text = docs[d].text
          /\ r.chunked = docs[d].chunked /\ r.files = docs[d].files /\ r.tags = docs[d].tags

Erased(d) == Exists(d) /\ docs' = [docs EXCEPT ![d] = None] /\ UNCHANGED <<chunks, blobs>>

Born(d, n) ==
    /\ ~Exists(d)
    /\ chunks' = [chunks EXCEPT ![d] = {{Base}}]
    /\ \E r \in Row :
          /\ docs' = [docs EXCEPT ![d] = r] /\ r.folder = n
          /\ r.version = 1 /\ r.text = {Base} /\ r.chunked = {Base} /\ r.tags = {}
          /\ \/ r.files = <<>> /\ UNCHANGED blobs
             \/ r.files = <<Base>> /\ blobs' = [blobs EXCEPT ![d][1] = Base]

LEMMA StayEffect ==
    ASSUME UpdateInv, UNCHANGED docs, IngestStores
    PROVE  StoresStay
<1>1. {d \in Docs : ~Exists(d) /\ docs'[d] # None} = {}
  BY DEF Exists
<1>2. chunks' = [d \in Docs |-> chunks[d]] /\ blobs' = [d \in Docs |-> blobs[d]]
  BY <1>1 DEF IngestStores
<1>3. chunks = [d \in Docs |-> chunks[d]] /\ blobs = [d \in Docs |-> blobs[d]]
  BY DEF UpdateInv, UpdatesTypeOK
<1> QED
  BY <1>2, <1>3 DEF StoresStay

\* No row comes into being.
LEMMA NoBirth ==
    ASSUME UpdateInv, IngestStores, \A d \in Docs : docs'[d] # None => Exists(d)
    PROVE  UNCHANGED <<chunks, blobs>>
<1>1. {d \in Docs : ~Exists(d) /\ docs'[d] # None} = {}
  OBVIOUS
<1>2. chunks' = [d \in Docs |-> chunks[d]] /\ blobs' = [d \in Docs |-> blobs[d]]
  BY <1>1 DEF IngestStores
<1>3. chunks = [d \in Docs |-> chunks[d]] /\ blobs = [d \in Docs |-> blobs[d]]
  BY DEF UpdateInv, UpdatesTypeOK
<1> QED
  BY <1>2, <1>3

LEMMA RenameEffect ==
    ASSUME UpdateInv, NEW d \in Docs, NEW n \in Names \cup {None}, SetFolderName(d, n), IngestStores
    PROVE  (StoresStay /\ ~Exists(d)) \/ Renamed(d, n)
<1>1. CASE ~Exists(d)
  BY <1>1, StayEffect DEF SetFolderName
<1>2. CASE Exists(d)
  <2>1. docs[d] \in Row /\ docs \in [Docs -> Snapshot]
    BY <1>2 DEF UpdateInv, UpdatesTypeOK, Snapshot, Exists
  <2>2. PICK r : r = [docs[d] EXCEPT !.folder = n]
    OBVIOUS
  <2>3. docs' = [docs EXCEPT ![d] = r]
    BY <1>2, <2>2 DEF SetFolderName
  <2>4. /\ r \in Row /\ r.folder = n /\ r.version = docs[d].version /\ r.text = docs[d].text
        /\ r.chunked = docs[d].chunked /\ r.files = docs[d].files /\ r.tags = docs[d].tags
    BY <2>1, <2>2 DEF Row
  <2>5. UNCHANGED <<chunks, blobs>>
    BY <1>2, <2>1, <2>3, NoBirth DEF Exists
  <2> QED
    BY <1>2, <2>3, <2>4, <2>5 DEF Renamed
<1> QED
  BY <1>1, <1>2

LEMMA BirthEffect ==
    ASSUME BaseInv, NEW c \in FCalls, IngestRow(c), IngestStores
    PROVE  \/ StoresStay /\ UNCHANGED apart /\ ToStep(c, "error")
           \/ /\ Born(fcall[c].doc, fcall[c].name)
              /\ ToStep(c, IF fcall[c].op = "text" THEN "ok" ELSE "lookup")
              /\ apart' = IF fcall[c].op = "text" /\ Listing(fcall[c].doc) = {}
                          THEN apart \cup {fcall[c].doc} ELSE apart
<1> DEFINE d == fcall[c].doc
           n == fcall[c].name
<1>1. /\ fcall[c].op \in {"text", "file"} /\ fcall[c].pc = "row" /\ fcall[c].pc \in Steps
      /\ d \in Docs /\ n \in Names
  BY DEF IngestRow, InStep, Ingests, BaseInv, CallsPlaced, Placed, Steps
<1>2. ~Exists(d)
  BY <1>1 DEF BaseInv, IdsAreFresh, Unborn, Pending, PreRow
<1>3. CASE UNCHANGED docs /\ UNCHANGED apart /\ ToStep(c, "error")
  BY <1>3, StayEffect DEF BaseInv
<1>4. ASSUME NEW files \in {<<>>, <<Base>>}, docs' = [docs EXCEPT ![d] = Ingested({Base}, files, n)]
      PROVE  Born(d, n)
  <2>1. PICK r : r = Ingested({Base}, files, n)
    OBVIOUS
  <2>2. n # None /\ n \in Names
    BY <1>1, NoneAssumption DEF NoFolder
  <2>3. files \in Seq(Parts) /\ (files = <<>> \/ files = <<Base>>) /\ Base \in Parts
    <3>1. Base \in Parts
      BY DEF Parts
    <3>2. <<>> \in Seq(Parts) /\ <<Base>> \in Seq(Parts)
      BY <3>1
    <3> QED
      BY <3>1, <3>2
  <2>4. /\ r \in Row /\ r.folder = n /\ r.version = 1 /\ r.text = {Base} /\ r.chunked = {Base}
        /\ r.tags = {} /\ r.files = files
    BY <2>1, <2>2, <2>3 DEF Ingested, Row
  <2>5. docs' = [docs EXCEPT ![d] = r] /\ docs \in [Docs -> Snapshot]
    BY <1>4, <2>1 DEF BaseInv, UpdateInv, UpdatesTypeOK
  <2>6. r # None
    BY <2>4, NoneAssumption
  <2>7. {e \in Docs : ~Exists(e) /\ docs'[e] # None} = {d} /\ docs'[d] = r
    BY <1>1, <1>2, <2>5, <2>6 DEF Exists
  <2>8. /\ chunks' = [e \in Docs |-> IF e \in {d} THEN {docs'[e].text} ELSE chunks[e]]
        /\ blobs' = [e \in Docs |-> IF e \in {d} /\ docs'[e].files # <<>>
                                    THEN [blobs[e] EXCEPT ![1] = Base] ELSE blobs[e]]
    BY <2>7 DEF IngestStores
  <2>9. chunks' = [chunks EXCEPT ![d] = {{Base}}]
    BY <2>4, <2>7, <2>8 DEF BaseInv, UpdateInv, UpdatesTypeOK
  <2>10. \/ r.files = <<>> /\ UNCHANGED blobs
         \/ r.files = <<Base>> /\ blobs' = [blobs EXCEPT ![d][1] = Base]
    <3>1. CASE files = <<>>
      <4>1. blobs' = [e \in Docs |-> blobs[e]]
        BY <2>4, <2>7, <2>8, <3>1
      <4> QED
        BY <2>4, <3>1, <4>1 DEF BaseInv, UpdateInv, UpdatesTypeOK
    <3>2. CASE files = <<Base>>
      <4>1. docs'[d].files # <<>>
        BY <2>4, <2>7, <3>2
      <4>2. PICK b : b = [blobs[d] EXCEPT ![1] = Base]
        OBVIOUS
      <4>3. blobs' = [e \in Docs |-> IF e = d THEN b ELSE blobs[e]]
        BY <2>8, <4>1, <4>2
      <4>4. blobs' = [blobs EXCEPT ![d] = b]
        BY <4>3 DEF BaseInv, UpdateInv, UpdatesTypeOK
      <4> QED
        BY <2>4, <3>2, <4>2, <4>4
    <3> QED
      BY <2>3, <3>1, <3>2
  <2> QED
    BY <1>2, <2>4, <2>5, <2>9, <2>10 DEF Born
<1> QED
  BY <1>3, <1>4 DEF IngestRow

LEMMA EraseEffect ==
    ASSUME UpdateInv, NEW d \in Docs, Exists(d), docs' = [docs EXCEPT ![d] = None], IngestStores
    PROVE  Erased(d)
<1>1. \A e \in Docs : docs'[e] # None => Exists(e)
  BY DEF UpdateInv, UpdatesTypeOK, Exists
<1> QED
  BY <1>1, NoBirth DEF Erased

\* Each step of a folder call leaves the stores alone, renames, erases or bears.
LEMMA FolderEffects ==
    ASSUME BaseInv, FoldersNext, IngestStores
    PROVE  \/ StoresStay
           \/ \E d \in Docs, n \in Names \cup {None} : Renamed(d, n)
           \/ \E d \in Docs : Erased(d)
           \/ \E c \in FCalls : IngestRow(c) /\ Born(fcall[c].doc, fcall[c].name)
<1>1. CASE UNCHANGED docs
  BY <1>1, StayEffect DEF BaseInv
<1>2. ASSUME NEW d \in Docs, NEW n \in Names \cup {None}, SetFolderName(d, n)
      PROVE  StoresStay \/ Renamed(d, n)
  BY <1>2, RenameEffect DEF BaseInv
<1>3. ASSUME NEW c \in FCalls, WriteList(c) PROVE UNCHANGED docs \/ \E d \in Docs, n \in Names \cup {None} : SetFolderName(d, n)
  <2>1. fcall[c].f \in FolderIds /\ fcall[c].doc \in Docs
    <3>1. fcall[c] \in Call /\ Placed(fcall[c]) /\ fcall[c].pc = "write"
      BY <1>3 DEF WriteList, BaseInv, CallsPlaced, FoldersTypeOK
    <3>2. fcall[c].op \in {"text", "file", "add", "remove"}
      BY <3>1 DEF Placed, Steps, Way, Call, Ops
    <3> QED
      BY <3>1, <3>2 DEF Placed
  <2>2. folders[fcall[c].f] # None => folders[fcall[c].f].name \in Names
    BY <2>1 DEF BaseInv, FoldersTypeOK, Folder
  <2>3. (IF Adds(c) THEN folders[fcall[c].f].name ELSE None) \in Names \cup {None} \/ folders[fcall[c].f] = None
    BY <2>2
  <2> QED
    BY <1>3, <2>1, <2>3 DEF WriteList, NotAdded, Fail
<1>4. ASSUME NEW c \in FCalls, NEW d \in Docs, TaskWrite(c, d)
      PROVE  UNCHANGED docs \/ SetFolderName(d, None)
  BY <1>4 DEF TaskWrite
<1>5. ASSUME NEW c \in FCalls, NEW d \in Docs, TaskPurge(c, d)
      PROVE  UNCHANGED docs \/ Erased(d)
  BY <1>5, EraseEffect DEF TaskPurge, BaseInv
<1>6. ASSUME NEW c \in FCalls, IngestRow(c)
      PROVE  StoresStay \/ Born(fcall[c].doc, fcall[c].name)
  BY <1>6, BirthEffect
<1>7. ASSUME NEW c \in FCalls,
             \/ StartCreate(c) \/ StartDelete(c) \/ StartIngest(c) \/ StartMove(c)
             \/ CheckName(c) \/ InsertFolder(c) \/ LookupFolder(c)
             \/ ReadFolder(c) \/ ReadDocument(c) \/ Emptied(c) \/ Purged(c) \/ DropFolder(c)
      PROVE  UNCHANGED docs
  <2>1. CASE StartCreate(c) \/ StartDelete(c) \/ StartIngest(c) \/ StartMove(c)
    BY <2>1 DEF StartCreate, StartDelete, StartIngest, StartMove, Start
  <2>2. CASE CheckName(c) \/ InsertFolder(c) \/ LookupFolder(c)
    BY <2>2 DEF CheckName, InsertFolder, LookupFolder
  <2>3. CASE ReadFolder(c) \/ ReadDocument(c)
    BY <2>3 DEF ReadFolder, ReadDocument, NotAdded, Fail
  <2>4. CASE Emptied(c) \/ Purged(c) \/ DropFolder(c)
    BY <2>4 DEF Emptied, Purged, DropFolder
  <2> QED
    BY <1>7, <2>1, <2>2, <2>3, <2>4
<1>8. ASSUME NEW c \in FCalls, NEW d \in Docs, TaskRead(c, d) PROVE UNCHANGED docs
  BY <1>8 DEF TaskRead
<1>9. ASSUME FoldersCrash PROVE UNCHANGED docs
  BY <1>9 DEF FoldersCrash
<1> QED
  BY <1>1, <1>2, <1>3, <1>4, <1>5, <1>6, <1>7, <1>8, <1>9 DEF FoldersNext, FoldersStep

\* A new row, or none.
LEMMA RowPlaced ==
    ASSUME UpdateInv, NEW d \in Docs, NEW r \in Snapshot, docs' = [docs EXCEPT ![d] = r],
           r # None => Len(r.files) <= MaxFiles,
           chunks' \in [Docs -> SUBSET SUBSET Parts],
           blobs' \in [Docs -> [Versions -> {None} \cup Parts]],
           UNCHANGED <<last, ucall, busy, failed, mixed>>
    PROVE  UpdateInv'
<1>1. docs' \in [Docs -> Snapshot] /\ docs'[d] = r /\ \A e \in Docs \ {d} : docs'[e] = docs[e]
  BY DEF UpdateInv, UpdatesTypeOK
<1>2. UpdatesTypeOK'
  BY <1>1 DEF UpdateInv, UpdatesTypeOK
<1>3. FilesFit'
  BY <1>1 DEF UpdateInv, FilesFit, Exists, Copy
<1> QED
  BY <1>2, <1>3 DEF UpdateInv, UpdatesPlaced

LEMMA FoldersKeepUpdateInv ==
    ASSUME BaseInv, FoldersNext, IngestStores PROVE UpdateInv'
<1>1. UNCHANGED <<last, ucall, busy, failed, mixed>>
  BY DEF IngestStores
<1>2. StoresTyped
  BY StoresTypedNow DEF BaseInv
<1>3. CASE StoresStay
  BY <1>1, <1>3 DEF StoresStay, BaseInv, UpdateInv, UpdatesTypeOK, UpdatesPlaced, FilesFit, Exists, Copy
<1>4. ASSUME NEW d \in Docs, NEW n \in Names \cup {None}, Renamed(d, n) PROVE UpdateInv'
  <2>1. PICK r \in Row : docs' = [docs EXCEPT ![d] = r] /\ r.files = docs[d].files
    BY <1>4 DEF Renamed
  <2>2. Len(r.files) <= MaxFiles
    BY <1>4, <2>1 DEF Renamed, BaseInv, UpdateInv, FilesFit
  <2>3. chunks' \in [Docs -> SUBSET SUBSET Parts] /\ blobs' \in [Docs -> [Versions -> {None} \cup Parts]]
    BY <1>2, <1>4 DEF StoresTyped, Renamed
  <2> QED
    BY <1>1, <2>1, <2>2, <2>3, RowPlaced DEF Snapshot, BaseInv
<1>5. ASSUME NEW d \in Docs, Erased(d) PROVE UpdateInv'
  BY <1>1, <1>2, <1>5, RowPlaced DEF Erased, Snapshot, StoresTyped, BaseInv
<1>6. ASSUME NEW d \in Docs, NEW n, Born(d, n) PROVE UpdateInv'
  <2>1. PICK r \in Row : /\ docs' = [docs EXCEPT ![d] = r]
                         /\ \/ r.files = <<>> /\ UNCHANGED blobs
                            \/ r.files = <<Base>> /\ blobs' = [blobs EXCEPT ![d][1] = Base]
    BY <1>6 DEF Born
  <2>2. Len(r.files) <= MaxFiles /\ 1 \in Versions
    <3>1. MaxFiles \in Nat /\ 1 <= MaxFiles
      BY UpdateAssumption
    <3>2. 1 \in Versions
      BY <3>1 DEF Versions
    <3>3. CASE r.files = <<>>
      <4>1. Len(r.files) = 0
        BY <3>3
      <4> QED
        BY <3>1, <3>2, <4>1
    <3>4. CASE r.files = <<Base>>
      <4>1. Len(r.files) = 1
        BY <3>4
      <4> QED
        BY <3>1, <3>2, <4>1
    <3> QED
      BY <2>1, <3>3, <3>4
  <2>3. chunks' \in [Docs -> SUBSET SUBSET Parts]
    <3>1. {{Base}} \in SUBSET SUBSET Parts
      BY DEF Parts
    <3> QED
      BY <1>2, <1>6, <3>1 DEF Born, StoresTyped
  <2>4. blobs' \in [Docs -> [Versions -> {None} \cup Parts]]
    <3>1. Base \in Parts
      BY DEF Parts
    <3>2. CASE blobs' = [blobs EXCEPT ![d][1] = Base]
      BY <2>2, <3>1, <3>2, PutTyped DEF BaseInv
    <3> QED
      BY <1>2, <2>1, <3>2 DEF StoresTyped
  <2> QED
    BY <1>1, <2>1, <2>2, <2>3, <2>4, RowPlaced DEF Snapshot, BaseInv
<1>7. \A c \in FCalls : IngestRow(c) => fcall[c].doc \in Docs
  BY DEF IngestRow, InStep, Ingests, BaseInv, CallsPlaced, Placed
<1> QED
  BY <1>3, <1>4, <1>5, <1>6, <1>7, FolderEffects

\* Each call stays as it is, goes on or is ended by a crash.
Ended(j, k) ==
    /\ j.pc \in Steps /\ k.pc = "crashed"
    /\ k.op = j.op /\ k.name = j.name /\ k.doc = j.doc /\ k.f = j.f /\ k.seen = j.seen

Evolves(c) == fcall'[c] = fcall[c] \/ Ended(fcall[c], fcall'[c]) \/ Onward(fcall[c], fcall'[c])

LEMMA CallsEvolve ==
    ASSUME FoldersTypeOK, CallsPlaced, FoldersNext
    PROVE  \A c \in FCalls : Evolves(c)
<1>1. CASE FoldersCrash
  <2>1. ASSUME NEW c \in FCalls, fcall[c].pc \notin Steps PROVE fcall'[c] = fcall[c]
    BY <1>1, <2>1 DEF FoldersCrash
  <2> QED
    BY <1>1, <2>1, CrashTypes DEF Evolves, Ended
<1>2. ASSUME NEW c \in FCalls, CallStep(c) PROVE \A b \in FCalls : Evolves(b)
  <2>1. PICK k : Turns(c, k)
    BY <1>2, CallTurns
  <2> QED
    BY <2>1, CallAfter DEF Evolves, Turns
<1>3. ASSUME NEW c \in FCalls, NEW d \in Docs, TaskRead(c, d) \/ TaskWrite(c, d) \/ TaskPurge(c, d)
      PROVE  \A b \in FCalls : Evolves(b)
  BY <1>3, TaskTypes DEF Evolves
<1> QED
  BY <1>1, <1>2, <1>3 DEF FoldersNext, FoldersStep, CallStep

\* New ids are those of a document to ingest and of a folder made.
LEMMA IdsGivenOut ==
    ASSUME FoldersTypeOK, CallsPlaced, FoldersNext
    PROVE  \/ \E c \in FCalls : StartIngest(c)
           \/ /\ used \subseteq used'
              /\ \A c \in FCalls : fcall[c].pc = "new" => ~Ingesting(c)'
<1>1. ASSUME NEW c \in FCalls, CallStep(c), ~StartIngest(c)
      PROVE  /\ used \subseteq used'
             /\ \A b \in FCalls : fcall[b].pc = "new" => ~Ingesting(b)'
  <2>1. PICK k : Turns(c, k)
    BY <1>1, CallTurns
  <2>2. fcall'[c] = k /\ \A b \in FCalls \ {c} : fcall'[b] = fcall[b]
    BY <2>1, CallAfter
  <2>3. used \subseteq used'
    <3>1. CASE StartCreate(c) \/ StartDelete(c) \/ StartMove(c)
      BY <3>1 DEF StartCreate, StartDelete, StartMove
    <3>2. CASE CheckName(c) \/ LookupFolder(c)
      BY <3>2 DEF CheckName, LookupFolder
    <3>3. CASE InsertFolder(c)
      BY <3>3 DEF InsertFolder
    <3>4. CASE ReadFolder(c) \/ ReadDocument(c) \/ WriteList(c)
      BY <3>4 DEF ReadFolder, ReadDocument, WriteList, NotAdded, Fail
    <3>5. CASE Emptied(c) \/ Purged(c) \/ DropFolder(c) \/ IngestRow(c)
      BY <3>5 DEF Emptied, Purged, DropFolder, IngestRow
    <3> QED
      BY <1>1, <3>1, <3>2, <3>3, <3>4, <3>5 DEF CallStep
  <2>4. CASE fcall[c].pc # "new"
    BY <2>2, <2>3, <2>4 DEF Ingesting
  <2>5. CASE fcall[c].pc = "new"
    <3>1. StartCreate(c) \/ StartDelete(c) \/ StartMove(c)
      BY <1>1, <2>5 DEF CallStep, CheckName, InsertFolder, LookupFolder, ReadFolder, ReadDocument,
                        WriteList, Emptied, Purged, DropFolder, IngestRow, InStep
    <3>2. k.op \in {"create", "delete", "add", "remove"}
      <4>1. fcall \in [FCalls -> Call]
        BY DEF FoldersTypeOK
      <4>2. CASE StartCreate(c)
        BY <2>2, <4>1, <4>2 DEF StartCreate, Start, NewCall
      <4>3. CASE StartDelete(c)
        BY <2>2, <4>1, <4>3 DEF StartDelete, Start, NewCall
      <4>4. CASE StartMove(c)
        BY <2>2, <4>1, <4>4 DEF StartMove, Start, NewCall
      <4> QED
        BY <3>1, <4>2, <4>3, <4>4
    <3> QED
      BY <2>2, <2>3, <3>2 DEF Ingesting, Ingests
  <2> QED
    BY <2>4, <2>5
<1>2. ASSUME NEW c \in FCalls, NEW d \in Docs, TaskRead(c, d) \/ TaskWrite(c, d) \/ TaskPurge(c, d)
      PROVE  used' = used /\ UNCHANGED fcall
  BY <1>2 DEF TaskRead, TaskWrite, TaskPurge
<1>3. CASE FoldersCrash
  BY <1>3, CrashTypes DEF FoldersCrash, Ingesting, Steps
<1> QED
  BY <1>1, <1>2, <1>3 DEF FoldersNext, FoldersStep, CallStep, Ingesting

\* A call that ingests takes a document of its own.
LEMMA IngestTakes ==
    ASSUME FoldersTypeOK, NEW c \in FCalls, StartIngest(c)
    PROVE  /\ fcall[c].pc = "new" /\ Ingesting(c)' /\ fcall'[c].seen = {} /\ fcall'[c].f = None
           /\ fcall'[c].pc = IF fcall'[c].op = "text" THEN "lookup" ELSE "row"
           /\ fcall'[c].doc \in Docs \ used /\ used' = used \cup {fcall'[c].doc}
           /\ \A b \in FCalls \ {c} : fcall'[b] = fcall[b]
           /\ UNCHANGED <<folders, docs, sub, subSeen, want, raced, apart, crossed>>
<1>1. fcall \in [FCalls -> Call]
  BY DEF FoldersTypeOK
<1>2. PICK n \in Names, d \in Docs \ used :
         /\ used' = used \cup {d}
         /\ \/ Start(c, [NewCall("text") EXCEPT !.name = n, !.doc = d, !.pc = "lookup"])
            \/ Start(c, [NewCall("file") EXCEPT !.name = n, !.doc = d, !.pc = "row"])
  BY DEF StartIngest
<1>3. PICK k : /\ Start(c, k)
               /\ \/ k = [NewCall("text") EXCEPT !.name = n, !.doc = d, !.pc = "lookup"]
                  \/ k = [NewCall("file") EXCEPT !.name = n, !.doc = d, !.pc = "row"]
  BY <1>2
<1>4. /\ \/ k.op = "text" /\ k.pc = "lookup"
         \/ k.op = "file" /\ k.pc = "row"
      /\ k.doc = d /\ k.seen = {} /\ k.f = None
  BY <1>3 DEF NewCall
<1>5. fcall'[c] = k /\ \A b \in FCalls \ {c} : fcall'[b] = fcall[b]
  BY <1>1, <1>3 DEF Start
<1> QED
  BY <1>2, <1>3, <1>4, <1>5 DEF Start, Ingesting, Ingests, StartIngest

\* Calls that ingest come only from StartIngest, and stay with their document.
LEMMA IngestGoesOn ==
    ASSUME FoldersTypeOK, CallsPlaced, FoldersNext, NEW c \in FCalls, Ingesting(c)'
    PROVE  \/ /\ Ingesting(c) /\ fcall'[c].doc = fcall[c].doc
              /\ fcall'[c].op = fcall[c].op /\ fcall'[c].name = fcall[c].name
              /\ PreRow(c)' => PreRow(c)
           \/ StartIngest(c)
<1>1. Evolves(c)
  BY CallsEvolve
<1>2. CASE fcall[c].pc # "new"
  <2>1. CASE fcall'[c] = fcall[c]
    BY <2>1 DEF Ingesting, PreRow
  <2>2. CASE Ended(fcall[c], fcall'[c])
    BY <1>2, <2>2 DEF Ingesting, PreRow, Ended, Steps
  <2>3. CASE Onward(fcall[c], fcall'[c])
    BY <1>2, <2>3 DEF Ingesting, PreRow, Onward, Steps
  <2> QED
    BY <1>1, <2>1, <2>2, <2>3 DEF Evolves
<1>3. CASE fcall[c].pc = "new"
  <2>1. PICK b \in FCalls : StartIngest(b)
    BY <1>3, IdsGivenOut
  <2>2. fcall'[c] # fcall[c]
    BY <1>3 DEF Ingesting
  <2> QED
    BY <2>1, <2>2, IngestTakes
<1> QED
  BY <1>2, <1>3

LEMMA UnbornBefore ==
    ASSUME FoldersTypeOK, CallsPlaced, FoldersNext, NEW d \in Docs, Unborn(d)'
    PROVE  Unborn(d)
<1>1. used \subseteq used'
  BY IdsGivenOut, IngestTakes
<1>2. ASSUME NEW c \in FCalls, PreRow(c)', fcall'[c].doc = d PROVE Unborn(d)
  <2>1. Ingesting(c)'
    BY <1>2 DEF PreRow, Ingesting, Ingests, Steps
  <2>2. CASE PreRow(c) /\ fcall'[c].doc = fcall[c].doc
    BY <1>2, <2>2 DEF Unborn, Pending
  <2>3. CASE StartIngest(c)
    BY <1>2, <2>3, IngestTakes DEF Unborn
  <2> QED
    BY <1>2, <2>1, <2>2, <2>3, IngestGoesOn
<1> QED
  BY <1>1, <1>2 DEF Unborn, Pending

\* The folders that are there, and those that calls work on, have been given out.
FolderIdsFresh ==
    /\ \A f \in FolderIds : folders[f] # None => f \in used
    /\ \A c \in FCalls : fcall[c].f # None => fcall[c].f \in used

LEMMA FolderIdsStayFresh ==
    ASSUME FoldersTypeOK, CallsPlaced, FolderIdsFresh, FoldersNext
    PROVE  FolderIdsFresh'
<1>1. used \subseteq used'
  BY IdsGivenOut, IngestTakes
<1>2. folders \in [FolderIds -> {None} \cup Folder] /\ fcall \in [FCalls -> Call]
  BY DEF FoldersTypeOK
<1>3. ASSUME UNCHANGED <<folders, fcall>> PROVE FolderIdsFresh'
  BY <1>1, <1>3 DEF FolderIdsFresh
<1>4. ASSUME NEW c \in FCalls,
             fcall'[c].f # fcall[c].f => fcall'[c].f \in {None} \cup used,
             \A b \in FCalls \ {c} : fcall'[b] = fcall[b]
      PROVE  \A b \in FCalls : fcall'[b].f # None => fcall'[b].f \in used'
  BY <1>1, <1>4 DEF FolderIdsFresh
<1>5. ASSUME NEW c \in FCalls, CallStep(c)
      PROVE  \A b \in FCalls : fcall'[b].f # None => fcall'[b].f \in used'
  <2>1. PICK k : Turns(c, k)
    BY <1>5, CallTurns
  <2>2. fcall'[c] = k /\ \A b \in FCalls \ {c} : fcall'[b] = fcall[b]
    BY <2>1, CallAfter
  <2>3. CASE LookupFolder(c)
    <3>1. ASSUME NEW f \in Named(fcall[c].name), k.f = f PROVE f \in used
      BY <3>1 DEF Named, FolderIdsFresh
    <3>2. k.f = fcall[c].f \/ \E f \in Named(fcall[c].name) : k.f = f
      <4>1. fcall[c] \in Call
        BY <1>2
      <4>2. ASSUME NEW pc, ToStep(c, pc) PROVE k.f = fcall[c].f
        BY <1>2, <2>2, <4>1, <4>2 DEF ToStep, Call
      <4>3. ASSUME NEW f \in FolderIds,
                   \/ fcall' = [fcall EXCEPT ![c].f = f, ![c].seen = folders[f].docs, ![c].pc = "empty"]
                   \/ fcall' = [fcall EXCEPT ![c].f = f, ![c].pc = "read"]
            PROVE  k.f = f
        BY <1>2, <2>2, <4>1, <4>3 DEF Call
      <4> QED
        BY <2>3, <4>2, <4>3 DEF LookupFolder, Named
    <3> QED
      BY <1>4, <2>2, <3>1, <3>2
  <2>4. CASE StartMove(c)
    <3>1. PICK f \in used \cap FolderIds, d \in used \cap Docs, op \in {"add", "remove"} :
             Start(c, [NewCall(op) EXCEPT !.doc = d, !.f = f, !.pc = "read"])
      BY <2>4 DEF StartMove
    <3>2. k.f = f
      BY <1>2, <2>2, <3>1 DEF Start, NewCall
    <3> QED
      BY <1>4, <2>2, <3>1, <3>2
  <2>5. CASE ~LookupFolder(c) /\ ~StartMove(c)
    <3>1. CASE fcall[c].pc = "new"
      <4>1. StartCreate(c) \/ StartDelete(c) \/ StartIngest(c)
        BY <1>5, <2>5, <3>1 DEF CallStep, CheckName, InsertFolder, LookupFolder, ReadFolder,
                  ReadDocument, WriteList, Emptied, Purged, DropFolder, IngestRow, InStep
      <4>2. CASE StartCreate(c) \/ StartDelete(c)
        <5>1. \E n \in Names : \/ Start(c, [NewCall("create") EXCEPT !.name = n, !.pc = "check"])
                               \/ Start(c, [NewCall("delete") EXCEPT !.name = n, !.pc = "lookup"])
          BY <4>2 DEF StartCreate, StartDelete
        <5>2. k.f = None
          BY <1>2, <2>2, <5>1 DEF Start, NewCall
        <5> QED
          BY <1>4, <2>2, <5>2
      <4>3. CASE StartIngest(c)
        BY <1>4, <2>2, <4>3, IngestTakes
      <4> QED
        BY <4>1, <4>2, <4>3
    <3>2. CASE fcall[c].pc # "new"
      <4>1. fcall[c].pc # "lookup"
        <5>1. CASE fcall[c].pc = "lookup"
          BY <1>5, <2>5, <3>2, <5>1 DEF CallStep, StartCreate, StartDelete, StartIngest, Start,
                CheckName, InsertFolder, ReadFolder, ReadDocument, WriteList, Emptied, Purged,
                DropFolder, IngestRow, InStep
        <5> QED
          BY <5>1
      <4>2. k.f = fcall[c].f
        BY <2>1, <3>2, <4>1 DEF Turns, Onward
      <4> QED
        BY <1>4, <2>2, <4>2
    <3> QED
      BY <3>1, <3>2
  <2> QED
    BY <2>3, <2>4, <2>5
<1>6. ASSUME NEW c \in FCalls, CallStep(c), NEW f \in FolderIds, folders'[f] # None PROVE f \in used'
  <2>1. CASE InsertFolder(c)
    <3>1. UNCHANGED <<folders, used>> \/ \E g \in FolderIds : /\ used' = used \cup {g}
                                                 /\ \A h \in FolderIds \ {g} : folders'[h] = folders[h]
      BY <1>2, <2>1 DEF InsertFolder
    <3> QED
      BY <1>6, <3>1 DEF FolderIdsFresh
  <2>2. CASE WriteList(c) \/ DropFolder(c)
    <3>1. folders[f] # None
      <4>1. CASE UNCHANGED folders
        BY <1>6, <4>1
      <4>2. CASE \E L : folders' = [folders EXCEPT ![fcall[c].f].docs = L] /\ folders[fcall[c].f] # None
        BY <1>2, <1>6, <4>2
      <4>3. CASE folders' = [folders EXCEPT ![fcall[c].f] = None] /\ folders[fcall[c].f] # None
        BY <1>2, <1>6, <4>3
      <4> QED
        BY <2>2, <4>1, <4>2, <4>3 DEF WriteList, DropFolder, NotAdded, Fail
    <3> QED
      BY <1>1, <3>1 DEF FolderIdsFresh
  <2>3. CASE ~InsertFolder(c) /\ ~WriteList(c) /\ ~DropFolder(c)
    <3>1. UNCHANGED folders
      <4>1. CASE StartCreate(c) \/ StartDelete(c) \/ StartIngest(c) \/ StartMove(c)
        BY <4>1 DEF StartCreate, StartDelete, StartIngest, StartMove, Start
      <4>2. CASE CheckName(c) \/ LookupFolder(c) \/ Emptied(c) \/ Purged(c) \/ IngestRow(c)
        BY <4>2 DEF CheckName, LookupFolder, Emptied, Purged, IngestRow
      <4>3. CASE ReadFolder(c) \/ ReadDocument(c)
        BY <4>3 DEF ReadFolder, ReadDocument, NotAdded, Fail
      <4> QED
        BY <1>6, <2>3, <4>1, <4>2, <4>3 DEF CallStep
    <3> QED
      BY <1>1, <1>6, <3>1 DEF FolderIdsFresh
  <2> QED
    BY <2>1, <2>2, <2>3
<1>7. ASSUME NEW c \in FCalls, NEW d \in Docs, TaskRead(c, d) \/ TaskWrite(c, d) \/ TaskPurge(c, d)
      PROVE  FolderIdsFresh'
  <2>1. UNCHANGED <<fcall, used>>
    BY <1>7 DEF TaskRead, TaskWrite, TaskPurge
  <2>2. ASSUME NEW f \in FolderIds, folders'[f] # None PROVE folders[f] # None
    <3>1. CASE UNCHANGED folders
      BY <2>2, <3>1
    <3>2. CASE \E L : folders' = [folders EXCEPT ![fcall[c].f].docs = L] /\ folders[fcall[c].f] # None
      BY <1>2, <2>2, <3>2
    <3> QED
      BY <1>7, <3>1, <3>2 DEF TaskRead, TaskWrite, TaskPurge
  <2> QED
    BY <2>1, <2>2 DEF FolderIdsFresh
<1>8. CASE FoldersCrash
  <2>1. UNCHANGED <<folders, used>> /\ \A c \in FCalls : fcall'[c].f = fcall[c].f
    BY <1>8, CrashTypes DEF FoldersCrash
  <2> QED
    BY <2>1 DEF FolderIdsFresh
<1> QED
  BY <1>5, <1>6, <1>7, <1>8 DEF FolderIdsFresh, FoldersNext, FoldersStep, CallStep

\* A row that comes into being is no more to come.
LEMMA BirthIsLast ==
    ASSUME BaseInv, FoldersNext, IngestStores, NEW d \in Docs, Exists(d)'
    PROVE  Exists(d) \/ ~Unborn(d)'
<1>1. docs \in [Docs -> Snapshot] /\ fcall \in [FCalls -> Call]
  BY DEF BaseInv, UpdateInv, UpdatesTypeOK, FoldersTypeOK
<1>2. CASE StoresStay
  BY <1>2 DEF StoresStay, Exists
<1>3. CASE \E e \in Docs, n \in Names \cup {None} : Renamed(e, n)
  BY <1>1, <1>3 DEF Renamed, Exists
<1>4. CASE \E e \in Docs : Erased(e)
  BY <1>1, <1>4 DEF Erased, Exists
<1>5. ASSUME NEW c \in FCalls, IngestRow(c), Born(fcall[c].doc, fcall[c].name), ~Exists(d)
      PROVE  ~Unborn(d)'
  <2>1. d = fcall[c].doc
    BY <1>1, <1>5 DEF Born, Exists
  <2>2. fcall[c].op \in {"text", "file"} /\ Ingesting(c)
    BY <1>5 DEF IngestRow, InStep, Ingests, Ingesting
  <2>3. ToStep(c, IF fcall[c].op = "text" THEN "ok" ELSE "lookup") /\ used' = used
    <3>1. docs' # docs
      BY <1>1, <1>5, <2>1 DEF Exists
    <3> QED
      BY <1>5, <3>1 DEF IngestRow
  <2>4. /\ fcall'[c].op = fcall[c].op
        /\ fcall'[c].pc = IF fcall[c].op = "text" THEN "ok" ELSE "lookup"
        /\ \A b \in FCalls \ {c} : fcall'[b] = fcall[b]
    BY <1>1, <2>3 DEF ToStep, Call
  <2>5. ~PreRow(c)'
    BY <2>2, <2>4 DEF PreRow, Steps
  <2>6. ASSUME NEW b \in FCalls \ {c}, PreRow(b)', fcall'[b].doc = d PROVE FALSE
    <3>1. PreRow(b) /\ fcall[b].doc = d
      BY <2>4, <2>6 DEF PreRow
    <3>2. Ingesting(b)
      BY <3>1 DEF PreRow, Ingesting, Ingests, Steps
    <3> QED
      BY <2>1, <2>2, <2>6, <3>1, <3>2 DEF BaseInv, IdsAreFresh
  <2>7. d \in used
    BY <2>1, <2>2 DEF BaseInv, IdsAreFresh
  <2> QED
    BY <2>3, <2>5, <2>6, <2>7 DEF Unborn, Pending
<1> QED
  BY <1>2, <1>3, <1>4, <1>5, FolderEffects

LEMMA FoldersKeepIdsFresh ==
    ASSUME BaseInv, FoldersNext, IngestStores PROVE IdsAreFresh'
<1>1. FolderIdsFresh'
  BY FolderIdsStayFresh DEF BaseInv, IdsAreFresh, FolderIdsFresh
<1>2. ASSUME NEW c \in FCalls, Ingesting(c)' PROVE fcall'[c].doc \in used'
  <2>1. used \subseteq used'
    BY IdsGivenOut, IngestTakes DEF BaseInv
  <2>2. CASE Ingesting(c) /\ fcall'[c].doc = fcall[c].doc
    BY <2>1, <2>2 DEF BaseInv, IdsAreFresh
  <2>3. CASE StartIngest(c)
    BY <2>3, IngestTakes DEF BaseInv
  <2> QED
    BY <1>2, <2>2, <2>3, IngestGoesOn DEF BaseInv
<1>3. ASSUME NEW b \in FCalls, NEW c \in FCalls, Ingesting(b)', Ingesting(c)',
             fcall'[b].doc = fcall'[c].doc
      PROVE  b = c
  <2>1. ASSUME NEW i \in FCalls, NEW j \in FCalls, StartIngest(i), Ingesting(j)', i # j,
               fcall'[i].doc = fcall'[j].doc
        PROVE  FALSE
    <3>1. fcall'[i].doc \notin used /\ fcall'[j] = fcall[j]
      BY <2>1, IngestTakes DEF BaseInv
    <3> QED
      BY <2>1, <3>1 DEF BaseInv, IdsAreFresh, Ingesting
  <2>2. CASE StartIngest(b) \/ StartIngest(c)
    BY <1>3, <2>1, <2>2
  <2>3. CASE ~StartIngest(b) /\ ~StartIngest(c)
    <3>1. /\ Ingesting(b) /\ fcall'[b].doc = fcall[b].doc
          /\ Ingesting(c) /\ fcall'[c].doc = fcall[c].doc
      BY <1>3, <2>3, IngestGoesOn DEF BaseInv
    <3> QED
      BY <1>3, <3>1 DEF BaseInv, IdsAreFresh
  <2> QED
    BY <2>2, <2>3
<1>4. ASSUME NEW d \in Docs, Unborn(d)' PROVE ~Exists(d)'
  <2>1. Unborn(d)
    BY <1>4, UnbornBefore DEF BaseInv
  <2> QED
    BY <1>4, <2>1, BirthIsLast DEF BaseInv, IdsAreFresh
<1> QED
  BY <1>1, <1>2, <1>3, <1>4 DEF IdsAreFresh, FolderIdsFresh

-----------------------------------------------------------------------------
(* What each step of an update does, to the call's record and the stores.  *)

Began(u, k) ==
    /\ ucall[u].pc = "new" /\ k.doc \in Docs /\ k.copy = docs[k.doc]
    /\ k.pc = IF ~Exists(k.doc) THEN "error" ELSE IF k.op = "rules" THEN "apply" ELSE "access"
    /\ busy' = IF \E w \in UCalls \ {u} : Working(w, k.doc) THEN busy \cup {k.doc} ELSE busy
    /\ UNCHANGED <<docs, chunks, blobs, last, failed, mixed>>

Passed(u, k) ==
    /\ ucall[u].pc = "access" /\ k.pc = FirstStep[ucall[u].op] /\ k.copy = Copy(u)
    /\ Exists(Doc(u))
    /\ UNCHANGED <<docs, chunks, blobs, last, busy, failed, mixed>>

\* Nothing has been done yet.
GaveUp(u, k) ==
    /\ k.pc = "error" /\ k.copy = Copy(u)
    /\ \/ ucall[u].pc = "access" /\ ~Exists(Doc(u))
       \/ ucall[u].op = "rules" /\ ucall[u].pc \in {"apply", "write"}
       \/ ucall[u].op = "delete" /\ ucall[u].pc = "remove"
    /\ UNCHANGED <<docs, chunks, blobs, last, busy, failed, mixed>>

Broke(u, k) ==
    /\ k.pc = "error" /\ k.copy = Copy(u) /\ ucall[u].pc \in UpdateSteps
    /\ failed' = failed \cup {Doc(u)}
    /\ UNCHANGED chunks \/ (ucall[u].pc = "store" /\ Insert(Doc(u), Copy(u).text))
    /\ UNCHANGED <<docs, blobs, last, busy, mixed>>

Uploaded(u, k) ==
    /\ \/ ucall[u].pc = "upload1" /\ k.pc = "upload2"
       \/ ucall[u].pc = "upload2" /\ k.pc = "split"
    /\ NextVersion(u) \in Versions
    /\ blobs' = [blobs EXCEPT ![Doc(u)][NextVersion(u)] = u]
    /\ k.copy.files = Append(Copy(u).files, u)
    /\ k.copy.text = Copy(u).text /\ k.copy.chunked = Copy(u).chunked
    /\ k.copy.version = Copy(u).version /\ k.copy.tags = Copy(u).tags
    /\ UNCHANGED <<docs, chunks, last, busy, failed, mixed>>

Cut(u, k) ==
    /\ ucall[u].pc = "split" /\ k.pc = "merge"
    /\ k.copy.text # {} /\ k.copy.version = Copy(u).version + 1
    /\ k.copy.files = Copy(u).files /\ k.copy.chunked = Copy(u).chunked
    /\ k.copy.tags = Copy(u).tags
    /\ last' \in {u, None} /\ mixed' = (mixed \/ \E w \in UCalls \ {u} : UStep(w, "merge"))
    /\ UNCHANGED <<docs, chunks, blobs, busy, failed>>

Merged(u, k) ==
    /\ ucall[u].pc = "merge" /\ k.pc = "store"
    /\ k.copy.tags = Copy(u).tags \cup ({last} \ {None}) /\ last' = None
    /\ k.copy.text = Copy(u).text /\ k.copy.version = Copy(u).version
    /\ k.copy.files = Copy(u).files /\ k.copy.chunked = Copy(u).chunked
    /\ UNCHANGED <<docs, chunks, blobs, busy, failed, mixed>>

Filled(u, k) ==
    /\ ucall[u].pc = "store" /\ k.pc = "existing" /\ k.copy.chunked = Copy(u).text
    /\ Insert(Doc(u), Copy(u).text)
    /\ k.copy.text = Copy(u).text /\ k.copy.version = Copy(u).version
    /\ k.copy.files = Copy(u).files /\ k.copy.tags = Copy(u).tags
    /\ UNCHANGED <<docs, blobs, last, busy, failed, mixed>>

Applied(u, k) ==
    /\ ucall[u].pc = "apply" /\ k.pc = "existing" /\ k.copy.tags = Copy(u).tags \cup {u}
    /\ k.copy.text = Copy(u).text /\ k.copy.version = Copy(u).version
    /\ k.copy.files = Copy(u).files /\ k.copy.chunked = Copy(u).chunked
    /\ UNCHANGED <<docs, chunks, blobs, last, busy, failed, mixed>>

ReadAgain(u, k) ==
    /\ ucall[u].pc = "existing" /\ k.pc = "write" /\ k.copy = Copy(u)
    /\ k.current = docs[Doc(u)] /\ Exists(Doc(u))
    /\ UNCHANGED <<docs, chunks, blobs, last, busy, failed, mixed>>

Wrote(u, k) ==
    /\ ucall[u].pc = "write" /\ k.pc = "ok" /\ k.copy = Copy(u)
    /\ Exists(Doc(u)) /\ ucall[u].op \in Updates
    /\ \E r \in Row :
          /\ docs' = [docs EXCEPT ![Doc(u)] = r]
          /\ r.version = Copy(u).version + (IF ucall[u].op = "meta" THEN 1 ELSE 0)
          /\ r.chunked = IF ucall[u].op = "meta" THEN docs[Doc(u)].chunked ELSE Copy(u).chunked
          /\ r.text = Copy(u).text /\ r.files = Copy(u).files /\ r.tags = Copy(u).tags
    /\ UNCHANGED <<chunks, blobs, last, busy, failed, mixed>>

WroteRules(u, k) ==
    /\ ucall[u].pc = "write" /\ k.pc = "ok" /\ k.copy = Copy(u)
    /\ Exists(Doc(u)) /\ ucall[u].op = "rules"
    /\ \E r \in Row :
          /\ docs' = [docs EXCEPT ![Doc(u)] = r]
          /\ r.version = ucall[u].current.version /\ r.chunked = docs[Doc(u)].chunked
          /\ r.text = Copy(u).text /\ r.files = docs[Doc(u)].files /\ r.tags = Copy(u).tags
    /\ UNCHANGED <<chunks, blobs, last, busy, failed, mixed>>

Removed(u, k) ==
    /\ ucall[u].pc = "remove" /\ ucall[u].op = "delete" /\ k.pc = "clean" /\ k.copy = Copy(u)
    /\ k.todo = CleanUp(u)
    /\ Exists(Doc(u)) /\ docs' = [docs EXCEPT ![Doc(u)] = None]
    /\ UNCHANGED <<chunks, blobs, last, busy, failed, mixed>>

Cleaned(u, k) ==
    /\ ucall[u].pc = "clean" /\ k.pc = "clean" /\ k.copy = Copy(u)
    /\ \E i \in {0} \cup Versions :
          /\ i \in ucall[u].todo /\ k.todo = ucall[u].todo \ {i}
          /\ \/ i = 0 /\ chunks' = [chunks EXCEPT ![Doc(u)] = {}] /\ UNCHANGED <<blobs, failed>>
             \/ /\ i # 0 /\ blobs' = [blobs EXCEPT ![Doc(u)][i] = None]
                /\ UNCHANGED <<chunks, failed>>
             \/ failed' = failed \cup {Doc(u)} /\ UNCHANGED <<chunks, blobs>>
    /\ UNCHANGED <<docs, last, busy, mixed>>

Finished(u, k) ==
    /\ ucall[u].pc = "clean" /\ k.pc = "ok" /\ k.copy = Copy(u) /\ ucall[u].todo = {}
    /\ UNCHANGED <<docs, chunks, blobs, last, busy, failed, mixed>>

Advanced(u, k) ==
    /\ Goes(u, k) /\ ucall[u].pc \in UpdateSteps /\ Doc(u) \in Docs /\ k.copy \in Row
    /\ \/ Passed(u, k) \/ GaveUp(u, k) \/ Broke(u, k) \/ Uploaded(u, k)
       \/ Cut(u, k) \/ Merged(u, k) \/ Filled(u, k) \/ Applied(u, k)
       \/ ReadAgain(u, k) \/ Wrote(u, k) \/ WroteRules(u, k)
       \/ Removed(u, k) \/ Cleaned(u, k) \/ Finished(u, k)

\* A call that fails ends in error, and so it does not go on as well.
LEMMA FailedPc ==
    ASSUME UpdatesTypeOK, NEW u \in UCalls, UGoto(u, "error") PROVE ucall'[u].pc = "error"
BY UGotoGoes, UpdateAfter DEF Goes, UpdatePcs

LEMMA StepAdvances ==
    ASSUME UpdateInv, NEW u \in UCalls, UpdatesStep(u)
    PROVE  (\E k : Becomes(u, k) /\ Began(u, k)) \/ (\E k : Advanced(u, k))
<1>1. UpdatesTypeOK /\ UpdatesPlaced
  BY DEF UpdateInv
<1>2. CASE Read(u)
  <2>1. PICK k \in UpdateCall, d \in Docs :
           /\ Becomes(u, k)
           /\ k.doc = d /\ k.copy = docs[d]
           /\ k.pc = IF ~Exists(d) THEN "error" ELSE IF k.op = "rules" THEN "apply" ELSE "access"
           /\ busy' = IF \E w \in UCalls \ {u} : Working(w, d) THEN busy \cup {d} ELSE busy
    BY <1>1, <1>2, ReadGoes
  <2> QED
    BY <1>2, <2>1 DEF Read, Began, UnchangedStores, UStep
<1>3. CASE ~Read(u)
  <2>1. ucall[u].pc \in UpdateSteps
    BY <1>3 DEF UpdatesStep, CheckAccess, Upload, Split, Merge, Store, Write, Apply, ReadExisting,
                WriteRules, RemoveRow, Deleted, Clean, UStep, UpdateSteps
  <2>2. /\ ucall[u] \in UpdateCall /\ Copy(u) \in Row /\ Doc(u) \in Docs
        /\ ucall[u].pc \in UpdateWay[ucall[u].op]
    BY <1>1, <2>1, AtWork
  <2>3. ucall[u].op \in {"text", "file", "meta", "rules", "delete"}
    BY <2>2 DEF UpdateCall, UpdateOps, Updates
  <2>4. ASSUME UFail(u), UNCHANGED chunks \/ (ucall[u].pc = "store" /\ Insert(Doc(u), Copy(u).text)),
               UNCHANGED <<docs, blobs, last, busy, mixed>>
        PROVE  \E k : Advanced(u, k)
    BY <1>1, <2>1, <2>2, <2>4, UFailGoes DEF Advanced, Broke
  <2>5. CASE CheckAccess(u)
    <3>1. FirstStep[ucall[u].op] \in UpdatePcs \/ ucall[u].op = "rules"
      BY <2>3 DEF FirstStep, UpdatePcs, UpdateSteps
    <3>2. ucall[u].op # "rules"
      BY <2>2, <2>5 DEF CheckAccess, UStep, UpdateWay
    <3>3. CASE Exists(Doc(u))
      <4>1. UGoto(u, FirstStep[ucall[u].op])
        BY <2>5, <3>3 DEF CheckAccess
      <4>2. PICK k : Goes(u, k) /\ k.pc = FirstStep[ucall[u].op] /\ k.copy = Copy(u)
        BY <1>1, <3>1, <3>2, <4>1, UGotoGoes
      <4> QED
        BY <2>1, <2>2, <2>5, <3>3, <4>2
           DEF Advanced, Passed, CheckAccess, UStep, UnchangedStores, UnchangedNotes
    <3>4. CASE ~Exists(Doc(u))
      <4>1. UGoto(u, "error") /\ "error" \in UpdatePcs
        BY <2>5, <3>4 DEF CheckAccess, UpdatePcs
      <4>2. PICK k : Goes(u, k) /\ k.pc = "error" /\ k.copy = Copy(u)
        BY <1>1, <4>1, UGotoGoes
      <4> QED
        BY <2>1, <2>2, <2>5, <3>4, <4>2
           DEF Advanced, GaveUp, CheckAccess, UStep, UnchangedStores, UnchangedNotes
    <3> QED
      BY <3>3, <3>4
  <2>6. CASE Upload(u)
    <3>1. CASE UFail(u)
      <4>1. ucall'[u].pc = "error"
        BY <1>1, <3>1, FailedPc DEF UFail
      <4>2. UNCHANGED <<docs, chunks, last, busy, mixed>>
        BY <2>6 DEF Upload, UnchangedNotes
      <4>3. CASE UNCHANGED blobs
        BY <2>4, <3>1, <4>2, <4>3
      <4>4. CASE ucall' = [ucall EXCEPT ![u].copy.files = Append(@, u), ![u].pc =
                              IF UStep(u, "upload1") THEN "upload2" ELSE "split"]
        <5>1. ucall'[u].pc \in {"upload2", "split"}
          BY <1>1, <4>4 DEF UpdatesTypeOK, UpdateCall
        <5> QED
          BY <4>1, <5>1
      <4> QED
        BY <2>6, <4>3, <4>4 DEF Upload
    <3>2. CASE ~UFail(u)
      <4>1. PICK k : /\ Goes(u, k) /\ k.copy \in Row
                     /\ \/ ucall[u].pc = "upload1" /\ k.pc = "upload2"
                        \/ ucall[u].pc = "upload2" /\ k.pc = "split"
                     /\ k.copy.files = Append(Copy(u).files, u)
                     /\ k.copy.text = Copy(u).text /\ k.copy.chunked = Copy(u).chunked
                     /\ k.copy.version = Copy(u).version /\ k.copy.tags = Copy(u).tags
        BY <1>1, <2>6, <3>2, UploadGoes
      <4>2. Uploaded(u, k)
        BY <2>6, <3>2, <4>1 DEF Upload, Uploaded, UnchangedNotes
      <4> QED
        BY <2>1, <2>2, <4>1, <4>2 DEF Advanced
    <3> QED
      BY <3>1, <3>2
  <2>7. CASE Split(u)
    <3>1. UNCHANGED <<docs, chunks, blobs, busy>>
      BY <2>7 DEF Split, UnchangedStores
    <3>2. CASE UFail(u)
      <4>1. ucall'[u].pc = "error"
        BY <1>1, <3>2, FailedPc DEF UFail
      <4>2. ASSUME NEW text,
                   ucall' = [ucall EXCEPT ![u].copy.text = text,
                                          ![u].copy.version = @ + 1, ![u].pc = "merge"]
            PROVE  FALSE
        <5>1. ucall'[u].pc = "merge"
          BY <1>1, <4>2 DEF UpdatesTypeOK, UpdateCall
        <5> QED
          BY <4>1, <5>1
      <4>3. UNCHANGED <<last, mixed>>
        BY <2>7, <4>2 DEF Split
      <4> QED
        BY <2>4, <3>1, <3>2, <4>3
    <3>3. CASE ~UFail(u)
      <4>1. PICK k : /\ Goes(u, k) /\ k.copy \in Row /\ k.pc = "merge"
                     /\ k.copy.text # {} /\ k.copy.version = Copy(u).version + 1
                     /\ k.copy.files = Copy(u).files /\ k.copy.chunked = Copy(u).chunked
                     /\ k.copy.tags = Copy(u).tags
        BY <1>1, <2>7, <3>3, SplitGoes
      <4>2. /\ last' \in {u, None} /\ UNCHANGED failed
            /\ mixed' = (mixed \/ \E w \in UCalls \ {u} : UStep(w, "merge"))
        BY <1>1, <2>7, <3>3, SplitGoes DEF HoldRules
      <4>3. ucall[u].pc = "split"
        BY <2>7 DEF Split, UStep
      <4>4. Cut(u, k)
        BY <3>1, <4>1, <4>2, <4>3 DEF Cut
      <4> QED
        BY <2>1, <2>2, <4>1, <4>4 DEF Advanced
    <3> QED
      BY <3>2, <3>3
  <2>8. CASE Merge(u)
    <3>1. UNCHANGED <<docs, chunks, blobs, busy, mixed>> /\ ucall[u].pc = "merge"
      BY <2>8 DEF Merge, UnchangedStores, UnchangedNotes, UStep
    <3>2. CASE UFail(u)
      <4>1. ucall'[u].pc = "error"
        BY <1>1, <3>2, FailedPc DEF UFail
      <4>2. ASSUME ucall' = [ucall EXCEPT ![u].copy.tags = @ \cup ({last} \ {None}), ![u].pc = "store"]
            PROVE  FALSE
        <5>1. ucall'[u].pc = "store"
          BY <1>1, <4>2 DEF UpdatesTypeOK, UpdateCall
        <5> QED
          BY <4>1, <5>1
      <4>3. UNCHANGED last
        BY <2>8, <4>2 DEF Merge
      <4> QED
        BY <2>4, <3>1, <3>2, <4>3
    <3>3. CASE ~UFail(u)
      <4>1. last' = None /\ UNCHANGED failed
        BY <1>1, <2>8, <3>3, MergeGoes
      <4>2. PICK k : /\ Goes(u, k) /\ k.copy \in Row /\ k.pc = "store"
                     /\ k.copy.tags = Copy(u).tags \cup ({last} \ {None})
                     /\ k.copy.text = Copy(u).text /\ k.copy.version = Copy(u).version
                     /\ k.copy.files = Copy(u).files /\ k.copy.chunked = Copy(u).chunked
        BY <1>1, <2>8, <3>3, MergeGoes
      <4>3. Merged(u, k)
        BY <3>1, <4>1, <4>2 DEF Merged
      <4> QED
        BY <2>1, <2>2, <4>2, <4>3 DEF Advanced
    <3> QED
      BY <3>2, <3>3
  <2>9. CASE Store(u)
    <3>1. UNCHANGED <<docs, blobs, last, busy, mixed>> /\ ucall[u].pc = "store"
      BY <2>9 DEF Store, UnchangedNotes, UStep
    <3>2. CASE UFail(u)
      <4>1. UNCHANGED chunks \/ Insert(Doc(u), Copy(u).text)
        BY <2>9 DEF Store
      <4> QED
        BY <2>4, <3>1, <3>2, <4>1
    <3>3. CASE ~UFail(u)
      <4>1. Insert(Doc(u), Copy(u).text) /\ UNCHANGED failed
        BY <1>1, <2>9, <3>3, StoreGoes
      <4>2. PICK k : /\ Goes(u, k) /\ k.copy \in Row /\ k.pc = "existing"
                     /\ k.copy.chunked = Copy(u).text
                     /\ k.copy.text = Copy(u).text /\ k.copy.version = Copy(u).version
                     /\ k.copy.files = Copy(u).files /\ k.copy.tags = Copy(u).tags
        BY <1>1, <2>9, <3>3, StoreGoes
      <4>3. Filled(u, k)
        BY <3>1, <4>1, <4>2 DEF Filled
      <4> QED
        BY <2>1, <2>2, <4>2, <4>3 DEF Advanced
    <3> QED
      BY <3>2, <3>3
  <2>10. CASE Apply(u)
    <3>1. /\ UNCHANGED <<docs, chunks, blobs, last, busy, failed, mixed>>
          /\ ucall[u].pc = "apply"
      BY <2>10 DEF Apply, UnchangedStores, UnchangedNotes, UStep
    <3>2. ucall[u].op = "rules"
      BY <2>2, <2>3, <3>1 DEF UpdateWay
    <3>3. CASE UGoto(u, "error")
      <4>1. PICK k : Goes(u, k) /\ k.pc = "error" /\ k.copy = Copy(u)
        BY <1>1, <3>3, UGotoGoes DEF UpdatePcs
      <4> QED
        BY <2>1, <2>2, <3>1, <3>2, <4>1 DEF Advanced, GaveUp
    <3>4. CASE ~UGoto(u, "error")
      <4>1. PICK k : /\ Goes(u, k) /\ k.copy \in Row /\ k.pc = "existing"
                     /\ k.copy.tags = Copy(u).tags \cup {u}
                     /\ k.copy.text = Copy(u).text /\ k.copy.version = Copy(u).version
                     /\ k.copy.files = Copy(u).files /\ k.copy.chunked = Copy(u).chunked
        BY <1>1, <2>10, <3>4, ApplyGoes
      <4>2. Applied(u, k)
        BY <3>1, <4>1 DEF Applied
      <4> QED
        BY <2>1, <2>2, <4>1, <4>2 DEF Advanced
    <3> QED
      BY <3>3, <3>4
  <2>11. CASE ReadExisting(u)
    <3>1. UNCHANGED <<docs, chunks, blobs, last, busy, mixed>> /\ ucall[u].pc = "existing"
      BY <2>11 DEF ReadExisting, UnchangedStores, UnchangedNotes, UStep
    <3>2. CASE UFail(u)
      BY <2>4, <3>1, <3>2
    <3>3. CASE ~UFail(u)
      <4>1. Exists(Doc(u)) /\ UNCHANGED failed
        BY <1>1, <2>11, <3>3, ReadExistingGoes
      <4>2. PICK k : Goes(u, k) /\ k.copy = Copy(u) /\ k.pc = "write" /\ k.current = docs[Doc(u)]
        BY <1>1, <2>11, <3>3, ReadExistingGoes
      <4> QED
        BY <2>1, <2>2, <3>1, <4>1, <4>2 DEF Advanced, ReadAgain
    <3> QED
      BY <3>2, <3>3
  <2>12. CASE Write(u)
    <3>1. /\ UNCHANGED <<chunks, blobs, last, busy, mixed>>
          /\ ucall[u].pc = "write" /\ ucall[u].op \in Updates
      BY <2>12 DEF Write, UnchangedNotes, UStep
    <3>2. CASE UFail(u)
      <4>1. ~UGoto(u, "ok")
        <5>1. CASE UGoto(u, "ok")
          <6>1. ucall'[u].pc = "ok"
            BY <1>1, <5>1, UGotoGoes, UpdateAfter DEF Goes, UpdatePcs
          <6>2. ucall'[u].pc = "error"
            BY <1>1, <3>2, FailedPc DEF UFail
          <6> QED
            BY <6>1, <6>2
        <5> QED
          BY <5>1
      <4>2. UNCHANGED docs
        BY <2>12, <4>1 DEF Write
      <4> QED
        BY <2>4, <3>1, <3>2, <4>2
    <3>3. CASE ~UFail(u)
      <4>1. Exists(Doc(u)) /\ UNCHANGED failed
        BY <1>1, <2>12, <3>3, WriteGoes
      <4>2. PICK k : Goes(u, k) /\ k.pc = "ok" /\ k.copy = Copy(u)
        BY <1>1, <2>12, <3>3, WriteGoes
      <4>3. PICK r \in Row :
               /\ docs' = [docs EXCEPT ![Doc(u)] = r]
               /\ r.version = Copy(u).version + (IF ucall[u].op = "meta" THEN 1 ELSE 0)
               /\ r.chunked = IF ucall[u].op = "meta" THEN docs[Doc(u)].chunked ELSE Copy(u).chunked
               /\ r.text = Copy(u).text /\ r.files = Copy(u).files /\ r.tags = Copy(u).tags
        BY <1>1, <2>12, <3>3, WriteGoes
      <4>4. Wrote(u, k)
        BY <3>1, <4>1, <4>2, <4>3 DEF Wrote
      <4> QED
        BY <2>1, <2>2, <4>2, <4>4 DEF Advanced
    <3> QED
      BY <3>2, <3>3
  <2>13. CASE WriteRules(u)
    <3>1. /\ UNCHANGED <<chunks, blobs, last, busy, failed, mixed>>
          /\ ucall[u].pc = "write" /\ ucall[u].op = "rules"
      BY <2>13 DEF WriteRules, UnchangedNotes, UStep
    <3>2. CASE UGoto(u, "error")
      <4>1. PICK k : Goes(u, k) /\ k.pc = "error" /\ k.copy = Copy(u)
        BY <1>1, <3>2, UGotoGoes DEF UpdatePcs
      <4>2. ~UGoto(u, "ok")
        <5>1. CASE UGoto(u, "ok")
          <6>1. ucall'[u].pc = "ok"
            BY <1>1, <5>1, UGotoGoes, UpdateAfter DEF Goes, UpdatePcs
          <6>2. ucall'[u].pc = "error"
            BY <1>1, <3>2, FailedPc
          <6> QED
            BY <6>1, <6>2
        <5> QED
          BY <5>1
      <4>3. UNCHANGED docs
        BY <2>13, <4>2 DEF WriteRules
      <4> QED
        BY <2>1, <2>2, <3>1, <4>1, <4>3 DEF Advanced, GaveUp
    <3>3. CASE ~UGoto(u, "error")
      <4>1. Exists(Doc(u))
        BY <1>1, <2>13, <3>3, WriteRulesGoes
      <4>2. PICK k : Goes(u, k) /\ k.pc = "ok" /\ k.copy = Copy(u)
        BY <1>1, <2>13, <3>3, WriteRulesGoes
      <4>3. PICK r \in Row :
               /\ docs' = [docs EXCEPT ![Doc(u)] = r]
               /\ r.version = ucall[u].current.version /\ r.chunked = docs[Doc(u)].chunked
               /\ r.text = Copy(u).text /\ r.files = docs[Doc(u)].files /\ r.tags = Copy(u).tags
        BY <1>1, <2>13, <3>3, WriteRulesGoes
      <4>4. WroteRules(u, k)
        BY <3>1, <4>1, <4>2, <4>3 DEF WroteRules
      <4> QED
        BY <2>1, <2>2, <4>2, <4>4 DEF Advanced
    <3> QED
      BY <3>2, <3>3
  <2>14. CASE RemoveRow(u)
    <3>1. UNCHANGED <<chunks, blobs, last, busy, failed, mixed>> /\ ucall[u].pc = "remove"
      BY <2>14 DEF RemoveRow, UnchangedNotes, UStep
    <3>2. ucall[u].op = "delete"
      BY <2>2, <2>3, <3>1 DEF UpdateWay
    <3>3. CASE UGoto(u, "error")
      <4>1. PICK k : Goes(u, k) /\ k.pc = "error" /\ k.copy = Copy(u)
        BY <1>1, <3>3, UGotoGoes DEF UpdatePcs
      <4>2. ASSUME ucall' = [ucall EXCEPT ![u].todo = CleanUp(u), ![u].pc = "clean"] PROVE FALSE
        <5>1. ucall'[u].pc = "clean"
          BY <1>1, <4>2 DEF UpdatesTypeOK, UpdateCall
        <5> QED
          BY <1>1, <3>3, <5>1, FailedPc
      <4>3. UNCHANGED docs
        BY <2>14, <4>2 DEF RemoveRow
      <4> QED
        BY <2>1, <2>2, <3>1, <3>2, <4>1, <4>3 DEF Advanced, GaveUp
    <3>4. CASE ~UGoto(u, "error")
      <4>1. \A v \in 1 .. Len(Copy(u).files) : v \in Versions
        <5>1. Len(Copy(u).files) <= MaxFiles /\ Len(Copy(u).files) \in Nat /\ MaxFiles \in Nat
          BY <2>2, NoneAssumption, UpdateAssumption DEF UpdateInv, FilesFit, Row
        <5> QED
          BY <5>1 DEF Versions
      <4>2. Exists(Doc(u)) /\ docs' = [docs EXCEPT ![Doc(u)] = None]
        BY <1>1, <2>14, <3>4, <4>1, RemoveRowGoes
      <4>3. PICK k : Goes(u, k) /\ k.copy = Copy(u) /\ k.pc = "clean" /\ k.todo = CleanUp(u)
        BY <1>1, <2>14, <3>4, <4>1, RemoveRowGoes
      <4> QED
        BY <2>1, <2>2, <3>1, <3>2, <4>2, <4>3 DEF Advanced, Removed
    <3> QED
      BY <3>3, <3>4
  <2>15. ASSUME NEW i \in {0} \cup Versions, Clean(u, i) PROVE \E k : Advanced(u, k)
    <3>1. PICK k : /\ Goes(u, k) /\ k.copy = Copy(u) /\ k.pc = "clean" /\ ucall[u].pc = "clean"
                   /\ k.todo = ucall[u].todo \ {i}
      BY <1>1, <2>15, CleanGoes
    <3>2. /\ i \in ucall[u].todo
          /\ \/ i = 0 /\ chunks' = [chunks EXCEPT ![Doc(u)] = {}] /\ UNCHANGED <<blobs, failed>>
             \/ /\ i # 0 /\ blobs' = [blobs EXCEPT ![Doc(u)][i] = None]
                /\ UNCHANGED <<chunks, failed>>
             \/ failed' = failed \cup {Doc(u)} /\ UNCHANGED <<chunks, blobs>>
          /\ UNCHANGED <<docs, last, busy, mixed>>
      BY <2>15 DEF Clean, UnchangedNotes
    <3>3. Cleaned(u, k)
      BY <3>1, <3>2 DEF Cleaned
    <3> QED
      BY <2>1, <2>2, <3>1, <3>3 DEF Advanced
  <2>16. CASE Deleted(u)
    <3>1. UGoto(u, "ok") /\ ucall[u].pc = "clean" /\ ucall[u].todo = {}
      BY <2>16 DEF Deleted, UStep
    <3>2. PICK k : Goes(u, k) /\ k.pc = "ok" /\ k.copy = Copy(u)
      BY <1>1, <3>1, UGotoGoes DEF UpdatePcs
    <3>3. Finished(u, k)
      BY <2>16, <3>1, <3>2 DEF Finished, Deleted, UnchangedStores, UnchangedNotes
    <3> QED
      BY <2>1, <2>2, <3>2, <3>3 DEF Advanced
  <2> QED
    BY <1>3, <2>5, <2>6, <2>7, <2>8, <2>9, <2>10, <2>11, <2>12, <2>13, <2>14, <2>15, <2>16
       DEF UpdatesStep
<1> QED
  BY <1>2, <1>3

LEMMA UpdateAdvances ==
    ASSUME UpdateInv, UpdatesNext
    PROVE  \/ UpdatesCrash
           \/ \E u \in UCalls : (\E k : Becomes(u, k) /\ Began(u, k)) \/ (\E k : Advanced(u, k))
BY StepAdvances DEF UpdatesNext

\* An update makes no rows.
LEMMA RowsOnlyGo ==
    ASSUME UpdateInv, UpdatesNext, NEW d \in Docs, Exists(d)'
    PROVE  Exists(d)
<1>1. CASE UNCHANGED docs
  BY <1>1 DEF Exists
<1>2. ASSUME NEW u \in UCalls, NEW r, Doc(u) \in Docs, Exists(Doc(u)), docs' = [docs EXCEPT ![Doc(u)] = r]
      PROVE  Exists(d)
  BY <1>2 DEF UpdateInv, UpdatesTypeOK, Exists
<1>3. ASSUME NEW u \in UCalls, NEW k, Advanced(u, k) PROVE Exists(d)
  <2>1. CASE Wrote(u, k) \/ WroteRules(u, k) \/ Removed(u, k)
    BY <1>2, <1>3, <2>1 DEF Advanced, Wrote, WroteRules, Removed
  <2>2. CASE ~Wrote(u, k) /\ ~WroteRules(u, k) /\ ~Removed(u, k)
    <3>1. UNCHANGED docs
      BY <1>3, <2>2 DEF Advanced, Passed, GaveUp, Broke, Uploaded, Cut, Merged, Filled, Applied, ReadAgain,
                        Cleaned, Finished
    <3> QED
      BY <1>1, <3>1
  <2> QED
    BY <2>1, <2>2
<1> QED
  BY <1>1, <1>3, UpdateAdvances DEF Began, UpdatesCrash, UnchangedStores

LEMMA UpdateCallsKeepBase ==
    ASSUME BaseInv, UpdateCalls PROVE BaseInv'
<1>1. UNCHANGED <<folders, fcall, sub, subSeen, used, want, crossed, raced>>
  BY DEF UpdateCalls
<1>2. apart' \in SUBSET Docs
  BY DEF UpdateCalls, Reverted, BaseInv, FoldersTypeOK
<1>3. FoldersTypeOK' /\ CallsPlaced'
  BY <1>1, <1>2 DEF BaseInv, FoldersTypeOK, CallsPlaced, Placed, TasksPlaced
<1>4. UpdateInv'
  BY UpdatesKeepUpdateInv DEF BaseInv, UpdateCalls
<1>5. IdsAreFresh'
  <2>1. \A d \in Docs : Exists(d)' => Exists(d)
    BY RowsOnlyGo DEF BaseInv, UpdateCalls
  <2> QED
    BY <1>1, <2>1 DEF BaseInv, IdsAreFresh, Ingesting, Unborn, Pending, PreRow
<1> QED
  BY <1>3, <1>4, <1>5 DEF BaseInv

LEMMA FolderCallsKeepBase ==
    ASSUME BaseInv, FolderCalls PROVE BaseInv'
<1>1. FoldersTypeOK' /\ CallsPlaced'
  BY FoldersKeepTypes DEF BaseInv, FolderCalls
<1>2. UpdateInv' /\ IdsAreFresh'
  BY FoldersKeepUpdateInv, FoldersKeepIdsFresh DEF FolderCalls
<1> QED
  BY <1>1, <1>2 DEF BaseInv

LEMMA InitRows ==
    ASSUME Init
    PROVE  /\ docs \in [Docs -> Snapshot]
           /\ \A d \in Docs : Exists(d) => /\ docs[d].version = 1 /\ docs[d].tags = {}
                                           /\ docs[d].text = docs[d].chunked
                                           /\ docs[d].text \in {{}, {Base}}
                                           /\ docs[d].files \in {<<>>, <<Base>>}
<1>0. PICK D \in SUBSET Docs, F \in [Docs -> Names \cup {None}] :
         \E text \in {{}, {Base}}, files \in {<<>>, <<Base>>} :
            /\ text # {} \/ files # <<>>
            /\ docs = [d \in Docs |-> IF d \in D THEN Ingested(text, files, F[d]) ELSE None]
  BY Zenon DEF Init
<1>1. PICK text \in {{}, {Base}}, files \in {<<>>, <<Base>>} :
         /\ text # {} \/ files # <<>>
         /\ docs = [d \in Docs |-> IF d \in D THEN Ingested(text, files, F[d]) ELSE None]
  BY <1>0
<1>2. text \in SUBSET Parts /\ files \in Seq(Parts)
  <2>1. Base \in Parts
    BY DEF Parts
  <2>2. <<>> \in Seq(Parts) /\ <<Base>> \in Seq(Parts)
    BY <2>1
  <2> QED
    BY <2>1, <2>2
<1>3. ASSUME NEW d \in D
      PROVE  /\ docs[d] \in Row /\ docs[d].version = 1 /\ docs[d].tags = {}
             /\ docs[d].text = text /\ docs[d].chunked = text /\ docs[d].files = files
  <2>1. PICK r : r = Ingested(text, files, F[d])
    OBVIOUS
  <2>2. /\ r \in Row /\ r.version = 1 /\ r.tags = {}
        /\ r.text = text /\ r.chunked = text /\ r.files = files
    BY <1>2, <2>1 DEF Ingested, Row
  <2> QED
    BY <1>1, <2>1, <2>2
<1> QED
  BY <1>1, <1>3 DEF Snapshot, Exists

LEMMA InitBase ==
    ASSUME Init PROVE BaseInv
<1>1. docs \in [Docs -> Snapshot] /\ FoldersInit /\ UpdatesInit
  BY InitRows DEF Init
<1>2. NewCall("create") \in Call /\ NewCall("create").pc = "new" /\ NewCall("create").op = "create"
      /\ NewCall("create").f = None
  BY DEF NewCall, Call, Ops, CallPcs
<1>3. FoldersTypeOK
  <2>1. folders \in [FolderIds -> {None} \cup Folder] /\ want \in [FolderIds -> SUBSET Docs]
        /\ used \in SUBSET (FolderIds \cup Docs)
    <3>1. CASE folders = [g \in FolderIds |-> None] /\ want = [g \in FolderIds |-> {}]
               /\ used = {d \in Docs : Exists(d)}
      BY <3>1
    <3>2. ASSUME NEW f \in FolderIds, NEW n \in Names, NEW D \in SUBSET {d \in Docs : Exists(d)},
                 folders = [g \in FolderIds |->
                              IF g = f THEN [name |-> n, docs |-> D, open |-> TRUE] ELSE None],
                 used = {f} \cup {d \in Docs : Exists(d)},
                 want = [g \in FolderIds |-> IF g = f THEN D ELSE {}]
          PROVE  /\ folders \in [FolderIds -> {None} \cup Folder] /\ want \in [FolderIds -> SUBSET Docs]
                 /\ used \in SUBSET (FolderIds \cup Docs)
      <4>1. [name |-> n, docs |-> D, open |-> TRUE] \in Folder
        BY DEF Folder
      <4> QED
        BY <3>2, <4>1
    <3>3. CASE \E f \in FolderIds, n \in Names, D \in SUBSET {d \in Docs : Exists(d)} :
                  /\ folders = [g \in FolderIds |->
                                  IF g = f THEN [name |-> n, docs |-> D, open |-> TRUE] ELSE None]
                  /\ used = {f} \cup {d \in Docs : Exists(d)}
                  /\ want = [g \in FolderIds |-> IF g = f THEN D ELSE {}]
                  /\ \A d \in Docs :
                        Exists(d) => docs[d].folder \in IF d \in D THEN {n} ELSE NoFolder
      <4>1. PICK f \in FolderIds, n \in Names, D \in SUBSET {d \in Docs : Exists(d)} :
               /\ folders = [g \in FolderIds |->
                               IF g = f THEN [name |-> n, docs |-> D, open |-> TRUE] ELSE None]
               /\ used = {f} \cup {d \in Docs : Exists(d)}
               /\ want = [g \in FolderIds |-> IF g = f THEN D ELSE {}]
               /\ \A d \in Docs :
                     Exists(d) => docs[d].folder \in IF d \in D THEN {n} ELSE NoFolder
        BY <3>3
      <4> QED
        BY <3>2, <4>1
    <3> QED
      BY <1>1, <3>1, <3>3, Zenon DEF FoldersInit
  <2>2. fcall = [c \in FCalls |-> NewCall("create")]
        /\ sub = [c \in FCalls |-> NoSub] /\ subSeen = [c \in FCalls |-> [d \in Docs |-> {}]]
        /\ crossed = {} /\ raced = {} /\ apart = {}
    BY <1>1 DEF FoldersInit
  <2>3. NoSub \in [Docs -> SubSts]
    BY DEF NoSub, SubSts
  <2> QED
    BY <1>2, <2>1, <2>2, <2>3 DEF FoldersTypeOK
<1>4. \A c \in FCalls : fcall[c] = NewCall("create") /\ sub[c] = NoSub
  BY <1>1 DEF FoldersInit
<1>5. CallsPlaced
  <2>1. Placed(NewCall("create"))
    BY <1>2 DEF Placed, Steps
  <2> QED
    BY <1>4, <2>1 DEF CallsPlaced, TasksPlaced, NoSub
<1>6. UpdateInv
  <2>1. \A u \in UCalls : ucall[u] = Idle
    BY <1>1 DEF UpdatesInit
  <2>2. Idle \in UpdateCall /\ Idle.pc = "new" /\ Idle.copy = None
    BY DEF Idle, UpdateCall, UpdateOps, Updates, Snapshot, UpdatePcs
  <2>3. chunks \in [Docs -> SUBSET SUBSET Parts]
    <3>1. \A d \in Docs : (Exists(d) /\ docs[d].text # {}) => docs[d].text \in SUBSET Parts
      BY <1>1 DEF Exists, Snapshot, Row
    <3> QED
      BY <1>1, <3>1 DEF UpdatesInit
  <2>4. blobs \in [Docs -> [Versions -> {None} \cup Parts]]
    <3>1. Base \in Parts
      BY DEF Parts
    <3> QED
      BY <1>1, <3>1 DEF UpdatesInit
  <2>5. UpdatesTypeOK
    BY <1>1, <2>1, <2>2, <2>3, <2>4 DEF UpdatesTypeOK, UpdatesInit
  <2>6. UpdatesPlaced
    BY <2>1, <2>2 DEF UpdatesPlaced, UpdatePlaced, UpdateSteps
  <2>7. FilesFit
    <3>1. MaxFiles \in Nat /\ 1 <= MaxFiles
      BY UpdateAssumption
    <3>2. Len(<<>>) = 0 /\ Len(<<Base>>) = 1
      OBVIOUS
    <3>3. ASSUME NEW d \in Docs, Exists(d) PROVE Len(docs[d].files) <= MaxFiles
      <4>1. docs[d].files = <<>> \/ docs[d].files = <<Base>>
        BY <3>3, InitRows
      <4>2. PICK l \in {0, 1} : l = Len(docs[d].files)
        BY <3>2, <4>1
      <4>3. l <= MaxFiles
        BY <3>1
      <4> QED
        BY <4>2, <4>3
    <3> QED
      BY <2>1, <2>2, <3>3 DEF FilesFit, Copy
  <2> QED
    BY <2>5, <2>6, <2>7 DEF UpdateInv
<1>7. IdsAreFresh
  <2>1. \A c \in FCalls : fcall[c].f = None /\ ~Ingesting(c) /\ ~PreRow(c)
    BY <1>2, <1>4 DEF Ingesting, PreRow, Ingests
  <2>2. \A d \in Docs : Exists(d) => d \in used
    BY <1>1 DEF FoldersInit
  <2>3. \A f \in FolderIds : folders[f] # None => f \in used
    BY <1>1 DEF FoldersInit
  <2> QED
    BY <2>1, <2>2, <2>3 DEF IdsAreFresh, Unborn, Pending
<1> QED
  BY <1>3, <1>5, <1>6, <1>7 DEF BaseInv

LEMMA NextKeepsBase ==
    ASSUME BaseInv, [Next]_vars PROVE BaseInv'
<1>1. CASE UNCHANGED vars
  <2>1. FoldersTypeOK' /\ CallsPlaced'
    BY <1>1 DEF vars, folderVars, BaseInv, FoldersTypeOK, CallsPlaced, Placed, TasksPlaced
  <2>2. UpdateInv'
    BY <1>1 DEF vars, updateVars, BaseInv, UpdateInv, UpdatesTypeOK, UpdatesPlaced, UpdatePlaced,
                FilesFit, Exists, Copy
  <2>3. IdsAreFresh'
    BY <1>1 DEF vars, folderVars, BaseInv, IdsAreFresh, Ingesting, Unborn, Pending, PreRow, Exists
  <2> QED
    BY <2>1, <2>2, <2>3 DEF BaseInv
<1> QED
  BY <1>1, UpdateCallsKeepBase, FolderCallsKeepBase DEF Next

\* Folders, documents, calls on both and their stores keep their types, whatever the
\* calls of the two kinds do to the documents they share.
THEOREM WorkspaceTypesCorrect == Spec => []TypeOK
<1>1. BaseInv => TypeOK
  BY DEF BaseInv, UpdateInv, TypeOK
<1> QED
  BY <1>1, InitBase, NextKeepsBase, PTL DEF Spec

-----------------------------------------------------------------------------
(* What each step of a folder call does, to the call's record and the      *)
(* lists.                                                                  *)

lists == <<folders, docs, sub, subSeen, used, want, crossed, raced, apart>>

Asked(c, k) ==
    /\ fcall[c].pc = "new" /\ k.op \in {"create", "delete"} /\ k.f = None
    /\ k.pc = IF k.op = "create" THEN "check" ELSE "lookup"
    /\ UNCHANGED lists

Took(c, k) ==
    /\ fcall[c].pc = "new" /\ k.op \in Ingests /\ k.f = None
    /\ k.pc = IF k.op = "text" THEN "lookup" ELSE "row"
    /\ k.doc \in Docs \ used /\ used' = used \cup {k.doc}
    /\ UNCHANGED <<folders, docs, sub, subSeen, want, crossed, raced, apart>>

Joined(c, k) ==
    /\ fcall[c].pc = "new" /\ k.op \in {"add", "remove"} /\ k.pc = "read"
    /\ k.f \in used \cap FolderIds /\ k.doc \in used \cap Docs
    /\ crossed' = crossed \cup Crossing(c, k.f)
    /\ UNCHANGED <<folders, docs, sub, subSeen, used, want, raced, apart>>

FoundFree(c, k) ==
    /\ fcall[c].pc = "check" /\ k.pc = "insert" /\ Named(fcall[c].name) = {}
    /\ raced' = IF \E b \in FCalls \ {c} : fcall[b].name = fcall[c].name /\ fcall[b].pc = "insert"
                THEN raced \cup {fcall[c].name} ELSE raced
    /\ UNCHANGED <<folders, docs, sub, subSeen, used, want, crossed, apart>>

\* The document is not listed, or the folder not made.
Skipped(c, k) ==
    /\ fcall[c].pc \in {"check", "insert", "read", "readDoc", "write"}
    /\ k.pc \in {"row", "ok", "error"} /\ (k.pc = "row" <=> fcall[c].op = "text")
    /\ k.seen = fcall[c].seen
    /\ apart' = IF fcall[c].op \in Ingests THEN apart \cup {fcall[c].doc} ELSE apart
    /\ UNCHANGED <<folders, docs, sub, subSeen, used, want, crossed, raced>>

SameList(g) == folders'[g] = folders[g] /\ want'[g] = want[g]

Made(c, k, f) ==
    /\ fcall[c].pc = "insert" /\ f \in FolderIds \ used /\ used' = used \cup {f}
    /\ k.pc \in {"row", "ok"} /\ (k.pc = "row" <=> fcall[c].op = "text")
    /\ folders'[f] \in Folder /\ folders'[f].name = fcall[c].name
    /\ folders'[f].docs = want'[f]
    /\ want'[f] = IF fcall[c].op \in Ingests THEN {fcall[c].doc} ELSE {}
    /\ \A g \in FolderIds \ {f} : SameList(g)
    /\ apart' = IF fcall[c].op \in Ingests /\ Moved(fcall[c].doc, fcall[c].name)
                THEN apart \cup {fcall[c].doc} ELSE apart
    /\ UNCHANGED <<docs, sub, subSeen, crossed, raced>>

NoneFound(c, k) ==
    /\ fcall[c].pc = "lookup" /\ k.pc = IF fcall[c].op = "delete" THEN "error" ELSE "check"
    /\ k.f = fcall[c].f /\ k.seen = fcall[c].seen
    /\ UNCHANGED lists

FoundToEmpty(c, k) ==
    /\ fcall[c].pc = "lookup" /\ fcall[c].op = "delete" /\ k.pc = "empty"
    /\ k.f \in Named(fcall[c].name) /\ k.seen = folders[k.f].docs
    /\ \A d \in Docs : sub'[c][d] = IF d \in k.seen THEN "read" ELSE "none"
    /\ \A b \in FCalls \ {c} : sub'[b] = sub[b]
    /\ crossed' = crossed \cup Crossing(c, k.f) \cup (IF Cardinality(k.seen) > 1 THEN {k.f} ELSE {})
    /\ UNCHANGED <<folders, docs, subSeen, used, want, raced, apart>>

FoundToList(c, k) ==
    /\ fcall[c].pc = "lookup" /\ fcall[c].op \in Ingests /\ k.pc = "read"
    /\ k.f \in Named(fcall[c].name) /\ k.seen = fcall[c].seen
    /\ crossed' = crossed \cup Crossing(c, k.f)
    /\ UNCHANGED <<folders, docs, sub, subSeen, used, want, raced, apart>>

ReadList(c, k) ==
    /\ fcall[c].pc = "read" /\ folders[fcall[c].f] # None /\ k.seen = folders[fcall[c].f].docs
    /\ k.pc = IF Adds(c) THEN "readDoc"
              ELSE IF fcall[c].doc \in folders[fcall[c].f].docs THEN "write" ELSE "ok"
    /\ UNCHANGED lists

Checked(c, k) ==
    /\ fcall[c].pc = "readDoc" /\ Exists(fcall[c].doc)
    /\ IF fcall[c].doc \notin fcall[c].seen
       THEN k.pc = "write"
       ELSE k.pc \in {"row", "ok"} /\ (k.pc = "row" <=> fcall[c].op = "text")
    /\ UNCHANGED lists

\* The list of folder f is L from now on.
Relisted(f, L) ==
    /\ folders[f] # None
    /\ folders'[f] # None /\ folders'[f].docs = L /\ folders'[f].name = folders[f].name
    /\ \A g \in FolderIds \ {f} : SameList(g)

Listed(c, k) ==
    /\ fcall[c].pc = "write" /\ k.pc \in {"row", "ok"} /\ (k.pc = "row" <=> fcall[c].op = "text")
    /\ Relisted(fcall[c].f, NewList(c))
    /\ SetFolderName(fcall[c].doc, IF Adds(c) THEN folders[fcall[c].f].name ELSE None)
    /\ want'[fcall[c].f] = IF Adds(c) THEN want[fcall[c].f] \cup {fcall[c].doc}
                                      ELSE want[fcall[c].f] \ {fcall[c].doc}
    /\ apart' = apart \cup (Disturbed(fcall[c].f, fcall[c].seen) \ {fcall[c].doc})
                      \cup (IF Listing(fcall[c].doc) \ {fcall[c].f} # {} THEN {fcall[c].doc} ELSE {})
    /\ UNCHANGED <<sub, subSeen, used, crossed, raced>>

EmptyingEnds(c, k) ==
    /\ fcall[c].op = "delete" /\ fcall[c].pc = "empty" /\ k.pc \in {"purge", "error"}
    /\ k.pc = "purge" => \A d \in fcall[c].seen : sub[c][d] = "removed"
    /\ UNCHANGED lists

PurgingEnds(c, k) ==
    /\ fcall[c].op = "delete" /\ fcall[c].pc = "purge" /\ k.pc \in {"drop", "error"}
    /\ \A d \in fcall[c].seen : sub[c][d] \in {"gone", "missing"}
    /\ k.pc = "drop" => \A d \in fcall[c].seen : sub[c][d] = "gone"
    /\ UNCHANGED lists

Dropped(c, k) ==
    /\ fcall[c].op = "delete" /\ fcall[c].pc = "drop" /\ k.pc = "ok"
    /\ folders[fcall[c].f] # None /\ folders'[fcall[c].f] = None
    /\ \A g \in FolderIds \ {fcall[c].f} : folders'[g] = folders[g]
    /\ apart' = apart \cup folders[fcall[c].f].docs
    /\ UNCHANGED <<docs, sub, subSeen, used, want, crossed, raced>>

NotDropped(c, k) ==
    /\ fcall[c].op = "delete" /\ fcall[c].pc = "drop" /\ k.pc = "error"
    /\ UNCHANGED lists

Rowed(c, k) ==
    /\ fcall[c].op \in Ingests /\ fcall[c].pc = "row"
    /\ k.pc = IF fcall[c].op = "text" THEN "ok" ELSE "lookup"
    /\ docs' = [docs EXCEPT ![fcall[c].doc] =
                  Ingested({Base}, IF fcall[c].op = "text" THEN <<>> ELSE <<Base>>, fcall[c].name)]
    /\ apart' = IF fcall[c].op = "text" /\ Listing(fcall[c].doc) = {}
                THEN apart \cup {fcall[c].doc} ELSE apart
    /\ UNCHANGED <<folders, sub, subSeen, used, want, crossed, raced>>

NotRowed(c, k) ==
    /\ fcall[c].op \in Ingests /\ fcall[c].pc = "row" /\ k.pc = "error"
    /\ UNCHANGED lists

CallDoes(c, k) ==
    \/ Asked(c, k) \/ Took(c, k) \/ Joined(c, k)
    \/ FoundFree(c, k) \/ Skipped(c, k) \/ (\E f : Made(c, k, f))
    \/ NoneFound(c, k) \/ FoundToEmpty(c, k) \/ FoundToList(c, k)
    \/ ReadList(c, k) \/ Checked(c, k) \/ Listed(c, k)
    \/ EmptyingEnds(c, k) \/ PurgingEnds(c, k) \/ Dropped(c, k) \/ NotDropped(c, k)
    \/ Rowed(c, k) \/ NotRowed(c, k)

\* The tasks of call c but that for document d stay as they are.
OtherTasks(c, d) == \A b \in FCalls, e \in Docs : b # c \/ e # d => sub'[b][e] = sub[b][e]

TaskLooked(c, d) ==
    /\ sub[c][d] = "read" /\ folders[fcall[c].f] # None
    /\ sub'[c][d] = IF d \in folders[fcall[c].f].docs THEN "write" ELSE "removed"
    /\ subSeen'[c][d] = folders[fcall[c].f].docs
    /\ \A b \in FCalls, e \in Docs : b # c \/ e # d => subSeen'[b][e] = subSeen[b][e]
    /\ UNCHANGED <<folders, docs, used, want, crossed, raced, apart>>

TaskFailed(c, d) ==
    /\ sub[c][d] \in {"read", "write"} /\ sub'[c][d] = "failed"
    /\ UNCHANGED <<folders, docs, subSeen, used, want, crossed, raced, apart>>

TaskListed(c, d) ==
    /\ sub[c][d] = "write" /\ sub'[c][d] = "removed"
    /\ Relisted(fcall[c].f, subSeen[c][d] \ {d})
    /\ SetFolderName(d, None)
    /\ want'[fcall[c].f] = want[fcall[c].f] \ {d}
    /\ apart' = apart \cup (Disturbed(fcall[c].f, subSeen[c][d]) \ {d})
                      \cup (IF Listing(d) \ {fcall[c].f} # {} THEN {d} ELSE {})
    /\ UNCHANGED <<subSeen, used, crossed, raced>>

TaskPurged(c, d) ==
    /\ fcall[c].pc = "purge" /\ sub[c][d] = "removed" /\ sub'[c][d] = "gone"
    /\ Exists(d) /\ docs' = [docs EXCEPT ![d] = None]
    /\ UNCHANGED <<folders, subSeen, used, want, crossed, raced, apart>>

TaskMissed(c, d) ==
    /\ fcall[c].pc = "purge" /\ sub[c][d] = "removed" /\ sub'[c][d] = "missing"
    /\ UNCHANGED <<folders, docs, subSeen, used, want, crossed, raced, apart>>

TaskDoes(c, d) ==
    /\ UNCHANGED fcall /\ OtherTasks(c, d)
    /\ \/ TaskLooked(c, d) \/ TaskFailed(c, d) \/ TaskListed(c, d)
       \/ TaskPurged(c, d) \/ TaskMissed(c, d)

LEMMA ToStepIs ==
    ASSUME FoldersTypeOK, NEW c \in FCalls, NEW pc, ToStep(c, pc)
    PROVE  /\ fcall'[c].pc = pc /\ fcall'[c].f = fcall[c].f /\ fcall'[c].seen = fcall[c].seen
           /\ fcall'[c].op = fcall[c].op
BY DEF FoldersTypeOK, ToStep, Call

LEMMA EnsuredIs ==
    ASSUME NEW c \in FCalls, fcall[c].op \in Ingests
    PROVE  Ensured(c) \in {"row", "ok"} /\ (Ensured(c) = "row" <=> fcall[c].op = "text")
BY DEF Ensured, Ingests

LEMMA NotAddedSkips ==
    ASSUME FoldersTypeOK, NEW c \in FCalls, NotAdded(c), fcall[c].pc \in {"read", "readDoc", "write"},
           NEW k, k = fcall'[c]
    PROVE  Skipped(c, k)
<1>1. /\ ToStep(c, IF fcall[c].op \in Ingests THEN Ensured(c) ELSE "error")
      /\ UNCHANGED <<folders, docs, sub, subSeen, used, want, crossed, raced>>
      /\ apart' = IF fcall[c].op \in Ingests THEN apart \cup {fcall[c].doc} ELSE apart
  BY DEF NotAdded, Fail
<1>2. k.pc = (IF fcall[c].op \in Ingests THEN Ensured(c) ELSE "error") /\ k.seen = fcall[c].seen
  BY <1>1, ToStepIs
<1>3. k.pc \in {"row", "ok", "error"} /\ (k.pc = "row" <=> fcall[c].op = "text")
  BY <1>2, EnsuredIs DEF Ingests
<1> QED
  BY <1>1, <1>2, <1>3 DEF Skipped

LEMMA StartDoes ==
    ASSUME FoldersTypeOK, NEW c \in FCalls, NEW k, k = fcall'[c],
           StartCreate(c) \/ StartDelete(c) \/ StartIngest(c) \/ StartMove(c)
    PROVE  Asked(c, k) \/ Took(c, k) \/ Joined(c, k)
<1>1. fcall \in [FCalls -> Call]
  BY DEF FoldersTypeOK
<1>2. CASE StartCreate(c)
  <2>1. PICK n \in Names : Start(c, [NewCall("create") EXCEPT !.name = n, !.pc = "check"])
    BY <1>2 DEF StartCreate
  <2>2. k.op = "create" /\ k.f = None /\ k.pc = "check"
    BY <1>1, <2>1 DEF Start, NewCall
  <2> QED
    BY <1>2, <2>1, <2>2 DEF Asked, Start, StartCreate, lists
<1>3. CASE StartDelete(c)
  <2>1. PICK n \in Names : Start(c, [NewCall("delete") EXCEPT !.name = n, !.pc = "lookup"])
    BY <1>3 DEF StartDelete
  <2>2. k.op = "delete" /\ k.f = None /\ k.pc = "lookup"
    BY <1>1, <2>1 DEF Start, NewCall
  <2> QED
    BY <1>3, <2>1, <2>2 DEF Asked, Start, StartDelete, lists
<1>4. CASE StartIngest(c)
  BY <1>4, IngestTakes DEF Took, Ingesting
<1>5. CASE StartMove(c)
  <2>1. PICK f \in used \cap FolderIds, d \in used \cap Docs, op \in {"add", "remove"} :
           /\ Start(c, [NewCall(op) EXCEPT !.doc = d, !.f = f, !.pc = "read"])
           /\ crossed' = crossed \cup Crossing(c, f)
           /\ UNCHANGED used
    BY <1>5 DEF StartMove
  <2>2. k.op = op /\ k.f = f /\ k.doc = d /\ k.pc = "read"
    BY <1>1, <2>1 DEF Start, NewCall
  <2> QED
    BY <2>1, <2>2 DEF Joined, Start
<1> QED
  BY <1>2, <1>3, <1>4, <1>5

LEMMA NameDoes ==
    ASSUME FoldersTypeOK, CallsPlaced, NEW c \in FCalls, NEW k, k = fcall'[c],
           CheckName(c) \/ InsertFolder(c)
    PROVE  FoundFree(c, k) \/ Skipped(c, k) \/ \E f : Made(c, k, f)
<1>1. /\ fcall[c] \in Call /\ Placed(fcall[c]) /\ folders \in [FolderIds -> {None} \cup Folder]
      /\ want \in [FolderIds -> SUBSET Docs]
  BY DEF FoldersTypeOK, CallsPlaced
<1>2. /\ fcall[c].op \in {"create", "text", "file"} /\ fcall[c].name \in Names
      /\ fcall[c].op \in Ingests => fcall[c].doc \in Docs
  BY <1>1 DEF CheckName, InsertFolder, Steps, Placed, Way, Call, Ops, Ingests
<1>3. CASE CheckName(c)
  <2>1. CASE ToStep(c, "insert") /\ Named(fcall[c].name) = {} /\ UNCHANGED apart
             /\ raced' = IF \E b \in FCalls \ {c} : fcall[b].name = fcall[c].name /\ fcall[b].pc = "insert"
                         THEN raced \cup {fcall[c].name} ELSE raced
    <3>1. k.pc = "insert"
      BY <2>1, ToStepIs
    <3> QED
      BY <1>3, <2>1, <3>1 DEF CheckName, FoundFree
  <2>2. ASSUME ToStep(c, IF fcall[c].op \in Ingests THEN Ensured(c)
                         ELSE IF Cardinality(Named(fcall[c].name)) = 1 THEN "ok" ELSE "error"),
               apart' = IF fcall[c].op \in Ingests THEN apart \cup {fcall[c].doc} ELSE apart,
               UNCHANGED raced
        PROVE  Skipped(c, k)
    <3>1. /\ k.pc = IF fcall[c].op \in Ingests THEN Ensured(c)
                    ELSE IF Cardinality(Named(fcall[c].name)) = 1 THEN "ok" ELSE "error"
          /\ k.seen = fcall[c].seen
      BY <2>2, ToStepIs
    <3>2. k.pc \in {"row", "ok", "error"} /\ (k.pc = "row" <=> fcall[c].op = "text")
      BY <3>1, EnsuredIs DEF Ingests
    <3> QED
      BY <1>3, <2>2, <3>1, <3>2 DEF CheckName, Skipped
  <2> QED
    BY <1>3, <2>1, <2>2 DEF CheckName
<1>4. CASE InsertFolder(c)
  <2>1. PICK D : D = IF fcall[c].op \in Ingests THEN {fcall[c].doc} ELSE {}
    OBVIOUS
  <2>2. fcall[c].pc = "insert" /\ D \in SUBSET Docs /\ UNCHANGED <<docs, sub, subSeen, crossed, raced>>
    BY <1>2, <1>4, <2>1 DEF InsertFolder
  <2>3. ASSUME NEW f \in FolderIds \ used,
               folders' = [folders EXCEPT ![f] =
                  [name |-> fcall[c].name, docs |-> D, open |-> fcall[c].op \notin Ingests]],
               used' = used \cup {f}, want' = [want EXCEPT ![f] = D],
               ToStep(c, IF fcall[c].op \in Ingests THEN Ensured(c) ELSE "ok"),
               apart' = IF fcall[c].op \in Ingests /\ Moved(fcall[c].doc, fcall[c].name)
                        THEN apart \cup D ELSE apart
        PROVE  Made(c, k, f)
    <3>1. k.pc = IF fcall[c].op \in Ingests THEN Ensured(c) ELSE "ok"
      BY <2>3, ToStepIs
    <3>2. k.pc \in {"row", "ok"} /\ (k.pc = "row" <=> fcall[c].op = "text")
      BY <3>1, EnsuredIs DEF Ingests
    <3>3. PICK r : r = [name |-> fcall[c].name, docs |-> D, open |-> fcall[c].op \notin Ingests]
      OBVIOUS
    <3>4. r \in Folder /\ r.name = fcall[c].name /\ r.docs = D
      BY <1>2, <2>2, <3>3 DEF Folder
    <3>5. folders'[f] = r /\ want'[f] = D /\ \A g \in FolderIds \ {f} : SameList(g)
      BY <1>1, <2>3, <3>3 DEF SameList
    <3> QED
      BY <2>1, <2>2, <2>3, <3>2, <3>4, <3>5 DEF Made
  <2>4. CASE /\ ToStep(c, IF fcall[c].op \in Ingests THEN Ensured(c) ELSE "error")
             /\ apart' = apart \cup D
             /\ UNCHANGED <<folders, used, want>>
    <3>1. k.pc = (IF fcall[c].op \in Ingests THEN Ensured(c) ELSE "error") /\ k.seen = fcall[c].seen
      BY <2>4, ToStepIs
    <3>2. k.pc \in {"row", "ok", "error"} /\ (k.pc = "row" <=> fcall[c].op = "text")
      BY <3>1, EnsuredIs DEF Ingests
    <3> QED
      BY <2>1, <2>2, <2>4, <3>1, <3>2 DEF Skipped
  <2> QED
    BY <1>4, <2>1, <2>3, <2>4 DEF InsertFolder
<1> QED
  BY <1>3, <1>4

LEMMA LookupDoes ==
    ASSUME FoldersTypeOK, CallsPlaced, NEW c \in FCalls, NEW k, k = fcall'[c], LookupFolder(c)
    PROVE  NoneFound(c, k) \/ FoundToEmpty(c, k) \/ FoundToList(c, k)
<1>1. /\ fcall[c] \in Call /\ Placed(fcall[c]) /\ fcall \in [FCalls -> Call]
      /\ fcall[c].pc = "lookup" /\ sub \in [FCalls -> [Docs -> SubSts]]
      /\ UNCHANGED <<folders, docs, subSeen, used, want, raced, apart>>
  BY DEF FoldersTypeOK, CallsPlaced, LookupFolder
<1>2. fcall[c].op \in {"text", "file", "delete"}
  <2>1. fcall[c] \in Call /\ Placed(fcall[c]) /\ fcall[c].pc = "lookup"
    BY <1>1
  <2> QED
    BY <2>1 DEF Steps, Placed, Way, Call, Ops
<1>3. CASE ToStep(c, IF fcall[c].op = "delete" THEN "error" ELSE "check") /\ UNCHANGED <<sub, crossed>>
  <2>1. /\ k.pc = IF fcall[c].op = "delete" THEN "error" ELSE "check"
        /\ k.f = fcall[c].f /\ k.seen = fcall[c].seen
    BY <1>3, ToStepIs
  <2> QED
    BY <1>1, <1>3, <2>1 DEF NoneFound, lists
<1>4. ASSUME NEW f \in Named(fcall[c].name), fcall[c].op = "delete",
             fcall' = [fcall EXCEPT ![c].f = f, ![c].seen = folders[f].docs, ![c].pc = "empty"],
             sub' = [sub EXCEPT ![c] = [d \in Docs |-> IF d \in folders[f].docs THEN "read" ELSE "none"]],
             crossed' = crossed \cup Crossing(c, f)
                        \cup (IF Cardinality(folders[f].docs) > 1 THEN {f} ELSE {})
      PROVE  FoundToEmpty(c, k)
  <2>1. k.f = f /\ k.seen = folders[f].docs /\ k.pc = "empty"
    BY <1>1, <1>4 DEF Call
  <2>2. /\ \A d \in Docs : sub'[c][d] = IF d \in k.seen THEN "read" ELSE "none"
        /\ \A b \in FCalls \ {c} : sub'[b] = sub[b]
    BY <1>1, <1>4, <2>1
  <2> QED
    BY <1>1, <1>4, <2>1, <2>2 DEF FoundToEmpty
<1>5. ASSUME NEW f \in Named(fcall[c].name), fcall[c].op # "delete",
             fcall' = [fcall EXCEPT ![c].f = f, ![c].pc = "read"],
             crossed' = crossed \cup Crossing(c, f), UNCHANGED sub
      PROVE  FoundToList(c, k)
  <2>1. k.f = f /\ k.seen = fcall[c].seen /\ k.pc = "read"
    BY <1>1, <1>5 DEF Call
  <2> QED
    BY <1>1, <1>2, <1>5, <2>1 DEF FoundToList, Ingests
<1> QED
  BY <1>3, <1>4, <1>5 DEF LookupFolder

LEMMA ReadListDoes ==
    ASSUME FoldersTypeOK, CallsPlaced, NEW c \in FCalls, NEW k, k = fcall'[c],
           ReadFolder(c) \/ ReadDocument(c)
    PROVE  ReadList(c, k) \/ Checked(c, k) \/ Skipped(c, k)
<1>1. fcall[c] \in Call /\ fcall \in [FCalls -> Call]
  BY DEF FoldersTypeOK
<1>2. CASE ReadFolder(c)
  <2>1. fcall[c].pc = "read"
    BY <1>2 DEF ReadFolder
  <2>2. CASE NotAdded(c)
    BY <2>1, <2>2, NotAddedSkips
  <2>3. CASE ~NotAdded(c)
    <3>1. PICK pc : pc = IF Adds(c) THEN "readDoc"
                         ELSE IF fcall[c].doc \in folders[fcall[c].f].docs THEN "write" ELSE "ok"
      OBVIOUS
    <3>2. /\ folders[fcall[c].f] # None
          /\ fcall' = [fcall EXCEPT ![c].seen = folders[fcall[c].f].docs, ![c].pc = pc]
          /\ UNCHANGED lists
      BY <1>2, <2>3, <3>1 DEF ReadFolder, lists
    <3>3. k.seen = folders[fcall[c].f].docs /\ k.pc = pc
      BY <1>1, <3>2 DEF Call
    <3> QED
      BY <2>1, <3>1, <3>2, <3>3 DEF ReadList
  <2> QED
    BY <2>2, <2>3
<1>3. CASE ReadDocument(c)
  <2>1. fcall[c].pc = "readDoc"
    BY <1>3 DEF ReadDocument
  <2>2. CASE NotAdded(c)
    BY <2>1, <2>2, NotAddedSkips
  <2>3. CASE ~NotAdded(c)
    <3>1. PICK pc : pc = IF fcall[c].doc \notin fcall[c].seen THEN "write"
                         ELSE IF fcall[c].op \in Ingests THEN Ensured(c) ELSE "ok"
      OBVIOUS
    <3>2. Exists(fcall[c].doc) /\ ToStep(c, pc) /\ UNCHANGED lists
      BY <1>3, <2>3, <3>1 DEF ReadDocument, lists
    <3>3. k.pc = pc
      BY <3>2, ToStepIs
    <3>4. IF fcall[c].doc \notin fcall[c].seen
          THEN pc = "write"
          ELSE pc \in {"row", "ok"} /\ (pc = "row" <=> fcall[c].op = "text")
      BY <3>1, EnsuredIs DEF Ingests
    <3> QED
      BY <2>1, <3>2, <3>3, <3>4 DEF Checked
  <2> QED
    BY <2>2, <2>3
<1> QED
  BY <1>2, <1>3

LEMMA WriteListDoes ==
    ASSUME FoldersTypeOK, CallsPlaced, NEW c \in FCalls, NEW k, k = fcall'[c], WriteList(c)
    PROVE  Listed(c, k) \/ Skipped(c, k)
<1>1. /\ fcall[c] \in Call /\ Placed(fcall[c]) /\ fcall[c].pc = "write" /\ OthersTyped
      /\ want \in [FolderIds -> SUBSET Docs]
  BY DEF FoldersTypeOK, OthersTyped, CallsPlaced, WriteList
<1>2. fcall[c].f \in FolderIds /\ fcall[c].op \in {"text", "file", "add", "remove"} /\ fcall[c].doc \in Docs
  BY <1>1 DEF Placed, Steps, Way, Call, Ops
<1>3. CASE NotAdded(c)
  BY <1>1, <1>3, NotAddedSkips
<1>4. CASE ~NotAdded(c)
  <2>1. PICK f : f = fcall[c].f
    OBVIOUS
  <2>2. PICK L : L = NewList(c)
    OBVIOUS
  <2>3. PICK W : W = IF Adds(c) THEN want[f] \cup {fcall[c].doc} ELSE want[f] \ {fcall[c].doc}
    OBVIOUS
  <2>4. /\ folders[f] # None /\ folders' = [folders EXCEPT ![f].docs = L]
        /\ SetFolderName(fcall[c].doc, IF Adds(c) THEN folders[f].name ELSE None)
        /\ want' = [want EXCEPT ![f] = W]
        /\ ToStep(c, IF fcall[c].op \in Ingests THEN Ensured(c) ELSE "ok")
        /\ apart' = apart \cup (Disturbed(f, fcall[c].seen) \ {fcall[c].doc})
                          \cup (IF Listing(fcall[c].doc) \ {f} # {} THEN {fcall[c].doc} ELSE {})
        /\ UNCHANGED <<sub, subSeen, used, crossed, raced>>
    BY <1>4, <2>1, <2>2, <2>3 DEF WriteList
  <2>5. L \in SUBSET Docs
    BY <1>1, <1>2, <2>2 DEF NewList, Call
  <2>6. /\ folders'[f] # None /\ folders'[f].docs = L /\ folders'[f].name = folders[f].name
        /\ \A g \in FolderIds \ {f} : folders'[g] = folders[g]
    BY <1>1, <1>2, <2>1, <2>4, <2>5, RelistTyped
  <2>7. want'[f] = W /\ \A g \in FolderIds \ {f} : want'[g] = want[g]
    BY <1>1, <1>2, <2>1, <2>4
  <2>8. Relisted(f, L)
    BY <2>4, <2>6, <2>7 DEF Relisted, SameList
  <2>9. k.pc = IF fcall[c].op \in Ingests THEN Ensured(c) ELSE "ok"
    BY <2>4, ToStepIs
  <2>10. k.pc \in {"row", "ok"} /\ (k.pc = "row" <=> fcall[c].op = "text")
    BY <2>9, EnsuredIs DEF Ingests
  <2> QED
    BY <1>1, <2>1, <2>2, <2>3, <2>4, <2>7, <2>8, <2>10 DEF Listed
<1> QED
  BY <1>3, <1>4

LEMMA EndDoes ==
    ASSUME FoldersTypeOK, CallsPlaced, NEW c \in FCalls, NEW k, k = fcall'[c],
           Emptied(c) \/ Purged(c) \/ DropFolder(c) \/ IngestRow(c)
    PROVE  \/ EmptyingEnds(c, k) \/ PurgingEnds(c, k) \/ Dropped(c, k) \/ NotDropped(c, k)
           \/ Rowed(c, k) \/ NotRowed(c, k)
<1>1. CASE Emptied(c)
  <2>1. CASE ToStep(c, "error")
    <3>1. k.pc = "error"
      BY <2>1, ToStepIs
    <3> QED
      BY <1>1, <3>1 DEF Emptied, InStep, EmptyingEnds, lists
  <2>2. CASE (\A d \in fcall[c].seen : sub[c][d] = "removed") /\ ToStep(c, "purge")
    <3>1. k.pc = "purge"
      BY <2>2, ToStepIs
    <3> QED
      BY <1>1, <2>2, <3>1 DEF Emptied, InStep, EmptyingEnds, lists
  <2> QED
    BY <1>1, <2>1, <2>2 DEF Emptied
<1>2. CASE Purged(c)
  <2>1. k.pc = IF \E d \in fcall[c].seen : sub[c][d] = "missing" THEN "error" ELSE "drop"
    BY <1>2, ToStepIs DEF Purged
  <2>2. \A d \in fcall[c].seen : sub[c][d] \in {"gone", "missing"}
    BY <1>2 DEF Purged
  <2>3. k.pc \in {"drop", "error"} /\ (k.pc = "drop" => \A d \in fcall[c].seen : sub[c][d] = "gone")
    BY <2>1, <2>2
  <2> QED
    BY <1>2, <2>2, <2>3 DEF Purged, InStep, PurgingEnds, lists
<1>3. CASE DropFolder(c)
  <2>1. fcall[c].op = "delete" /\ fcall[c].pc = "drop" /\ Placed(fcall[c])
    BY <1>3 DEF DropFolder, InStep, CallsPlaced
  <2>2. fcall[c].f \in FolderIds
    BY <2>1 DEF Placed
  <2>3. CASE folders[fcall[c].f] # None /\ ToStep(c, "ok")
             /\ folders' = [folders EXCEPT ![fcall[c].f] = None]
             /\ apart' = apart \cup folders[fcall[c].f].docs
    <3>1. k.pc = "ok"
      BY <2>3, ToStepIs
    <3>2. /\ folders'[fcall[c].f] = None
          /\ \A g \in FolderIds \ {fcall[c].f} : folders'[g] = folders[g]
      BY <2>2, <2>3 DEF FoldersTypeOK
    <3> QED
      BY <1>3, <2>1, <2>3, <3>1, <3>2 DEF DropFolder, Dropped
  <2>4. CASE ToStep(c, "error") /\ UNCHANGED <<folders, apart>>
    <3>1. k.pc = "error"
      BY <2>4, ToStepIs
    <3> QED
      BY <1>3, <2>1, <2>4, <3>1 DEF DropFolder, NotDropped, lists
  <2> QED
    BY <1>3, <2>3, <2>4 DEF DropFolder
<1>4. CASE IngestRow(c)
  <2>1. fcall[c].op \in Ingests /\ fcall[c].pc = "row"
    BY <1>4 DEF IngestRow, InStep
  <2>2. CASE ToStep(c, "error") /\ UNCHANGED <<docs, apart>>
    <3>1. k.pc = "error"
      BY <2>2, ToStepIs
    <3> QED
      BY <1>4, <2>1, <2>2, <3>1 DEF IngestRow, NotRowed, lists
  <2>3. CASE ~(ToStep(c, "error") /\ UNCHANGED <<docs, apart>>)
    <3>1. ToStep(c, IF fcall[c].op = "text" THEN "ok" ELSE "lookup")
      BY <1>4, <2>3 DEF IngestRow
    <3>2. k.pc = IF fcall[c].op = "text" THEN "ok" ELSE "lookup"
      BY <3>1, ToStepIs
    <3> QED
      BY <1>4, <2>1, <2>3, <3>2 DEF IngestRow, Rowed
  <2> QED
    BY <2>2, <2>3
<1> QED
  BY <1>1, <1>2, <1>3, <1>4

LEMMA TaskBecomes ==
    ASSUME OthersTyped, NEW c \in FCalls, NEW d \in Docs, NEW st \in SubSts,
           sub' = [sub EXCEPT ![c][d] = st]
    PROVE  sub'[c][d] = st /\ OtherTasks(c, d)
<1>1. \A b \in FCalls, e \in Docs : b # c \/ e # d => sub'[b][e] = sub[b][e]
  BY TaskMoves
<1>2. sub'[c][d] = st
  BY TaskMoves
<1> QED
  BY <1>1, <1>2 DEF OtherTasks

LEMMA TaskReadDoes ==
    ASSUME FoldersTypeOK, CallsPlaced, NEW c \in FCalls, NEW d \in Docs, TaskRead(c, d)
    PROVE  TaskDoes(c, d)
<1>1. OthersTyped /\ sub[c][d] = "read" /\ TasksPlaced(c)
  BY DEF FoldersTypeOK, OthersTyped, CallsPlaced, TaskRead
<1>2. fcall[c].f \in FolderIds
  BY <1>1 DEF TasksPlaced
<1>3. CASE sub' = [sub EXCEPT ![c][d] = "failed"] /\ UNCHANGED subSeen
  <2>1. "failed" \in SubSts
    BY DEF SubSts
  <2>2. sub'[c][d] = "failed" /\ OtherTasks(c, d)
    BY <1>1, <1>3, <2>1, TaskBecomes
  <2> QED
    BY <1>1, <1>3, <2>2 DEF TaskRead, TaskDoes, TaskFailed
<1>4. CASE /\ folders[fcall[c].f] # None
           /\ sub' = [sub EXCEPT ![c][d] = IF d \in folders[fcall[c].f].docs THEN "write" ELSE "removed"]
           /\ subSeen' = [subSeen EXCEPT ![c][d] = folders[fcall[c].f].docs]
  <2>1. PICK st : st = IF d \in folders[fcall[c].f].docs THEN "write" ELSE "removed"
    OBVIOUS
  <2>2. PICK L : L = folders[fcall[c].f].docs
    OBVIOUS
  <2>3. st \in SubSts
    BY <2>1 DEF SubSts
  <2>4. L \in SUBSET Docs
    BY <1>1, <1>2, <1>4, <2>2 DEF OthersTyped, Folder
  <2>5. sub'[c][d] = st /\ OtherTasks(c, d)
    BY <1>1, <1>4, <2>1, <2>3, TaskBecomes
  <2>6. /\ subSeen'[c][d] = L
        /\ \A b \in FCalls, e \in Docs : b # c \/ e # d => subSeen'[b][e] = subSeen[b][e]
    <3>1. subSeen' = [subSeen EXCEPT ![c][d] = L] /\ OthersTyped
      BY <1>1, <1>4, <2>2
    <3>2. subSeen'[c][d] = L
      BY <2>4, <3>1, TaskSees
    <3>3. \A b \in FCalls, e \in Docs : b # c \/ e # d => subSeen'[b][e] = subSeen[b][e]
      BY <2>4, <3>1, TaskSees
    <3> QED
      BY <3>2, <3>3
  <2> QED
    BY <1>1, <1>4, <2>1, <2>2, <2>5, <2>6 DEF TaskRead, TaskDoes, TaskLooked
<1> QED
  BY <1>3, <1>4 DEF TaskRead

LEMMA TaskWriteDoes ==
    ASSUME FoldersTypeOK, CallsPlaced, NEW c \in FCalls, NEW d \in Docs, TaskWrite(c, d)
    PROVE  TaskDoes(c, d)
<1>1. OthersTyped /\ sub[c][d] = "write" /\ TasksPlaced(c) /\ want \in [FolderIds -> SUBSET Docs]
  BY DEF FoldersTypeOK, OthersTyped, CallsPlaced, TaskWrite
<1>2. fcall[c].f \in FolderIds
  BY <1>1 DEF TasksPlaced
<1>3. CASE sub' = [sub EXCEPT ![c][d] = "failed"] /\ UNCHANGED <<folders, docs, want, apart>>
  <2>1. "failed" \in SubSts
    BY DEF SubSts
  <2>2. sub'[c][d] = "failed" /\ OtherTasks(c, d)
    BY <1>1, <1>3, <2>1, TaskBecomes
  <2> QED
    BY <1>1, <1>3, <2>2 DEF TaskWrite, TaskDoes, TaskFailed
<1>4. CASE ~(sub' = [sub EXCEPT ![c][d] = "failed"] /\ UNCHANGED <<folders, docs, want, apart>>)
  <2>1. PICK f : f = fcall[c].f
    OBVIOUS
  <2>2. PICK L : L = subSeen[c][d] \ {d}
    OBVIOUS
  <2>3. PICK W : W = want[f] \ {d}
    OBVIOUS
  <2>4. /\ folders[f] # None /\ folders' = [folders EXCEPT ![f].docs = L]
        /\ SetFolderName(d, None) /\ want' = [want EXCEPT ![f] = W]
        /\ apart' = apart \cup (Disturbed(f, subSeen[c][d]) \ {d})
                          \cup (IF Listing(d) \ {f} # {} THEN {d} ELSE {})
        /\ sub' = [sub EXCEPT ![c][d] = "removed"]
        /\ UNCHANGED <<fcall, subSeen, used, crossed, raced>>
    BY <1>4, <2>1, <2>2, <2>3 DEF TaskWrite
  <2>5. L \in SUBSET Docs /\ "removed" \in SubSts
    BY <1>1, <2>2 DEF OthersTyped, SubSts
  <2>6. /\ folders'[f] # None /\ folders'[f].docs = L /\ folders'[f].name = folders[f].name
        /\ \A g \in FolderIds \ {f} : folders'[g] = folders[g]
    BY <1>1, <1>2, <2>1, <2>4, <2>5, RelistTyped
  <2>7. want'[f] = W /\ \A g \in FolderIds \ {f} : want'[g] = want[g]
    BY <1>1, <1>2, <2>1, <2>4
  <2>8. Relisted(f, L)
    BY <2>4, <2>6, <2>7 DEF Relisted, SameList
  <2>9. sub'[c][d] = "removed" /\ OtherTasks(c, d)
    BY <1>1, <2>4, <2>5, TaskBecomes
  <2> QED
    BY <1>1, <2>1, <2>2, <2>3, <2>4, <2>7, <2>8, <2>9 DEF TaskDoes, TaskListed
<1> QED
  BY <1>3, <1>4

LEMMA TaskPurgeDoes ==
    ASSUME FoldersTypeOK, CallsPlaced, NEW c \in FCalls, NEW d \in Docs, TaskPurge(c, d)
    PROVE  TaskDoes(c, d)
<1>1. OthersTyped /\ fcall[c].pc = "purge" /\ sub[c][d] = "removed"
  BY DEF FoldersTypeOK, OthersTyped, TaskPurge
<1>2. CASE Exists(d) /\ docs' = [docs EXCEPT ![d] = None] /\ sub' = [sub EXCEPT ![c][d] = "gone"]
  <2>1. "gone" \in SubSts
    BY DEF SubSts
  <2>2. sub'[c][d] = "gone" /\ OtherTasks(c, d)
    BY <1>1, <1>2, <2>1, TaskBecomes
  <2> QED
    BY <1>1, <1>2, <2>2 DEF TaskPurge, TaskDoes, TaskPurged
<1>3. CASE sub' = [sub EXCEPT ![c][d] = "missing"] /\ UNCHANGED docs
  <2>1. "missing" \in SubSts
    BY DEF SubSts
  <2>2. sub'[c][d] = "missing" /\ OtherTasks(c, d)
    BY <1>1, <1>3, <2>1, TaskBecomes
  <2> QED
    BY <1>1, <1>3, <2>2 DEF TaskPurge, TaskDoes, TaskMissed
<1> QED
  BY <1>2, <1>3 DEF TaskPurge

\* Every step of the folder calls is one of the above.
LEMMA FoldersAdvance ==
    ASSUME FoldersTypeOK, CallsPlaced, FoldersNext
    PROVE  \/ FoldersCrash
           \/ \E c \in FCalls : \E k : Turns(c, k) /\ CallDoes(c, k)
           \/ \E c \in FCalls, d \in Docs : TaskDoes(c, d)
<1>1. CASE FoldersCrash
  BY <1>1
<1>2. ASSUME NEW c \in FCalls, CallStep(c)
      PROVE  \E k : Turns(c, k) /\ CallDoes(c, k)
  <2>1. PICK k : Turns(c, k)
    BY <1>2, CallTurns
  <2>2. k = fcall'[c]
    BY <2>1, CallAfter
  <2>3. CASE StartCreate(c) \/ StartDelete(c) \/ StartIngest(c) \/ StartMove(c)
    BY <2>1, <2>2, <2>3, StartDoes DEF CallDoes
  <2>4. CASE CheckName(c) \/ InsertFolder(c)
    BY <2>1, <2>2, <2>4, NameDoes DEF CallDoes
  <2>5. CASE LookupFolder(c)
    BY <2>1, <2>2, <2>5, LookupDoes DEF CallDoes
  <2>6. CASE ReadFolder(c) \/ ReadDocument(c)
    BY <2>1, <2>2, <2>6, ReadListDoes DEF CallDoes
  <2>7. CASE WriteList(c)
    BY <2>1, <2>2, <2>7, WriteListDoes DEF CallDoes
  <2>8. CASE Emptied(c) \/ Purged(c) \/ DropFolder(c) \/ IngestRow(c)
    BY <2>1, <2>2, <2>8, EndDoes DEF CallDoes
  <2> QED
    BY <1>2, <2>3, <2>4, <2>5, <2>6, <2>7, <2>8 DEF CallStep
<1>3. ASSUME NEW c \in FCalls, NEW d \in Docs, TaskRead(c, d) \/ TaskWrite(c, d) \/ TaskPurge(c, d)
      PROVE  TaskDoes(c, d)
  BY <1>3, TaskReadDoes, TaskWriteDoes, TaskPurgeDoes
<1>4. CASE \E c \in FCalls : FoldersStep(c)
  <2>1. PICK c \in FCalls : FoldersStep(c)
    BY <1>4
  <2>2. CASE CallStep(c)
    BY <1>2, <2>2
  <2>3. CASE \E d \in Docs : TaskRead(c, d) \/ TaskWrite(c, d) \/ TaskPurge(c, d)
    BY <1>3, <2>3
  <2> QED
    BY <2>1, <2>2, <2>3 DEF FoldersStep, CallStep
<1> QED
  BY <1>1, <1>4 DEF FoldersNext

-----------------------------------------------------------------------------
(* What is gone stays so.                                                  *)

\* A row is made by the ingestion of its document, and by nothing else.
LEMMA BirthIsDue ==
    ASSUME BaseInv, FoldersNext, IngestStores, NEW d \in Docs, Exists(d)', ~Exists(d)
    PROVE  Unborn(d)
<1>1. docs \in [Docs -> Snapshot] /\ CallsPlaced
  BY DEF BaseInv, UpdateInv, UpdatesTypeOK
<1>2. CASE StoresStay
  BY <1>2 DEF StoresStay, Exists
<1>3. ASSUME NEW e \in Docs, NEW n, Renamed(e, n) PROVE FALSE
  BY <1>1, <1>3 DEF Renamed, Exists
<1>4. ASSUME NEW e \in Docs, Erased(e) PROVE FALSE
  BY <1>1, <1>4 DEF Erased, Exists
<1>5. ASSUME NEW c \in FCalls, IngestRow(c), Born(fcall[c].doc, fcall[c].name)
      PROVE  Unborn(d)
  <2>1. fcall[c].op \in Ingests /\ fcall[c].pc = "row" /\ Placed(fcall[c])
    BY <1>1, <1>5 DEF IngestRow, InStep, CallsPlaced
  <2>2. fcall[c].doc \in Docs /\ PreRow(c)
    BY <2>1 DEF PreRow, Placed, Ingests, Steps
  <2>3. d = fcall[c].doc
    BY <1>1, <1>5, <2>2 DEF Born, Exists
  <2> QED
    BY <2>2, <2>3 DEF Unborn, Pending
<1> QED
  BY <1>2, <1>3, <1>4, <1>5, FolderEffects

LEMMA DeadStays ==
    ASSUME BaseInv, FolderCalls \/ UpdateCalls, NEW d \in Docs, Dead(d)
    PROVE  Dead(d)'
<1>1. CASE FolderCalls
  <2>1. FoldersNext /\ IngestStores
    BY <1>1 DEF FolderCalls
  <2>2. ~Exists(d)'
    BY <2>1, BirthIsDue DEF Dead
  <2>3. ~Unborn(d)'
    BY <2>1, UnbornBefore DEF Dead, BaseInv
  <2> QED
    BY <2>2, <2>3 DEF Dead
<1>2. CASE UpdateCalls
  <2>1. UNCHANGED <<fcall, used>> /\ ~Exists(d)'
    BY <1>2, RowsOnlyGo DEF UpdateCalls, Dead, BaseInv
  <2> QED
    BY <2>1 DEF Dead, Unborn, Pending, PreRow
<1> QED
  BY <1>1, <1>2

\* How the rows of folders change.
LEMMA FolderRows ==
    ASSUME BaseInv, FoldersNext
    PROVE  \/ UNCHANGED <<folders, want>>
           \/ \E c \in FCalls : \E f : Made(c, fcall'[c], f) /\ fcall'[c].pc # "new"
           \/ \E c \in FCalls : Listed(c, fcall'[c])
           \/ \E c \in FCalls : Dropped(c, fcall'[c])
           \/ \E c \in FCalls, d \in Docs : TaskListed(c, d)
<1>1. FoldersTypeOK /\ CallsPlaced
  BY DEF BaseInv
<1>2. CASE FoldersCrash
  BY <1>2 DEF FoldersCrash
<1>3. ASSUME NEW c \in FCalls, NEW k, Turns(c, k), CallDoes(c, k)
      PROVE  \/ UNCHANGED <<folders, want>> \/ Listed(c, fcall'[c]) \/ Dropped(c, fcall'[c])
             \/ \E f : Made(c, fcall'[c], f) /\ fcall'[c].pc # "new"
  <2>1. k = fcall'[c] /\ k.pc # "new"
    BY <1>1, <1>3, CallAfter DEF Turns, Onward
  <2> QED
    BY <1>3, <2>1 DEF CallDoes, lists, Asked, Took, Joined, FoundFree, Skipped, NoneFound,
                      FoundToEmpty, FoundToList, ReadList, Checked, EmptyingEnds, PurgingEnds,
                      NotDropped, Rowed, NotRowed
<1>4. ASSUME NEW c \in FCalls, NEW d \in Docs, TaskDoes(c, d)
      PROVE  UNCHANGED <<folders, want>> \/ TaskListed(c, d)
  BY <1>4 DEF TaskDoes, TaskLooked, TaskFailed, TaskPurged, TaskMissed
<1> QED
  BY <1>1, <1>2, <1>3, <1>4, FoldersAdvance

LEMMA FoldersNotRevived ==
    ASSUME BaseInv, FoldersNext, NEW f \in FolderIds, f \in used, folders[f] = None
    PROVE  folders'[f] = None
<1>1. CASE UNCHANGED <<folders, want>>
  BY <1>1
<1>2. ASSUME NEW g \in FolderIds, NEW L, Relisted(g, L) PROVE folders'[f] = None
  BY <1>2 DEF Relisted, SameList
<1>3. ASSUME NEW c \in FCalls, Listed(c, fcall'[c]) PROVE folders'[f] = None
  BY <1>3 DEF Listed, Relisted, SameList
<1>4. ASSUME NEW c \in FCalls, NEW d \in Docs, TaskListed(c, d) PROVE folders'[f] = None
  BY <1>4 DEF TaskListed, Relisted, SameList
<1>5. ASSUME NEW c \in FCalls, NEW g, Made(c, fcall'[c], g) PROVE folders'[f] = None
  BY <1>5 DEF Made, SameList
<1>6. ASSUME NEW c \in FCalls, Dropped(c, fcall'[c]) PROVE folders'[f] = None
  BY <1>6 DEF Dropped
<1> QED
  BY <1>1, <1>3, <1>4, <1>5, <1>6, FolderRows

\* The documents that delete_folder has counted as deleted are, and so is a folder
\* it has reported deleted.
GoneStays ==
    /\ \A c \in FCalls, d \in Docs : sub[c][d] = "gone" => Dead(d)
    /\ \A c \in FCalls : fcall[c].op = "delete" /\ fcall[c].pc \in {"drop", "ok"} =>
          \A d \in fcall[c].seen : Dead(d)
    /\ \A c \in FCalls : fcall[c].op = "delete" /\ fcall[c].pc = "ok" => folders[fcall[c].f] = None

LEMMA DeleteWay ==
    ASSUME FoldersTypeOK, CallsPlaced, NEW c \in FCalls, fcall[c].op = "delete", fcall[c].pc \in Steps
    PROVE  fcall[c].pc \in {"lookup", "empty", "purge", "drop"}
<1>1. fcall[c].pc \in Way[fcall[c].op]
  BY DEF CallsPlaced, Placed
<1> QED
  BY <1>1 DEF Way

\* A delete call gets to its last step and to its end in these ways alone.
LEMMA DeleteArrives ==
    ASSUME FoldersTypeOK, CallsPlaced, NEW c \in FCalls, NEW k, Turns(c, k), CallDoes(c, k),
           k.op = "delete", k.pc \in {"drop", "ok"}
    PROVE  PurgingEnds(c, k) \/ Dropped(c, k)
<1>1. fcall[c].pc = "new" \/ (fcall[c].pc \in Steps /\ fcall[c].op = "delete")
  BY DEF Turns, Onward
<1>2. fcall[c].pc \in {"new", "lookup", "empty", "purge", "drop"}
  BY <1>1, DeleteWay
<1>3. CASE fcall[c].pc = "new"
  BY <1>3 DEF CallDoes, Asked, Took, Joined, FoundFree, Skipped, Made, NoneFound, FoundToEmpty,
              FoundToList, ReadList, Checked, Listed, EmptyingEnds, PurgingEnds, Dropped,
              NotDropped, Rowed, NotRowed, Ingests
<1>4. CASE fcall[c].pc # "new"
  BY <1>1, <1>2, <1>4
     DEF CallDoes, Asked, Took, Joined, FoundFree, Skipped, Made, NoneFound, FoundToEmpty,
         FoundToList, ReadList, Checked, Listed, EmptyingEnds, PurgingEnds, Dropped,
         NotDropped, Rowed, NotRowed, Ingests
<1> QED
  BY <1>3, <1>4

LEMMA GoneTasks ==
    ASSUME BaseInv, FolderCalls, NEW c \in FCalls, NEW d \in Docs, sub'[c][d] = "gone"
    PROVE  sub[c][d] = "gone" \/ Dead(d)'
<1>1. /\ FoldersTypeOK /\ CallsPlaced /\ IdsAreFresh /\ docs \in [Docs -> Snapshot]
      /\ FoldersNext /\ IngestStores
  BY DEF BaseInv, UpdateInv, UpdatesTypeOK, FolderCalls
<1>2. CASE FoldersCrash
  BY <1>1, <1>2, CrashTypes
<1>3. ASSUME NEW b \in FCalls, CallStep(b) PROVE sub[c][d] = "gone"
  BY <1>1, <1>3, TasksMade
<1>4. ASSUME NEW b \in FCalls, NEW e \in Docs, TaskDoes(b, e)
      PROVE  sub[c][d] = "gone" \/ Dead(d)'
  <2>1. CASE b # c \/ e # d
    BY <1>4, <2>1 DEF TaskDoes, OtherTasks
  <2>2. CASE b = c /\ e = d
    <3>1. TaskPurged(c, d)
      BY <1>4, <2>2 DEF TaskDoes, TaskLooked, TaskFailed, TaskListed, TaskMissed
    <3>2. Exists(d) /\ ~Exists(d)'
      BY <1>1, <3>1 DEF TaskPurged, Exists
    <3>3. ~Unborn(d)'
      BY <1>1, <3>2, UnbornBefore DEF IdsAreFresh
    <3> QED
      BY <3>2, <3>3 DEF Dead
  <2> QED
    BY <2>1, <2>2
<1>5. ASSUME NEW b \in FCalls, NEW e \in Docs, TaskRead(b, e) \/ TaskWrite(b, e) \/ TaskPurge(b, e)
      PROVE  TaskDoes(b, e)
  BY <1>1, <1>5, TaskReadDoes, TaskWriteDoes, TaskPurgeDoes
<1> QED
  BY <1>1, <1>2, <1>3, <1>4, <1>5 DEF FoldersNext, FoldersStep, CallStep

LEMMA FolderCallsKeepGone ==
    ASSUME BaseInv, GoneStays, FolderCalls PROVE GoneStays'
<1>1. /\ FoldersTypeOK /\ CallsPlaced /\ IdsAreFresh /\ FoldersNext
      /\ fcall \in [FCalls -> Call]
  BY DEF BaseInv, FolderCalls, FoldersTypeOK
<1>2. \A d \in Docs : Dead(d) => Dead(d)'
  BY DeadStays
<1>3. \A c \in FCalls, d \in Docs : sub'[c][d] = "gone" => Dead(d)'
  BY <1>2, GoneTasks DEF GoneStays
<1>4. ASSUME NEW c \in FCalls, fcall'[c].op = "delete", fcall'[c].pc \in {"drop", "ok"}
      PROVE  /\ \A d \in fcall'[c].seen : Dead(d)'
             /\ fcall'[c].pc = "ok" => folders'[fcall'[c].f] = None
  <2>1. CASE fcall'[c] = fcall[c]
    <3>1. Placed(fcall[c]) /\ fcall[c] \in Call
      BY <1>1 DEF CallsPlaced
    <3>2. fcall[c].f \in FolderIds /\ fcall[c].seen \in SUBSET Docs
      BY <1>4, <2>1, <3>1 DEF Placed, Call
    <3>3. None \notin FolderIds
      BY FoldersAssumption
    <3>4. fcall[c].f \in used
      BY <1>1, <3>2, <3>3 DEF IdsAreFresh
    <3> QED
      BY <1>1, <1>2, <1>4, <2>1, <3>2, <3>4, FoldersNotRevived DEF GoneStays
  <2>2. ASSUME NEW k, Turns(c, k), CallDoes(c, k)
        PROVE  /\ \A d \in fcall'[c].seen : Dead(d)'
               /\ fcall'[c].pc = "ok" => folders'[fcall'[c].f] = None
    <3>1. k = fcall'[c] /\ k \in Call
      BY <1>1, <2>2, CallAfter DEF Turns, Onward
    <3>2. PurgingEnds(c, k) \/ Dropped(c, k)
      BY <1>1, <1>4, <2>2, <3>1, DeleteArrives
    <3>3. k.seen = fcall[c].seen /\ k.f = fcall[c].f
      BY <2>2, <3>2 DEF Turns, Onward, PurgingEnds, Dropped
    <3>4. k.seen \in SUBSET Docs
      BY <3>1 DEF Call
    <3>5. \A d \in k.seen : Dead(d)
      BY <1>4, <3>1, <3>2, <3>3, <3>4 DEF PurgingEnds, Dropped, GoneStays
    <3>6. k.pc = "ok" => folders'[k.f] = None
      BY <3>2, <3>3 DEF PurgingEnds, Dropped
    <3> QED
      BY <1>2, <3>1, <3>4, <3>5, <3>6
  <2>3. CASE FoldersCrash
    BY <1>1, <1>4, <2>1, <2>3, CrashTypes DEF Call, FoldersCrash
  <2>4. ASSUME NEW b \in FCalls, NEW k, b # c, Turns(b, k) PROVE fcall'[c] = fcall[c]
    BY <1>1, <2>4, CallAfter
  <2>5. ASSUME NEW b \in FCalls, NEW d \in Docs, TaskDoes(b, d) PROVE fcall'[c] = fcall[c]
    BY <2>5 DEF TaskDoes
  <2> QED
    BY <1>1, <2>1, <2>2, <2>3, <2>4, <2>5, FoldersAdvance
<1> QED
  BY <1>3, <1>4 DEF GoneStays

LEMMA NextKeepsGone ==
    ASSUME BaseInv, GoneStays, [Next]_vars PROVE GoneStays'
<1>1. CASE UpdateCalls
  <2>1. UNCHANGED <<folders, fcall, sub>>
    BY <1>1 DEF UpdateCalls
  <2>2. \A d \in Docs : Dead(d) => Dead(d)'
    BY <1>1, DeadStays
  <2>3. \A c \in FCalls : fcall[c].seen \in SUBSET Docs
    BY DEF BaseInv, FoldersTypeOK, Call
  <2> QED
    BY <2>1, <2>2, <2>3 DEF GoneStays
<1>2. CASE UNCHANGED vars
  <2>1. UNCHANGED <<folders, fcall, sub, docs, used>>
    BY <1>2 DEF vars, folderVars
  <2> QED
    BY <2>1 DEF GoneStays, Dead, Unborn, Pending, PreRow, Exists
<1> QED
  BY <1>1, <1>2, FolderCallsKeepGone DEF Next

\* delete_folder: one that reports success has left neither the folder nor a row of
\* the documents it listed at the start, and no late write of another call brings
\* them back.
THEOREM DeletedFoldersStayGone == Spec => []DeletedFoldersAreGone
<1>1. Init => GoneStays
  <2>1. ASSUME Init
        PROVE  /\ fcall = [c \in FCalls |-> NewCall("create")]
               /\ sub = [c \in FCalls |-> [d \in Docs |-> "none"]]
    BY <2>1 DEF Init, FoldersInit, NoSub
  <2> QED
    BY <2>1 DEF GoneStays, NewCall
<1>2. GoneStays => DeletedFoldersAreGone
  BY DEF GoneStays, DeletedFoldersAreGone, InStep, Dead
<1> QED
  BY <1>1, <1>2, InitBase, NextKeepsBase, NextKeepsGone, PTL DEF Spec

-----------------------------------------------------------------------------
(* Names and lists go wrong by overlapping calls alone.                    *)

\* A name that no two calls found free at once has one folder at most, and none
\* while a call is about to make one.
NamesInv ==
    \A n \in Names \ raced :
       /\ \A f, g \in Named(n) : f = g
       /\ \A c \in FCalls : fcall[c].name = n /\ fcall[c].pc = "insert" =>
             /\ Named(n) = {}
             /\ \A b \in FCalls : fcall[b].name = n /\ fcall[b].pc = "insert" => b = c

\* How a call record changes that a step leaves, or puts, at pc.
LEMMA CallComes ==
    ASSUME BaseInv, FoldersNext, NEW c \in FCalls, fcall'[c] # fcall[c],
           ~FoldersCrash \/ fcall'[c].pc # "crashed"
    PROVE  /\ Turns(c, fcall'[c]) /\ CallDoes(c, fcall'[c])
           /\ \A b \in FCalls \ {c} : fcall'[b] = fcall[b]
<1>1. FoldersTypeOK /\ CallsPlaced
  BY DEF BaseInv
<1>2. CASE FoldersCrash
  BY <1>1, <1>2 DEF FoldersCrash, FoldersTypeOK, Call
<1>3. ASSUME NEW b \in FCalls, NEW k, Turns(b, k), CallDoes(b, k)
      PROVE  /\ Turns(c, fcall'[c]) /\ CallDoes(c, fcall'[c])
             /\ \A a \in FCalls \ {c} : fcall'[a] = fcall[a]
  <2>1. /\ k = fcall'[b]
        /\ \A a \in FCalls \ {b} : fcall'[a] = fcall[a]
    BY <1>1, <1>3, CallAfter
  <2>2. b = c
    BY <2>1
  <2> QED
    BY <1>3, <2>1, <2>2
<1> QED
  BY <1>1, <1>2, <1>3, FoldersAdvance DEF TaskDoes

LEMMA Inserting ==
    ASSUME BaseInv, FoldersNext, NEW c \in FCalls, fcall'[c].pc = "insert"
    PROVE  \/ fcall'[c] = fcall[c]
           \/ /\ FoundFree(c, fcall'[c]) /\ fcall'[c].name = fcall[c].name
              /\ \A b \in FCalls \ {c} : fcall'[b] = fcall[b]
<1>1. CASE fcall'[c] # fcall[c]
  <2>1. /\ Turns(c, fcall'[c]) /\ CallDoes(c, fcall'[c])
        /\ \A b \in FCalls \ {c} : fcall'[b] = fcall[b]
    BY <1>1, CallComes
  <2>2. FoundFree(c, fcall'[c])
    BY <2>1 DEF CallDoes, Asked, Took, Joined, Skipped, Made, NoneFound, FoundToEmpty, FoundToList,
                ReadList, Checked, Listed, EmptyingEnds, PurgingEnds, Dropped, NotDropped, Rowed,
                NotRowed
  <2>3. fcall'[c].name = fcall[c].name
    BY <2>1, <2>2 DEF FoundFree, Turns, Onward
  <2> QED
    BY <2>1, <2>2, <2>3
<1> QED
  BY <1>1

LEMMA NamedAfter ==
    ASSUME BaseInv, FoldersNext, NEW n
    PROVE  \/ Named(n)' \subseteq Named(n)
           \/ \E c \in FCalls : \E f :
                 /\ Made(c, fcall'[c], f) /\ fcall[c].name = n
                 /\ Named(n)' \subseteq Named(n) \cup {f}
<1>1. CASE UNCHANGED <<folders, want>>
  BY <1>1 DEF Named
<1>2. ASSUME NEW g, NEW L, Relisted(g, L) PROVE Named(n)' \subseteq Named(n)
  BY <1>2 DEF Relisted, SameList, Named
<1>3. ASSUME NEW c \in FCalls, Listed(c, fcall'[c]) PROVE Named(n)' \subseteq Named(n)
  BY <1>2, <1>3 DEF Listed
<1>4. ASSUME NEW c \in FCalls, NEW d \in Docs, TaskListed(c, d) PROVE Named(n)' \subseteq Named(n)
  BY <1>2, <1>4 DEF TaskListed
<1>5. ASSUME NEW c \in FCalls, Dropped(c, fcall'[c]) PROVE Named(n)' \subseteq Named(n)
  BY <1>5 DEF Dropped, Named
<1>6. ASSUME NEW c \in FCalls, NEW f, Made(c, fcall'[c], f)
      PROVE  \/ Named(n)' \subseteq Named(n)
             \/ fcall[c].name = n /\ Named(n)' \subseteq Named(n) \cup {f}
  <2>1. /\ folders'[f].name = fcall[c].name
        /\ \A g \in FolderIds \ {f} : folders'[g] = folders[g]
    BY <1>6 DEF Made, SameList
  <2> QED
    BY <2>1 DEF Named
<1> QED
  BY <1>1, <1>3, <1>4, <1>5, <1>6, FolderRows

LEMMA FolderCallsKeepNames ==
    ASSUME BaseInv, NamesInv, FoldersNext PROVE NamesInv'
<1>1. raced \subseteq raced'
  <2>1. CASE FoldersCrash
    BY <2>1 DEF FoldersCrash
  <2>2. ASSUME NEW c \in FCalls, NEW k, CallDoes(c, k) PROVE raced \subseteq raced'
    BY <2>2 DEF CallDoes, lists, Asked, Took, Joined, FoundFree, Skipped, Made, NoneFound, FoundToEmpty,
                FoundToList, ReadList, Checked, Listed, EmptyingEnds, PurgingEnds, Dropped,
                NotDropped, Rowed, NotRowed
  <2>3. ASSUME NEW c \in FCalls, NEW d \in Docs, TaskDoes(c, d) PROVE raced \subseteq raced'
    BY <2>3 DEF TaskDoes, TaskLooked, TaskFailed, TaskListed, TaskPurged, TaskMissed
  <2> QED
    BY <2>1, <2>2, <2>3, FoldersAdvance DEF BaseInv
<1> SUFFICES ASSUME NEW n \in Names \ raced'
             PROVE  /\ \A f, g \in Named(n)' : f = g
                    /\ \A c \in FCalls : fcall'[c].name = n /\ fcall'[c].pc = "insert" =>
                          /\ Named(n)' = {}
                          /\ \A b \in FCalls : fcall'[b].name = n /\ fcall'[b].pc = "insert" => b = c
  BY DEF NamesInv
<1>2. /\ \A f, g \in Named(n) : f = g
      /\ \A c \in FCalls : fcall[c].name = n /\ fcall[c].pc = "insert" =>
            /\ Named(n) = {}
            /\ \A b \in FCalls : fcall[b].name = n /\ fcall[b].pc = "insert" => b = c
  BY <1>1 DEF NamesInv
<1>3. \A f, g \in Named(n)' : f = g
  <2>1. CASE Named(n)' \subseteq Named(n)
    BY <1>2, <2>1
  <2>2. ASSUME NEW c \in FCalls, NEW f, Made(c, fcall'[c], f), fcall[c].name = n,
               Named(n)' \subseteq Named(n) \cup {f}
        PROVE  \A g, h \in Named(n)' : g = h
    <3>1. Named(n) = {}
      BY <1>2, <2>2 DEF Made
    <3> QED
      BY <2>2, <3>1
  <2> QED
    BY <2>1, <2>2, NamedAfter
<1>4. ASSUME NEW c \in FCalls, fcall'[c].name = n, fcall'[c].pc = "insert" PROVE Named(n)' = {}
  <2>1. Named(n) = {}
    BY <1>2, <1>4, Inserting DEF FoundFree
  <2>2. ASSUME NEW b \in FCalls, NEW f, Made(b, fcall'[b], f), fcall[b].name = n PROVE FALSE
    <3>1. fcall[b].pc = "insert" /\ fcall'[b].pc \in {"row", "ok"} /\ used' # used
      BY <2>2 DEF Made
    <3>2. b # c
      BY <1>4, <3>1
    <3>3. fcall'[c] = fcall[c]
      BY <1>4, <3>1, Inserting DEF FoundFree
    <3> QED
      BY <1>2, <1>4, <2>2, <3>1, <3>2, <3>3
  <2> QED
    BY <2>1, <2>2, NamedAfter
<1>5. ASSUME NEW c \in FCalls, fcall'[c].name = n, fcall'[c].pc = "insert",
             NEW b \in FCalls, fcall'[b].name = n, fcall'[b].pc = "insert", b # c
      PROVE  FALSE
  <2>1. ASSUME NEW x \in FCalls, NEW y \in FCalls \ {x}, FoundFree(x, fcall'[x]), fcall[x].name = n,
               fcall'[y] = fcall[y], fcall'[y].name = n, fcall'[y].pc = "insert"
        PROVE  n \in raced'
    BY <2>1 DEF FoundFree
  <2>2. CASE fcall'[c] = fcall[c] /\ fcall'[b] = fcall[b]
    BY <1>2, <1>5, <2>2
  <2>3. CASE fcall'[c] # fcall[c]
    BY <1>5, <2>1, <2>3, Inserting
  <2>4. CASE fcall'[b] # fcall[b]
    BY <1>5, <2>1, <2>4, Inserting
  <2> QED
    BY <2>2, <2>3, <2>4
<1> QED
  BY <1>3, <1>4, <1>5

\* A folder that no two calls worked on at once has at most one call at work on it,
\* with one task at most, and what that call has read is still the list.
ListsInv ==
    \A f \in FolderIds \ crossed :
       /\ folders[f] # None => folders[f].docs = want[f]
       /\ \A b, c \in FCalls : WorksOn(b, f) /\ WorksOn(c, f) => b = c
       /\ \A c \in FCalls :
             fcall[c].f = f /\ fcall[c].pc \in {"readDoc", "write"} /\ folders[f] # None =>
                fcall[c].seen = folders[f].docs
       /\ \A c \in FCalls, d \in Docs :
             fcall[c].f = f /\ sub[c][d] = "write" /\ folders[f] # None =>
                subSeen[c][d] = folders[f].docs
       /\ \A c \in FCalls, d, e \in Docs :
             fcall[c].f = f /\ sub[c][d] # "none" /\ sub[c][e] # "none" => d = e

\* Call c starts to work on folder f.
Enters(c, f) ==
    /\ fcall'[c].f = f
    /\ Joined(c, fcall'[c]) \/ FoundToEmpty(c, fcall'[c]) \/ FoundToList(c, fcall'[c])
    /\ \A b \in FCalls \ {c} : fcall'[b] = fcall[b] /\ sub'[b] = sub[b]

LEMMA TasksAfter ==
    ASSUME BaseInv, FoldersNext, NEW c \in FCalls, NEW d \in Docs
    PROVE  \/ sub'[c][d] = "none"
           \/ sub'[c][d] = sub[c][d] /\ subSeen'[c][d] = subSeen[c][d]
           \/ FoundToEmpty(c, fcall'[c])
           \/ TaskDoes(c, d)
<1>1. FoldersTypeOK /\ CallsPlaced
  BY DEF BaseInv
<1>2. CASE FoldersCrash
  BY <1>1, <1>2, CrashTypes
<1>3. ASSUME NEW b \in FCalls, NEW k, Turns(b, k), CallDoes(b, k)
      PROVE  \/ sub'[c][d] = sub[c][d] /\ subSeen'[c][d] = subSeen[c][d]
             \/ FoundToEmpty(c, fcall'[c])
  <2>1. k = fcall'[b]
    BY <1>1, <1>3, CallAfter
  <2>2. CASE FoundToEmpty(b, k)
    BY <2>1, <2>2 DEF FoundToEmpty
  <2>3. CASE ~FoundToEmpty(b, k)
    <3>1. UNCHANGED <<sub, subSeen>>
      BY <1>3, <2>3
         DEF CallDoes, lists, Asked, Took, Joined, FoundFree, Skipped, Made, NoneFound, FoundToList,
             ReadList, Checked, Listed, EmptyingEnds, PurgingEnds, Dropped, NotDropped, Rowed,
             NotRowed
    <3> QED
      BY <3>1
  <2> QED
    BY <2>2, <2>3
<1>4. ASSUME NEW b \in FCalls, NEW e \in Docs, TaskDoes(b, e), b # c \/ e # d
      PROVE  sub'[c][d] = sub[c][d] /\ subSeen'[c][d] = subSeen[c][d]
  BY <1>4 DEF TaskDoes, OtherTasks, TaskLooked, TaskFailed, TaskListed, TaskPurged, TaskMissed
<1> QED
  BY <1>1, <1>2, <1>3, <1>4, FoldersAdvance

LEMMA WorksAfter ==
    ASSUME BaseInv, FoldersNext, NEW c \in FCalls, NEW f \in FolderIds, WorksOn(c, f)'
    PROVE  WorksOn(c, f) \/ Enters(c, f)
<1>1. FoldersTypeOK /\ CallsPlaced /\ None \notin FolderIds
  BY FoldersAssumption DEF BaseInv
<1>2. /\ fcall'[c].f = f
      /\ fcall'[c].pc \in Steps \/ \E d \in Docs : sub'[c][d] \in {"read", "write"}
  BY DEF WorksOn
<1>3. CASE FoldersCrash
  <2>1. fcall'[c].pc \notin Steps
    BY <1>1, <1>3, CrashTypes DEF Steps
  <2> QED
    BY <1>1, <1>2, <1>3, <2>1, CrashTypes
<1>4. CASE fcall'[c] # fcall[c] /\ ~FoldersCrash
  <2>2. /\ Turns(c, fcall'[c]) /\ CallDoes(c, fcall'[c])
        /\ \A b \in FCalls \ {c} : fcall'[b] = fcall[b]
    BY <1>4, CallComes
  <2>3. CASE Joined(c, fcall'[c]) \/ FoundToEmpty(c, fcall'[c]) \/ FoundToList(c, fcall'[c])
    BY <1>2, <2>2, <2>3 DEF Enters, Joined, FoundToEmpty, FoundToList
  <2>4. CASE Asked(c, fcall'[c]) \/ Took(c, fcall'[c])
    BY <1>1, <1>2, <2>4 DEF Asked, Took
  <2>5. CASE ~Joined(c, fcall'[c]) /\ ~FoundToEmpty(c, fcall'[c]) /\ ~FoundToList(c, fcall'[c])
             /\ ~Asked(c, fcall'[c]) /\ ~Took(c, fcall'[c])
    <3>1. fcall[c].pc # "new" /\ (fcall[c].pc = "lookup" => fcall'[c].f = fcall[c].f)
      BY <2>2, <2>5
         DEF CallDoes, FoundFree, Skipped, Made, NoneFound, ReadList, Checked, Listed, EmptyingEnds,
             PurgingEnds, Dropped, NotDropped, Rowed, NotRowed
    <3>2. fcall[c].pc \in Steps /\ fcall'[c].f = fcall[c].f
      BY <2>2, <3>1 DEF Turns, Onward
    <3> QED
      BY <1>2, <3>2 DEF WorksOn
  <2> QED
    BY <2>3, <2>4, <2>5
<1>5. CASE fcall'[c] = fcall[c] /\ ~FoldersCrash
  <2>1. CASE fcall'[c].pc \in Steps
    BY <1>2, <1>5, <2>1 DEF WorksOn
  <2>2. ASSUME NEW d \in Docs, sub'[c][d] \in {"read", "write"} PROVE WorksOn(c, f)
    <3>1. ~FoundToEmpty(c, fcall'[c])
      BY <1>5 DEF FoundToEmpty
    <3>2. sub[c][d] \in {"read", "write"}
      BY <2>2, <3>1, TasksAfter
         DEF TaskDoes, TaskLooked, TaskFailed, TaskListed, TaskPurged, TaskMissed
    <3> QED
      BY <1>2, <1>5, <3>2 DEF WorksOn
  <2> QED
    BY <1>2, <2>1, <2>2
<1> QED
  BY <1>3, <1>4, <1>5

LEMMA ListAfter ==
    ASSUME BaseInv, FoldersNext, NEW f \in FolderIds
    PROVE  \/ SameList(f)
           \/ \E c \in FCalls : Made(c, fcall'[c], f)
           \/ \E c \in FCalls : Listed(c, fcall'[c]) /\ fcall[c].f = f
           \/ \E c \in FCalls : Dropped(c, fcall'[c]) /\ fcall[c].f = f
           \/ \E c \in FCalls, d \in Docs : TaskListed(c, d) /\ fcall[c].f = f
<1>1. CASE UNCHANGED <<folders, want>>
  BY <1>1 DEF SameList
<1>2. ASSUME NEW c \in FCalls, NEW g, Made(c, fcall'[c], g), g # f PROVE SameList(f)
  BY <1>2 DEF Made
<1>3. ASSUME NEW c \in FCalls, Listed(c, fcall'[c]), fcall[c].f # f PROVE SameList(f)
  BY <1>3 DEF Listed, Relisted
<1>4. ASSUME NEW c \in FCalls, Dropped(c, fcall'[c]), fcall[c].f # f PROVE SameList(f)
  BY <1>4 DEF Dropped, SameList
<1>5. ASSUME NEW c \in FCalls, NEW d \in Docs, TaskListed(c, d), fcall[c].f # f PROVE SameList(f)
  BY <1>5 DEF TaskListed, Relisted
<1> QED
  BY <1>1, <1>2, <1>3, <1>4, <1>5, FolderRows

LEMMA CrossedGrows ==
    ASSUME BaseInv, FoldersNext
    PROVE  /\ crossed \subseteq crossed'
           /\ \A c \in FCalls, f \in FolderIds : Enters(c, f) => Crossing(c, f) \subseteq crossed'
<1>1. ASSUME FoldersCrash PROVE crossed \subseteq crossed'
  BY <1>1 DEF FoldersCrash
<1>2. ASSUME NEW c \in FCalls, NEW k, CallDoes(c, k) PROVE crossed \subseteq crossed'
  BY <1>2 DEF CallDoes, lists, Asked, Took, Joined, FoundFree, Skipped, Made, NoneFound, FoundToEmpty,
              FoundToList, ReadList, Checked, Listed, EmptyingEnds, PurgingEnds, Dropped,
              NotDropped, Rowed, NotRowed
<1>3. ASSUME NEW c \in FCalls, NEW d \in Docs, TaskDoes(c, d) PROVE crossed \subseteq crossed'
  BY <1>3 DEF TaskDoes, TaskLooked, TaskFailed, TaskListed, TaskPurged, TaskMissed
<1>4. ASSUME NEW c \in FCalls, NEW f \in FolderIds, Enters(c, f)
      PROVE  Crossing(c, f) \subseteq crossed'
  BY <1>4 DEF Enters, Joined, FoundToEmpty, FoundToList
<1>5. crossed \subseteq crossed'
  <2>1. FoldersTypeOK /\ CallsPlaced
    BY DEF BaseInv
  <2> QED
    BY <1>1, <1>2, <1>3, <2>1, FoldersAdvance
<1>6. \A c \in FCalls, f \in FolderIds : Enters(c, f) => Crossing(c, f) \subseteq crossed'
  BY <1>4
<1> QED
  BY <1>5, <1>6

\* A set without two elements.
LEMMA FewAreEqual ==
    ASSUME NEW S, IsFiniteSet(S), ~(Cardinality(S) > 1), NEW x \in S, NEW y \in S
    PROVE  x = y
<1> SUFFICES ASSUME x # y PROVE FALSE
  OBVIOUS
<1>1. IsFiniteSet({x}) /\ Cardinality({x}) = 1
  BY FS_Singleton
<1>2. Cardinality({x} \cup {y}) = Cardinality({x}) + 1
  BY <1>1, FS_AddElement
<1>3. {x} \cup {y} \in SUBSET S
  OBVIOUS
<1>4. Cardinality({x} \cup {y}) <= Cardinality(S)
  BY <1>3, FS_Subset
<1>5. Cardinality(S) \in Nat
  BY FS_CardinalityType
<1> QED
  BY <1>1, <1>2, <1>4, <1>5

LEMMA FolderCallsKeepLists ==
    ASSUME BaseInv, ListsInv, FoldersNext PROVE ListsInv'
<1>1. /\ FoldersTypeOK /\ CallsPlaced /\ IdsAreFresh /\ None \notin FolderIds
      /\ FoldersTypeOK' /\ CallsPlaced'
  BY FoldersAssumption, FoldersKeepTypes DEF BaseInv
<1> SUFFICES ASSUME NEW f \in FolderIds \ crossed'
             PROVE  /\ folders'[f] # None => folders'[f].docs = want'[f]
                    /\ \A b, c \in FCalls : WorksOn(b, f)' /\ WorksOn(c, f)' => b = c
                    /\ \A c \in FCalls :
                          fcall'[c].f = f /\ fcall'[c].pc \in {"readDoc", "write"} /\ folders'[f] # None =>
                             fcall'[c].seen = folders'[f].docs
                    /\ \A c \in FCalls, d \in Docs :
                          fcall'[c].f = f /\ sub'[c][d] = "write" /\ folders'[f] # None =>
                             subSeen'[c][d] = folders'[f].docs
                    /\ \A c \in FCalls, d, e \in Docs :
                          fcall'[c].f = f /\ sub'[c][d] # "none" /\ sub'[c][e] # "none" => d = e
  BY DEF ListsInv
<1>2. f \notin crossed /\ \A c \in FCalls : Enters(c, f) => f \notin Crossing(c, f)
  BY CrossedGrows
<1>3. /\ folders[f] # None => folders[f].docs = want[f]
      /\ \A b, c \in FCalls : WorksOn(b, f) /\ WorksOn(c, f) => b = c
      /\ \A c \in FCalls :
            fcall[c].f = f /\ fcall[c].pc \in {"readDoc", "write"} /\ folders[f] # None =>
               fcall[c].seen = folders[f].docs
      /\ \A c \in FCalls, d \in Docs :
            fcall[c].f = f /\ sub[c][d] = "write" /\ folders[f] # None =>
               subSeen[c][d] = folders[f].docs
      /\ \A c \in FCalls, d, e \in Docs :
            fcall[c].f = f /\ sub[c][d] # "none" /\ sub[c][e] # "none" => d = e
  BY <1>2 DEF ListsInv
<1>4. ASSUME NEW c \in FCalls, Enters(c, f), NEW b \in FCalls \ {c} PROVE ~WorksOn(b, f)'
  <2>1. WorksOn(b, f)' => WorksOn(b, f)
    BY <1>4 DEF WorksOn, Enters
  <2> QED
    BY <1>2, <1>4, <2>1 DEF Crossing
<1>5. \A b, c \in FCalls : WorksOn(b, f)' /\ WorksOn(c, f)' => b = c
  BY <1>3, <1>4, WorksAfter
<1>6. ASSUME NEW c \in FCalls, Listed(c, fcall'[c]), fcall[c].f = f
      PROVE  /\ WorksOn(c, f) /\ fcall[c].op # "delete" /\ fcall'[c].pc \notin {"readDoc", "write"}
             /\ folders[f] # None
  <2>1. fcall[c].pc = "write" /\ fcall'[c].pc \in {"row", "ok"} /\ folders[f] # None
    BY <1>6 DEF Listed, Relisted
  <2>2. fcall[c].op # "delete"
    BY <1>1, <2>1, DeleteWay DEF Steps
  <2> QED
    BY <1>6, <2>1, <2>2 DEF WorksOn, Steps
<1>7. ASSUME NEW c \in FCalls, NEW d \in Docs, TaskListed(c, d), fcall[c].f = f
      PROVE  /\ WorksOn(c, f) /\ fcall[c].op = "delete" /\ sub[c][d] = "write" /\ sub'[c][d] = "removed"
             /\ folders[f] # None
  <2>1. sub[c][d] = "write" /\ sub'[c][d] = "removed" /\ folders[f] # None
    BY <1>7 DEF TaskListed, Relisted
  <2>2. fcall[c].op = "delete"
    BY <1>1, <2>1 DEF CallsPlaced, TasksPlaced
  <2> QED
    BY <1>7, <2>1, <2>2 DEF WorksOn
\* Nobody is at work on a folder that comes into being.
<1>8. ASSUME NEW c \in FCalls, Made(c, fcall'[c], f)
      PROVE  \A b \in FCalls : fcall[b].f # f /\ fcall'[b].f # f
  <2>1. f \notin used
    BY <1>8 DEF Made
  <2>2. \A b \in FCalls : fcall[b].f # f
    BY <1>1, <2>1 DEF IdsAreFresh
  <2>3. ASSUME NEW b \in FCalls, fcall'[b].f = f PROVE FALSE
    <3>1. fcall'[b] # fcall[b]
      BY <2>2, <2>3
    <3>2. ~FoldersCrash
      BY <1>8, <2>1 DEF FoldersCrash, Made
    <3>3. Turns(b, fcall'[b]) /\ CallDoes(b, fcall'[b]) /\ \A a \in FCalls \ {b} : fcall'[a] = fcall[a]
      BY <3>1, <3>2, CallComes
    <3>4. b = c
      BY <1>8, <3>3 DEF Made
    <3>5. fcall'[c].f = fcall[c].f
      BY <1>8, <3>3, <3>4 DEF Turns, Onward, Made
    <3> QED
      BY <2>2, <2>3, <3>4, <3>5
  <2> QED
    BY <2>2, <2>3
<1>9. ASSUME folders'[f] # None PROVE folders'[f].docs = want'[f]
  <2>1. CASE SameList(f)
    BY <1>3, <1>9, <2>1 DEF SameList
  <2>2. ASSUME NEW c \in FCalls, Listed(c, fcall'[c]), fcall[c].f = f PROVE folders'[f].docs = want'[f]
    <3>1. fcall[c].seen = folders[f].docs /\ folders[f].docs = want[f]
      BY <1>3, <1>6, <2>2 DEF Listed
    <3> QED
      BY <2>2, <3>1 DEF Listed, Relisted, NewList
  <2>3. ASSUME NEW c \in FCalls, NEW d \in Docs, TaskListed(c, d), fcall[c].f = f
        PROVE  folders'[f].docs = want'[f]
    <3>1. subSeen[c][d] = folders[f].docs /\ folders[f].docs = want[f]
      BY <1>3, <1>7, <2>3
    <3> QED
      BY <2>3, <3>1 DEF TaskListed, Relisted
  <2>4. ASSUME NEW c \in FCalls, Made(c, fcall'[c], f) PROVE folders'[f].docs = want'[f]
    BY <2>4 DEF Made
  <2>5. ASSUME NEW c \in FCalls, Dropped(c, fcall'[c]), fcall[c].f = f PROVE FALSE
    BY <1>9, <2>5 DEF Dropped
  <2> QED
    BY <2>1, <2>2, <2>3, <2>4, <2>5, ListAfter
<1>10. ASSUME NEW c \in FCalls, fcall'[c].f = f, fcall'[c].pc \in {"readDoc", "write"}, folders'[f] # None
       PROVE  fcall'[c].seen = folders'[f].docs
  <2>1. CASE fcall'[c] = fcall[c]
    <3>1. WorksOn(c, f) /\ fcall[c].op # "delete"
      BY <1>1, <1>10, <2>1, DeleteWay DEF WorksOn, Steps
    <3>2. SameList(f)
      BY <1>3, <1>6, <1>7, <1>8, <1>10, <2>1, <3>1, ListAfter DEF Dropped
    <3> QED
      BY <1>3, <1>10, <2>1, <3>2 DEF SameList
  <2>2. CASE fcall'[c] # fcall[c]
    <3>1. Turns(c, fcall'[c]) /\ CallDoes(c, fcall'[c])
      BY <1>10, <2>2, CallComes
    <3>2. ReadList(c, fcall'[c]) \/ Checked(c, fcall'[c])
      BY <1>10, <3>1
         DEF CallDoes, Asked, Took, Joined, FoundFree, Skipped, Made, NoneFound, FoundToEmpty, FoundToList,
             Listed, EmptyingEnds, PurgingEnds, Dropped, NotDropped, Rowed, NotRowed
    <3>3. fcall'[c].f = fcall[c].f /\ UNCHANGED folders
      BY <3>1, <3>2 DEF Turns, Onward, ReadList, Checked, lists
    <3>4. CASE ReadList(c, fcall'[c])
      BY <1>10, <3>3, <3>4 DEF ReadList
    <3>5. CASE Checked(c, fcall'[c])
      <4>1. fcall[c].pc = "readDoc" /\ fcall'[c].seen = fcall[c].seen
        BY <3>1, <3>5 DEF Checked, Turns, Onward
      <4> QED
        BY <1>3, <1>10, <3>3, <4>1
    <3> QED
      BY <3>2, <3>4, <3>5
  <2> QED
    BY <2>1, <2>2
\* A task's call keeps its folder.
<1>11. ASSUME NEW c \in FCalls, NEW d \in Docs, sub[c][d] # "none" PROVE fcall'[c].f = fcall[c].f
  <2>1. Evolves(c) /\ Placed(fcall[c]) /\ fcall[c].f \in FolderIds /\ fcall[c].pc # "new"
    BY <1>1, <1>11, CallsEvolve DEF CallsPlaced, TasksPlaced
  <2> QED
    BY <1>1, <2>1 DEF Evolves, Ended, Onward, Placed
<1>12. ASSUME NEW c \in FCalls, NEW d \in Docs, fcall'[c].f = f, sub'[c][d] = "write", folders'[f] # None
       PROVE  subSeen'[c][d] = folders'[f].docs
  <2>1. ~FoundToEmpty(c, fcall'[c])
    BY <1>12 DEF FoundToEmpty
  <2>2. CASE TaskDoes(c, d)
    <3>1. TaskLooked(c, d)
      BY <1>12, <2>2 DEF TaskDoes, TaskFailed, TaskListed, TaskPurged, TaskMissed
    <3>2. UNCHANGED <<fcall, folders>>
      BY <2>2, <3>1 DEF TaskDoes, TaskLooked
    <3> QED
      BY <1>12, <3>1, <3>2 DEF TaskLooked
  <2>3. CASE sub'[c][d] = sub[c][d] /\ subSeen'[c][d] = subSeen[c][d]
    <3>1. sub[c][d] = "write" /\ fcall[c].f = f
      BY <1>11, <1>12, <2>3
    <3>2. WorksOn(c, f) /\ fcall[c].op = "delete"
      BY <1>1, <3>1 DEF WorksOn, CallsPlaced, TasksPlaced
    <3>3. ASSUME NEW b \in FCalls, NEW e \in Docs, TaskListed(b, e), fcall[b].f = f PROVE FALSE
      <4>1. b = c /\ sub[c][e] = "write" /\ sub'[c][e] = "removed"
        BY <1>3, <1>7, <3>2, <3>3
      <4>2. e = d
        BY <1>3, <3>1, <4>1
      <4> QED
        BY <1>12, <4>1, <4>2
    <3>4. ASSUME NEW b \in FCalls, Listed(b, fcall'[b]), fcall[b].f = f PROVE FALSE
      BY <1>3, <1>6, <3>2, <3>4
    <3>5. SameList(f)
      BY <1>8, <1>12, <3>1, <3>3, <3>4, ListAfter DEF Dropped
    <3> QED
      BY <1>3, <1>12, <2>3, <3>1, <3>5 DEF SameList
  <2> QED
    BY <1>12, <2>1, <2>2, <2>3, TasksAfter
<1>13. ASSUME NEW c \in FCalls, NEW d \in Docs, NEW e \in Docs,
              fcall'[c].f = f, sub'[c][d] # "none", sub'[c][e] # "none"
       PROVE  d = e
  <2>1. CASE FoundToEmpty(c, fcall'[c])
    <3>1. d \in fcall'[c].seen /\ e \in fcall'[c].seen /\ ~(Cardinality(fcall'[c].seen) > 1)
      BY <1>12, <1>13, <2>1 DEF FoundToEmpty
    <3>2. PICK S : S = fcall'[c].seen
      OBVIOUS
    <3>3. S \in SUBSET Docs
      BY <1>1, <3>2 DEF FoldersTypeOK, Call
    <3>4. IsFiniteSet(S)
      BY <3>3, FoldersAssumption, FS_Subset
    <3> QED
      BY <3>1, <3>2, <3>4, FewAreEqual
  <2>2. CASE ~FoundToEmpty(c, fcall'[c])
    <3>1. \A x \in Docs : sub'[c][x] # "none" => sub[c][x] # "none"
      BY <2>2, TasksAfter DEF TaskDoes, TaskLooked, TaskFailed, TaskListed, TaskPurged, TaskMissed
    <3> QED
      BY <1>3, <1>11, <1>13, <3>1
  <2> QED
    BY <2>1, <2>2
<1> QED
  BY <1>5, <1>9, <1>10, <1>12, <1>13

\* The folder name in the row of d is that of the folders that list it.
Agree(d) == {folders[f].name : f \in Listing(d)} = {docs[d].folder} \ NoFolder

LEMMA InitFolders ==
    ASSUME Init
    PROVE  /\ \A f \in FolderIds : folders[f] # None =>
                 /\ folders[f].docs = want[f] /\ folders[f].docs \subseteq {d \in Docs : Exists(d)}
                 /\ \A g \in FolderIds : folders[g] # None => f = g
           /\ \A d \in Docs : Exists(d) => d \in used /\ Agree(d)
<1>1. FoldersInit
  BY DEF Init
<1>2. None \notin FolderIds \cup Folder /\ NoFolder \cap Names = {}
  BY FoldersAssumption, NoneAssumption
<1>3. ASSUME folders = [g \in FolderIds |-> None], want = [g \in FolderIds |-> {}],
             used = {d \in Docs : Exists(d)},
             \A d \in Docs : Exists(d) => docs[d].folder \in NoFolder
      PROVE  /\ \A f \in FolderIds : folders[f] # None =>
                   /\ folders[f].docs = want[f] /\ folders[f].docs \subseteq {d \in Docs : Exists(d)}
                   /\ \A g \in FolderIds : folders[g] # None => f = g
             /\ \A d \in Docs : Exists(d) => d \in used /\ Agree(d)
  BY <1>3 DEF Agree, Listing
<1>4. ASSUME NEW f \in FolderIds, NEW n \in Names, NEW D \in SUBSET {d \in Docs : Exists(d)},
             folders = [g \in FolderIds |->
                          IF g = f THEN [name |-> n, docs |-> D, open |-> TRUE] ELSE None],
             used = {f} \cup {d \in Docs : Exists(d)},
             want = [g \in FolderIds |-> IF g = f THEN D ELSE {}],
             \A d \in Docs : Exists(d) => docs[d].folder \in IF d \in D THEN {n} ELSE NoFolder
      PROVE  /\ \A h \in FolderIds : folders[h] # None =>
                   /\ folders[h].docs = want[h] /\ folders[h].docs \subseteq {d \in Docs : Exists(d)}
                   /\ \A g \in FolderIds : folders[g] # None => h = g
             /\ \A d \in Docs : Exists(d) => d \in used /\ Agree(d)
  <2>1. PICK r : r = [name |-> n, docs |-> D, open |-> TRUE]
    OBVIOUS
  <2>2. r \in Folder /\ r.name = n /\ r.docs = D
    BY <2>1 DEF Folder
  <2>3. /\ folders[f] = r /\ r # None
        /\ \A g \in FolderIds \ {f} : folders[g] = None
    BY <1>2, <1>4, <2>1, <2>2
  <2>4. ASSUME NEW d \in Docs, Exists(d) PROVE Agree(d)
    <3>1. CASE d \in D
      <4>1. Listing(d) = {f}
        BY <2>2, <2>3, <3>1 DEF Listing
      <4>2. docs[d].folder = n
        BY <1>4, <2>4, <3>1
      <4> QED
        BY <1>2, <2>2, <2>3, <4>1, <4>2 DEF Agree
    <3>2. CASE d \notin D
      <4>1. Listing(d) = {}
        BY <2>2, <2>3, <3>2 DEF Listing
      <4>2. docs[d].folder \in NoFolder
        BY <1>4, <2>4, <3>2
      <4> QED
        BY <4>1, <4>2 DEF Agree
    <3> QED
      BY <3>1, <3>2
  <2> QED
    BY <1>4, <2>2, <2>3, <2>4
<1>5. CASE \E f \in FolderIds, n \in Names, D \in SUBSET {d \in Docs : Exists(d)} :
              /\ folders = [g \in FolderIds |->
                              IF g = f THEN [name |-> n, docs |-> D, open |-> TRUE] ELSE None]
              /\ used = {f} \cup {d \in Docs : Exists(d)}
              /\ want = [g \in FolderIds |-> IF g = f THEN D ELSE {}]
              /\ \A d \in Docs :
                    Exists(d) => docs[d].folder \in IF d \in D THEN {n} ELSE NoFolder
  <2>1. PICK f \in FolderIds, n \in Names, D \in SUBSET {d \in Docs : Exists(d)} :
           /\ folders = [g \in FolderIds |->
                           IF g = f THEN [name |-> n, docs |-> D, open |-> TRUE] ELSE None]
           /\ used = {f} \cup {d \in Docs : Exists(d)}
           /\ want = [g \in FolderIds |-> IF g = f THEN D ELSE {}]
           /\ \A d \in Docs :
                 Exists(d) => docs[d].folder \in IF d \in D THEN {n} ELSE NoFolder
    BY <1>5
  <2> QED
    BY <1>4, <2>1
<1> QED
  BY <1>1, <1>3, <1>5, Zenon DEF FoldersInit

LEMMA InitCalls ==
    ASSUME Init, NEW c \in FCalls
    PROVE  /\ fcall[c].pc = "new" /\ fcall[c].op = "create" /\ fcall[c].f = None
           /\ fcall[c].seen = {} /\ fcall[c].doc = None
           /\ \A d \in Docs : sub[c][d] = "none" /\ subSeen[c][d] = {}
<1>1. /\ fcall = [b \in FCalls |-> NewCall("create")]
      /\ sub = [b \in FCalls |-> [d \in Docs |-> "none"]]
      /\ subSeen = [b \in FCalls |-> [d \in Docs |-> {}]]
  BY DEF Init, FoldersInit, NoSub
<1> QED
  BY <1>1 DEF NewCall

LEMMA NextKeepsOrder ==
    ASSUME BaseInv, NamesInv, ListsInv, [Next]_vars PROVE NamesInv' /\ ListsInv'
<1>1. CASE UNCHANGED folderVars \/ UpdateCalls
  <2>1. UNCHANGED <<folders, fcall, sub, subSeen, want, crossed, raced>>
    BY <1>1 DEF folderVars, UpdateCalls
  <2>2. NamesInv'
    BY <2>1 DEF NamesInv, Named
  <2>3. ListsInv'
    BY <2>1 DEF ListsInv, WorksOn
  <2> QED
    BY <2>2, <2>3
<1> QED
  BY <1>1, FolderCallsKeepNames, FolderCallsKeepLists DEF Next, FolderCalls, vars

\* Two folders of one name, and a list that is not what the calls on it amount to,
\* take calls that overlap (create_folder, add_document_to_folder,
\* remove_document_from_folder, delete_folder), however many calls there are.
THEOREM FoldersStayOrderly == Spec => []OrderlyFoldersAreExact
<1>1. Init => NamesInv /\ ListsInv
  <2> SUFFICES ASSUME Init PROVE NamesInv /\ ListsInv
    OBVIOUS
  <2>1. NamesInv
    BY InitFolders, InitCalls DEF NamesInv, Named
  <2>2. \A c \in FCalls, f \in FolderIds : fcall[c].f # f
    BY InitCalls, FoldersAssumption
  <2>3. ListsInv
    BY <2>2, InitFolders DEF ListsInv, WorksOn
  <2> QED
    BY <2>1, <2>3
<1>2. NamesInv /\ ListsInv => OrderlyFoldersAreExact
  BY DEF NamesInv, ListsInv, OrderlyFoldersAreExact, NamesAreUnique, OrderlyListsAreExact
<1> QED
  BY <1>1, <1>2, InitBase, NextKeepsBase, NextKeepsOrder, PTL DEF Spec

-----------------------------------------------------------------------------
(* The name in a document's row and the lists part in the known ways alone. *)

\* A document has been given out before it is listed, and a file has its row.
Listable(D) ==
    \A d \in D : /\ d \in used
                 /\ \A c \in FCalls :
                       fcall[c].op = "file" /\ fcall[c].pc = "row" => fcall[c].doc # d

ListableInv ==
    /\ \A f \in FolderIds : folders[f] # None => Listable(folders[f].docs)
    /\ \A c \in FCalls : Listable(fcall[c].seen)
    /\ \A c \in FCalls, d \in Docs : Listable(subSeen[c][d])
    /\ \A c \in FCalls : Adds(c) /\ fcall[c].pc = "write" => ~Unborn(fcall[c].doc)

LEMMA ListableStays ==
    ASSUME BaseInv, FoldersNext, NEW D, Listable(D)
    PROVE  Listable(D)'
<1>1. FoldersTypeOK /\ CallsPlaced
  BY DEF BaseInv
<1>2. used \subseteq used'
  BY <1>1, IdsGivenOut, IngestTakes
<1>3. ASSUME NEW c \in FCalls, fcall'[c].op = "file", fcall'[c].pc = "row"
      PROVE  fcall'[c] = fcall[c] \/ fcall'[c].doc \notin used
  <2>1. CASE fcall'[c] # fcall[c]
    <3>1. Turns(c, fcall'[c]) /\ CallDoes(c, fcall'[c])
      BY <1>3, <2>1, CallComes
    <3>2. fcall[c].pc = "new"
      BY <1>3, <3>1 DEF Turns, Onward
    <3>3. Took(c, fcall'[c])
      BY <1>3, <3>1, <3>2
         DEF CallDoes, Asked, Joined, FoundFree, Skipped, Made, NoneFound, FoundToEmpty, FoundToList,
             ReadList, Checked, Listed, EmptyingEnds, PurgingEnds, Dropped, NotDropped, Rowed, NotRowed
    <3> QED
      BY <3>3 DEF Took
  <2> QED
    BY <2>1
<1> SUFFICES ASSUME NEW d \in D
             PROVE  /\ d \in used'
                    /\ \A c \in FCalls :
                          fcall'[c].op = "file" /\ fcall'[c].pc = "row" => fcall'[c].doc # d
  BY DEF Listable
<1> QED
  BY <1>2, <1>3 DEF Listable

LEMMA ListedSeen ==
    ASSUME BaseInv, ListableInv, FoldersNext, NEW c \in FCalls
    PROVE  Listable(fcall[c].seen)'
<1>1. /\ FoldersTypeOK /\ CallsPlaced
      /\ \A f \in FolderIds : folders[f] # None => Listable(folders[f].docs)
      /\ Listable(fcall[c].seen)
  BY DEF BaseInv, ListableInv
<1>2. PICK S : S = fcall'[c].seen
  OBVIOUS
<1>3. CASE S = fcall[c].seen
  <2>1. Listable(S)
    BY <1>1, <1>3
  <2>2. Listable(S)'
    BY <2>1, ListableStays
  <2> QED
    BY <1>2, <2>2 DEF Listable
<1>4. CASE S # fcall[c].seen
  <2>1. fcall'[c] # fcall[c] /\ ~FoldersCrash
    BY <1>1, <1>2, <1>4, CrashTypes
  <2>2. Turns(c, fcall'[c]) /\ CallDoes(c, fcall'[c])
    BY <2>1, CallComes
  <2>3. CASE S = {}
    BY <1>2, <2>3 DEF Listable
  <2>4. CASE S # {}
    <3>1. ReadList(c, fcall'[c]) \/ FoundToEmpty(c, fcall'[c])
      BY <1>2, <1>4, <2>2, <2>4
         DEF Turns, Onward, CallDoes, Asked, Took, Joined, FoundFree, Skipped, Made, NoneFound, FoundToList,
             Checked, Listed, EmptyingEnds, PurgingEnds, Dropped, NotDropped, Rowed, NotRowed
    <3>2. \E f \in FolderIds : folders[f] # None /\ S = folders[f].docs
      <4>1. CASE ReadList(c, fcall'[c])
        <5>1. fcall[c].f \in FolderIds
          BY <1>1, <4>1 DEF ReadList, CallsPlaced, Placed
        <5> QED
          BY <1>2, <4>1, <5>1 DEF ReadList
      <4>2. CASE FoundToEmpty(c, fcall'[c])
        BY <1>2, <4>2 DEF FoundToEmpty, Named
      <4> QED
        BY <3>1, <4>1, <4>2
    <3>3. Listable(S)
      BY <1>1, <3>2
    <3>4. Listable(S)'
      BY <3>3, ListableStays
    <3> QED
      BY <1>2, <3>4 DEF Listable
  <2> QED
    BY <2>3, <2>4
<1> QED
  BY <1>3, <1>4

LEMMA TaskListable ==
    ASSUME BaseInv, ListableInv, FoldersNext, NEW c \in FCalls, NEW d \in Docs
    PROVE  Listable(subSeen[c][d])'
<1>1. /\ FoldersTypeOK /\ CallsPlaced
      /\ \A f \in FolderIds : folders[f] # None => Listable(folders[f].docs)
      /\ Listable(subSeen[c][d])
  BY DEF BaseInv, ListableInv
<1>2. PICK S : S = subSeen'[c][d]
  OBVIOUS
<1>3. Listable(S)
  <2>1. CASE S = subSeen[c][d]
    BY <1>1, <2>1
  <2>2. ASSUME NEW b \in FCalls, NEW k, CallDoes(b, k) PROVE UNCHANGED subSeen
    BY <2>2
       DEF CallDoes, lists, Asked, Took, Joined, FoundFree, Skipped, Made, NoneFound, FoundToEmpty,
           FoundToList, ReadList, Checked, Listed, EmptyingEnds, PurgingEnds, Dropped, NotDropped,
           Rowed, NotRowed
  <2>3. ASSUME NEW b \in FCalls, NEW e \in Docs, TaskDoes(b, e), S # subSeen[c][d]
        PROVE  b = c /\ e = d /\ TaskLooked(c, d)
    BY <1>2, <2>3 DEF TaskDoes, TaskLooked, TaskFailed, TaskListed, TaskPurged, TaskMissed
  <2>4. CASE TaskLooked(c, d)
    <3>1. fcall[c].f \in FolderIds
      BY <1>1, <2>4 DEF TaskLooked, CallsPlaced, TasksPlaced
    <3> QED
      BY <1>1, <1>2, <2>4, <3>1 DEF TaskLooked
  <2> QED
    BY <1>1, <1>2, <2>1, <2>2, <2>3, <2>4, FoldersAdvance DEF FoldersCrash
<1>4. Listable(S)'
  BY <1>3, ListableStays
<1> QED
  BY <1>2, <1>4 DEF Listable

LEMMA FolderCallsKeepListable ==
    ASSUME BaseInv, ListableInv, FoldersNext PROVE ListableInv'
<1>1. /\ FoldersTypeOK /\ CallsPlaced /\ IdsAreFresh
  BY DEF BaseInv
<1>2. \A c \in FCalls : Listable(fcall[c].seen)'
  BY ListedSeen
<1>3. \A c \in FCalls, d \in Docs : Listable(subSeen[c][d])'
  BY TaskListable
<1>4. ASSUME NEW c \in FCalls, Adds(c)', fcall'[c].pc = "write" PROVE ~Unborn(fcall[c].doc)'
  <2>1. PICK d : d = fcall'[c].doc
    OBVIOUS
  <2>2. d \in Docs /\ ~Unborn(d)
    <3>1. CASE fcall'[c] = fcall[c]
      <4>1. Adds(c) /\ fcall[c].pc = "write" /\ d = fcall[c].doc
        BY <1>4, <2>1, <3>1 DEF Adds
      <4>2. ~Unborn(d)
        BY <4>1 DEF ListableInv
      <4>3. d \in Docs
        BY <1>1, <4>1 DEF CallsPlaced, Placed, Adds, Ingests
      <4> QED
        BY <4>2, <4>3
    <3>2. CASE fcall'[c] # fcall[c]
      <4>1. Turns(c, fcall'[c]) /\ CallDoes(c, fcall'[c])
        BY <1>4, <3>2, CallComes
      <4>2. ReadList(c, fcall'[c]) \/ Checked(c, fcall'[c])
        BY <1>4, <4>1
           DEF CallDoes, Asked, Took, Joined, FoundFree, Skipped, Made, NoneFound, FoundToEmpty,
               FoundToList, Listed, EmptyingEnds, PurgingEnds, Dropped, NotDropped, Rowed, NotRowed
      <4>3. fcall[c].op = fcall'[c].op /\ d = fcall[c].doc
        BY <2>1, <4>1, <4>2 DEF Turns, Onward, ReadList, Checked
      <4>4. Checked(c, fcall'[c])
        BY <1>4, <4>2, <4>3 DEF ReadList, Adds
      <4>5. Exists(d) /\ d \in Docs
        BY <1>1, <1>4, <4>3, <4>4 DEF Checked, CallsPlaced, Placed, Adds, Ingests
      <4> QED
        BY <1>1, <4>5 DEF IdsAreFresh
    <3> QED
      BY <3>1, <3>2
  <2>3. ~Unborn(d)'
    BY <1>1, <2>2, UnbornBefore
  <2> QED
    BY <2>1, <2>3 DEF Unborn, Pending
<1>5. ASSUME NEW f \in FolderIds, folders'[f] # None PROVE Listable(folders[f].docs)'
  <2>1. PICK L : L = folders'[f].docs
    OBVIOUS
  <2>2. Listable(L)
    <3>1. CASE SameList(f)
      BY <1>5, <2>1, <3>1 DEF SameList, ListableInv
    <3>2. ASSUME NEW c \in FCalls, Made(c, fcall'[c], f) PROVE Listable(L)
      <4>1. CASE fcall[c].op \notin Ingests
        BY <2>1, <3>2, <4>1 DEF Made, Listable
      <4>2. CASE fcall[c].op \in Ingests
        <5>1. L = {fcall[c].doc} /\ Ingesting(c) /\ fcall[c].pc = "insert"
          BY <2>1, <3>2, <4>2 DEF Made, Ingesting
        <5>2. fcall[c].doc \in used
          BY <1>1, <5>1 DEF IdsAreFresh
        <5>3. ASSUME NEW b \in FCalls, fcall[b].op = "file", fcall[b].pc = "row",
                     fcall[b].doc = fcall[c].doc
              PROVE  FALSE
          <6>1. Ingesting(b)
            BY <5>3 DEF Ingesting, Ingests
          <6>2. b = c
            BY <1>1, <5>1, <5>3, <6>1 DEF IdsAreFresh
          <6> QED
            BY <5>1, <5>3, <6>2
        <5> QED
          BY <5>1, <5>2, <5>3 DEF Listable
      <4> QED
        BY <4>1, <4>2
    <3>3. ASSUME NEW c \in FCalls, Listed(c, fcall'[c]), fcall[c].f = f PROVE Listable(L)
      <4>1. L = NewList(c) /\ Listable(fcall[c].seen) /\ fcall[c].pc = "write"
        BY <2>1, <3>3 DEF Listed, Relisted, ListableInv
      <4>2. Adds(c) => Listable({fcall[c].doc})
        BY <4>1 DEF ListableInv, Listable, Unborn, Pending, PreRow
      <4> QED
        BY <4>1, <4>2 DEF Listable, NewList
    <3>4. ASSUME NEW c \in FCalls, NEW d \in Docs, TaskListed(c, d), fcall[c].f = f PROVE Listable(L)
      <4>1. L = subSeen[c][d] \ {d} /\ Listable(subSeen[c][d])
        BY <2>1, <3>4 DEF TaskListed, Relisted, ListableInv
      <4> QED
        BY <4>1 DEF Listable
    <3>5. ASSUME NEW c \in FCalls, Dropped(c, fcall'[c]), fcall[c].f = f PROVE FALSE
      BY <1>5, <3>5 DEF Dropped
    <3> QED
      BY <3>1, <3>2, <3>3, <3>4, <3>5, ListAfter
  <2>3. Listable(L)'
    BY <2>2, ListableStays
  <2> QED
    BY <2>1, <2>3 DEF Listable
<1> QED
  BY <1>2, <1>3, <1>4, <1>5 DEF ListableInv

LEMMA ApartGrows ==
    ASSUME BaseInv, FoldersNext PROVE apart \subseteq apart'
<1>1. CASE FoldersCrash
  BY <1>1 DEF FoldersCrash
<1>2. ASSUME NEW c \in FCalls, NEW k, CallDoes(c, k) PROVE apart \subseteq apart'
  BY <1>2 DEF CallDoes, lists, Asked, Took, Joined, FoundFree, Skipped, Made, NoneFound, FoundToEmpty,
              FoundToList, ReadList, Checked, Listed, EmptyingEnds, PurgingEnds, Dropped,
              NotDropped, Rowed, NotRowed
<1>3. ASSUME NEW c \in FCalls, NEW d \in Docs, TaskDoes(c, d) PROVE apart \subseteq apart'
  BY <1>3 DEF TaskDoes, TaskLooked, TaskFailed, TaskListed, TaskPurged, TaskMissed
<1> QED
  BY <1>1, <1>2, <1>3, FoldersAdvance DEF BaseInv

\* Document d stays on the lists it was on, and those folders keep their names.
SameListing(d) ==
    /\ Listing(d)' = Listing(d)
    /\ \A f \in Listing(d) : folders'[f].name = folders[f].name

LEMMA ListingAfter ==
    ASSUME BaseInv, FoldersNext, NEW d \in Docs, d \notin apart'
    PROVE  \/ SameListing(d)
           \/ \E c \in FCalls : \E f :
                 /\ Made(c, fcall'[c], f) /\ fcall[c].op \in Ingests /\ fcall[c].doc = d
                 /\ Listing(d)' = Listing(d) \cup {f}
                 /\ \A g \in Listing(d) : folders'[g].name = folders[g].name
           \/ \E c \in FCalls : Listed(c, fcall'[c]) /\ fcall[c].doc = d
           \/ \E c \in FCalls : TaskListed(c, d)
<1>1. /\ FoldersTypeOK /\ CallsPlaced /\ \A f \in FolderIds : folders[f] # None => f \in used
      /\ None \notin FolderIds \cup Folder
  BY FoldersAssumption DEF BaseInv, IdsAreFresh
<1>2. CASE UNCHANGED <<folders, want>>
  BY <1>2 DEF SameListing, Listing
<1>3. ASSUME NEW c \in FCalls, NEW f, Made(c, fcall'[c], f), ~SameListing(d)
      PROVE  /\ fcall[c].op \in Ingests /\ fcall[c].doc = d
             /\ Listing(d)' = Listing(d) \cup {f}
             /\ \A g \in Listing(d) : folders'[g].name = folders[g].name
  <2>1. /\ f \in FolderIds /\ f \notin used /\ folders'[f] \in Folder
        /\ folders'[f].docs = IF fcall[c].op \in Ingests THEN {fcall[c].doc} ELSE {}
        /\ \A g \in FolderIds \ {f} : folders'[g] = folders[g]
    BY <1>3 DEF Made, SameList
  <2>2. folders[f] = None /\ f \notin Listing(d)
    BY <1>1, <2>1 DEF Listing
  <2>3. \A g \in Listing(d) : folders'[g] = folders[g]
    BY <2>1, <2>2 DEF Listing
  <2>4. CASE d \notin folders'[f].docs
    BY <1>3, <2>1, <2>2, <2>3, <2>4 DEF Listing, SameListing
  <2>5. CASE d \in folders'[f].docs
    <3>1. fcall[c].op \in Ingests /\ fcall[c].doc = d
      BY <2>1, <2>5
    <3>2. Listing(d)' = Listing(d) \cup {f}
      BY <1>1, <2>1, <2>2, <2>5 DEF Listing
    <3> QED
      BY <2>3, <3>1, <3>2
  <2> QED
    BY <2>4, <2>5
<1>4. ASSUME NEW f, NEW L, Relisted(f, L), d \in L <=> d \in folders[f].docs PROVE SameListing(d)
  BY <1>4 DEF Relisted, SameList, SameListing, Listing
<1>5. ASSUME NEW c \in FCalls, Listed(c, fcall'[c]), fcall[c].doc # d PROVE SameListing(d)
  <2>1. d \notin Disturbed(fcall[c].f, fcall[c].seen)
    BY <1>5 DEF Listed
  <2>2. d \in NewList(c) <=> d \in folders[fcall[c].f].docs
    BY <1>5, <2>1 DEF NewList, Disturbed
  <2> QED
    BY <1>4, <1>5, <2>2 DEF Listed
<1>6. ASSUME NEW c \in FCalls, NEW e \in Docs, TaskListed(c, e), e # d PROVE SameListing(d)
  <2>1. d \notin Disturbed(fcall[c].f, subSeen[c][e])
    BY <1>6 DEF TaskListed
  <2>2. d \in subSeen[c][e] \ {e} <=> d \in folders[fcall[c].f].docs
    BY <1>6, <2>1 DEF Disturbed
  <2> QED
    BY <1>4, <1>6, <2>2 DEF TaskListed
<1>7. ASSUME NEW c \in FCalls, Dropped(c, fcall'[c]) PROVE SameListing(d)
  <2>1. /\ d \notin folders[fcall[c].f].docs /\ folders'[fcall[c].f] = None
        /\ \A g \in FolderIds \ {fcall[c].f} : folders'[g] = folders[g]
    BY <1>7 DEF Dropped
  <2> QED
    BY <2>1 DEF SameListing, Listing
<1> QED
  BY <1>2, <1>3, <1>5, <1>6, <1>7, FolderRows

LEMMA NameAfter ==
    ASSUME BaseInv, FoldersNext, NEW d \in Docs, Exists(d), Exists(d)'
    PROVE  \/ docs'[d].folder = docs[d].folder
           \/ \E c \in FCalls : Listed(c, fcall'[c]) /\ fcall[c].doc = d
           \/ \E c \in FCalls : TaskListed(c, d)
<1>1. FoldersTypeOK /\ CallsPlaced /\ docs \in [Docs -> Snapshot] /\ ~Unborn(d)
  BY DEF BaseInv, IdsAreFresh, UpdateInv, UpdatesTypeOK
<1>2. CASE UNCHANGED docs
  BY <1>2
<1>3. ASSUME NEW e, NEW n, e # d, SetFolderName(e, n) PROVE docs'[d] = docs[d]
  BY <1>1, <1>3 DEF SetFolderName
<1>4. ASSUME NEW c \in FCalls, NEW k, Turns(c, k), CallDoes(c, k)
      PROVE  docs'[d].folder = docs[d].folder \/ (Listed(c, fcall'[c]) /\ fcall[c].doc = d)
  <2>1. k = fcall'[c]
    BY <1>1, <1>4, CallAfter
  <2>2. CASE Listed(c, k)
    <3>1. SetFolderName(fcall[c].doc, IF Adds(c) THEN folders[fcall[c].f].name ELSE None)
      BY <2>2 DEF Listed
    <3> QED
      BY <1>3, <2>1, <2>2, <3>1
  <2>3. CASE Rowed(c, k)
    <3>1. PreRow(c)
      BY <2>3 DEF Rowed, PreRow, Ingests, Steps
    <3>2. fcall[c].doc # d
      BY <1>1, <3>1 DEF Unborn, Pending
    <3>3. PICK r : docs' = [docs EXCEPT ![fcall[c].doc] = r]
      BY <2>3 DEF Rowed
    <3> QED
      BY <1>1, <3>2, <3>3
  <2>4. CASE ~Listed(c, k) /\ ~Rowed(c, k)
    <3>1. UNCHANGED docs
      BY <1>4, <2>4
         DEF CallDoes, lists, Asked, Took, Joined, FoundFree, Skipped, Made, NoneFound, FoundToEmpty,
             FoundToList, ReadList, Checked, EmptyingEnds, PurgingEnds, Dropped, NotDropped, NotRowed
    <3> QED
      BY <3>1
  <2> QED
    BY <2>2, <2>3, <2>4
<1>5. ASSUME NEW c \in FCalls, NEW e \in Docs, TaskDoes(c, e)
      PROVE  docs'[d].folder = docs[d].folder \/ TaskListed(c, d)
  <2>1. CASE TaskListed(c, e)
    <3>1. SetFolderName(e, None)
      BY <2>1 DEF TaskListed
    <3> QED
      BY <1>3, <2>1, <3>1
  <2>2. CASE TaskPurged(c, e)
    <3>1. docs' = [docs EXCEPT ![e] = None]
      BY <2>2 DEF TaskPurged
    <3>2. docs'[d] # None
      BY DEF Exists
    <3> QED
      BY <1>1, <3>1, <3>2
  <2>3. CASE ~TaskListed(c, e) /\ ~TaskPurged(c, e)
    BY <1>5, <2>3 DEF TaskDoes, TaskLooked, TaskFailed, TaskMissed
  <2> QED
    BY <2>1, <2>2, <2>3
<1> QED
  BY <1>1, <1>2, <1>4, <1>5, FoldersAdvance DEF FoldersCrash

\* A text that is not yet in the table is listed by the folder that its ingestion
\* has made, if by any.
TextsInv ==
    \A c \in FCalls : fcall[c].op = "text" /\ fcall[c].pc \in Steps /\ fcall[c].doc \notin apart =>
       \A f \in Listing(fcall[c].doc) : fcall[c].pc = "row" /\ folders[f].name = fcall[c].name

LEMMA FolderCallsKeepTexts ==
    ASSUME BaseInv, ListableInv, TextsInv, FoldersNext PROVE TextsInv'
<1>1. FoldersTypeOK /\ CallsPlaced /\ IdsAreFresh
  BY DEF BaseInv
<1> SUFFICES ASSUME NEW c \in FCalls, fcall'[c].op = "text", fcall'[c].pc \in Steps,
                    NEW d, d = fcall'[c].doc, d \notin apart', NEW f \in Listing(d)'
             PROVE  fcall'[c].pc = "row" /\ folders'[f].name = fcall'[c].name
  BY DEF TextsInv, Listing
<1>2. Evolves(c)
  BY <1>1, CallsEvolve
<1>3. CASE fcall[c].op = "text" /\ fcall[c].pc \in Steps /\ fcall[c].doc = d /\ fcall'[c].name = fcall[c].name
  <2>1. d \in Docs /\ PreRow(c) /\ Unborn(d) /\ Ingesting(c)
    BY <1>1, <1>3 DEF CallsPlaced, Placed, PreRow, Unborn, Pending, Ingesting, Ingests, Steps
  <2>2. \A g \in Listing(d) : fcall[c].pc = "row" /\ folders[g].name = fcall[c].name
    BY <1>3, ApartGrows DEF TextsInv
  <2>3. fcall[c].pc = "row" => fcall'[c].pc = "row"
    <3>1. CASE fcall'[c] # fcall[c] /\ fcall[c].pc = "row"
      <4>1. CallDoes(c, fcall'[c])
        BY <3>1, CallComes DEF Steps
      <4> QED
        BY <1>3, <3>1, <4>1
           DEF Steps, CallDoes, Asked, Took, Joined, FoundFree, Skipped, Made, NoneFound, FoundToEmpty,
               FoundToList, ReadList, Checked, Listed, EmptyingEnds, PurgingEnds, Dropped, NotDropped,
               Rowed, NotRowed
    <3> QED
      BY <3>1
  <2>4. CASE SameListing(d)
    BY <1>3, <2>2, <2>3, <2>4 DEF SameListing
  <2>5. ASSUME NEW b \in FCalls, NEW g, Made(b, fcall'[b], g), fcall[b].op \in Ingests, fcall[b].doc = d,
               Listing(d)' = Listing(d) \cup {g}
        PROVE  fcall'[c].pc = "row" /\ folders'[f].name = fcall'[c].name
    <3>1. Ingesting(b) /\ fcall[b].pc = "insert"
      BY <2>5 DEF Made, Ingesting
    <3>2. b = c
      BY <1>1, <1>3, <2>1, <2>5, <3>1 DEF IdsAreFresh
    <3>3. f = g
      BY <2>2, <2>5, <3>1, <3>2
    <3> QED
      BY <1>3, <2>5, <3>2, <3>3 DEF Made
  <2>6. ASSUME NEW b \in FCalls, Listed(b, fcall'[b]), fcall[b].doc = d PROVE FALSE
    <3>1. fcall[b].pc = "write" /\ ~Adds(b)
      BY <2>1, <2>6 DEF Listed, ListableInv
    <3>2. Relisted(fcall[b].f, NewList(b)) /\ d \notin NewList(b) /\ Listing(d) \ {fcall[b].f} = {}
      BY <2>6, <3>1 DEF Listed, NewList
    <3> QED
      BY <3>2 DEF Relisted, SameList, Listing
  <2>7. ASSUME NEW b \in FCalls, TaskListed(b, d) PROVE FALSE
    <3>1. Relisted(fcall[b].f, subSeen[b][d] \ {d}) /\ Listing(d) \ {fcall[b].f} = {}
      BY <2>7 DEF TaskListed
    <3> QED
      BY <3>1 DEF Relisted, SameList, Listing
  <2> QED
    BY <2>1, <2>4, <2>5, <2>6, <2>7, ListingAfter
<1>4. CASE fcall[c].pc = "new"
  <2>1. Turns(c, fcall'[c]) /\ CallDoes(c, fcall'[c])
    BY <1>4, CallComes DEF Steps
  <2>2. Took(c, fcall'[c])
    BY <1>4, <2>1 DEF CallDoes, Asked, Joined, FoundFree, Skipped, Made, NoneFound, FoundToEmpty, FoundToList,
             ReadList, Checked, Listed, EmptyingEnds, PurgingEnds, Dropped, NotDropped, Rowed, NotRowed
  <2>3. UNCHANGED folders /\ d \notin used
    BY <2>2 DEF Took
  <2>4. f \in FolderIds /\ folders[f] # None /\ d \in folders[f].docs
    BY <2>3 DEF Listing
  <2> QED
    BY <2>3, <2>4 DEF ListableInv, Listable
<1> QED
  BY <1>2, <1>3, <1>4 DEF Evolves, Ended, Onward, Steps

\* The ingestion of file d is through with the row and has yet to list it.
Lists(c, d) ==
    /\ fcall[c].op = "file" /\ fcall[c].pc \in Steps \ {"row"}
    /\ fcall[c].doc = d /\ docs[d].folder = fcall[c].name
    /\ fcall[c].pc = "readDoc" => d \notin fcall[c].seen
Owes(d) == Listing(d) = {} /\ \E c \in FCalls : Lists(c, d)

AgreeInv == \A d \in Docs \ apart : Exists(d) => Agree(d) \/ Owes(d)

LEMMA BornAgrees ==
    ASSUME BaseInv, ListableInv, TextsInv, FoldersNext, IngestStores,
           NEW d \in Docs, d \notin apart', ~Exists(d), Exists(d)'
    PROVE  Agree(d)' \/ Owes(d)'
<1>1. /\ FoldersTypeOK /\ CallsPlaced /\ docs \in [Docs -> Snapshot]
      /\ NoFolder \cap Names = {}
  BY NoneAssumption DEF BaseInv, UpdateInv, UpdatesTypeOK
<1>2. PICK c \in FCalls : IngestRow(c) /\ Born(fcall[c].doc, fcall[c].name)
  <2>1. ~StoresStay
    BY DEF StoresStay, Exists
  <2>2. ASSUME NEW e \in Docs, NEW n, Renamed(e, n) PROVE FALSE
    BY <1>1, <2>2 DEF Renamed, Exists
  <2>3. ASSUME NEW e \in Docs, Erased(e) PROVE FALSE
    BY <1>1, <2>3 DEF Erased, Exists
  <2> QED
    BY <2>1, <2>2, <2>3, FolderEffects
<1>3. fcall[c].op \in Ingests /\ fcall[c].pc = "row" /\ fcall[c].doc \in Docs /\ fcall[c].name \in Names
  BY <1>1, <1>2 DEF IngestRow, InStep, CallsPlaced, Placed, Ingests
<1>4. fcall[c].doc = d /\ docs'[d].folder = fcall[c].name
  BY <1>1, <1>2, <1>3 DEF Born, Exists
<1>5. ~StoresStay
  BY DEF StoresStay, Exists
<1>6. /\ ToStep(c, IF fcall[c].op = "text" THEN "ok" ELSE "lookup")
      /\ apart' = IF fcall[c].op = "text" /\ Listing(d) = {} THEN apart \cup {d} ELSE apart
  BY <1>2, <1>4, <1>5, BirthEffect
<1>7. Listing(d)' = Listing(d) /\ UNCHANGED folders
  BY <1>2 DEF IngestRow, Listing
<1>8. CASE fcall[c].op = "text"
  <2>1. Listing(d) # {} /\ d \notin apart
    BY <1>6, <1>8
  <2>2. \A f \in Listing(d) : folders[f].name = fcall[c].name
    BY <1>3, <1>4, <1>8, <2>1 DEF TextsInv, Steps
  <2>3. {folders[f].name : f \in Listing(d)} = {fcall[c].name}
    BY <2>1, <2>2
  <2> QED
    BY <1>1, <1>3, <1>4, <1>7, <2>3 DEF Agree
<1>9. CASE fcall[c].op = "file"
  <2>1. Listing(d) = {}
    BY <1>3, <1>4, <1>9 DEF Listing, ListableInv, Listable
  <2>2. /\ fcall'[c].pc = "lookup" /\ fcall'[c].op = "file" /\ fcall'[c].doc = d
        /\ fcall'[c].name = fcall[c].name
    BY <1>1, <1>4, <1>6, <1>9 DEF ToStep, FoldersTypeOK, Call
  <2>3. Lists(c, d)'
    BY <1>4, <2>2 DEF Lists, Steps
  <2> QED
    BY <1>7, <2>1, <2>3 DEF Owes
<1> QED
  BY <1>3, <1>8, <1>9 DEF Ingests

\* The ingestion that owes a listing goes on to list.
LEMMA ListsOn ==
    ASSUME BaseInv, FoldersNext, NEW d \in Docs, d \notin apart', NEW c \in FCalls, Lists(c, d),
           Listing(d) = {}, docs'[d].folder = docs[d].folder,
           ~Listed(c, fcall'[c]), ~\E f : Made(c, fcall'[c], f)
    PROVE  Lists(c, d)'
<1>1. FoldersTypeOK /\ CallsPlaced
  BY DEF BaseInv
<1>2. /\ fcall[c].op = "file" /\ fcall[c].pc \in Steps \ {"row"} /\ fcall[c].doc = d
      /\ docs[d].folder = fcall[c].name /\ (fcall[c].pc = "readDoc" => d \notin fcall[c].seen)
  BY DEF Lists
<1>3. CASE fcall'[c] = fcall[c]
  BY <1>2, <1>3 DEF Lists
<1>4. CASE FoldersCrash
  BY <1>2, <1>4 DEF FoldersCrash, Ingests
<1>5. CASE fcall'[c] # fcall[c] /\ ~FoldersCrash
  <2>1. Turns(c, fcall'[c]) /\ CallDoes(c, fcall'[c])
    BY <1>5, CallComes
  <2>2. /\ fcall'[c].op = "file" /\ fcall'[c].doc = d /\ fcall'[c].name = fcall[c].name
    BY <1>2, <2>1 DEF Turns, Onward, Steps
  <2>3. \/ NoneFound(c, fcall'[c]) \/ FoundToList(c, fcall'[c]) \/ FoundFree(c, fcall'[c])
        \/ ReadList(c, fcall'[c]) \/ Checked(c, fcall'[c]) \/ Skipped(c, fcall'[c])
    BY <1>2, <2>1
       DEF CallDoes, Asked, Took, Joined, FoundToEmpty, EmptyingEnds, PurgingEnds, Dropped, NotDropped,
           Rowed, NotRowed, Steps
  <2>4. CASE NoneFound(c, fcall'[c]) \/ FoundToList(c, fcall'[c]) \/ FoundFree(c, fcall'[c])
    <3>1. fcall'[c].pc \in {"check", "read", "insert"}
      BY <1>2, <2>4 DEF NoneFound, FoundToList, FoundFree
    <3> QED
      BY <1>2, <2>2, <3>1 DEF Lists, Steps
  <2>5. CASE ReadList(c, fcall'[c])
    <3>1. fcall'[c].pc = "readDoc" /\ fcall'[c].seen = folders[fcall[c].f].docs
          /\ folders[fcall[c].f] # None
      BY <1>2, <2>5 DEF ReadList, Adds, Ingests
    <3>2. fcall[c].f \in FolderIds
      BY <1>1, <2>5 DEF ReadList, CallsPlaced, Placed
    <3>3. d \notin fcall'[c].seen
      BY <3>1, <3>2 DEF Listing
    <3> QED
      BY <1>2, <2>2, <3>1, <3>3 DEF Lists, Steps
  <2>6. CASE Checked(c, fcall'[c])
    <3>1. fcall'[c].pc = "write"
      BY <1>2, <2>6 DEF Checked
    <3> QED
      BY <1>2, <2>2, <3>1 DEF Lists, Steps
  <2>7. CASE Skipped(c, fcall'[c])
    BY <1>2, <2>7 DEF Skipped, Ingests
  <2> QED
    BY <2>3, <2>4, <2>5, <2>6, <2>7
<1> QED
  BY <1>3, <1>4, <1>5

LEMMA FolderCallsKeepAgree ==
    ASSUME BaseInv, ListableInv, TextsInv, AgreeInv, FoldersNext, IngestStores PROVE AgreeInv'
<1>1. /\ FoldersTypeOK /\ CallsPlaced /\ docs \in [Docs -> Snapshot]
      /\ NoFolder \cap Names = {} /\ None \in NoFolder
  BY NoneAssumption DEF BaseInv, UpdateInv, UpdatesTypeOK, NoFolder
<1> SUFFICES ASSUME NEW d \in Docs \ apart', Exists(d)' PROVE Agree(d)' \/ Owes(d)'
  BY DEF AgreeInv
<1>2. CASE ~Exists(d)
  BY <1>2, BornAgrees
<1>3. CASE Exists(d)
  <2>1. Agree(d) \/ Owes(d)
    BY <1>3, ApartGrows DEF AgreeInv
  <2>2. ASSUME NEW c \in FCalls, Listed(c, fcall'[c]), fcall[c].doc = d PROVE Agree(d)'
    <3>1. /\ Relisted(fcall[c].f, NewList(c))
          /\ SetFolderName(d, IF Adds(c) THEN folders[fcall[c].f].name ELSE None)
          /\ Listing(d) \subseteq {fcall[c].f} /\ fcall[c].pc = "write"
      BY <2>2 DEF Listed
    <3>2. fcall[c].f \in FolderIds
      BY <1>1, <3>1 DEF CallsPlaced, Placed
    <3>3. CASE Adds(c)
      <4>1. Listing(d)' = {fcall[c].f}
        BY <2>2, <3>1, <3>2, <3>3 DEF Listing, Relisted, SameList, NewList
      <4>2. PICK n : n = folders[fcall[c].f].name
        OBVIOUS
      <4>3. n \in Names
        BY <1>1, <3>1, <3>2, <4>2 DEF FoldersTypeOK, Relisted, Folder
      <4>4. docs' = [docs EXCEPT ![d].folder = n] /\ docs[d] \in Row
        BY <1>1, <1>3, <3>1, <3>3, <4>2 DEF SetFolderName, Snapshot, Exists
      <4>5. docs'[d].folder = n
        BY <1>1, <4>4 DEF Row
      <4>6. folders'[fcall[c].f].name = n
        BY <3>1, <4>2 DEF Relisted
      <4> QED
        BY <1>1, <4>1, <4>3, <4>5, <4>6 DEF Agree
    <3>4. CASE ~Adds(c)
      <4>1. Listing(d)' = {}
        BY <2>2, <3>1, <3>2, <3>4 DEF Listing, Relisted, SameList, NewList
      <4>2. docs' = [docs EXCEPT ![d].folder = None] /\ docs[d] \in Row
        BY <1>1, <1>3, <3>1, <3>4 DEF SetFolderName, Snapshot, Exists
      <4>3. docs'[d].folder = None
        BY <1>1, <4>2 DEF Row
      <4> QED
        BY <1>1, <4>1, <4>3 DEF Agree
    <3> QED
      BY <3>3, <3>4
  <2>3. ASSUME NEW c \in FCalls, TaskListed(c, d) PROVE Agree(d)'
    <3>1. /\ Relisted(fcall[c].f, subSeen[c][d] \ {d}) /\ SetFolderName(d, None)
          /\ Listing(d) \subseteq {fcall[c].f}
      BY <2>3 DEF TaskListed
    <3>2. Listing(d)' = {}
      BY <3>1 DEF Listing, Relisted, SameList
    <3>3. docs' = [docs EXCEPT ![d].folder = None] /\ docs[d] \in Row
      BY <1>1, <1>3, <3>1 DEF SetFolderName, Snapshot, Exists
    <3>4. docs'[d].folder = None
      BY <1>1, <3>3 DEF Row
    <3> QED
      BY <1>1, <3>2, <3>4 DEF Agree
  <2>4. ASSUME NEW c \in FCalls, NEW f, Made(c, fcall'[c], f), fcall[c].op \in Ingests, fcall[c].doc = d,
               Listing(d)' = Listing(d) \cup {f}, docs'[d].folder = docs[d].folder
        PROVE  Agree(d)'
    <3>1. ~Moved(d, fcall[c].name) /\ folders'[f].name = fcall[c].name /\ fcall[c].pc = "insert"
      BY <2>4 DEF Made
    <3>2. docs[d].folder = fcall[c].name /\ Listing(d)' = {f}
      BY <1>3, <2>4, <3>1 DEF Moved
    <3>3. fcall[c].name \in Names
      BY <1>1, <2>4, <3>1 DEF CallsPlaced, Placed, Ingests
    <3> QED
      BY <1>1, <2>4, <3>1, <3>2, <3>3 DEF Agree
  <2>5. CASE SameListing(d) /\ docs'[d].folder = docs[d].folder
    <3>1. CASE Agree(d)
      <4>1. {folders'[f].name : f \in Listing(d)} = {folders[f].name : f \in Listing(d)}
        BY <2>5 DEF SameListing
      <4> QED
        BY <2>5, <3>1, <4>1 DEF SameListing, Agree
    <3>2. ASSUME NEW c \in FCalls, Lists(c, d), Listing(d) = {} PROVE Owes(d)'
      <4>1. fcall[c].doc = d /\ fcall[c].op \in Ingests
        BY <3>2 DEF Lists, Ingests
      <4>2. ASSUME NEW f, Made(c, fcall'[c], f) PROVE FALSE
        <5>1. f \in FolderIds /\ folders'[f] \in Folder /\ d \in folders'[f].docs
          BY <4>1, <4>2 DEF Made
        <5>2. f \in Listing(d)'
          BY <5>1, FoldersAssumption DEF Listing
        <5> QED
          BY <2>5, <3>2, <5>2 DEF SameListing
      <4>3. CASE Listed(c, fcall'[c])
        <5>1. Relisted(fcall[c].f, NewList(c)) /\ Adds(c) /\ fcall[c].pc = "write"
          BY <4>1, <4>3 DEF Listed, Adds
        <5>2. fcall[c].f \in FolderIds
          BY <1>1, <5>1 DEF CallsPlaced, Placed
        <5>3. fcall[c].f \in Listing(d)'
          BY <4>1, <5>1, <5>2 DEF Listing, Relisted, NewList
        <5> QED
          BY <2>5, <3>2, <5>3 DEF SameListing
      <4>4. CASE ~Listed(c, fcall'[c])
        BY <2>5, <3>2, <4>2, <4>4, ListsOn DEF Owes, SameListing
      <4> QED
        BY <4>3, <4>4
    <3> QED
      BY <2>1, <3>1, <3>2 DEF Owes
  <2> QED
    BY <1>3, <2>2, <2>3, <2>4, <2>5, ListingAfter, NameAfter
<1> QED
  BY <1>2, <1>3

LEMMA NextKeepsNames ==
    ASSUME BaseInv, ListableInv, TextsInv, AgreeInv, [Next]_vars
    PROVE  ListableInv' /\ TextsInv' /\ AgreeInv'
<1>1. CASE FolderCalls
  <2>1. FoldersNext /\ IngestStores
    BY <1>1 DEF FolderCalls
  <2> QED
    BY <2>1, FolderCallsKeepListable, FolderCallsKeepTexts, FolderCallsKeepAgree
<1>2. CASE UpdateCalls \/ UNCHANGED vars
  <2>1. UNCHANGED <<folders, fcall, sub, subSeen, used>> /\ apart \subseteq apart'
    BY <1>2 DEF vars, folderVars, UpdateCalls
  <2>2. \A d \in Docs \ apart' : Exists(d)' => Exists(d) /\ docs'[d].folder = docs[d].folder
    <3>1. CASE UpdateCalls
      <4>1. \A d \in Docs : Exists(d)' => Exists(d)
        BY <3>1, RowsOnlyGo DEF UpdateCalls, BaseInv
      <4> QED
        BY <3>1, <4>1 DEF UpdateCalls, Reverted, Exists
    <3>2. CASE UNCHANGED vars
      BY <3>2 DEF vars, Exists
    <3> QED
      BY <1>2, <3>1, <3>2
  <2>3. ListableInv'
    BY <2>1 DEF ListableInv, Listable, Adds, Unborn, Pending, PreRow
  <2>4. TextsInv'
    BY <2>1 DEF TextsInv, Listing
  <2>5. \A d \in Docs : Listing(d)' = Listing(d)
    BY <2>1 DEF Listing
  <2>6. ASSUME NEW d \in Docs \ apart', Exists(d)' PROVE Agree(d)' \/ Owes(d)'
    <3>1. Agree(d) \/ Owes(d)
      BY <2>1, <2>2, <2>6 DEF AgreeInv
    <3>2. Agree(d) => Agree(d)'
      BY <2>1, <2>2, <2>5, <2>6 DEF Agree
    <3>3. Owes(d) => Owes(d)'
      BY <2>1, <2>2, <2>5, <2>6 DEF Owes, Lists
    <3> QED
      BY <3>1, <3>2, <3>3
  <2> QED
    BY <2>3, <2>4, <2>6 DEF AgreeInv
<1> QED
  BY <1>1, <1>2 DEF Next

\* Searches and listings agree on the folder of a document that no call is at work
\* on, unless one of the ways to part them has happened to it: an outdated list
\* written back, a second folder, an ingestion that could not list it or listed it
\* too late, a folder dropped with it, an update that wrote an older name back.
THEOREM FolderNamesKeepAgreeing == Spec => []FolderNameAgrees
<1>1. Init => ListableInv /\ TextsInv /\ AgreeInv
  <2> SUFFICES ASSUME Init PROVE ListableInv /\ TextsInv /\ AgreeInv
    OBVIOUS
  <2>1. \A c \in FCalls : /\ fcall[c].pc = "new" /\ fcall[c].seen = {}
                          /\ \A d \in Docs : subSeen[c][d] = {}
    BY InitCalls
  <2>2. ListableInv
    BY <2>1, InitFolders DEF ListableInv, Listable
  <2>3. TextsInv
    BY <2>1 DEF TextsInv, Steps
  <2>4. AgreeInv
    BY InitFolders DEF AgreeInv
  <2> QED
    BY <2>2, <2>3, <2>4
<1>2. BaseInv /\ AgreeInv => FolderNameAgrees
  <2> SUFFICES ASSUME AgreeInv, NEW d \in Docs \ apart, Exists(d), Quiet(d) PROVE Agree(d)
    BY DEF FolderNameAgrees, Agree
  <2>1. ~Owes(d)
    BY DEF Quiet, Owes, Lists
  <2> QED
    BY <2>1 DEF AgreeInv
<1> QED
  BY <1>1, <1>2, InitBase, NextKeepsBase, NextKeepsNames, PTL DEF Spec

-----------------------------------------------------------------------------
(* Chunks, tags and the calls that wait for a document.                    *)

\* What is not there has no files, and no call goes on with it; what a delete call
\* has removed stays gone.
Untouched ==
    /\ \A d \in Docs : Unborn(d) =>
          /\ \A v \in Versions : blobs[d][v] = None
          /\ \A u \in UCalls : Doc(u) = d => ucall[u].pc \in {"new", "error"}
    /\ \A u \in UCalls : ucall[u].op = "delete" /\ ucall[u].pc \in {"clean", "ok"} => Dead(Doc(u))

\* Call u is not the one that a step of an update takes further.
LEMMA NoUpdateIsNew ==
    ASSUME UpdateInv, UpdatesNext, NEW u \in UCalls, ucall[u].pc # "new"
    PROVE  ucall'[u].pc # "new" /\ Doc(u)' = Doc(u) /\ ucall'[u].op = ucall[u].op
<1>1. UpdatesTypeOK
  BY DEF UpdateInv
<1>2. CASE UpdatesCrash
  BY <1>2, UpdatesCrashEnds DEF Doc
<1>3. ASSUME NEW w \in UCalls, NEW k, Becomes(w, k), Began(w, k)
      PROVE  ucall'[u].pc # "new" /\ Doc(u)' = Doc(u) /\ ucall'[u].op = ucall[u].op
  BY <1>1, <1>3, UpdateAfter DEF Began, Doc
<1>4. ASSUME NEW w \in UCalls, NEW k, Advanced(w, k)
      PROVE  ucall'[u].pc # "new" /\ Doc(u)' = Doc(u) /\ ucall'[u].op = ucall[u].op
  <2>1. /\ ucall'[w] = k /\ \A x \in UCalls \ {w} : ucall'[x] = ucall[x]
        /\ k.op = ucall[w].op /\ k.doc = Doc(w)
    BY <1>1, <1>4, UpdateAfter DEF Advanced, Goes
  <2>2. FirstStep[ucall[w].op] # "new" \/ ucall[w].pc # "access"
    BY <1>4, AtWork DEF UpdateInv, Advanced, FirstStep, UpdateWay, UpdateCall, UpdateOps, Updates
  <2>3. k.pc # "new"
    <3>1. CASE Passed(w, k)
      BY <2>2, <3>1 DEF Passed
    <3>2. CASE ~Passed(w, k)
      BY <1>4, <3>2
         DEF Advanced, GaveUp, Broke, Uploaded, Cut, Merged, Filled, Applied, ReadAgain, Wrote, WroteRules,
             Removed, Cleaned, Finished
    <3> QED
      BY <3>1, <3>2
  <2> QED
    BY <2>1, <2>3 DEF Doc
<1> QED
  BY <1>2, <1>3, <1>4, UpdateAdvances

LEMMA UpdatesKeepUntouched ==
    ASSUME BaseInv, Untouched, UpdateCalls PROVE Untouched'
<1>1. /\ UpdateInv /\ UpdatesTypeOK /\ UpdatesNext /\ IdsAreFresh
      /\ UNCHANGED <<used, fcall>>
  BY DEF BaseInv, UpdateInv, UpdateCalls
<1>2. \A d \in Docs : Unborn(d)' => Unborn(d) /\ ~Exists(d)
  BY <1>1 DEF Unborn, Pending, PreRow, IdsAreFresh
<1>3. \A d \in Docs : Dead(d) => Dead(d)'
  BY DeadStays
<1>4. CASE UpdatesCrash
  <2>1. UNCHANGED blobs
    BY <1>4 DEF UpdatesCrash, UnchangedStores
  <2>2. \A u \in UCalls : /\ Doc(u)' = Doc(u) /\ ucall'[u].op = ucall[u].op
                          /\ ucall[u].pc \in {"new", "error"} => ucall'[u].pc = ucall[u].pc
                          /\ ucall'[u].pc \in {"clean", "ok"} => ucall'[u].pc = ucall[u].pc
    BY <1>1, <1>4, UpdatesCrashEnds DEF Doc, UpdateSteps
  <2>3. \A u \in UCalls : ucall[u].pc \in {"clean", "ok"} => Doc(u) \in Docs
    BY <1>1 DEF UpdateInv, UpdatesPlaced, UpdatePlaced, UpdateSteps, Doc
  <2> QED
    BY <1>2, <1>3, <2>1, <2>2, <2>3 DEF Untouched
<1>5. ASSUME NEW u \in UCalls, NEW k, Becomes(u, k), Began(u, k) PROVE Untouched'
  <2>1. /\ ucall'[u] = k /\ \A w \in UCalls \ {u} : ucall'[w] = ucall[w]
        /\ k.pc \in {"error", "apply", "access"} /\ (~Exists(k.doc) => k.pc = "error")
        /\ UNCHANGED blobs
    BY <1>1, <1>5, UpdateAfter DEF Began
  <2>2. \A w \in UCalls : ucall[w].pc \in {"clean", "ok"} => Doc(w) \in Docs
    BY <1>1 DEF UpdateInv, UpdatesPlaced, UpdatePlaced, UpdateSteps, Doc
  <2>3. \A d \in Docs : Unborn(d)' =>
           /\ \A v \in Versions : blobs'[d][v] = None
           /\ \A w \in UCalls : Doc(w)' = d => ucall'[w].pc \in {"new", "error"}
    BY <1>2, <2>1 DEF Untouched, Doc
  <2>4. \A w \in UCalls : ucall'[w].op = "delete" /\ ucall'[w].pc \in {"clean", "ok"} => Dead(Doc(w))'
    BY <1>3, <2>1, <2>2 DEF Untouched, Doc, Dead, Unborn, Pending
  <2> QED
    BY <2>3, <2>4 DEF Untouched
<1>6. ASSUME NEW u \in UCalls, NEW k, Advanced(u, k) PROVE Untouched'
  <2>1. /\ ucall'[u] = k /\ \A w \in UCalls \ {u} : ucall'[w] = ucall[w]
        /\ k.op = ucall[u].op /\ k.doc = Doc(u) /\ Doc(u) \in Docs /\ ucall[u].pc \in UpdateSteps
    BY <1>1, <1>6, UpdateAfter DEF Advanced, Goes
  <2>2. ~Unborn(Doc(u))
    BY <2>1 DEF Untouched, UpdateSteps
  <2>3. \A d \in Docs : d # Doc(u) => blobs'[d] = blobs[d]
    BY <1>1, <1>6
       DEF Advanced, Passed, GaveUp, Broke, Uploaded, Cut, Merged, Filled, Applied, ReadAgain, Wrote,
           WroteRules, Removed, Cleaned, Finished, UpdatesTypeOK
  <2>4. \A d \in Docs : Unborn(d)' =>
           /\ \A v \in Versions : blobs'[d][v] = None
           /\ \A w \in UCalls : Doc(w)' = d => ucall'[w].pc \in {"new", "error"}
    BY <1>2, <2>1, <2>2, <2>3 DEF Untouched, Doc
  <2>5. ASSUME k.op = "delete", k.pc \in {"clean", "ok"} PROVE Dead(Doc(u))'
    <3>1. Removed(u, k) \/ Cleaned(u, k) \/ Finished(u, k)
      <4>1. FirstStep[ucall[u].op] = "remove"
        BY <2>1, <2>5 DEF FirstStep
      <4> QED
        BY <1>6, <2>1, <2>5, <4>1
           DEF Advanced, Passed, GaveUp, Broke, Uploaded, Cut, Merged, Filled, Applied, ReadAgain, Wrote,
               WroteRules, Updates
    <3>2. CASE Removed(u, k)
      <4>1. Exists(Doc(u)) /\ docs' = [docs EXCEPT ![Doc(u)] = None]
        BY <3>2 DEF Removed
      <4>2. PICK d \in Docs : d = Doc(u)
        BY <2>1
      <4>3. ~Exists(d)'
        BY <1>1, <4>1, <4>2 DEF Exists, UpdatesTypeOK
      <4>4. ~Unborn(d)'
        BY <1>2, <2>2, <4>2
      <4> QED
        BY <2>1, <4>2, <4>3, <4>4 DEF Dead, Doc, Unborn, Pending
    <3>3. CASE Cleaned(u, k) \/ Finished(u, k)
      <4>1. Dead(Doc(u))
        BY <2>1, <2>5, <3>3 DEF Untouched, Cleaned, Finished
      <4>2. PICK d \in Docs : d = Doc(u)
        BY <2>1
      <4>3. Dead(d)'
        BY <1>3, <4>1, <4>2
      <4> QED
        BY <2>1, <4>2, <4>3 DEF Dead, Doc, Unborn, Pending
    <3> QED
      BY <3>1, <3>2, <3>3
  <2>6. ASSUME NEW w \in UCalls \ {u}, ucall'[w].op = "delete", ucall'[w].pc \in {"clean", "ok"}
        PROVE  Dead(Doc(w))'
    <3>1. PICK d : d = Doc(w)
      OBVIOUS
    <3>2. d \in Docs /\ Dead(d)
      BY <1>1, <2>1, <2>6, <3>1
         DEF Untouched, UpdateInv, UpdatesPlaced, UpdatePlaced, UpdateSteps, Doc
    <3>3. Dead(d)'
      BY <1>3, <3>2
    <3> QED
      BY <2>1, <3>1, <3>3 DEF Dead, Doc, Unborn, Pending
  <2> QED
    BY <2>1, <2>4, <2>5, <2>6 DEF Untouched
<1> QED
  BY <1>1, <1>4, <1>5, <1>6, UpdateAdvances

LEMMA FoldersKeepUntouched ==
    ASSUME BaseInv, Untouched, FolderCalls PROVE Untouched'
<1>1. /\ FoldersTypeOK /\ CallsPlaced /\ UpdateInv /\ UpdatesTypeOK
      /\ FoldersNext /\ IngestStores /\ UNCHANGED ucall
  BY DEF BaseInv, UpdateInv, FolderCalls, IngestStores
<1>2. \A d \in Docs : Unborn(d)' => Unborn(d) /\ ~Exists(d) /\ ~Exists(d)'
  BY <1>1, UnbornBefore, BirthIsLast DEF BaseInv, IdsAreFresh
<1>3. ASSUME NEW d \in Docs, ~Exists(d)' PROVE blobs'[d] = blobs[d]
  BY <1>1, <1>3 DEF IngestStores, Exists
<1>4. \A d \in Docs : Dead(d) => Dead(d)'
  BY DeadStays
<1>5. \A u \in UCalls : ucall[u].pc \in {"clean", "ok"} => Doc(u) \in Docs
  BY <1>1 DEF UpdateInv, UpdatesPlaced, UpdatePlaced, UpdateSteps, Doc
<1>6. \A u \in UCalls : Doc(u)' = Doc(u)
  BY <1>1 DEF Doc
<1>7. \A d \in Docs : Unborn(d)' =>
         /\ \A v \in Versions : blobs'[d][v] = None
         /\ \A u \in UCalls : Doc(u)' = d => ucall'[u].pc \in {"new", "error"}
  BY <1>1, <1>2, <1>3, <1>6 DEF Untouched
<1>8. ASSUME NEW u \in UCalls, ucall'[u].op = "delete", ucall'[u].pc \in {"clean", "ok"}
      PROVE  Dead(Doc(u))'
  <2>1. PICK d \in Docs : d = Doc(u)
    BY <1>1, <1>5, <1>8
  <2>2. Dead(d)'
    BY <1>1, <1>4, <1>8, <2>1 DEF Untouched
  <2> QED
    BY <1>6, <2>1, <2>2 DEF Dead, Unborn, Pending
<1> QED
  BY <1>7, <1>8 DEF Untouched

LEMMA InitUntouched ==
    ASSUME Init PROVE Untouched
<1>1. \A u \in UCalls : ucall[u].pc = "new" /\ ucall[u].op = "meta"
  BY DEF Init, UpdatesInit, Idle
<1>2. \A d \in Docs : Unborn(d) => ~Exists(d)
  BY InitBase DEF BaseInv, IdsAreFresh
<1>3. \A d \in Docs, v \in Versions : ~Exists(d) => blobs[d][v] = None
  BY DEF Init, UpdatesInit
<1> QED
  BY <1>1, <1>2, <1>3 DEF Untouched

LEMMA NextKeepsUntouched ==
    ASSUME BaseInv, Untouched, [Next]_vars PROVE Untouched'
<1>1. CASE UNCHANGED vars
  BY <1>1 DEF vars, folderVars, updateVars, Untouched, Unborn, Pending, PreRow, Dead, Exists, Doc
<1> QED
  BY <1>1, UpdatesKeepUntouched, FoldersKeepUntouched DEF Next

\* A row that a folder call leaves in place, but for the name, and one that it makes.
StaysPut(d) ==
    /\ docs'[d].version = docs[d].version /\ docs'[d].text = docs[d].text
    /\ docs'[d].chunked = docs[d].chunked /\ docs'[d].files = docs[d].files
    /\ docs'[d].tags = docs[d].tags
    /\ chunks'[d] = chunks[d] /\ blobs'[d] = blobs[d]

Arrives(d) ==
    /\ docs'[d].version = 1 /\ docs'[d].text = {Base} /\ docs'[d].chunked = {Base}
    /\ docs'[d].tags = {} /\ chunks'[d] = {{Base}}
    /\ \/ docs'[d].files = <<>> /\ blobs'[d] = blobs[d]
       \/ docs'[d].files = <<Base>> /\ blobs'[d] = [blobs[d] EXCEPT ![1] = Base]

LEMMA FoldersAndRows ==
    ASSUME BaseInv, FolderCalls, NEW d \in Docs
    PROVE  /\ ~Exists(d)' => chunks'[d] = chunks[d] /\ blobs'[d] = blobs[d]
           /\ Exists(d)' => \/ Exists(d) /\ StaysPut(d)
                            \/ Unborn(d) /\ ~Exists(d) /\ Arrives(d)
<1>1. FoldersNext /\ IngestStores /\ UpdatesTypeOK /\ CallsPlaced
  BY DEF FolderCalls, BaseInv, UpdateInv
<1>2. CASE StoresStay
  BY <1>2 DEF StoresStay, Exists, StaysPut
<1>3. ASSUME NEW e \in Docs, NEW n, Renamed(e, n)
      PROVE  Exists(e) /\ chunks' = chunks /\ blobs' = blobs /\ StaysPut(d) /\ (Exists(d)' => Exists(d))
  BY <1>1, <1>3 DEF Renamed, StaysPut, UpdatesTypeOK, Exists
<1>4. ASSUME NEW e \in Docs, Erased(e)
      PROVE  chunks' = chunks /\ blobs' = blobs /\ (Exists(d)' => Exists(d) /\ StaysPut(d))
  BY <1>1, <1>4 DEF Erased, StaysPut, UpdatesTypeOK, Exists
<1>5. ASSUME NEW c \in FCalls, IngestRow(c), Born(fcall[c].doc, fcall[c].name)
      PROVE  /\ ~Exists(d)' => chunks'[d] = chunks[d] /\ blobs'[d] = blobs[d]
             /\ Exists(d)' => \/ Exists(d) /\ StaysPut(d)
                              \/ Unborn(d) /\ ~Exists(d) /\ Arrives(d)
  <2>1. PICK e \in Docs : e = fcall[c].doc
    BY <1>1, <1>5 DEF IngestRow, InStep, Ingests, CallsPlaced, Placed, Steps
  <2>2. PICK r \in Row : /\ docs' = [docs EXCEPT ![e] = r]
                         /\ r.version = 1 /\ r.text = {Base} /\ r.chunked = {Base} /\ r.tags = {}
                         /\ \/ r.files = <<>> /\ UNCHANGED blobs
                            \/ r.files = <<Base>> /\ blobs' = [blobs EXCEPT ![e][1] = Base]
    BY <1>5, <2>1 DEF Born
  <2>3. chunks' = [chunks EXCEPT ![e] = {{Base}}] /\ ~Exists(e)
    BY <1>5, <2>1 DEF Born
  <2>4. docs'[e] = r /\ docs'[e] # None /\ Exists(e)' /\ chunks'[e] = {{Base}}
    BY <1>1, <2>2, <2>3, NoneAssumption DEF UpdatesTypeOK, Exists
  <2>5. CASE d # e
    BY <1>1, <2>2, <2>3, <2>5 DEF UpdatesTypeOK, Exists, StaysPut
  <2>6. CASE d = e
    <3>1. Unborn(d)
      BY <1>1, <2>3, <2>4, <2>6, BirthIsDue
    <3>2. Arrives(d)
      BY <1>1, <2>2, <2>3, <2>4, <2>6 DEF Arrives, UpdatesTypeOK
    <3> QED
      BY <2>3, <2>4, <2>6, <3>1, <3>2
  <2> QED
    BY <2>5, <2>6
<1>6. \/ StoresStay
      \/ \E e \in Docs, n \in Names \cup {None} : Renamed(e, n)
      \/ \E e \in Docs : Erased(e)
      \/ \E c \in FCalls : IngestRow(c) /\ Born(fcall[c].doc, fcall[c].name)
  BY <1>1, FolderEffects
<1> QED
  BY <1>2, <1>3, <1>4, <1>5, <1>6

\* The chunks that an update has stored and is about to write into the row.
Renews(k) == k.op \in {"text", "file"} /\ k.pc \in {"existing", "write"}

Stored ==
    /\ ListedChunksAreStored
    /\ \A u \in UCalls :
          Renews(ucall[u]) /\ Exists(Doc(u)) => Copy(u).chunked \in chunks[Doc(u)]

LEMMA FoldersKeepStored ==
    ASSUME BaseInv, Untouched, Stored, FolderCalls PROVE Stored'
<1>1. UpdateInv /\ UNCHANGED ucall
  BY DEF BaseInv, FolderCalls, IngestStores
<1>2. \A u \in UCalls : Renews(ucall[u]) => Doc(u) \in Docs
  BY <1>1 DEF Renews, UpdateInv, UpdatesPlaced, UpdatePlaced, UpdateSteps, Doc
<1>3. ASSUME NEW d \in Docs, Exists(d)', docs'[d].chunked # {}
      PROVE  docs'[d].chunked \in chunks'[d]
  <2>1. CASE Exists(d) /\ StaysPut(d)
    BY <1>3, <2>1 DEF Stored, ListedChunksAreStored, StaysPut
  <2>2. CASE Arrives(d)
    BY <2>2 DEF Arrives
  <2> QED
    BY <1>3, <2>1, <2>2, FoldersAndRows
<1>4. ASSUME NEW u \in UCalls, Renews(ucall[u])', Exists(Doc(u))'
      PROVE  Copy(u)'.chunked \in chunks'[Doc(u)']
  <2>1. PICK d : d = Doc(u)
    OBVIOUS
  <2>2. d \in Docs /\ Exists(d)' /\ Renews(ucall[u]) /\ Copy(u)' = Copy(u) /\ Doc(u)' = d
    BY <1>1, <1>2, <1>4, <2>1 DEF Renews, Doc, Copy, Exists
  <2>3. ~Unborn(d)
    BY <2>1, <2>2 DEF Untouched, Renews
  <2>4. Exists(d) /\ StaysPut(d)
    BY <2>2, <2>3, FoldersAndRows
  <2> QED
    BY <2>1, <2>2, <2>4 DEF Stored, StaysPut
<1> QED
  BY <1>3, <1>4 DEF Stored, ListedChunksAreStored

\* Chunks of a document that is there are only added to.
LEMMA ChunksOnlyGrow ==
    ASSUME BaseInv, Untouched, UpdateCalls, NEW d \in Docs, Exists(d)
    PROVE  chunks[d] \subseteq chunks'[d]
<1>1. UpdateInv /\ UpdatesTypeOK /\ UpdatesNext
  BY DEF BaseInv, UpdateInv, UpdateCalls
<1>2. CASE UNCHANGED chunks
  BY <1>2
<1>3. ASSUME NEW u \in UCalls, Doc(u) \in Docs, Insert(Doc(u), Copy(u).text)
      PROVE  chunks[d] \subseteq chunks'[d]
  BY <1>1, <1>3 DEF Insert, UpdatesTypeOK
<1>4. ASSUME NEW u \in UCalls, NEW k, Advanced(u, k)
      PROVE  chunks[d] \subseteq chunks'[d]
  <2>1. CASE Cleaned(u, k)
    <3>1. Doc(u) \in Docs /\ ucall[u].op = "delete"
      <4>1. ucall[u] \in UpdateCall /\ UpdatePlaced(ucall[u]) /\ ucall[u].pc = "clean"
        BY <1>1, <2>1 DEF Cleaned, UpdateInv, UpdatesTypeOK, UpdatesPlaced
      <4> QED
        BY <1>4, <4>1
           DEF Advanced, UpdatePlaced, UpdateSteps, UpdateWay, UpdateCall, UpdateOps, Updates
    <3>2. Dead(Doc(u))
      BY <2>1, <3>1 DEF Untouched, Cleaned
    <3>3. d # Doc(u)
      BY <3>2 DEF Dead
    <3> QED
      BY <1>1, <2>1, <3>1, <3>3 DEF Cleaned, UpdatesTypeOK
  <2>2. CASE Broke(u, k) \/ Filled(u, k)
    BY <1>2, <1>3, <1>4, <2>2 DEF Broke, Filled, Advanced
  <2>3. CASE ~Cleaned(u, k) /\ ~Broke(u, k) /\ ~Filled(u, k)
    BY <1>4, <2>3
       DEF Advanced, Passed, GaveUp, Uploaded, Cut, Merged, Applied, ReadAgain, Wrote, WroteRules,
           Removed, Finished
  <2> QED
    BY <2>1, <2>2, <2>3
<1> QED
  BY <1>1, <1>4, UpdateAdvances DEF Began, UpdatesCrash, UnchangedStores

LEMMA UpdatesKeepStored ==
    ASSUME BaseInv, Untouched, Stored, UpdateCalls PROVE Stored'
<1>1. UpdateInv /\ UpdatesTypeOK /\ UpdatesNext
  BY DEF BaseInv, UpdateInv, UpdateCalls
<1>2. \A d \in Docs : Exists(d)' => Exists(d) /\ chunks[d] \subseteq chunks'[d]
  BY <1>1, RowsOnlyGo, ChunksOnlyGrow
<1>3. \A u \in UCalls : Renews(ucall[u]) => Doc(u) \in Docs
  BY <1>1 DEF Renews, UpdateInv, UpdatesPlaced, UpdatePlaced, UpdateSteps, Doc
<1>4. ASSUME UNCHANGED docs, NEW d \in Docs, Exists(d)', docs'[d].chunked # {}
      PROVE  docs'[d].chunked \in chunks'[d]
  BY <1>2, <1>4 DEF Stored, ListedChunksAreStored, Exists
<1>5. ASSUME NEW u \in UCalls, Renews(ucall[u]), Exists(Doc(u))',
             Doc(u)' = Doc(u), Copy(u)' = Copy(u)
      PROVE  Copy(u)'.chunked \in chunks'[Doc(u)']
  <2>1. PICK d \in Docs : d = Doc(u)
    BY <1>3, <1>5
  <2>2. Exists(d)'
    BY <1>5, <2>1 DEF Exists
  <2>3. Copy(u).chunked \in chunks[d]
    BY <1>2, <1>5, <2>1, <2>2 DEF Stored
  <2> QED
    BY <1>2, <1>5, <2>1, <2>2, <2>3
<1>6. CASE UpdatesCrash
  <2>1. UNCHANGED docs
    BY <1>6 DEF UpdatesCrash, UnchangedStores
  <2>2. ASSUME NEW u \in UCalls, Renews(ucall[u])', Exists(Doc(u))'
        PROVE  Copy(u)'.chunked \in chunks'[Doc(u)']
    <3>1. Renews(ucall[u]) /\ Doc(u)' = Doc(u) /\ Copy(u)' = Copy(u)
      BY <1>1, <1>6, <2>2, UpdatesCrashEnds DEF Renews, Doc, Copy, UpdateSteps
    <3> QED
      BY <1>5, <2>2, <3>1
  <2> QED
    BY <1>4, <2>1, <2>2 DEF Stored, ListedChunksAreStored
<1>7. ASSUME NEW u \in UCalls, NEW k, Becomes(u, k), \A w \in UCalls \ {u} : ucall'[w] = ucall[w],
             ucall'[u] = k,
             \A d \in Docs : Exists(d)' /\ docs'[d].chunked # {} => docs'[d].chunked \in chunks'[d],
             Renews(k) /\ Exists(k.doc)' => k.copy.chunked \in chunks'[k.doc]
      PROVE  Stored'
  <2>1. ASSUME NEW w \in UCalls, Renews(ucall[w])', Exists(Doc(w))'
        PROVE  Copy(w)'.chunked \in chunks'[Doc(w)']
    <3>1. CASE w = u
      BY <1>7, <2>1, <3>1 DEF Renews, Doc, Copy, Exists
    <3>2. CASE w # u
      <4>1. Renews(ucall[w]) /\ Doc(w)' = Doc(w) /\ Copy(w)' = Copy(w)
        BY <1>7, <2>1, <3>2 DEF Renews, Doc, Copy
      <4> QED
        BY <1>5, <2>1, <4>1
    <3> QED
      BY <3>1, <3>2
  <2> QED
    BY <1>7, <2>1 DEF Stored, ListedChunksAreStored
<1>8. ASSUME NEW u \in UCalls, NEW k, Becomes(u, k), Began(u, k) PROVE Stored'
  <2>1. ucall'[u] = k /\ \A w \in UCalls \ {u} : ucall'[w] = ucall[w]
    BY <1>1, <1>8, UpdateAfter
  <2>2. ~Renews(k) /\ UNCHANGED docs
    BY <1>8 DEF Began, Renews
  <2> QED
    BY <1>4, <1>7, <1>8, <2>1, <2>2
<1>9. ASSUME NEW u \in UCalls, NEW k, Advanced(u, k) PROVE Stored'
  <2>1. /\ ucall'[u] = k /\ \A w \in UCalls \ {u} : ucall'[w] = ucall[w]
        /\ k.op = ucall[u].op /\ k.doc = Doc(u) /\ ucall[u].pc \in UpdateSteps
        /\ Becomes(u, k)
    BY <1>1, <1>9, UpdateAfter DEF Advanced, Goes
  <2>2. PICK e \in Docs : e = Doc(u)
    BY <1>9 DEF Advanced
  <2>3. ucall[u] \in UpdateCall /\ ucall[u].pc \in UpdateWay[ucall[u].op]
    BY <1>1, <2>1 DEF UpdateInv, UpdatesTypeOK, UpdatesPlaced, UpdatePlaced
  <2>4. ASSUME Renews(k), Exists(e)' PROVE k.copy.chunked \in chunks'[e]
    <3>1. CASE Filled(u, k)
      BY <1>1, <2>2, <3>1 DEF Filled, Insert, UpdatesTypeOK
    <3>2. CASE ReadAgain(u, k)
      <4>1. Renews(ucall[u])
        BY <2>1, <2>4, <3>2 DEF ReadAgain, Renews
      <4> QED
        BY <1>2, <2>2, <2>4, <3>2, <4>1 DEF ReadAgain, Stored, Copy
    <3>3. CASE Applied(u, k)
      BY <2>1, <2>3, <2>4, <3>3 DEF Applied, Renews, UpdateWay, UpdateCall, UpdateOps, Updates
    <3>4. CASE Passed(u, k)
      BY <2>1, <2>4, <3>4 DEF Passed, Renews, FirstStep
    <3> QED
      BY <1>9, <2>4, <3>1, <3>2, <3>3, <3>4
         DEF Advanced, Renews, GaveUp, Broke, Uploaded, Cut, Merged, Wrote, WroteRules,
             Removed, Cleaned, Finished
  <2>5. ASSUME NEW d \in Docs, Exists(d)', docs'[d].chunked # {}
        PROVE  docs'[d].chunked \in chunks'[d]
    <3>1. CASE Wrote(u, k)
      <4>1. PICK r \in Row :
               /\ docs' = [docs EXCEPT ![e] = r]
               /\ r.chunked = IF ucall[u].op = "meta" THEN docs[e].chunked ELSE Copy(u).chunked
        BY <2>2, <3>1 DEF Wrote
      <4>2. ucall[u].op \in Updates /\ ucall[u].pc = "write" /\ Exists(e)
        BY <2>2, <3>1 DEF Wrote
      <4>3. CASE d # e
        BY <1>1, <1>2, <2>5, <4>1, <4>3 DEF Stored, ListedChunksAreStored, UpdatesTypeOK, Exists
      <4>4. CASE d = e /\ ucall[u].op = "meta"
        <5>1. docs'[d].chunked = docs[d].chunked
          BY <1>1, <4>1, <4>4 DEF UpdatesTypeOK
        <5> QED
          BY <1>2, <2>5, <5>1 DEF Stored, ListedChunksAreStored
      <4>5. CASE d = e /\ ucall[u].op # "meta"
        <5>1. docs'[d].chunked = Copy(u).chunked
          BY <1>1, <4>1, <4>5 DEF UpdatesTypeOK
        <5>2. Renews(ucall[u])
          BY <4>2, <4>5 DEF Renews, Updates
        <5>3. Copy(u).chunked \in chunks[d]
          BY <1>2, <2>2, <2>5, <4>5, <5>2 DEF Stored
        <5> QED
          BY <1>2, <2>5, <5>1, <5>3
      <4> QED
        BY <4>3, <4>4, <4>5
    <3>2. CASE WroteRules(u, k)
      <4>1. docs'[d].chunked = docs[d].chunked
        BY <1>1, <2>2, <3>2 DEF WroteRules, UpdatesTypeOK
      <4> QED
        BY <1>2, <2>5, <4>1 DEF Stored, ListedChunksAreStored
    <3>3. CASE Removed(u, k)
      <4>1. docs'[d] = docs[d]
        BY <1>1, <2>2, <2>5, <3>3 DEF Removed, UpdatesTypeOK, Exists
      <4> QED
        BY <1>2, <2>5, <4>1 DEF Stored, ListedChunksAreStored
    <3>4. CASE UNCHANGED docs
      BY <1>4, <2>5, <3>4
    <3> QED
      BY <1>9, <3>1, <3>2, <3>3, <3>4
         DEF Advanced, Passed, GaveUp, Broke, Uploaded, Cut, Merged, Filled, Applied, ReadAgain, Cleaned,
             Finished
  <2> QED
    BY <1>7, <2>1, <2>2, <2>4, <2>5
<1> QED
  BY <1>1, <1>6, <1>8, <1>9, UpdateAdvances

\* A row never lists chunks that are not in the store, whatever updates, deletions and
\* folder calls run at the same time and fail: chunks are stored before the row that
\* names them, and taken away after it.
THEOREM ListedChunksStayStored == Spec => []ListedChunksAreStored
<1>1. Init => Stored
  <2> SUFFICES ASSUME Init PROVE Stored
    OBVIOUS
  <2>1. \A u \in UCalls : ~Renews(ucall[u])
    BY DEF Init, UpdatesInit, Idle, Renews
  <2>2. \A d \in Docs : Exists(d) => docs[d].text = docs[d].chunked
    BY InitRows
  <2>3. chunks = [d \in Docs |-> IF Exists(d) /\ docs[d].text # {} THEN {docs[d].text} ELSE {}]
    BY DEF Init, UpdatesInit
  <2> QED
    BY <2>1, <2>2, <2>3 DEF Stored, ListedChunksAreStored
<1>2. BaseInv /\ Untouched /\ Stored /\ [Next]_vars => Stored'
  <2> SUFFICES ASSUME BaseInv, Untouched, Stored, [Next]_vars PROVE Stored'
    OBVIOUS
  <2>1. CASE UNCHANGED vars
    BY <2>1 DEF vars, updateVars, Stored, ListedChunksAreStored, Exists, Doc, Copy
  <2> QED
    BY <2>1, FoldersKeepStored, UpdatesKeepStored DEF Next
<1>3. Stored => ListedChunksAreStored
  BY DEF Stored
<1> QED
  BY <1>1, <1>2, <1>3, InitBase, NextKeepsBase, InitUntouched, NextKeepsUntouched, PTL DEF Spec

-----------------------------------------------------------------------------
\* The calls among T are calls on document d.
Own(T, d) == \A t \in T : t \in UCalls => Doc(t) = d /\ ucall[t].pc # "new"

\* Unless two updates were between split and merge at once, the one there finds its
\* own results, or none, and so all copies and rows have tags of their own.
TagsInv ==
    ~mixed =>
       /\ \A d \in Docs : Exists(d) => Own(docs[d].tags, d)
       /\ \A u \in UCalls : ucall[u].pc # "new" /\ Copy(u) # None => Own(Copy(u).tags, Doc(u))
       /\ \A u \in UCalls : UStep(u, "merge") => last \in {u, None}
       /\ \A u, w \in UCalls : UStep(u, "merge") /\ UStep(w, "merge") => u = w

LEMMA OwnStays ==
    ASSUME UpdateInv, UpdatesNext, NEW T, NEW d, Own(T, d) PROVE Own(T, d)'
BY NoUpdateIsNew DEF Own

LEMMA FoldersKeepTags ==
    ASSUME BaseInv, TagsInv, FolderCalls PROVE TagsInv'
<1>1. UNCHANGED <<ucall, last, mixed>>
  BY DEF FolderCalls, IngestStores
<1>2. SUFFICES ASSUME ~mixed PROVE TagsInv'
  BY <1>1 DEF TagsInv
<1>3. ASSUME NEW d \in Docs, Exists(d)' PROVE Own(docs[d].tags, d)'
  <2>1. CASE Exists(d) /\ StaysPut(d)
    <3>1. PICK T : T = docs[d].tags
      OBVIOUS
    <3>2. Own(T, d)
      BY <1>2, <2>1, <3>1 DEF TagsInv
    <3>3. docs'[d].tags = T
      BY <2>1, <3>1 DEF StaysPut
    <3> QED
      BY <1>1, <3>2, <3>3 DEF Own, Doc
  <2>2. CASE Arrives(d)
    BY <2>2 DEF Arrives, Own
  <2> QED
    BY <1>3, <2>1, <2>2, FoldersAndRows
<1> QED
  BY <1>1, <1>2, <1>3 DEF TagsInv, Own, Doc, Copy, UStep

LEMMA UpdatesKeepTags ==
    ASSUME BaseInv, TagsInv, UpdateCalls PROVE TagsInv'
<1>1. UpdateInv /\ UpdatesTypeOK /\ UpdatesNext
  BY DEF BaseInv, UpdateInv, UpdateCalls
<1>2. ASSUME UNCHANGED docs, ~mixed, NEW d \in Docs, Exists(d)' PROVE Own(docs[d].tags, d)'
  <2>1. PICK T : T = docs[d].tags
    OBVIOUS
  <2>2. Own(T, d)
    BY <1>2, <2>1 DEF TagsInv, Exists
  <2>3. Own(T, d)' /\ docs'[d].tags = T
    BY <1>1, <1>2, <2>1, <2>2, OwnStays
  <2> QED
    BY <2>3 DEF Own
<1>3. ASSUME ~mixed, NEW u \in UCalls, ucall[u].pc # "new", ucall'[u].copy # None,
             ucall'[u].copy = Copy(u)
      PROVE  Own(Copy(u).tags, Doc(u))'
  <2>1. PICK T, d : T = Copy(u).tags /\ d = Doc(u)
    OBVIOUS
  <2>2. Own(T, d)
    BY <1>3, <2>1 DEF TagsInv
  <2>3. Own(T, d)' /\ Copy(u)'.tags = T /\ Doc(u)' = d
    BY <1>1, <1>3, <2>1, <2>2, OwnStays, NoUpdateIsNew DEF Copy
  <2> QED
    BY <2>3 DEF Own
<1>4. CASE UpdatesCrash
  <2>1. UNCHANGED <<docs, mixed>> /\ last' = None
    BY <1>4 DEF UpdatesCrash, UnchangedStores, UnchangedNotes
  <2>2. \A u \in UCalls : /\ ucall'[u].copy = Copy(u) /\ ucall'[u].pc # "merge"
                          /\ ucall'[u].pc # "new" => ucall[u].pc # "new"
    BY <1>1, <1>4, UpdatesCrashEnds DEF Copy, UpdateSteps
  <2> QED
    BY <1>2, <1>3, <2>1, <2>2 DEF TagsInv, UStep, Copy
<1>5. ASSUME NEW u \in UCalls, NEW k, ucall'[u] = k,
             \A w \in UCalls \ {u} : ucall'[w] = ucall[w], mixed => mixed',
             ~mixed' =>
                /\ \A d \in Docs : Exists(d)' => Own(docs[d].tags, d)'
                /\ k.pc # "new" /\ k.copy # None => Own(Copy(u).tags, Doc(u))'
                /\ k.pc = "merge" => /\ last' \in {u, None}
                                     /\ \A w \in UCalls \ {u} : ~UStep(w, "merge")
                /\ k.pc # "merge" => last' = last \/ last' = None
      PROVE  TagsInv'
  <2>1. SUFFICES ASSUME ~mixed' PROVE TagsInv'
    BY DEF TagsInv
  <2>2. ~mixed
    BY <1>5, <2>1
  <2>3. ASSUME NEW w \in UCalls, ucall'[w].pc # "new", Copy(w)' # None
        PROVE  Own(Copy(w).tags, Doc(w))'
    <3>1. CASE w = u
      BY <1>5, <2>1, <2>3, <3>1 DEF Copy
    <3>2. CASE w # u
      BY <1>3, <1>5, <2>2, <2>3, <3>2 DEF Copy
    <3> QED
      BY <3>1, <3>2
  <2>4. \A w \in UCalls \ {u} : UStep(w, "merge")' <=> UStep(w, "merge")
    BY <1>5 DEF UStep
  <2>5. UStep(u, "merge")' <=> k.pc = "merge"
    BY <1>5 DEF UStep
  <2>6. /\ \A w \in UCalls : UStep(w, "merge") => last \in {w, None}
        /\ \A v, w \in UCalls : UStep(v, "merge") /\ UStep(w, "merge") => v = w
    BY <2>2 DEF TagsInv
  <2>7. \A w \in UCalls : UStep(w, "merge")' => last' \in {w, None}
    BY <1>5, <2>1, <2>4, <2>5, <2>6
  <2>8. \A v, w \in UCalls : UStep(v, "merge")' /\ UStep(w, "merge")' => v = w
    BY <1>5, <2>1, <2>4, <2>5, <2>6
  <2> QED
    BY <1>5, <2>1, <2>3, <2>7, <2>8 DEF TagsInv
<1>6. ASSUME NEW u \in UCalls, NEW k, Becomes(u, k), Began(u, k) PROVE TagsInv'
  <2>1. /\ ucall'[u] = k /\ \A w \in UCalls \ {u} : ucall'[w] = ucall[w]
        /\ k.pc # "merge" /\ UNCHANGED <<docs, last, mixed>>
    BY <1>1, <1>6, UpdateAfter DEF Began
  <2>2. PICK d \in Docs : d = k.doc
    BY <1>6 DEF Began
  <2>3. ASSUME ~mixed, k.copy # None PROVE Own(Copy(u).tags, Doc(u))'
    <3>1. k.copy = docs'[d] /\ Exists(d)'
      BY <1>6, <2>1, <2>2, <2>3 DEF Began, Exists
    <3>2. Own(docs[d].tags, d)'
      BY <1>2, <2>1, <2>3, <3>1
    <3> QED
      BY <2>1, <2>2, <3>1, <3>2 DEF Own, Copy, Doc
  <2> QED
    BY <1>2, <1>5, <2>1, <2>3
<1>7. ASSUME NEW u \in UCalls, NEW k, Advanced(u, k) PROVE TagsInv'
  <2>1. /\ ucall'[u] = k /\ \A w \in UCalls \ {u} : ucall'[w] = ucall[w]
        /\ k.op = ucall[u].op /\ k.doc = Doc(u) /\ ucall[u].pc \in UpdateSteps /\ ucall[u].pc # "new"
    BY <1>1, <1>7, UpdateAfter DEF Advanced, Goes, UpdateSteps
  <2>2. Copy(u) # None /\ ucall[u] \in UpdateCall /\ ucall[u].pc \in UpdateWay[ucall[u].op]
        /\ Copy(u)' = k.copy
    BY <1>1, <2>1 DEF UpdateInv, UpdatesTypeOK, UpdatesPlaced, UpdatePlaced, Copy
  <2>3. PICK d \in Docs : d = Doc(u)
    BY <1>7 DEF Advanced
  <2>3a. PICK T : T = Copy(u).tags
    OBVIOUS
  <2>4. ~mixed => Own(T, d)
    BY <2>1, <2>2, <2>3, <2>3a DEF TagsInv
  <2>5. ~mixed => Own(T, d)' /\ Own({u}, d)'
    BY <1>1, <2>1, <2>3, <2>3a, <2>4, OwnStays, NoUpdateIsNew DEF Own
  <2>6. mixed => mixed'
    BY <1>7
       DEF Advanced, Passed, GaveUp, Broke, Uploaded, Cut, Merged, Filled, Applied, ReadAgain, Wrote,
           WroteRules, Removed, Cleaned, Finished
  <2>7. ASSUME ~mixed, NEW e \in Docs, Exists(e)' PROVE Own(docs[e].tags, e)'
    <3>1. CASE Wrote(u, k) \/ WroteRules(u, k)
      <4>1. PICK r \in Row : docs' = [docs EXCEPT ![d] = r] /\ r.tags = T
        BY <2>3, <2>3a, <3>1 DEF Wrote, WroteRules
      <4>2. CASE e = d
        <5>1. docs'[e].tags = T
          BY <1>1, <4>1, <4>2 DEF UpdatesTypeOK
        <5> QED
          BY <2>5, <2>7, <4>2, <5>1 DEF Own
      <4>3. CASE e # d
        <5>1. docs'[e] = docs[e] /\ Exists(e)
          BY <1>1, <2>7, <4>1, <4>3 DEF UpdatesTypeOK, Exists
        <5>2. PICK S : S = docs[e].tags
          OBVIOUS
        <5>3. Own(S, e)
          BY <2>7, <5>1, <5>2 DEF TagsInv
        <5>4. Own(S, e)'
          BY <1>1, <5>3, OwnStays
        <5> QED
          BY <5>1, <5>2, <5>4 DEF Own
      <4> QED
        BY <4>2, <4>3
    <3>2. CASE Removed(u, k)
      <4>1. docs'[e] = docs[e] /\ Exists(e)
        BY <1>1, <2>3, <2>3a, <2>7, <3>2 DEF Removed, UpdatesTypeOK, Exists
      <4>2. PICK S : S = docs[e].tags
        OBVIOUS
      <4>3. Own(S, e)
        BY <2>7, <4>1, <4>2 DEF TagsInv
      <4>4. Own(S, e)'
        BY <1>1, <4>3, OwnStays
      <4> QED
        BY <4>1, <4>2, <4>4 DEF Own
    <3>3. CASE UNCHANGED docs
      BY <1>2, <2>7, <3>3
    <3> QED
      BY <1>7, <3>1, <3>2, <3>3
         DEF Advanced, Passed, GaveUp, Broke, Uploaded, Cut, Merged, Filled, Applied, ReadAgain, Cleaned,
             Finished
  <2>8. CASE Merged(u, k)
    <3>1. mixed' = mixed /\ k.copy.tags = T \cup ({last} \ {None}) /\ last' = None /\ k.pc = "store"
      BY <2>3, <2>3a, <2>8 DEF Merged
    <3>2. ~mixed => last \in {u, None}
      BY <2>8 DEF Merged, TagsInv, UStep
    <3>3. ~mixed => k.copy.tags \subseteq T \cup {u}
      BY <3>1, <3>2
    <3>4. ~mixed => Own(Copy(u).tags, Doc(u))'
      BY <2>1, <2>2, <2>3, <2>3a, <2>5, <3>3 DEF Own, Doc
    <3> QED
      BY <1>5, <2>1, <2>6, <2>7, <3>1, <3>4
  <2>9. CASE Applied(u, k)
    <3>1. UNCHANGED <<mixed, last>> /\ k.copy.tags = T \cup {u} /\ k.pc = "existing"
      BY <2>3, <2>3a, <2>9 DEF Applied
    <3>2. ~mixed => Own(Copy(u).tags, Doc(u))'
      BY <2>1, <2>2, <2>3, <2>3a, <2>5, <3>1 DEF Own, Doc
    <3> QED
      BY <1>5, <2>1, <2>6, <2>7, <3>1, <3>2
  <2>10. CASE Cut(u, k)
    <3>1. /\ k.copy.tags = T /\ last' \in {u, None}
          /\ mixed' = (mixed \/ \E w \in UCalls \ {u} : UStep(w, "merge")) /\ k.pc = "merge"
      BY <2>3, <2>3a, <2>10 DEF Cut
    <3>2. ~mixed => Own(Copy(u).tags, Doc(u))'
      BY <2>1, <2>2, <2>3, <2>3a, <2>5, <3>1 DEF Own, Doc
    <3>3. ~mixed' => ~mixed /\ \A w \in UCalls \ {u} : ~UStep(w, "merge")
      BY <3>1
    <3> QED
      BY <1>5, <2>1, <2>6, <2>7, <3>1, <3>2, <3>3
  <2>11. CASE ~Merged(u, k) /\ ~Applied(u, k) /\ ~Cut(u, k)
    <3>1. /\ k.copy.tags = T /\ UNCHANGED <<mixed, last>> /\ k.pc # "merge"
      <4>1. CASE Passed(u, k)
        <5>1. FirstStep[ucall[u].op] # "merge"
          BY <2>2, <4>1 DEF Passed, FirstStep, UpdateWay, UpdateCall, UpdateOps, Updates
        <5> QED
          BY <2>3, <2>3a, <4>1, <5>1 DEF Passed
      <4> QED
        BY <1>7, <2>3, <2>3a, <2>11, <4>1
           DEF Advanced, GaveUp, Broke, Uploaded, Filled, ReadAgain, Wrote, WroteRules, Removed, Cleaned,
               Finished
    <3>2. ~mixed => Own(Copy(u).tags, Doc(u))'
      BY <2>1, <2>2, <2>3, <2>3a, <2>5, <3>1 DEF Own, Doc
    <3> QED
      BY <1>5, <2>1, <2>6, <2>7, <3>1, <3>2
  <2> QED
    BY <2>8, <2>9, <2>10, <2>11
<1> QED
  BY <1>1, <1>4, <1>6, <1>7, UpdateAdvances

\* The metadata in a row comes from calls on that document, unless two updates waited
\* for their embeddings at once and found each other's results in the service object.
THEOREM TagsStayOwn == Spec => []TagsAreOwn
<1>1. Init => TagsInv
  <2> SUFFICES ASSUME Init PROVE TagsInv
    OBVIOUS
  <2>1. \A u \in UCalls : ucall[u].pc = "new"
    BY DEF Init, UpdatesInit, Idle
  <2>2. \A d \in Docs : Exists(d) => docs[d].tags = {}
    BY InitRows
  <2> QED
    BY <2>1, <2>2 DEF TagsInv, Own, UStep
<1>2. BaseInv /\ TagsInv /\ [Next]_vars => TagsInv'
  <2> SUFFICES ASSUME BaseInv, TagsInv, [Next]_vars PROVE TagsInv'
    OBVIOUS
  <2>1. CASE UNCHANGED vars
    BY <2>1 DEF vars, updateVars, TagsInv, Own, Exists, Doc, Copy, UStep
  <2> QED
    BY <2>1, FoldersKeepTags, UpdatesKeepTags DEF Next
<1>3. TagsInv => TagsAreOwn
  BY DEF TagsInv, TagsAreOwn, Own
<1> QED
  BY <1>1, <1>2, <1>3, InitBase, NextKeepsBase, PTL DEF Spec

-----------------------------------------------------------------------------
(* Documents that no two calls have worked on at once.                     *)

Alone == \A d \in Docs \ busy : \A u, w \in UCalls : Working(u, d) /\ Working(w, d) => u = w

LEMMA NextKeepsAlone ==
    ASSUME BaseInv, Alone, [Next]_vars PROVE Alone'
<1>1. CASE UNCHANGED <<ucall, busy>>
  BY <1>1 DEF Alone, Working, Doc
<1>2. ASSUME UpdatesNext PROVE Alone'
  <2>1. UpdateInv /\ UpdatesTypeOK
    BY DEF BaseInv, UpdateInv
  <2>2. CASE UpdatesCrash
    <3>1. \A u \in UCalls : ucall'[u].pc \notin UpdateSteps
      BY <2>1, <2>2, UpdatesCrashEnds DEF UpdateSteps
    <3> QED
      BY <3>1 DEF Alone, Working
  <2>3. ASSUME NEW u \in UCalls, NEW k, Becomes(u, k), Began(u, k) PROVE Alone'
    <3>1. ucall'[u] = k /\ \A w \in UCalls \ {u} : ucall'[w] = ucall[w]
      BY <2>1, <2>3, UpdateAfter
    <3>2. ASSUME NEW d \in Docs \ busy', NEW v \in UCalls, NEW w \in UCalls,
                 Working(v, d)', Working(w, d)'
          PROVE  v = w
      <4>1. d \notin busy /\ (k.doc = d => \A x \in UCalls \ {u} : ~Working(x, d))
        BY <2>3, <3>2 DEF Began
      <4>2. \A x \in UCalls \ {u} : Working(x, d)' => Working(x, d)
        BY <3>1 DEF Working, Doc
      <4>3. Working(u, d)' => k.doc = d
        BY <3>1 DEF Working, Doc
      <4> QED
        BY <3>2, <4>1, <4>2, <4>3 DEF Alone
    <3> QED
      BY <3>2 DEF Alone
  <2>4. ASSUME NEW u \in UCalls, NEW k, Advanced(u, k) PROVE Alone'
    <3>1. /\ ucall'[u] = k /\ \A w \in UCalls \ {u} : ucall'[w] = ucall[w]
          /\ k.doc = Doc(u) /\ ucall[u].pc \in UpdateSteps
      BY <2>1, <2>4, UpdateAfter DEF Advanced, Goes
    <3>2. busy' = busy
      BY <2>4
         DEF Advanced, Passed, GaveUp, Broke, Uploaded, Cut, Merged, Filled, Applied, ReadAgain, Wrote,
             WroteRules, Removed, Cleaned, Finished
    <3>3. \A w \in UCalls, d \in Docs : Working(w, d)' => Working(w, d)
      BY <3>1 DEF Working, Doc
    <3> QED
      BY <3>2, <3>3 DEF Alone
  <2> QED
    BY <1>2, <2>1, <2>2, <2>3, <2>4, UpdateAdvances
<1> QED
  BY <1>1, <1>2 DEF Next, vars, updateVars, FolderCalls, UpdateCalls, IngestStores

\* Each of the files has its key to itself.
Kept(files, held) == \A v \in 1 .. Len(files) : v \in Versions /\ held[v] = files[v]

LEMMA KeptOn ==
    ASSUME NEW files \in Seq(Parts), NEW S, NEW held \in [Versions -> S], NEW v \in Versions, NEW x,
           Kept(files, held), Len(files) < v
    PROVE  Kept(files, [held EXCEPT ![v] = x])
<1>1. PICK n \in Nat : n = Len(files)
  OBVIOUS
<1>2. PICK m \in Nat : m = MaxFiles
  BY UpdateAssumption
<1> QED
  BY <1>1, <1>2 DEF Kept, Versions

LEMMA KeptMore ==
    ASSUME NEW files \in Seq(Parts), NEW S, NEW held \in [Versions -> S], NEW u \in Parts,
           Kept(files, held), Len(files) + 1 \in Versions
    PROVE  Kept(Append(files, u), [held EXCEPT ![Len(files) + 1] = u])
<1>1. PICK n \in Nat : n = Len(files)
  OBVIOUS
<1>2. PICK m \in Nat : m = MaxFiles
  BY UpdateAssumption
<1>3. PICK more : more = Append(files, u)
  OBVIOUS
<1>4. Len(more) = n + 1 /\ more[n + 1] = u /\ \A v \in 1 .. n : more[v] = files[v]
  BY <1>1, <1>3
<1>5. PICK h : h = [held EXCEPT ![n + 1] = u]
  OBVIOUS
<1>6. h[n + 1] = u /\ \A v \in 1 .. n : h[v] = held[v]
  BY <1>1, <1>2, <1>5 DEF Versions
<1>7. ASSUME NEW v \in 1 .. (n + 1) PROVE v \in Versions /\ h[v] = more[v]
  <2>1. CASE v = n + 1
    BY <1>1, <1>4, <1>6, <2>1
  <2>2. CASE v \in 1 .. n
    BY <1>1, <1>4, <1>6, <2>2 DEF Kept
  <2> QED
    BY <1>7, <2>1, <2>2
<1> QED
  BY <1>1, <1>3, <1>4, <1>5, <1>7 DEF Kept

\* Call k has a copy of row r, with what it has added by now.
Renewing(k) == Renews(k) \/ k.pc \in {"merge", "store"}

Follows(k, r) ==
    /\ k.copy.version = r.version + (IF Renewing(k) THEN 1 ELSE 0)
    /\ IF Renewing(k) THEN k.copy.text # {} ELSE k.copy.text = r.text
    /\ k.copy.chunked = IF Renews(k) THEN k.copy.text ELSE r.chunked
    /\ Len(r.files) <= Len(k.copy.files)
    /\ k.op # "file" => k.copy.files = r.files
    /\ k.op = "rules" /\ k.pc = "write" => k.current.version = r.version

Match(u, d) == Follows(ucall[u], docs[d]) /\ Kept(Copy(u).files, blobs[d])
Whole(d)    == docs[d].text = docs[d].chunked /\ Kept(docs[d].files, blobs[d])
Done(d)     == {u \in UCalls : ucall[u].op \in Updates /\ Doc(u) = d /\ UStep(u, "ok")}

QuietDoc(d) ==
    /\ Whole(d)
    /\ IsFiniteSet(Done(d)) /\ docs[d].version = 1 + Cardinality(Done(d))
    /\ \A u \in UCalls : Working(u, d) => Match(u, d)

QuietInv == \A d \in Docs \ busy : Exists(d) => QuietDoc(d)

\* What has to be shown of a step of the only call at work on a document.
StepsWell(k, d) ==
    /\ Whole(d)'
    /\ docs'[d].version = docs[d].version + (IF k.pc = "ok" /\ k.op \in Updates THEN 1 ELSE 0)
    /\ k.pc \in UpdateSteps => Follows(k, docs'[d]) /\ Kept(k.copy.files, blobs'[d])

LEMMA CopyStepsWell ==
    ASSUME UpdateInv, NEW u \in UCalls, NEW k, Advanced(u, k), NEW d \in Docs, Doc(u) = d,
           Exists(d), Whole(d), Match(u, d),
           \/ Passed(u, k) \/ Cut(u, k) \/ Merged(u, k) \/ Filled(u, k) \/ Applied(u, k)
           \/ ReadAgain(u, k)
    PROVE  StepsWell(k, d)
<1>1. /\ UpdatesTypeOK /\ UpdatesPlaced /\ ucall[u].pc \in UpdateSteps
      /\ k \in UpdateCall /\ k.op = ucall[u].op /\ k.copy \in Row
      /\ docs[d] \in Row
  BY DEF UpdateInv, Advanced, Goes, Becomes, UpdatesTypeOK, Snapshot, Exists
<1>2. ucall[u] \in UpdateCall /\ Copy(u) \in Row /\ ucall[u].pc \in UpdateWay[ucall[u].op]
  BY <1>1, AtWork
<1>3. UNCHANGED <<docs, blobs>>
  BY DEF Passed, Cut, Merged, Filled, Applied, ReadAgain
<1>4. PICK j \in UpdateCall : j = ucall[u] /\ j.copy = Copy(u) /\ j.copy \in Row
  BY <1>2 DEF Copy
<1>5. PICK r \in Row : r = docs[d]
  BY <1>1
<1>6. Follows(j, r) /\ j.pc \in UpdateWay[j.op] /\ j.op \in UpdateOps
  BY <1>2, <1>4, <1>5 DEF Match, UpdateCall
<1>7. /\ j.copy.version \in Nat /\ r.version \in Nat
      /\ j.copy.files \in Seq(Parts) /\ r.files \in Seq(Parts)
  BY <1>4 DEF Row
<1>8. k.copy.files = j.copy.files /\ k.pc # "ok"
  BY <1>4, <1>6 DEF Passed, Cut, Merged, Filled, Applied, ReadAgain, FirstStep, UpdateWay, UpdateOps, Updates
<1>9. Follows(k, r)
  <2>1. CASE Passed(u, k)
    <3>1. /\ j.pc = "access" /\ k.copy = j.copy /\ j.op # "rules"
          /\ k.pc = FirstStep[j.op]
      BY <1>4, <1>6, <2>1 DEF Passed, UpdateWay, UpdateOps, Updates
    <3>2. ~Renewing(j) /\ ~Renews(j) /\ ~Renewing(k) /\ ~Renews(k)
      BY <1>1, <1>4, <1>6, <3>1 DEF Renewing, Renews, FirstStep, UpdateOps, Updates
    <3> QED
      BY <1>1, <1>4, <1>6, <3>1, <3>2 DEF Follows
  <2>2. CASE Cut(u, k)
    <3>1. ~Renewing(j) /\ ~Renews(j) /\ Renewing(k) /\ ~Renews(k) /\ k.pc = "merge"
      BY <1>4, <2>2 DEF Renewing, Renews, Cut
    <3> QED
      BY <1>1, <1>4, <1>6, <1>7, <2>2, <3>1 DEF Follows, Cut
  <2>3. CASE Merged(u, k)
    <3>1. Renewing(j) /\ ~Renews(j) /\ Renewing(k) /\ ~Renews(k) /\ k.pc = "store"
      BY <1>4, <2>3 DEF Renewing, Renews, Merged
    <3> QED
      BY <1>1, <1>4, <1>6, <1>7, <2>3, <3>1 DEF Follows, Merged
  <2>4. CASE Filled(u, k)
    <3>1. Renewing(j) /\ ~Renews(j) /\ Renewing(k) /\ Renews(k) /\ k.pc = "existing"
      BY <1>1, <1>4, <1>6, <2>4 DEF Renewing, Renews, Filled, UpdateWay, UpdateOps, Updates
    <3> QED
      BY <1>1, <1>4, <1>6, <1>7, <2>4, <3>1 DEF Follows, Filled
  <2>5. CASE Applied(u, k)
    <3>1. j.op = "rules" /\ j.pc = "apply" /\ k.pc = "existing"
      BY <1>4, <1>6, <2>5 DEF Applied, UpdateWay, UpdateOps, Updates
    <3>2. ~Renewing(j) /\ ~Renews(j) /\ ~Renewing(k) /\ ~Renews(k)
      BY <1>1, <1>4, <3>1 DEF Renewing, Renews
    <3> QED
      BY <1>1, <1>4, <1>6, <1>7, <2>5, <3>1, <3>2 DEF Follows, Applied
  <2>6. CASE ReadAgain(u, k)
    <3>1. (Renewing(j) <=> Renewing(k)) /\ (Renews(j) <=> Renews(k))
      BY <1>1, <1>4, <2>6 DEF Renewing, Renews, ReadAgain
    <3>2. k.copy = j.copy /\ k.current = r
      BY <1>4, <1>5, <2>6 DEF ReadAgain
    <3> QED
      BY <1>1, <1>4, <1>6, <3>1, <3>2 DEF Follows
  <2> QED
    BY <2>1, <2>2, <2>3, <2>4, <2>5, <2>6
<1>10. Kept(j.copy.files, blobs[d])
  BY <1>4 DEF Match
<1>11. Whole(d)'
  BY <1>3 DEF Whole
<1> QED
  BY <1>3, <1>5, <1>7, <1>8, <1>9, <1>10, <1>11 DEF StepsWell

LEMMA UploadStepsWell ==
    ASSUME UpdateInv, NEW u \in UCalls, NEW k, Advanced(u, k), NEW d \in Docs, Doc(u) = d,
           Exists(d), Whole(d), Match(u, d), Uploaded(u, k)
    PROVE  StepsWell(k, d)
<1>1. /\ UpdatesTypeOK /\ UpdatesPlaced /\ ucall[u].pc \in UpdateSteps
      /\ k \in UpdateCall /\ k.op = ucall[u].op /\ k.copy \in Row
      /\ docs[d] \in Row
  BY DEF UpdateInv, Advanced, Goes, Becomes, UpdatesTypeOK, Snapshot, Exists
<1>2. ucall[u] \in UpdateCall /\ Copy(u) \in Row /\ ucall[u].pc \in UpdateWay[ucall[u].op]
  BY <1>1, AtWork
<1>3. UNCHANGED docs
  BY DEF Uploaded
<1>4. PICK j \in UpdateCall : j = ucall[u] /\ j.copy = Copy(u) /\ j.copy \in Row
  BY <1>2 DEF Copy
<1>5. PICK r \in Row : r = docs[d]
  BY <1>1
<1>6. Follows(j, r) /\ j.pc \in UpdateWay[j.op] /\ j.op \in UpdateOps
  BY <1>2, <1>4, <1>5 DEF Match, UpdateCall
<1>7. PICK files \in Seq(Parts) : files = j.copy.files
  BY <1>4 DEF Row
<1>8. PICK B \in [Versions -> {None} \cup Parts] : B = blobs[d]
  BY <1>1 DEF UpdatesTypeOK
<1>9. PICK n \in Nat : n = Len(files)
  OBVIOUS
<1>10. /\ r.version \in Nat /\ j.copy.version \in Nat /\ r.files \in Seq(Parts) /\ Len(r.files) \in Nat
       /\ u \in Parts
  BY <1>4 DEF Row, Parts
<1>11. /\ n + 1 \in Versions /\ k.copy.files = Append(files, u)
       /\ blobs' = [blobs EXCEPT ![d][n + 1] = u]
  BY <1>4, <1>7, <1>9 DEF Uploaded, NextVersion
<1>12. blobs'[d] = [B EXCEPT ![n + 1] = u]
  BY <1>1, <1>8, <1>11 DEF UpdatesTypeOK
<1>13. Len(k.copy.files) = n + 1
  BY <1>7, <1>9, <1>10, <1>11
<1>14. Len(r.files) <= n
  BY <1>6, <1>7, <1>9 DEF Follows
<1>15. j.op = "file" /\ k.pc \in {"upload2", "split"} /\ j.pc \in {"upload1", "upload2"}
  <2>1. j.pc \in {"upload1", "upload2"} /\ k.pc \in {"upload2", "split"}
    BY <1>4 DEF Uploaded
  <2>2. j.op = "file"
    BY <1>6, <2>1 DEF UpdateWay, UpdateOps, Updates
  <2> QED
    BY <2>1, <2>2
<1>16. ~Renewing(j) /\ ~Renews(j) /\ ~Renewing(k) /\ ~Renews(k)
  BY <1>15 DEF Renewing, Renews
<1>17. Follows(k, r)
  <2>1. /\ k.copy.version = j.copy.version /\ k.copy.text = j.copy.text
        /\ k.copy.chunked = j.copy.chunked /\ k.op = "file"
    BY <1>1, <1>4, <1>15 DEF Uploaded
  <2>2. Len(r.files) <= Len(k.copy.files)
    BY <1>10, <1>13, <1>14
  <2> QED
    BY <1>6, <1>16, <2>1, <2>2 DEF Follows
<1>18. Kept(k.copy.files, blobs'[d])
  <2>1. Kept(files, B)
    BY <1>4, <1>7, <1>8 DEF Match
  <2>2. Len(files) + 1 \in Versions
    BY <1>9, <1>11
  <2>3. Kept(Append(files, u), [B EXCEPT ![Len(files) + 1] = u])
    BY <1>10, <2>1, <2>2, KeptMore
  <2> QED
    BY <1>9, <1>11, <1>12, <2>3
<1>19. Whole(d)'
  <2>1. Kept(r.files, B) /\ r.text = r.chunked
    BY <1>5, <1>8 DEF Whole
  <2>2. Len(r.files) < n + 1
    BY <1>10, <1>14
  <2>3. Kept(r.files, [B EXCEPT ![n + 1] = u])
    BY <1>8, <1>10, <1>11, <2>1, <2>2, KeptOn
  <2> QED
    BY <1>3, <1>5, <1>12, <2>1, <2>3 DEF Whole
<1>20. docs'[d].version = docs[d].version + 0 /\ k.pc # "ok"
  BY <1>3, <1>5, <1>10, <1>15
<1> QED
  BY <1>3, <1>5, <1>17, <1>18, <1>19, <1>20 DEF StepsWell

LEMMA WriteStepsWell ==
    ASSUME UpdateInv, NEW u \in UCalls, NEW k, Advanced(u, k), NEW d \in Docs, Doc(u) = d,
           Exists(d), Whole(d), Match(u, d), Wrote(u, k) \/ WroteRules(u, k)
    PROVE  StepsWell(k, d)
<1>1. /\ UpdatesTypeOK /\ UpdatesPlaced /\ ucall[u].pc \in UpdateSteps
      /\ k.op = ucall[u].op /\ docs[d] \in Row
  BY DEF UpdateInv, Advanced, Goes, UpdatesTypeOK, Snapshot, Exists
<1>2. ucall[u] \in UpdateCall /\ Copy(u) \in Row
  BY <1>1, AtWork
<1>3. PICK j \in UpdateCall : j = ucall[u] /\ j.copy = Copy(u) /\ j.copy \in Row
  BY <1>2 DEF Copy
<1>4. PICK r \in Row : r = docs[d]
  BY <1>1
<1>5. Follows(j, r) /\ Kept(j.copy.files, blobs[d]) /\ r.text = r.chunked /\ Kept(r.files, blobs[d])
  BY <1>3, <1>4 DEF Match, Whole
<1>6. r.version \in Nat /\ j.copy.version \in Nat /\ j.pc = "write" /\ k.pc = "ok" /\ UNCHANGED blobs
  BY <1>3 DEF Row, Wrote, WroteRules
<1>7. CASE Wrote(u, k)
  <2>1. PICK s \in Row :
           /\ docs' = [docs EXCEPT ![d] = s]
           /\ s.version = j.copy.version + (IF j.op = "meta" THEN 1 ELSE 0)
           /\ s.chunked = IF j.op = "meta" THEN r.chunked ELSE j.copy.chunked
           /\ s.text = j.copy.text /\ s.files = j.copy.files
    BY <1>3, <1>4, <1>7 DEF Wrote
  <2>2. docs'[d] = s
    BY <1>1, <2>1 DEF UpdatesTypeOK
  <2>3. j.op \in Updates
    BY <1>3, <1>7 DEF Wrote
  <2>4. s.version = r.version + 1 /\ s.text = s.chunked
    <3>1. CASE j.op = "meta"
      <4>1. ~Renewing(j) /\ ~Renews(j)
        BY <1>6, <3>1 DEF Renewing, Renews
      <4> QED
        BY <1>5, <1>6, <2>1, <3>1, <4>1 DEF Follows
    <3>2. CASE j.op # "meta"
      <4>1. Renewing(j) /\ Renews(j)
        BY <1>6, <2>3, <3>2 DEF Renewing, Renews, Updates
      <4> QED
        BY <1>5, <1>6, <2>1, <3>2, <4>1 DEF Follows
    <3> QED
      BY <3>1, <3>2
  <2>5. Whole(d)'
    BY <1>5, <1>6, <2>1, <2>2, <2>4 DEF Whole
  <2> QED
    BY <1>1, <1>3, <1>4, <1>6, <2>2, <2>3, <2>4, <2>5 DEF StepsWell, UpdateSteps
<1>8. CASE WroteRules(u, k)
  <2>1. PICK s \in Row :
           /\ docs' = [docs EXCEPT ![d] = s]
           /\ s.version = j.current.version /\ s.chunked = r.chunked
           /\ s.text = j.copy.text /\ s.files = r.files
    BY <1>3, <1>4, <1>8 DEF WroteRules
  <2>2. docs'[d] = s
    BY <1>1, <2>1 DEF UpdatesTypeOK
  <2>3. j.op = "rules"
    BY <1>3, <1>8 DEF WroteRules
  <2>4. ~Renewing(j) /\ ~Renews(j)
    BY <1>6, <2>3 DEF Renewing, Renews
  <2>5. s.version = r.version /\ s.text = s.chunked
    BY <1>5, <1>6, <2>1, <2>3, <2>4 DEF Follows
  <2>6. Whole(d)'
    BY <1>5, <1>6, <2>1, <2>2, <2>5 DEF Whole
  <2>7. k.op \notin Updates
    BY <1>1, <1>3, <2>3 DEF Updates
  <2> QED
    BY <1>4, <1>6, <2>2, <2>5, <2>6, <2>7 DEF StepsWell, UpdateSteps
<1> QED
  BY <1>7, <1>8

LEMMA EndStepsWell ==
    ASSUME UpdateInv, NEW u \in UCalls, NEW k, NEW d \in Docs, Exists(d), Whole(d),
           GaveUp(u, k) \/ Broke(u, k)
    PROVE  StepsWell(k, d)
<1>1. UNCHANGED <<docs, blobs>> /\ k.pc = "error"
  BY DEF GaveUp, Broke
<1>2. docs[d].version \in Nat
  BY DEF UpdateInv, UpdatesTypeOK, Snapshot, Exists, Row
<1>3. Whole(d)'
  BY <1>1 DEF Whole
<1> QED
  BY <1>1, <1>2, <1>3 DEF StepsWell, UpdateSteps

LEMMA QuietStepsWell ==
    ASSUME BaseInv, Untouched, NEW u \in UCalls, NEW k, Advanced(u, k), NEW d \in Docs, Doc(u) = d,
           Exists(d), Exists(d)', Whole(d), Match(u, d)
    PROVE  StepsWell(k, d)
<1>1. UpdateInv /\ UpdatesTypeOK /\ UpdatesPlaced
  BY DEF BaseInv, UpdateInv
<1>2. ~Removed(u, k)
  BY <1>1 DEF Removed, UpdatesTypeOK, Exists
<1>3. ~Cleaned(u, k) /\ ~Finished(u, k)
  <2>1. SUFFICES ASSUME ucall[u].pc = "clean" PROVE FALSE
    BY DEF Cleaned, Finished
  <2>2. ucall[u].op = "delete"
    BY <1>1, <2>1, AtWork DEF UpdateSteps, UpdateWay, UpdateCall, UpdateOps, Updates
  <2>3. Dead(Doc(u))
    BY <2>1, <2>2 DEF Untouched
  <2> QED
    BY <2>3 DEF Dead
<1> QED
  BY <1>1, <1>2, <1>3, CopyStepsWell, UploadStepsWell, WriteStepsWell, EndStepsWell DEF Advanced

LEMMA FoldersKeepQuiet ==
    ASSUME BaseInv, Untouched, QuietInv, FolderCalls PROVE QuietInv'
<1>1. /\ UpdateInv /\ UpdatesTypeOK /\ UNCHANGED <<ucall, busy>>
  BY DEF BaseInv, UpdateInv, FolderCalls, IngestStores
<1>2. SUFFICES ASSUME NEW d \in Docs \ busy, Exists(d)' PROVE QuietDoc(d)'
  BY <1>1 DEF QuietInv
<1>3. Done(d)' = Done(d)
  BY <1>1 DEF Done, Doc, UStep
<1>4. CASE Exists(d) /\ StaysPut(d)
  <2>1. QuietDoc(d)
    BY <1>4 DEF QuietInv
  <2>2. Whole(d)'
    BY <1>4, <2>1 DEF QuietDoc, Whole, StaysPut
  <2>3. ASSUME NEW u \in UCalls, Working(u, d)' PROVE Match(u, d)'
    <3>1. Match(u, d)
      BY <1>1, <2>1, <2>3 DEF QuietDoc, Working, Doc
    <3> QED
      BY <1>1, <1>4, <3>1 DEF Match, Follows, StaysPut, Copy
  <2> QED
    BY <1>3, <1>4, <2>1, <2>2, <2>3 DEF QuietDoc, StaysPut
<1>5. CASE Unborn(d) /\ Arrives(d)
  <2>1. \A u \in UCalls : Doc(u) = d => ucall[u].pc \in {"new", "error"}
    BY <1>5 DEF Untouched
  <2>2. Done(d) = {} /\ \A u \in UCalls : ~Working(u, d)'
    BY <1>1, <2>1 DEF Done, UStep, Working, Doc, UpdateSteps
  <2>3. IsFiniteSet(Done(d)) /\ Cardinality(Done(d)) = 0
    BY <2>2, FS_EmptySet
  <2>4. Whole(d)'
    <3>1. docs'[d].text = docs'[d].chunked
      BY <1>5 DEF Arrives
    <3>2. CASE docs'[d].files = <<>>
      <4>1. Kept(<<>>, blobs'[d])
        BY DEF Kept
      <4> QED
        BY <3>1, <3>2, <4>1 DEF Whole
    <3>3. CASE docs'[d].files = <<Base>> /\ blobs'[d] = [blobs[d] EXCEPT ![1] = Base]
      <4>1. PICK m \in Nat : m = MaxFiles /\ 1 <= m
        BY UpdateAssumption
      <4>2. 1 \in Versions
        BY <4>1 DEF Versions
      <4>3. blobs'[d][1] = Base
        BY <1>1, <3>3, <4>2 DEF UpdatesTypeOK
      <4>4. Kept(<<Base>>, blobs'[d])
        BY <4>2, <4>3 DEF Kept
      <4> QED
        BY <3>1, <3>3, <4>4 DEF Whole
    <3> QED
      BY <1>5, <3>2, <3>3 DEF Arrives
  <2> QED
    BY <1>3, <1>5, <2>2, <2>3, <2>4 DEF QuietDoc, Arrives
<1> QED
  BY <1>2, <1>4, <1>5, FoldersAndRows

\* An update changes no document but its own.
LEMMA OtherDocuments ==
    ASSUME UpdateInv, NEW u \in UCalls, NEW k, Advanced(u, k), NEW d \in Docs, d # Doc(u)
    PROVE  docs'[d] = docs[d] /\ chunks'[d] = chunks[d] /\ blobs'[d] = blobs[d]
BY DEF Advanced, Passed, GaveUp, Broke, Uploaded, Cut, Merged, Filled, Applied, ReadAgain, Wrote,
       WroteRules, Removed, Cleaned, Finished, Insert, UpdateInv, UpdatesTypeOK

LEMMA UpdatesKeepQuiet ==
    ASSUME BaseInv, Untouched, Alone, QuietInv, UpdateCalls PROVE QuietInv'
<1>1. UpdateInv /\ UpdatesTypeOK /\ UpdatesNext
  BY DEF BaseInv, UpdateInv, UpdateCalls
<1>2. CASE UpdatesCrash
  <2>1. UNCHANGED <<docs, blobs, busy>>
    BY <1>2 DEF UpdatesCrash, UnchangedStores, UnchangedNotes
  <2>2. \A u \in UCalls : /\ Doc(u)' = Doc(u) /\ ucall'[u].op = ucall[u].op
                          /\ ucall'[u].pc = "ok" <=> ucall[u].pc = "ok"
                          /\ ucall'[u].pc \notin UpdateSteps
    BY <1>1, <1>2, UpdatesCrashEnds DEF Doc, UpdateSteps
  <2>3. \A d \in Docs : Done(d)' = Done(d)
    BY <2>2 DEF Done, UStep
  <2>4. \A d \in Docs : Whole(d)' = Whole(d)
    BY <2>1 DEF Whole
  <2>5. \A d \in Docs : Exists(d)' = Exists(d)
    BY <2>1 DEF Exists
  <2>6. ASSUME NEW d \in Docs \ busy, Exists(d) PROVE QuietDoc(d)'
    <3>1. QuietDoc(d)
      BY <2>6 DEF QuietInv
    <3> QED
      BY <2>1, <2>2, <2>3, <2>4, <3>1 DEF QuietDoc, Working
  <2> QED
    BY <2>1, <2>5, <2>6 DEF QuietInv
<1>3. ASSUME NEW u \in UCalls, NEW k, Becomes(u, k), Began(u, k) PROVE QuietInv'
  <2>1. /\ ucall'[u] = k /\ \A w \in UCalls \ {u} : ucall'[w] = ucall[w]
        /\ UNCHANGED <<docs, blobs>> /\ busy \subseteq busy'
        /\ ucall[u].pc = "new" /\ k.pc \in {"error", "apply", "access"} /\ k.copy = docs[k.doc]
    BY <1>1, <1>3, UpdateAfter DEF Began
  <2>2. SUFFICES ASSUME NEW d \in Docs \ busy, Exists(d) PROVE QuietDoc(d)'
    BY <2>1 DEF QuietInv, Exists
  <2>3. QuietDoc(d)
    BY <2>2 DEF QuietInv
  <2>4. Done(d)' = Done(d)
    BY <2>1 DEF Done, UStep, Doc
  <2>5. Whole(d)'
    BY <2>1, <2>3 DEF QuietDoc, Whole
  <2>6. ASSUME NEW w \in UCalls, Working(w, d)' PROVE Match(w, d)'
    <3>1. CASE w # u
      BY <2>1, <2>3, <2>6, <3>1 DEF QuietDoc, Working, Doc, Match, Copy
    <3>2. CASE w = u
      <4>1. PICK r \in Row : r = docs[d]
        BY <1>1, <2>2 DEF UpdatesTypeOK, Snapshot, Exists
      <4>2. k.copy = r /\ ~Renewing(k) /\ ~Renews(k) /\ k.pc # "write"
        BY <2>1, <2>6, <3>2, <4>1 DEF Working, Doc, Renewing, Renews
      <4>3. r.version \in Nat /\ Len(r.files) \in Nat
        BY DEF Row
      <4>4. Follows(k, r)
        BY <4>2, <4>3 DEF Follows
      <4>5. Kept(r.files, blobs[d])
        BY <2>3, <4>1 DEF QuietDoc, Whole
      <4> QED
        BY <2>1, <3>2, <4>1, <4>2, <4>4, <4>5 DEF Match, Copy
    <3> QED
      BY <3>1, <3>2
  <2> QED
    BY <2>1, <2>3, <2>4, <2>5, <2>6 DEF QuietDoc
<1>4. ASSUME NEW u \in UCalls, NEW k, Advanced(u, k) PROVE QuietInv'
  <2>1. /\ ucall'[u] = k /\ \A w \in UCalls \ {u} : ucall'[w] = ucall[w]
        /\ k.op = ucall[u].op /\ k.doc = Doc(u) /\ ucall[u].pc \in UpdateSteps
    BY <1>1, <1>4, UpdateAfter DEF Advanced, Goes
  <2>2. busy' = busy
    BY <1>4
       DEF Advanced, Passed, GaveUp, Broke, Uploaded, Cut, Merged, Filled, Applied, ReadAgain, Wrote,
           WroteRules, Removed, Cleaned, Finished
  <2>3. SUFFICES ASSUME NEW d \in Docs \ busy, Exists(d)' PROVE QuietDoc(d)'
    BY <2>2 DEF QuietInv
  <2>4. Exists(d) /\ QuietDoc(d)
    BY <1>1, <2>3, RowsOnlyGo DEF QuietInv
  <2>5. CASE d # Doc(u)
    <3>1. docs'[d] = docs[d] /\ blobs'[d] = blobs[d]
      BY <1>1, <1>4, <2>5, OtherDocuments
    <3>2. Done(d)' = Done(d)
      BY <2>1, <2>5 DEF Done, UStep, Doc
    <3>3. Whole(d)'
      BY <2>4, <3>1 DEF QuietDoc, Whole
    <3>4. ASSUME NEW w \in UCalls, Working(w, d)' PROVE Match(w, d)'
      <4>1. w # u
        BY <2>1, <2>5, <3>4 DEF Working, Doc
      <4> QED
        BY <2>1, <2>4, <3>1, <3>4, <4>1 DEF QuietDoc, Working, Doc, Match, Copy
    <3> QED
      BY <2>4, <3>1, <3>2, <3>3, <3>4 DEF QuietDoc
  <2>6. CASE d = Doc(u)
    <3>1. Working(u, d)
      BY <2>1, <2>6 DEF Working
    <3>2. StepsWell(k, d)
      BY <1>4, <2>3, <2>4, <2>6, <3>1, QuietStepsWell DEF QuietDoc
    <3>3. ASSUME NEW w \in UCalls, Working(w, d)' PROVE Match(w, d)'
      <4>1. w = u
        BY <2>1, <3>1, <3>3 DEF Alone, Working, Doc
      <4>2. k.pc \in UpdateSteps
        BY <2>1, <3>3, <4>1 DEF Working
      <4> QED
        BY <2>1, <3>2, <4>1, <4>2 DEF StepsWell, Match, Copy
    <3>4. PICK n \in Nat : n = Cardinality(Done(d))
      BY <2>4, FS_CardinalityType DEF QuietDoc
    <3>5. docs[d].version = 1 + n
      BY <2>4, <3>4 DEF QuietDoc
    <3>6. /\ IsFiniteSet(Done(d)')
          /\ Cardinality(Done(d)') = n + (IF k.pc = "ok" /\ k.op \in Updates THEN 1 ELSE 0)
      <4>1. u \notin Done(d)
        BY <2>1 DEF Done, UStep, UpdateSteps
      <4>2. CASE k.pc = "ok" /\ k.op \in Updates
        <5>1. Done(d)' = Done(d) \cup {u}
          BY <2>1, <2>6, <4>2 DEF Done, UStep, Doc
        <5>2. PICK D : D = Done(d)
          OBVIOUS
        <5>3. IsFiniteSet(D \cup {u}) /\ Cardinality(D \cup {u}) = n + 1
          BY <2>4, <3>4, <4>1, <5>2, FS_AddElement DEF QuietDoc
        <5> QED
          BY <4>2, <5>1, <5>2, <5>3
      <4>3. CASE ~(k.pc = "ok" /\ k.op \in Updates)
        <5>1. Done(d)' = Done(d)
          BY <2>1, <4>1, <4>3 DEF Done, UStep, Doc
        <5> QED
          BY <2>4, <3>4, <4>3, <5>1 DEF QuietDoc
      <4> QED
        BY <4>2, <4>3
    <3>7. docs'[d].version = 1 + Cardinality(Done(d)')
      BY <3>2, <3>4, <3>5, <3>6 DEF StepsWell
    <3> QED
      BY <3>2, <3>3, <3>6, <3>7 DEF QuietDoc, StepsWell
  <2> QED
    BY <2>5, <2>6
<1> QED
  BY <1>1, <1>2, <1>3, <1>4, UpdateAdvances

LEMMA InitQuiet ==
    ASSUME Init PROVE QuietInv /\ Alone
<1>1. \A u \in UCalls : ucall[u].pc = "new"
  BY DEF Init, UpdatesInit, Idle
<1>2. Alone
  BY <1>1 DEF Alone, Working, UpdateSteps
<1>3. ASSUME NEW d \in Docs, Exists(d) PROVE QuietDoc(d)
  <2>1. Done(d) = {} /\ \A u \in UCalls : ~Working(u, d)
    BY <1>1 DEF Done, UStep, Working, UpdateSteps
  <2>2. IsFiniteSet(Done(d)) /\ Cardinality(Done(d)) = 0
    BY <2>1, FS_EmptySet
  <2>3. docs[d].version = 1 /\ docs[d].text = docs[d].chunked /\ docs[d].files \in {<<>>, <<Base>>}
    BY <1>3, InitRows
  <2>4. \A v \in Versions : v <= Len(docs[d].files) => blobs[d][v] = Base
    BY <1>3 DEF Init, UpdatesInit
  <2>5. Kept(docs[d].files, blobs[d])
    <3>1. CASE docs[d].files = <<>>
      BY <3>1 DEF Kept
    <3>2. CASE docs[d].files = <<Base>>
      <4>1. PICK m \in Nat : m = MaxFiles /\ 1 <= m
        BY UpdateAssumption
      <4>2. 1 \in Versions
        BY <4>1 DEF Versions
      <4>3. Len(<<Base>>) = 1
        OBVIOUS
      <4>4. blobs[d][1] = Base
        BY <2>4, <3>2, <4>2, <4>3
      <4>5. Kept(<<Base>>, blobs[d])
        BY <4>2, <4>4 DEF Kept
      <4> QED
        BY <3>2, <4>5
    <3> QED
      BY <2>3, <3>1, <3>2
  <2> QED
    BY <2>1, <2>2, <2>3, <2>5 DEF QuietDoc, Whole
<1> QED
  BY <1>2, <1>3 DEF QuietInv

LEMMA NextKeepsQuiet ==
    ASSUME BaseInv, Untouched, Alone, QuietInv, [Next]_vars PROVE QuietInv'
<1>1. CASE UNCHANGED vars
  <2>1. UNCHANGED <<docs, blobs, ucall, busy>>
    BY <1>1 DEF vars, updateVars
  <2>2. ASSUME NEW d \in Docs, QuietDoc(d) PROVE QuietDoc(d)'
    <3>1. Done(d)' = Done(d)
      BY <2>1 DEF Done, Doc, UStep
    <3> QED
      BY <2>1, <2>2, <3>1 DEF QuietDoc, Whole, Match, Copy, Working, Doc
  <2> QED
    BY <2>1, <2>2 DEF QuietInv, Exists
<1> QED
  BY <1>1, FoldersKeepQuiet, UpdatesKeepQuiet DEF Next

\* As long as no two calls work on a document at once, its content is the content its
\* chunks were cut from, each version has its own file, and the version counts the
\* updates that succeeded (update_document, set_folder_rule, delete_document).
THEOREM QuietUpdatesAlwaysHold == Spec => []QuietUpdatesHold
<1>1. BaseInv /\ QuietInv => QuietUpdatesHold
  <2> SUFFICES ASSUME QuietInv PROVE QuietUpdatesHold
    OBVIOUS
  <2>1. ContentMatchesChunks
    BY DEF QuietInv, QuietDoc, Whole, ContentMatchesChunks
  <2>2. VersionsKeepTheirFiles
    BY DEF QuietInv, QuietDoc, Whole, Kept, VersionsKeepTheirFiles
  <2>3. VersionsCountUpdates
    BY DEF QuietInv, QuietDoc, Done, VersionsCountUpdates
  <2> QED
    BY <2>1, <2>2, <2>3 DEF QuietUpdatesHold
<1> QED
  BY <1>1, InitBase, InitUntouched, InitQuiet, NextKeepsBase, NextKeepsUntouched, NextKeepsAlone,
     NextKeepsQuiet, PTL DEF Spec

-----------------------------------------------------------------------------
\* Nothing is stored for document d that the row does not list.
Tidy(row, d) ==
    /\ chunks[d] # {} => row.chunked # {}
    /\ \A v \in Versions : blobs[d][v] # None => v <= Len(row.files)

\* What a delete call has left to do is all there is.
CleansUp(u, d) ==
    /\ UStep(u, "clean") => /\ chunks[d] # {} => 0 \in ucall[u].todo
                            /\ \A v \in Versions : blobs[d][v] # None => v \in ucall[u].todo
    /\ UStep(u, "ok") => /\ chunks[d] = {} /\ \A v \in Versions : blobs[d][v] = None
                         /\ \A w \in UCalls : ~Working(w, d)

TidyDoc(d) ==
    /\ Exists(d) => /\ \A u \in UCalls : Working(u, d) => Tidy(Copy(u), d)
                    /\ (\A u \in UCalls : ~Working(u, d)) => Tidy(docs[d], d)
    /\ \A u \in UCalls : Doc(u) = d /\ ucall[u].op = "delete" => CleansUp(u, d)

\* The copy that a delete call cleans up by, and the row it was taken from, list all
\* there is.
TidyInv == \A d \in Docs \ (busy \cup failed) : TidyDoc(d)

LEMMA FoldersKeepTidy ==
    ASSUME BaseInv, Untouched, TidyInv, FolderCalls PROVE TidyInv'
<1>1. /\ UpdateInv /\ UpdatesTypeOK /\ UNCHANGED <<ucall, busy, failed>>
  BY DEF BaseInv, UpdateInv, FolderCalls, IngestStores
<1>2. SUFFICES ASSUME NEW d \in Docs \ (busy \cup failed) PROVE TidyDoc(d)'
  BY <1>1 DEF TidyInv
<1>3. TidyDoc(d)
  BY <1>2 DEF TidyInv
<1>4. \A u \in UCalls : /\ Doc(u)' = Doc(u) /\ Working(u, d)' = Working(u, d) /\ Copy(u)' = Copy(u)
                        /\ UStep(u, "clean")' = UStep(u, "clean") /\ UStep(u, "ok")' = UStep(u, "ok")
  BY <1>1 DEF Doc, Working, Copy, UStep
<1>5. ASSUME chunks'[d] = chunks[d], blobs'[d] = blobs[d], NEW u \in UCalls,
             Doc(u)' = d, ucall'[u].op = "delete"
      PROVE  CleansUp(u, d)'
  BY <1>1, <1>3, <1>4, <1>5 DEF TidyDoc, CleansUp
<1>6. CASE ~Exists(d)'
  BY <1>5, <1>6, FoldersAndRows DEF TidyDoc
<1>7. CASE Exists(d)' /\ Exists(d) /\ StaysPut(d)
  <2>1. ASSUME NEW row, Tidy(row, d) PROVE Tidy(row, d)'
    BY <1>7, <2>1 DEF Tidy, StaysPut
  <2>2. ASSUME NEW u \in UCalls, Working(u, d)' PROVE Tidy(Copy(u), d)'
    <3>1. PICK row : row = Copy(u)
      OBVIOUS
    <3>2. Tidy(row, d)
      BY <1>3, <1>4, <1>7, <2>2, <3>1 DEF TidyDoc
    <3> QED
      BY <1>4, <2>1, <2>2, <3>1, <3>2 DEF Tidy
  <2>3. ASSUME \A u \in UCalls : ~Working(u, d)' PROVE Tidy(docs[d], d)'
    <3>1. Tidy(docs[d], d)
      BY <1>3, <1>4, <1>7, <2>3 DEF TidyDoc
    <3> QED
      BY <1>7, <3>1 DEF Tidy, StaysPut
  <2>4. \A u \in UCalls : Doc(u)' = d /\ ucall'[u].op = "delete" => CleansUp(u, d)'
    BY <1>5, <1>7 DEF StaysPut
  <2> QED
    BY <2>2, <2>3, <2>4 DEF TidyDoc
<1>8. CASE Exists(d)' /\ Unborn(d) /\ Arrives(d)
  <2>1. /\ \A v \in Versions : blobs[d][v] = None
        /\ \A u \in UCalls : Doc(u) = d => ucall[u].pc \in {"new", "error"}
    BY <1>8 DEF Untouched
  <2>2. \A u \in UCalls : ~Working(u, d)' /\ (Doc(u)' = d => ~UStep(u, "clean")' /\ ~UStep(u, "ok")')
    BY <1>4, <2>1 DEF Working, UpdateSteps, UStep
  <2>3. Tidy(docs[d], d)'
    <3>1. docs'[d].chunked # {}
      BY <1>8 DEF Arrives
    <3>2. CASE docs'[d].files = <<>> /\ blobs'[d] = blobs[d]
      BY <2>1, <3>1, <3>2 DEF Tidy
    <3>3. CASE docs'[d].files = <<Base>> /\ blobs'[d] = [blobs[d] EXCEPT ![1] = Base]
      <4>1. Len(docs'[d].files) = 1
        BY <3>3
      <4>2. \A v \in Versions : v # 1 => blobs'[d][v] = None
        BY <1>1, <2>1, <3>3 DEF UpdatesTypeOK
      <4>3. \A v \in Versions : blobs'[d][v] # None => v <= 1
        BY <4>2
      <4> QED
        BY <3>1, <4>1, <4>3 DEF Tidy
    <3> QED
      BY <1>8, <3>2, <3>3 DEF Arrives
  <2> QED
    BY <2>2, <2>3 DEF TidyDoc, CleansUp
<1> QED
  BY <1>6, <1>7, <1>8, FoldersAndRows

\* It goes by the lists of the row alone.
LEMMA TidyAlike ==
    ASSUME NEW d, NEW r, NEW s, Tidy(r, d), s.chunked = r.chunked, s.files = r.files
    PROVE  Tidy(s, d)
BY DEF Tidy

\* The only call at work on a document takes its step: what has to be shown.
LEMMA TidyStep ==
    ASSUME NEW u \in UCalls, NEW k, ucall'[u] = k, \A w \in UCalls \ {u} : ucall'[w] = ucall[w],
           NEW d \in Docs, k.doc = d, \A w \in UCalls : Working(w, d) => w = u,
           \A w \in UCalls : Doc(w) = d /\ ucall[w].op = "delete" => ~UStep(w, "ok"),
           Exists(d)' => IF k.pc \in UpdateSteps THEN Tidy(k.copy, d)' ELSE Tidy(docs[d], d)',
           k.op = "delete" =>
              /\ k.pc = "clean" => /\ chunks'[d] # {} => 0 \in k.todo
                                   /\ \A v \in Versions : blobs'[d][v] # None => v \in k.todo
              /\ k.pc = "ok" => chunks'[d] = {} /\ \A v \in Versions : blobs'[d][v] = None
    PROVE  TidyDoc(d)'
<1>1. \A w \in UCalls \ {u} : /\ Doc(w)' = Doc(w) /\ Working(w, d)' = Working(w, d)
                              /\ UStep(w, "clean")' = UStep(w, "clean")
                              /\ UStep(w, "ok")' = UStep(w, "ok")
  BY DEF Doc, Working, UStep
<1>2. \A w \in UCalls \ {u} : ~Working(w, d)'
  BY <1>1
<1>3. Doc(u)' = d /\ Copy(u)' = k.copy /\ (Working(u, d)' <=> k.pc \in UpdateSteps)
  BY DEF Doc, Copy, Working
<1>4. ASSUME Exists(d)'
      PROVE  /\ \A w \in UCalls : Working(w, d)' => Tidy(Copy(w), d)'
             /\ (\A w \in UCalls : ~Working(w, d)') => Tidy(docs[d], d)'
  BY <1>2, <1>3, <1>4 DEF Tidy
<1>5. ASSUME NEW w \in UCalls, Doc(w)' = d, ucall'[w].op = "delete" PROVE CleansUp(w, d)'
  <2>1. CASE w = u
    <3>1. k.op = "delete"
      BY <1>5, <2>1
    <3>2. (UStep(u, "clean")' <=> k.pc = "clean") /\ (UStep(u, "ok")' <=> k.pc = "ok")
      BY DEF UStep
    <3>3. k.pc = "ok" => \A x \in UCalls : ~Working(x, d)'
      BY <1>2, <1>3 DEF UpdateSteps
    <3> QED
      BY <2>1, <3>1, <3>2, <3>3 DEF CleansUp
  <2>2. CASE w # u
    <3>1. ~UStep(w, "ok")'
      BY <1>1, <1>5, <2>2
    <3>2. ~UStep(w, "clean")'
      BY <1>1, <1>2, <1>5, <2>2 DEF Working, UStep, UpdateSteps
    <3> QED
      BY <3>1, <3>2 DEF CleansUp
  <2> QED
    BY <2>1, <2>2
<1> QED
  BY <1>4, <1>5 DEF TidyDoc

\* The lists of a copy, or of the row it is written to, go with what is stored.
LEMMA ListsStayTidy ==
    ASSUME BaseInv, Untouched, NEW u \in UCalls, NEW k, Advanced(u, k), NEW d \in Docs, Doc(u) = d,
           Exists(d), Exists(d)', Match(u, d), Tidy(Copy(u), d), ~Broke(u, k)
    PROVE  IF k.pc \in UpdateSteps THEN Tidy(k.copy, d)' ELSE Tidy(docs[d], d)'
<1>1. /\ UpdateInv /\ UpdatesTypeOK /\ UpdatesPlaced /\ ucall[u].pc \in UpdateSteps
      /\ k.op = ucall[u].op /\ docs[d] \in Row
  BY DEF BaseInv, UpdateInv, Advanced, Goes, UpdatesTypeOK, Snapshot, Exists
<1>2. ucall[u] \in UpdateCall /\ Copy(u) \in Row /\ ucall[u].pc \in UpdateWay[ucall[u].op]
  BY <1>1, AtWork
<1>3. PICK j \in UpdateCall : j = ucall[u] /\ j.copy = Copy(u) /\ j.copy \in Row
  BY <1>2 DEF Copy
<1>4. PICK r \in Row : r = docs[d]
  BY <1>1
<1>5. /\ Follows(j, r) /\ j.pc \in UpdateWay[j.op] /\ j.op \in UpdateOps
      /\ Tidy(j.copy, d) /\ k.op = j.op
  BY <1>1, <1>2, <1>3, <1>4 DEF Match, UpdateCall
<1>6. ~Removed(u, k) /\ ~Cleaned(u, k) /\ ~Finished(u, k)
  <2>1. ~Removed(u, k)
    BY <1>1 DEF Removed, UpdatesTypeOK, Exists
  <2>2. SUFFICES ASSUME j.pc = "clean" PROVE FALSE
    BY <1>3, <2>1 DEF Cleaned, Finished
  <2>3. j.op = "delete"
    BY <1>5, <2>2 DEF UpdateWay, UpdateOps, Updates
  <2>4. Dead(d)
    BY <1>3, <2>2, <2>3 DEF Untouched
  <2> QED
    BY <2>4 DEF Dead
<1>7. CASE Passed(u, k) \/ ReadAgain(u, k) \/ Cut(u, k) \/ Merged(u, k) \/ Applied(u, k)
  <2>1. UNCHANGED <<chunks, blobs>> /\ k.copy.chunked = j.copy.chunked /\ k.copy.files = j.copy.files
    BY <1>3, <1>7 DEF Passed, ReadAgain, Cut, Merged, Applied
  <2>2. k.pc \in UpdateSteps
    <3>1. CASE Passed(u, k)
      <4>1. j.op \in {"text", "file", "meta", "delete"} /\ k.pc = FirstStep[j.op]
        BY <1>3, <1>5, <3>1 DEF Passed, UpdateWay, UpdateOps, Updates
      <4> QED
        BY <4>1 DEF FirstStep, UpdateSteps
    <3>2. CASE ~Passed(u, k)
      BY <1>7, <3>2 DEF ReadAgain, Cut, Merged, Applied, UpdateSteps
    <3> QED
      BY <3>1, <3>2
  <2>3. Tidy(k.copy, d)
    BY <1>5, <2>1, TidyAlike
  <2> QED
    BY <2>1, <2>2, <2>3 DEF Tidy
<1>8. CASE Filled(u, k)
  <2>1. /\ j.pc = "store" /\ k.pc = "existing" /\ k.copy.chunked = j.copy.text
        /\ k.copy.files = j.copy.files /\ UNCHANGED blobs
    BY <1>3, <1>8 DEF Filled
  <2>2. k.copy.chunked # {}
    BY <1>5, <2>1 DEF Follows, Renewing
  <2> QED
    BY <1>5, <2>1, <2>2 DEF Tidy, UpdateSteps
<1>9. CASE Uploaded(u, k)
  <2>1. PICK n \in Nat : n = Len(j.copy.files)
    BY <1>3 DEF Row
  <2>2. /\ k.pc \in {"upload2", "split"} /\ k.copy.chunked = j.copy.chunked
        /\ k.copy.files = Append(j.copy.files, u) /\ UNCHANGED chunks
        /\ n + 1 \in Versions /\ blobs' = [blobs EXCEPT ![d][n + 1] = u]
    BY <1>3, <1>9, <2>1 DEF Uploaded, NextVersion
  <2>3. u \in Parts /\ j.copy.files \in Seq(Parts)
    BY <1>3 DEF Parts, Row
  <2>4. Len(k.copy.files) = n + 1
    BY <2>1, <2>2, <2>3
  <2>5. \A v \in Versions : v # n + 1 => blobs'[d][v] = blobs[d][v]
    BY <1>1, <2>2 DEF UpdatesTypeOK
  <2>6. \A v \in Versions : blobs[d][v] # None => v <= n
    BY <1>5, <2>1 DEF Tidy
  <2>7. \A v \in Versions : v \in Nat
    BY DEF Versions
  <2>8. \A v \in Versions : blobs'[d][v] # None => v <= n + 1
    BY <2>1, <2>5, <2>6, <2>7
  <2> QED
    BY <1>5, <2>2, <2>4, <2>8 DEF Tidy, UpdateSteps
<1>10. CASE Wrote(u, k) \/ WroteRules(u, k)
  <2>1. PICK s \in Row :
           /\ docs' = [docs EXCEPT ![d] = s]
           /\ s.chunked = IF j.op \in {"meta", "rules"} THEN r.chunked ELSE j.copy.chunked
           /\ s.files = IF j.op = "rules" THEN r.files ELSE j.copy.files
    <3>1. CASE Wrote(u, k)
      <4>1. j.op # "rules"
        BY <1>3, <3>1 DEF Wrote, Updates
      <4> QED
        BY <1>3, <1>4, <3>1, <4>1 DEF Wrote
    <3>2. CASE WroteRules(u, k)
      BY <1>3, <1>4, <3>2 DEF WroteRules
    <3> QED
      BY <1>10, <3>1, <3>2
  <2>2. docs'[d] = s
    BY <1>1, <2>1 DEF UpdatesTypeOK
  <2>3. s.chunked = j.copy.chunked
    <3>1. CASE j.op \in {"meta", "rules"}
      <4>1. ~Renews(j)
        BY <3>1 DEF Renews
      <4> QED
        BY <1>5, <2>1, <3>1, <4>1 DEF Follows
    <3> QED
      BY <2>1, <3>1
  <2>4. s.files = j.copy.files
    BY <1>5, <2>1 DEF Follows
  <2>5. Tidy(s, d)
    BY <1>5, <2>3, <2>4, TidyAlike
  <2>6. UNCHANGED <<chunks, blobs>> /\ k.pc = "ok"
    BY <1>10 DEF Wrote, WroteRules
  <2> QED
    BY <2>2, <2>5, <2>6 DEF Tidy, UpdateSteps
<1>11. CASE GaveUp(u, k)
  <2>1. j.op \in {"rules", "delete"} /\ UNCHANGED <<docs, chunks, blobs>> /\ k.pc = "error"
    BY <1>3, <1>11 DEF GaveUp
  <2>2. ~Renews(j)
    BY <2>1 DEF Renews
  <2>3. r.chunked = j.copy.chunked /\ r.files = j.copy.files
    BY <1>5, <2>1, <2>2 DEF Follows
  <2>4. Tidy(r, d)
    BY <1>5, <2>3, TidyAlike
  <2> QED
    BY <1>4, <2>1, <2>4 DEF Tidy, UpdateSteps
<1> QED
  BY <1>6, <1>7, <1>8, <1>9, <1>10, <1>11 DEF Advanced

\* A delete call goes through what its copy lists, and that is all there is.
LEMMA DeletesCleanUp ==
    ASSUME BaseInv, NEW u \in UCalls, NEW k, Advanced(u, k), NEW d \in Docs, Doc(u) = d,
           Exists(d) => Tidy(Copy(u), d), CleansUp(u, d), k.op = "delete", d \notin failed'
    PROVE  /\ k.pc = "clean" => /\ chunks'[d] # {} => 0 \in k.todo
                                /\ \A v \in Versions : blobs'[d][v] # None => v \in k.todo
           /\ k.pc = "ok" => chunks'[d] = {} /\ \A v \in Versions : blobs'[d][v] = None
<1>1. /\ UpdateInv /\ UpdatesTypeOK /\ UpdatesPlaced /\ ucall[u].pc \in UpdateSteps
      /\ ucall[u].op = "delete"
  BY DEF BaseInv, UpdateInv, Advanced, Goes
<1>2. Copy(u) \in Row
  BY <1>1, AtWork
<1>3. SUFFICES ASSUME k.pc \in {"clean", "ok"}
               PROVE  /\ k.pc = "clean" => /\ chunks'[d] # {} => 0 \in k.todo
                                           /\ \A v \in Versions : blobs'[d][v] # None => v \in k.todo
                      /\ k.pc = "ok" => chunks'[d] = {} /\ \A v \in Versions : blobs'[d][v] = None
  OBVIOUS
<1>4. Removed(u, k) \/ Cleaned(u, k) \/ Finished(u, k)
  <2>1. FirstStep[ucall[u].op] = "remove"
    BY <1>1 DEF FirstStep
  <2> QED
    BY <1>1, <1>3, <2>1
       DEF Advanced, Passed, GaveUp, Broke, Uploaded, Cut, Merged, Filled, Applied, ReadAgain, Wrote,
           WroteRules, Updates
<1>5. CASE Removed(u, k)
  <2>1. PICK files \in Seq(Parts) : files = Copy(u).files
    BY <1>2 DEF Row
  <2>2. PICK n \in Nat : n = Len(files)
    OBVIOUS
  <2>3. /\ k.pc = "clean" /\ UNCHANGED <<chunks, blobs>> /\ Tidy(Copy(u), d)
        /\ k.todo = (1 .. n) \cup (IF Copy(u).chunked = {} THEN {} ELSE {0})
    BY <1>5, <2>1, <2>2 DEF Removed, CleanUp
  <2>4. \A v \in Versions : v \in Nat /\ 1 <= v
    BY DEF Versions
  <2>5. \A v \in Versions : blobs[d][v] # None => v <= n
    BY <2>1, <2>2, <2>3 DEF Tidy
  <2>6. \A v \in Versions : blobs[d][v] # None => v \in 1 .. n
    BY <2>4, <2>5
  <2>7. chunks[d] # {} => 0 \in k.todo
    BY <2>3 DEF Tidy
  <2> QED
    BY <2>3, <2>6, <2>7
<1>6. CASE Cleaned(u, k)
  <2>1. PICK i \in {0} \cup Versions :
           /\ k.todo = ucall[u].todo \ {i}
           /\ \/ i = 0 /\ chunks' = [chunks EXCEPT ![d] = {}] /\ UNCHANGED <<blobs, failed>>
              \/ /\ i # 0 /\ blobs' = [blobs EXCEPT ![d][i] = None]
                 /\ UNCHANGED <<chunks, failed>>
              \/ failed' = failed \cup {d} /\ UNCHANGED <<chunks, blobs>>
    BY <1>6 DEF Cleaned
  <2>2. /\ k.pc = "clean"
        /\ chunks[d] # {} => 0 \in ucall[u].todo
        /\ \A v \in Versions : blobs[d][v] # None => v \in ucall[u].todo
    BY <1>6 DEF Cleaned, CleansUp, UStep
  <2>3. \A v \in Versions : v # 0
    BY DEF Versions
  <2>4. CASE i = 0 /\ chunks' = [chunks EXCEPT ![d] = {}] /\ UNCHANGED blobs
    BY <1>1, <2>1, <2>2, <2>3, <2>4 DEF UpdatesTypeOK
  <2>5. CASE i # 0 /\ i \in Versions /\ blobs' = [blobs EXCEPT ![d][i] = None] /\ UNCHANGED chunks
    <3>1. blobs'[d][i] = None /\ \A v \in Versions : v # i => blobs'[d][v] = blobs[d][v]
      BY <1>1, <2>5 DEF UpdatesTypeOK
    <3> QED
      BY <2>1, <2>2, <2>5, <3>1
  <2> QED
    BY <2>1, <2>4, <2>5
<1>7. CASE Finished(u, k)
  BY <1>7 DEF Finished, CleansUp, UStep
<1> QED
  BY <1>4, <1>5, <1>6, <1>7

LEMMA AdvancesKeepTidy ==
    ASSUME BaseInv, Untouched, Alone, QuietInv, TidyInv, UpdatesNext,
           NEW u \in UCalls, NEW k, Advanced(u, k)
    PROVE  TidyInv'
<1>1. /\ UpdateInv /\ UpdatesTypeOK
      /\ ucall'[u] = k /\ \A w \in UCalls \ {u} : ucall'[w] = ucall[w]
      /\ k.op = ucall[u].op /\ k.doc = Doc(u) /\ ucall[u].pc \in UpdateSteps
  BY UpdateAfter DEF BaseInv, UpdateInv, Advanced, Goes
<1>2. busy' = busy /\ failed \subseteq failed'
  BY DEF Advanced, Passed, GaveUp, Broke, Uploaded, Cut, Merged, Filled, Applied, ReadAgain, Wrote,
         WroteRules, Removed, Cleaned, Finished
<1>3. SUFFICES ASSUME NEW d \in Docs, d \notin busy, d \notin failed' PROVE TidyDoc(d)'
  BY <1>2 DEF TidyInv
<1>4. TidyDoc(d)
  BY <1>2, <1>3 DEF TidyInv
<1>5. CASE d # Doc(u)
  <2>1. docs'[d] = docs[d] /\ chunks'[d] = chunks[d] /\ blobs'[d] = blobs[d]
    BY <1>1, <1>5, OtherDocuments
  <2>2. \A w \in UCalls : /\ Doc(w)' = Doc(w) /\ Working(w, d)' = Working(w, d)
                          /\ Working(w, d) => Copy(w)' = Copy(w)
                          /\ Doc(w) = d => UStep(w, "clean")' = UStep(w, "clean")
                                           /\ UStep(w, "ok")' = UStep(w, "ok")
                                           /\ ucall'[w] = ucall[w]
    BY <1>1, <1>5 DEF Doc, Working, Copy, UStep
  <2>3. ASSUME NEW row, Tidy(row, d) PROVE Tidy(row, d)'
    BY <2>1, <2>3 DEF Tidy
  <2>4. ASSUME Exists(d)', NEW w \in UCalls, Working(w, d)' PROVE Tidy(Copy(w), d)'
    <3>1. PICK row : row = Copy(w)
      OBVIOUS
    <3>2. Tidy(row, d) /\ Copy(w)' = row
      BY <1>4, <2>1, <2>2, <2>4, <3>1 DEF TidyDoc, Exists
    <3> QED
      BY <2>3, <3>2 DEF Tidy
  <2>5. ASSUME Exists(d)', \A w \in UCalls : ~Working(w, d)' PROVE Tidy(docs[d], d)'
    <3>1. Tidy(docs[d], d)
      BY <1>4, <2>1, <2>2, <2>5 DEF TidyDoc, Exists
    <3> QED
      BY <2>1, <3>1 DEF Tidy
  <2>6. ASSUME NEW w \in UCalls, Doc(w)' = d, ucall'[w].op = "delete" PROVE CleansUp(w, d)'
    <3>1. Doc(w) = d /\ ucall'[w] = ucall[w]
      BY <2>2, <2>6
    <3>2. CleansUp(w, d)
      BY <1>4, <2>6, <3>1 DEF TidyDoc
    <3> QED
      BY <2>1, <2>2, <3>1, <3>2 DEF CleansUp
  <2> QED
    BY <2>4, <2>5, <2>6 DEF TidyDoc
<1>6. CASE d = Doc(u)
  <2>1. Working(u, d) /\ \A w \in UCalls : Working(w, d) => w = u
    BY <1>1, <1>3, <1>6 DEF Alone, Working
  <2>2. \A w \in UCalls : Doc(w) = d /\ ucall[w].op = "delete" => ~UStep(w, "ok")
    BY <1>4, <2>1 DEF TidyDoc, CleansUp
  <2>3. ~Broke(u, k)
    BY <1>3, <1>6 DEF Broke
  <2>4. Exists(d) => Tidy(Copy(u), d)
    BY <1>4, <2>1 DEF TidyDoc
  <2>5. Exists(d)' => IF k.pc \in UpdateSteps THEN Tidy(k.copy, d)' ELSE Tidy(docs[d], d)'
    <3>1. SUFFICES ASSUME Exists(d)'
                   PROVE  IF k.pc \in UpdateSteps THEN Tidy(k.copy, d)' ELSE Tidy(docs[d], d)'
      OBVIOUS
    <3>2. Exists(d)
      BY <1>1, <3>1, RowsOnlyGo
    <3>3. Match(u, d)
      BY <1>3, <2>1, <3>2 DEF QuietInv, QuietDoc
    <3> QED
      BY <1>6, <2>3, <2>4, <3>1, <3>2, <3>3, ListsStayTidy
  <2>6. k.op = "delete" =>
           /\ k.pc = "clean" => /\ chunks'[d] # {} => 0 \in k.todo
                                /\ \A v \in Versions : blobs'[d][v] # None => v \in k.todo
           /\ k.pc = "ok" => chunks'[d] = {} /\ \A v \in Versions : blobs'[d][v] = None
    <3>1. SUFFICES ASSUME k.op = "delete"
                   PROVE  /\ k.pc = "clean" =>
                                /\ chunks'[d] # {} => 0 \in k.todo
                                /\ \A v \in Versions : blobs'[d][v] # None => v \in k.todo
                          /\ k.pc = "ok" =>
                                chunks'[d] = {} /\ \A v \in Versions : blobs'[d][v] = None
      OBVIOUS
    <3>2. CleansUp(u, d)
      BY <1>1, <1>4, <1>6, <3>1 DEF TidyDoc
    <3> QED
      BY <1>3, <1>6, <2>4, <3>1, <3>2, DeletesCleanUp
  <2> QED
    BY <1>1, <1>6, <2>1, <2>2, <2>5, <2>6, TidyStep
<1> QED
  BY <1>5, <1>6

LEMMA UpdatesKeepTidy ==
    ASSUME BaseInv, Untouched, Alone, QuietInv, TidyInv, UpdateCalls PROVE TidyInv'
<1>1. UpdateInv /\ UpdatesTypeOK /\ UpdatesNext
  BY DEF BaseInv, UpdateInv, UpdateCalls
<1>2. CASE UpdatesCrash
  <2>1. /\ UNCHANGED <<docs, chunks, blobs, busy>>
        /\ failed' = failed \cup {d \in Docs : \E u \in UCalls : Working(u, d)}
    BY <1>2 DEF UpdatesCrash, UnchangedStores, UnchangedNotes
  <2>2. \A u \in UCalls : /\ Doc(u)' = Doc(u) /\ ucall'[u].op = ucall[u].op
                          /\ ucall'[u].pc = "ok" => ucall[u].pc = "ok"
                          /\ ucall'[u].pc \notin UpdateSteps
    BY <1>1, <1>2, UpdatesCrashEnds DEF Doc, UpdateSteps
  <2>3. SUFFICES ASSUME NEW d \in Docs \ busy, d \notin failed' PROVE TidyDoc(d)'
    BY <2>1 DEF TidyInv
  <2>4. TidyDoc(d) /\ \A u \in UCalls : ~Working(u, d)
    BY <2>1, <2>3 DEF TidyInv
  <2>5. \A u \in UCalls : ~Working(u, d)' /\ ~UStep(u, "clean")' /\ (UStep(u, "ok")' => UStep(u, "ok"))
    BY <2>2 DEF Working, UStep, UpdateSteps
  <2>6. Exists(d)' => Tidy(docs[d], d)'
    BY <2>1, <2>4 DEF TidyDoc, Exists, Tidy
  <2>7. ASSUME NEW u \in UCalls, Doc(u)' = d, ucall'[u].op = "delete" PROVE CleansUp(u, d)'
    BY <2>1, <2>2, <2>4, <2>5, <2>7 DEF TidyDoc, CleansUp
  <2> QED
    BY <2>5, <2>6, <2>7 DEF TidyDoc
<1>3. ASSUME NEW u \in UCalls, NEW k, Becomes(u, k), Began(u, k) PROVE TidyInv'
  <2>1. /\ ucall'[u] = k /\ \A w \in UCalls \ {u} : ucall'[w] = ucall[w]
        /\ UNCHANGED <<docs, chunks, blobs, failed>> /\ busy \subseteq busy'
        /\ ucall[u].pc = "new" /\ k.copy = docs[k.doc]
        /\ k.pc = IF ~Exists(k.doc) THEN "error" ELSE IF k.op = "rules" THEN "apply" ELSE "access"
    BY <1>1, <1>3, UpdateAfter DEF Began
  <2>2. SUFFICES ASSUME NEW d \in Docs, d \notin busy', d \notin failed PROVE TidyDoc(d)'
    BY <2>1 DEF TidyInv
  <2>3. TidyDoc(d)
    BY <2>1, <2>2 DEF TidyInv
  <2>4. \A w \in UCalls \ {u} : /\ Doc(w)' = Doc(w) /\ Working(w, d)' = Working(w, d) /\ Copy(w)' = Copy(w)
                                /\ UStep(w, "clean")' = UStep(w, "clean")
                                /\ UStep(w, "ok")' = UStep(w, "ok")
    BY <2>1 DEF Doc, Working, Copy, UStep
  <2>5. ~Working(u, d) /\ ~UStep(u, "clean")' /\ ~UStep(u, "ok")'
    BY <2>1 DEF Working, UStep, UpdateSteps
  <2>6. Working(u, d)' <=> k.doc = d /\ Exists(d)
    BY <2>1 DEF Working, Doc, UpdateSteps
  <2>7. k.doc = d => \A w \in UCalls \ {u} : ~Working(w, d)
    BY <1>3, <2>2 DEF Began
  <2>8. ASSUME NEW row, Tidy(row, d) PROVE Tidy(row, d)'
    BY <2>1, <2>8 DEF Tidy
  <2>9. ASSUME Exists(d)', NEW w \in UCalls, Working(w, d)' PROVE Tidy(Copy(w), d)'
    <3>1. CASE w = u
      <4>1. \A x \in UCalls : ~Working(x, d)
        BY <2>5, <2>6, <2>7, <2>9, <3>1
      <4>2. PICK row : row = docs[d]
        OBVIOUS
      <4>3. Tidy(row, d)
        BY <2>3, <2>6, <2>9, <3>1, <4>1, <4>2 DEF TidyDoc
      <4>4. Copy(w)' = row
        BY <2>1, <2>6, <2>9, <3>1, <4>2 DEF Copy
      <4> QED
        BY <2>8, <4>3, <4>4 DEF Tidy
    <3>2. CASE w # u
      <4>1. PICK row : row = Copy(w)
        OBVIOUS
      <4>2. Tidy(row, d) /\ Copy(w)' = row
        BY <2>1, <2>3, <2>4, <2>9, <3>2, <4>1 DEF TidyDoc, Exists
      <4> QED
        BY <2>8, <4>2 DEF Tidy
    <3> QED
      BY <3>1, <3>2
  <2>10. ASSUME Exists(d)', \A w \in UCalls : ~Working(w, d)' PROVE Tidy(docs[d], d)'
    <3>1. \A w \in UCalls : ~Working(w, d)
      BY <2>4, <2>5, <2>10
    <3>2. Tidy(docs[d], d)
      BY <2>1, <2>3, <2>10, <3>1 DEF TidyDoc, Exists
    <3> QED
      BY <2>1, <3>2 DEF Tidy
  <2>11. ASSUME NEW w \in UCalls, Doc(w)' = d, ucall'[w].op = "delete" PROVE CleansUp(w, d)'
    <3>1. CASE w = u
      BY <2>5, <3>1 DEF CleansUp
    <3>2. CASE w # u
      <4>1. CleansUp(w, d) /\ ucall'[w] = ucall[w]
        BY <2>1, <2>3, <2>4, <2>11, <3>2 DEF TidyDoc
      <4>2. UStep(w, "ok") => ~Working(u, d)'
        <5>1. UStep(w, "ok") => ~Exists(d)
          <6>1. Doc(w) = d
            BY <2>4, <2>11, <3>2
          <6>2. UStep(w, "ok") => Dead(d)
            BY <2>11, <4>1, <6>1 DEF Untouched, UStep
          <6> QED
            BY <6>2 DEF Dead
        <5> QED
          BY <2>6, <5>1
      <4>3. UStep(w, "ok") => \A x \in UCalls : ~Working(x, d)'
        BY <2>4, <4>1, <4>2 DEF CleansUp
      <4> QED
        BY <2>1, <2>4, <3>2, <4>1, <4>3 DEF CleansUp
    <3> QED
      BY <3>1, <3>2
  <2> QED
    BY <2>9, <2>10, <2>11 DEF TidyDoc
<1> QED
  BY <1>1, <1>2, <1>3, AdvancesKeepTidy, UpdateAdvances

LEMMA InitTidy ==
    ASSUME Init PROVE TidyInv
<1>1. \A u \in UCalls : ucall[u].pc = "new"
  BY DEF Init, UpdatesInit, Idle
<1>2. ASSUME NEW d \in Docs, Exists(d) PROVE Tidy(docs[d], d)
  <2>1. docs[d].text = docs[d].chunked
    BY <1>2, InitRows
  <2>2. chunks[d] # {} => docs[d].text # {}
    BY <1>2 DEF Init, UpdatesInit
  <2>3. \A v \in Versions : blobs[d][v] # None => v <= Len(docs[d].files)
    BY <1>2 DEF Init, UpdatesInit
  <2> QED
    BY <2>1, <2>2, <2>3 DEF Tidy
<1>3. \A u \in UCalls, d \in Docs : ~Working(u, d) /\ ~UStep(u, "clean") /\ ~UStep(u, "ok")
  BY <1>1 DEF Working, UpdateSteps, UStep
<1> QED
  BY <1>2, <1>3 DEF TidyInv, TidyDoc, CleansUp

LEMMA NextKeepsTidy ==
    ASSUME BaseInv, Untouched, Alone, QuietInv, TidyInv, [Next]_vars PROVE TidyInv'
<1>1. CASE UNCHANGED vars
  <2>1. UNCHANGED <<docs, chunks, blobs, ucall, busy, failed>>
    BY <1>1 DEF vars, updateVars
  <2>2. ASSUME NEW d \in Docs, TidyDoc(d) PROVE TidyDoc(d)'
    BY <2>1, <2>2 DEF TidyDoc, CleansUp, Tidy, Copy, Working, Doc, UStep, Exists
  <2> QED
    BY <2>1, <2>2 DEF TidyInv
<1> QED
  BY <1>1, FoldersKeepTidy, UpdatesKeepTidy DEF Next

\* A delete that reports success has left neither chunks nor files of its document,
\* unless another call worked on the document meanwhile or one failed half-way:
\* delete_document cleans up by a copy of the row, and the copy then lists them all.
THEOREM DeletesLeaveOnlyStrays == Spec => []DeleteLeavesOnlyStrays
<1>1. BaseInv /\ TidyInv => DeleteLeavesOnlyStrays
  <2> SUFFICES ASSUME BaseInv, TidyInv, NEW u \in UCalls, UStep(u, "ok"), ucall[u].op = "delete",
                      Doc(u) \notin busy \cup failed
               PROVE  chunks[Doc(u)] = {} /\ \A v \in Versions : blobs[Doc(u)][v] = None
    BY DEF DeleteLeavesOnlyStrays
  <2>1. Doc(u) \in Docs
    BY DEF BaseInv, UpdateInv, UpdatesPlaced, UpdatePlaced, UStep, Doc
  <2>2. CleansUp(u, Doc(u))
    BY <2>1 DEF TidyInv, TidyDoc
  <2> QED
    BY <2>2 DEF CleansUp
<1> QED
  BY <1>1, InitBase, InitUntouched, InitQuiet, InitTidy, NextKeepsBase, NextKeepsUntouched,
     NextKeepsAlone, NextKeepsQuiet, NextKeepsTidy, PTL DEF Spec
=============================================================================

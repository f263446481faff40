--------------------------- MODULE Startup_proofs ---------------------------
(***************************************************************************)
(* Machine-checked theorems about Startup, for any workers and faults, and *)
(* about Retrieval, for any documents, calls and limit.                    *)
(***************************************************************************)
EXTENDS Startup, Retrieval, FiniteSetTheorems, TLAPS

-----------------------------------------------------------------------------
(* Startup.                                                                *)

Before  == {"off", "redis", "wait", "spawn"}   \* the server has no worker yet
Looking == {"vecs", "ask", "vecs2"}            \* has the extension, not yet the table
Past    == {"pool", "up"} \cup PageSteps       \* through with the vector table

\* A server that is about to start a worker has one to start; workers are started once,
\* and one that runs is the child of a server past that point.  The pages are altered
\* only where they are.
StrayInv ==
    /\ StartupTypeOK
    /\ proc[Server].pc \in {"redis", "wait", "spawn"} => Workers \ used # {}
    /\ \A w \in Workers : Running(w) => w \in used
    /\ \A w \in Workers : Running(w) /\ Server \notin hurt => child = w /\ proc[Server].pc \notin Before
    /\ \A p \in Procs : proc[p].pc \in {"columns", "strict"} => pages # Absent

\* Whoever is asking about the table saw it of the old dimension; it is so still, unless
\* two asked at once.
AskInv ==
    /\ \A p \in Procs : proc[p].pc = "ask" => proc[p].saw = "old"
    /\ \A p \in Procs : proc[p].pc = "vecs2" => proc[p].saw \in {"none", "old"}
    /\ \A p \in Procs : Asking(p) => vecs # Absent /\ (vecs.dim = "old" \/ twice)
    /\ \A p, q \in Procs : p # q /\ Asking(p) /\ Asking(q) => twice
    /\ lost => twice

\* The tables are whole for whoever is through with them.
TablesWhole ==
    /\ \A p \in Procs : proc[p].pc = "tables2" /\ proc[p].saw = "none" => tables # "old"
    /\ \A p \in Procs : proc[p].pc \notin Before \cup {"tables", "tables2"} => tables = "whole"

Fits == vecs # Absent /\ vecs.dim = "new"

\* Whoever is through with the vector table, or was outrun at the extension, leaves
\* behind a table that fits or another process that is about to make it so.
VectorsWhole ==
    /\ \A p \in Procs : proc[p].pc \in Looking \cup Past => ext
    /\ \A p \in Procs : proc[p].pc = "vecs2" /\ proc[p].saw = "none" => vecs = Absent \/ Fits
    /\ \A p \in Procs : proc[p].pc \in Past \/ (ext /\ proc[p].pc = "ext2") =>
          Fits \/ \E q \in Procs : proc[q].pc \in Looking

\* How far the one worker has come with its table and function.
PagesWhole ==
    /\ \A w \in Workers :
          /\ proc[w].pc = "create" => pages = Absent
          /\ proc[w].pc = "columns" => pages # Absent /\ ~pages.cols
          /\ proc[w].pc \in {"strict", "drop", "function"} => pages # Absent /\ pages.cols
          /\ Colpali /\ proc[w].pc = "up" => pages # Absent /\ pages.cols
    /\ pages # Absent /\ pages.cols =>
          pages.strict \/ pages.nulls \/ \E w \in Workers : proc[w].pc = "strict"
    /\ pages = Absent \/ maxSim \/ \E w \in Workers : proc[w].pc \in {"drop", "function"}

WholeInv == hurt = {} => TablesWhole /\ VectorsWhole /\ PagesWhole

-----------------------------------------------------------------------------
(* What a step does to the processes.                                      *)

\* Process p is at pc now, having seen saw, and no other has moved.
Moves(p, pc, saw) ==
    /\ proc' \in [Procs -> Proc]
    /\ proc'[p].pc = pc /\ proc'[p].saw = saw
    /\ \A q \in Procs \ {p} : proc'[q] = proc[q]

SetTo(q, pc, saw) == [q EXCEPT !.pc = pc, !.saw = saw, !.tries = 0]

LEMMA AtIs ==
    ASSUME NEW q \in Proc, NEW pc \in ProcPcs, NEW saw \in {"none", "old", "new", "whole"}
    PROVE  SetTo(q, pc, saw) \in Proc /\ SetTo(q, pc, saw).pc = pc /\ SetTo(q, pc, saw).saw = saw
<1> SUFFICES ASSUME NEW r, r = [q EXCEPT !.pc = pc, !.saw = saw, !.tries = 0]
             PROVE  r \in Proc /\ r.pc = pc /\ r.saw = saw
  BY DEF SetTo
<1>1. DOMAIN q = {"pc", "saw", "tries"}
  BY DEF Proc
<1>2. DOMAIN r = {"pc", "saw", "tries"} /\ r.pc = pc /\ r.saw = saw /\ r.tries = 0
  BY <1>1
<1>3. r = [pc |-> pc, saw |-> saw, tries |-> 0]
  BY <1>2
<1>4. 0 \in 0 .. MaxRetries
  BY StartupAssumption
<1> QED
  BY <1>3, <1>4 DEF Proc

LEMMA AtMoves ==
    ASSUME StartupTypeOK, NEW p \in Procs, NEW pc \in ProcPcs,
           NEW saw \in {"none", "old", "new", "whole"},
           proc' = [proc EXCEPT ![p] = SetTo(proc[p], pc, saw)]
    PROVE  Moves(p, pc, saw)
<1>1. proc[p] \in Proc
  BY DEF StartupTypeOK
<1>2. PICK r : r = SetTo(proc[p], pc, saw)
  OBVIOUS
<1>3. r \in Proc /\ r.pc = pc /\ r.saw = saw
  BY <1>1, <1>2, AtIs
<1> QED
  BY <1>2, <1>3 DEF StartupTypeOK, Moves

LEMMA GotoMoves ==
    ASSUME StartupTypeOK, NEW p \in Procs, NEW pc \in ProcPcs, PGoto(p, pc)
    PROVE  Moves(p, pc, proc[p].saw)
<1>1. proc[p] \in Proc /\ proc[p].saw \in {"none", "old", "new", "whole"}
  BY DEF StartupTypeOK, Proc
<1>2. SetTo(proc[p], pc, proc[p].saw) = [proc[p] EXCEPT !.pc = pc, !.tries = 0]
  BY <1>1 DEF SetTo, Proc
<1>3. proc' = [proc EXCEPT ![p] = SetTo(proc[p], pc, proc[p].saw)]
  BY <1>2 DEF PGoto, StartupTypeOK
<1> QED
  BY <1>1, <1>3, AtMoves

LEMMA StartWorkerMoves ==
    ASSUME StrayInv, StartWorker
    PROVE  \E w \in Workers \ used :
              /\ proc' \in [Procs -> Proc]
              /\ proc'[w].pc = "tables" /\ proc'[Server].pc = "tables"
              /\ \A q \in Procs \ {w, Server} : proc'[q] = proc[q]
              /\ proc[w].pc = "off" /\ child' = w /\ used' = used \cup {w}
<1> DEFINE w == CHOOSE w \in Workers : w \notin used
<1>1. w \in Workers \ used
  BY DEF StrayInv, StartWorker, PStep
<1>2. proc[w].pc = "off"
  BY <1>1 DEF StrayInv, Running
<1>3. /\ proc' = [proc EXCEPT ![Server].pc = "tables", ![w].pc = "tables"]
      /\ child' = w /\ used' = used \cup {w}
  BY DEF StartWorker
<1> HIDE DEF w
<1>4. /\ proc' \in [Procs -> Proc]
      /\ proc'[w].pc = "tables" /\ proc'[Server].pc = "tables"
      /\ \A q \in Procs \ {w, Server} : proc'[q] = proc[q]
  BY <1>1, <1>3, StartupAssumption DEF StrayInv, StartupTypeOK, Procs, Proc, ProcPcs, Starts
<1> QED
  BY <1>1, <1>2, <1>3, <1>4

LEMMA LookTablesMoves ==
    ASSUME StartupTypeOK, NEW p \in Procs, LookTables(p)
    PROVE  Moves(p, "tables2", tables)
BY DEF StartupTypeOK, LookTables, Moves, Proc, ProcPcs, Starts

LEMMA LookExtensionMoves ==
    ASSUME StartupTypeOK, NEW p \in Procs, LookExtension(p)
    PROVE  Moves(p, IF ext THEN "vecs" ELSE "ext2", proc[p].saw)
BY DEF StartupTypeOK, LookExtension, Moves, Proc, ProcPcs, Starts

LEMMA AfterVectorsIs ==
    ASSUME NEW p
    PROVE  /\ AfterVectors(p) \in {"pool", "pages", "up"}
           /\ AfterVectors(p) \in Past /\ AfterVectors(p) \in ProcPcs
           /\ AfterVectors(p) = "pages" => Colpali
           /\ AfterVectors(p) = "up" => ~Colpali
BY DEF AfterVectors, Past, ProcPcs, PageSteps

LEMMA LookVectorsMoves ==
    ASSUME StartupTypeOK, NEW p \in Procs, LookVectors(p)
    PROVE  \/ vecs = Absent /\ Moves(p, "vecs2", "none")
           \/ /\ vecs # Absent /\ vecs.dim = "old"
              /\ Moves(p, "ask", "old")
              /\ twice' = (twice \/ \E q \in Procs \ {p} : Asking(q))
           \/ Fits /\ Moves(p, AfterVectors(p), "new")
<1>1. AfterVectors(p) \in ProcPcs
  BY AfterVectorsIs
<1>2. ASSUME NEW saw \in {"none", "old", "new"}, NEW pc \in ProcPcs,
             proc' = [proc EXCEPT ![p].saw = saw, ![p].tries = 0, ![p].pc = pc]
      PROVE  Moves(p, pc, saw)
  <2>1. SetTo(proc[p], pc, saw) = [proc[p] EXCEPT !.saw = saw, !.tries = 0, !.pc = pc]
    BY DEF SetTo, StartupTypeOK, Proc
  <2>2. proc' = [proc EXCEPT ![p] = SetTo(proc[p], pc, saw)]
    BY <1>2, <2>1 DEF StartupTypeOK
  <2> QED
    BY <2>2, AtMoves
<1>3. CASE vecs = Absent
  <2>1. proc' = [proc EXCEPT ![p].saw = "none", ![p].tries = 0, ![p].pc = "vecs2"]
    BY <1>3 DEF LookVectors
  <2> QED
    BY <1>2, <1>3, <2>1 DEF ProcPcs, Starts
<1>4. CASE vecs # Absent /\ vecs.dim = "old"
  <2>1. /\ proc' = [proc EXCEPT ![p].saw = "old", ![p].tries = 0, ![p].pc = "ask"]
        /\ twice' = (twice \/ \E q \in Procs \ {p} : Asking(q))
    BY <1>4 DEF LookVectors, Dimension
  <2> QED
    BY <1>2, <1>4, <2>1 DEF ProcPcs, Starts
<1>5. CASE Fits
  <2>1. proc' = [proc EXCEPT ![p].saw = "new", ![p].tries = 0, ![p].pc = AfterVectors(p)]
    BY <1>5 DEF LookVectors, Dimension, Fits
  <2> QED
    BY <1>1, <1>2, <1>5, <2>1
<1> QED
  BY <1>3, <1>4, <1>5 DEF StartupTypeOK, Vecs, Fits

LEMMA MakeExtensionMoves ==
    ASSUME StartupTypeOK, NEW p \in Procs, MakeExtension(p)
    PROVE  \/ /\ Moves(p, IF ext THEN AfterVectors(p) ELSE "vecs", proc[p].saw)
              /\ ext' = TRUE
              /\ UNCHANGED <<tables, vecs, pages, maxSim, notes>>
           \/ Moves(p, "ext", proc[p].saw) /\ UNCHANGED <<schema, notes>>
           \/ Fault(p, AfterVectors(p)) /\ Moves(p, AfterVectors(p), proc[p].saw)
<1>1. CASE PGoto(p, IF ext THEN AfterVectors(p) ELSE "vecs")
           /\ ext' = TRUE /\ UNCHANGED <<tables, vecs, pages, maxSim, notes>>
  BY <1>1, GotoMoves, AfterVectorsIs DEF ProcPcs, Starts
<1>2. CASE /\ proc[p].tries + 1 < MaxRetries
           /\ proc' = [proc EXCEPT ![p].pc = "ext", ![p].tries = @ + 1]
           /\ UNCHANGED <<schema, notes>>
  BY <1>2, StartupAssumption DEF StartupTypeOK, Moves, Proc, ProcPcs, Starts
<1>3. CASE Fault(p, AfterVectors(p))
  BY <1>3, GotoMoves, AfterVectorsIs DEF Fault
<1> QED
  BY <1>1, <1>2, <1>3 DEF MakeExtension

LEMMA EndsMoves ==
    ASSUME StartupTypeOK, NEW S \in SUBSET Procs,
           proc' = [p \in Procs |-> IF p \in S THEN Off ELSE proc[p]]
    PROVE  /\ proc' \in [Procs -> Proc]
           /\ \A p \in S : proc'[p].pc = "off" /\ proc'[p].saw = "none"
           /\ \A p \in Procs \ S : proc'[p] = proc[p]
BY StartupAssumption DEF StartupTypeOK, Off, Proc, ProcPcs

-----------------------------------------------------------------------------
(* Workers and their server.                                               *)

\* A step of one process that neither starts nor ends a worker.
LEMMA OneMoves ==
    ASSUME StrayInv, StartupTypeOK', NEW p \in Procs, NEW pc, NEW saw, Moves(p, pc, saw),
           UNCHANGED <<child, used>>, hurt \subseteq hurt',
           p # Server => proc[p].pc # "off",
           p = Server => pc \notin Before \/ proc[p].pc \in Before,
           p = Server /\ pc \in {"redis", "wait", "spawn"} => Workers \ used # {},
           pages # Absent => pages' # Absent, pc \in {"columns", "strict"} => pages' # Absent
    PROVE  StrayInv'
<1> USE StartupAssumption DEF StrayInv, Moves, Running, Procs
<1>1. (proc[Server].pc \in {"redis", "wait", "spawn"} => Workers \ used # {})'
  <2>1. CASE p = Server
    BY <2>1
  <2>2. CASE p # Server
    BY <2>2
  <2> QED
    BY <2>1, <2>2
<1>2. ASSUME NEW w \in Workers, Running(w)'
      PROVE  Running(w)
  <2>1. CASE p = w
    BY <2>1
  <2>2. CASE p # w
    BY <1>2, <2>2
  <2> QED
    BY <2>1, <2>2
<1>3. (\A w \in Workers : Running(w) => w \in used)'
  BY <1>2
<1>4. ASSUME NEW w \in Workers, Running(w)', Server \notin hurt'
      PROVE  (child = w /\ proc[Server].pc \notin Before)'
  <2>1. child = w /\ proc[Server].pc \notin Before
    BY <1>2, <1>4
  <2>2. CASE p = Server
    BY <2>1, <2>2
  <2>3. CASE p # Server
    BY <2>1, <2>3
  <2> QED
    BY <2>1, <2>2, <2>3
<1>5. (\A q \in Procs : proc[q].pc \in {"columns", "strict"} => pages # Absent)'
  OBVIOUS
<1> QED
  BY <1>1, <1>3, <1>4, <1>5

LEMMA ServerSteps ==
    ASSUME StrayInv, Launch \/ StartRedis \/ WaitForRedis \/ StartWorker \/ MakePool \/ Exit \/ RedisStops
    PROVE  StrayInv'
<1> USE StartupAssumption DEF schema, system, notes
<1> Server \in Procs /\ Workers \subseteq Procs
  BY DEF Procs
<1> StartupTypeOK
  BY DEF StrayInv
<1>1. CASE Launch
  <2>1. Moves(Server, "redis", proc[Server].saw)
    BY <1>1, GotoMoves DEF Launch, ProcPcs
  <2>2. StartupTypeOK'
    BY <1>1, <2>1 DEF StartupTypeOK, Launch, Moves
  <2> QED
    BY <1>1, <2>1, <2>2, OneMoves DEF Launch, Before, PStep
<1>2. CASE StartRedis
  <2>1. PICK pc \in {"wait", "off"} : PGoto(Server, pc)
    BY <1>2 DEF StartRedis
  <2>2. Moves(Server, pc, proc[Server].saw)
    BY <2>1, GotoMoves DEF ProcPcs
  <2>3. StartupTypeOK'
    BY <1>2, <2>2 DEF StartupTypeOK, StartRedis, Moves
  <2>4. Workers \ used # {} /\ proc[Server].pc \in Before /\ UNCHANGED <<child, used, hurt, pages>>
    BY <1>2 DEF StartRedis, PStep, Before, StrayInv
  <2> QED
    BY <2>2, <2>3, <2>4, OneMoves
<1>3. CASE WaitForRedis
  <2>1. PICK pc \in {"spawn", "off"} : PGoto(Server, pc)
    BY <1>3 DEF WaitForRedis
  <2>2. Moves(Server, pc, proc[Server].saw)
    BY <2>1, GotoMoves DEF ProcPcs
  <2>3. StartupTypeOK'
    BY <1>3, <2>2 DEF StartupTypeOK, WaitForRedis, Moves
  <2>4. Workers \ used # {} /\ proc[Server].pc \in Before /\ UNCHANGED <<child, used, hurt, pages>>
    BY <1>3 DEF WaitForRedis, PStep, Before, StrayInv
  <2> QED
    BY <2>2, <2>3, <2>4, OneMoves
<1>4. CASE StartWorker
  <2>1. PICK w \in Workers \ used :
              /\ proc' \in [Procs -> Proc]
              /\ proc'[w].pc = "tables" /\ proc'[Server].pc = "tables"
              /\ \A q \in Procs \ {w, Server} : proc'[q] = proc[q]
              /\ proc[w].pc = "off" /\ child' = w /\ used' = used \cup {w}
    BY <1>4, StartWorkerMoves
  <2>2. UNCHANGED <<schema, redis, notes>> /\ proc[Server].pc \in Before
    BY <1>4 DEF StartWorker, PStep, Before
  <2>3. StartupTypeOK'
    BY <2>1, <2>2 DEF StartupTypeOK
  <2> HIDE <1>4
  <2> QED
    BY <2>1, <2>2, <2>3 DEF StrayInv, Running, Before, Procs
<1>5. CASE MakePool
  <2>1. CASE redis /\ PGoto(Server, "up") /\ UNCHANGED <<child, hurt>>
    <3>1. Moves(Server, "up", proc[Server].saw)
      BY <2>1, GotoMoves DEF ProcPcs
    <3>2. StartupTypeOK'
      BY <1>5, <2>1, <3>1 DEF StartupTypeOK, MakePool, Moves
    <3> QED
      BY <1>5, <2>1, <3>1, <3>2, OneMoves DEF MakePool, Before
  <2>2. CASE ~redis
    <3>1. /\ proc' = [p \in Procs |-> IF p \in {Server, child} \cap Procs THEN Off ELSE proc[p]]
          /\ child' = Absent /\ hurt \subseteq hurt' /\ hurt' \subseteq Procs
          /\ UNCHANGED <<schema, redis, used, twice, lost>>
      BY <1>5, <2>2 DEF MakePool, StartupTypeOK
    <3>2. /\ proc' \in [Procs -> Proc]
          /\ \A p \in {Server, child} \cap Procs : proc'[p].pc = "off" /\ proc'[p].saw = "none"
          /\ \A p \in Procs \ ({Server, child} \cap Procs) : proc'[p] = proc[p]
      <4>1. PICK S \in SUBSET Procs : S = {Server, child} \cap Procs
        OBVIOUS
      <4>2. proc' = [p \in Procs |-> IF p \in S THEN Off ELSE proc[p]]
        BY <3>1, <4>1
      <4> QED
        BY <4>1, <4>2, EndsMoves
    <3>3. StartupTypeOK'
      BY <3>1, <3>2 DEF StartupTypeOK
    <3> QED
      BY <3>1, <3>2, <3>3 DEF StrayInv, Running
  <2> QED
    BY <1>5, <2>1, <2>2 DEF MakePool
<1>6. CASE Exit
  <2>1. /\ proc' = [p \in Procs |-> IF p \in Cleaned THEN Off ELSE proc[p]]
        /\ child' = Absent /\ hurt \subseteq hurt' /\ hurt' \subseteq Procs
        /\ UNCHANGED <<schema, redis, used, twice, lost>>
    BY <1>6 DEF Exit, StartupTypeOK, Cleaned
  <2>2. /\ proc' \in [Procs -> Proc]
        /\ \A p \in Cleaned : proc'[p].pc = "off" /\ proc'[p].saw = "none"
        /\ \A p \in Procs \ Cleaned : proc'[p] = proc[p]
    <3>1. PICK S \in SUBSET Procs : S = Cleaned
      BY DEF Cleaned
    <3>2. proc' = [p \in Procs |-> IF p \in S THEN Off ELSE proc[p]]
      BY <2>1, <3>1
    <3> QED
      BY <3>1, <3>2, EndsMoves
  <2>3. StartupTypeOK'
    BY <2>1, <2>2 DEF StartupTypeOK
  <2> QED
    BY <2>1, <2>2, <2>3 DEF StrayInv, Running, Cleaned
<1>7. CASE RedisStops
  BY <1>7 DEF RedisStops, StrayInv, StartupTypeOK, Running
<1> QED
  BY <1>1, <1>2, <1>3, <1>4, <1>5, <1>6, <1>7

\* A fault of a store method, whatever the step: the next store.
LEMMA FaultMoves ==
    ASSUME StartupTypeOK, NEW p \in Procs, NEW pc \in ProcPcs, Fault(p, pc), UNCHANGED system
    PROVE  /\ Moves(p, pc, proc[p].saw)
           /\ UNCHANGED <<schema, twice, lost, system>> /\ hurt' = hurt \cup {p}
           /\ StartupTypeOK'
<1>1. Moves(p, pc, proc[p].saw)
  BY GotoMoves DEF Fault
<1> QED
  BY <1>1 DEF Fault, StartupTypeOK, Moves, schema, system

\* What all steps of the store methods have in common.
StepsOn(p) ==
    /\ \E pc \in ProcPcs \ Before, saw \in {"none", "old", "new", "whole"} :
          Moves(p, pc, saw) /\ (pc \in {"columns", "strict"} => pages' # Absent)
    /\ pages # Absent => pages' # Absent
    /\ proc[p].pc \notin Before
    /\ UNCHANGED system /\ hurt \subseteq hurt'
    /\ StartupTypeOK'

LEMMA FaultSteps ==
    ASSUME StartupTypeOK, NEW p \in Procs, NEW pc \in ProcPcs \ (Before \cup {"columns", "strict"}),
           Fault(p, pc), UNCHANGED system, proc[p].pc \notin Before
    PROVE  StepsOn(p)
<1>1. proc[p].saw \in {"none", "old", "new", "whole"}
  BY DEF StartupTypeOK, Proc
<1> QED
  BY <1>1, FaultMoves DEF StepsOn, schema

LEMMA GotoSteps ==
    ASSUME StartupTypeOK, NEW p \in Procs, NEW pc \in ProcPcs \ Before, PGoto(p, pc), UNCHANGED system,
           proc[p].pc \notin Before, hurt \subseteq hurt',
           pages # Absent => pages' # Absent, pc \in {"columns", "strict"} => pages' # Absent,
           proc' \in [Procs -> Proc] => StartupTypeOK'
    PROVE  StepsOn(p)
<1>1. proc[p].saw \in {"none", "old", "new", "whole"}
  BY DEF StartupTypeOK, Proc
<1>2. Moves(p, pc, proc[p].saw)
  BY GotoMoves
<1> QED
  BY <1>1, <1>2 DEF StepsOn, Moves

LEMMA StoresStep ==
    ASSUME StartupTypeOK, NEW p \in Procs,
           \/ LookTables(p) \/ CommitTables(p) \/ LookExtension(p) \/ MakeExtension(p)
           \/ LookVectors(p) \/ AskToRecreate(p) \/ CommitVectors(p)
    PROVE  StepsOn(p)
<1> USE StartupAssumption DEF schema, system, notes
<1>0. /\ AfterVectors(p) \in ProcPcs \ (Before \cup {"columns", "strict"})
      /\ AfterTables \in ProcPcs \ (Before \cup {"columns", "strict"})
  BY DEF AfterVectors, AfterTables, ProcPcs, PageSteps, Starts, Before
<1>s. proc[p].saw \in {"none", "old", "new", "whole"}
  BY DEF StartupTypeOK, Proc
<1>1. CASE LookTables(p)
  <2>1. Moves(p, "tables2", tables) /\ tables \in {"none", "old", "new", "whole"}
    BY <1>1, LookTablesMoves DEF StartupTypeOK
  <2>2. StartupTypeOK'
    BY <1>1, <2>1 DEF LookTables, StartupTypeOK, Moves
  <2> QED
    BY <1>1, <2>1, <2>2 DEF StepsOn, LookTables, PStep, Before, ProcPcs, Starts
<1>2. CASE CommitTables(p)
  <2>1. CASE Fault(p, AfterTables)
    BY <1>0, <1>2, <2>1, FaultSteps DEF CommitTables, PStep, Before
  <2>2. CASE PGoto(p, AfterTables) /\ tables' \in {tables, "whole"} /\ UNCHANGED <<ext, vecs, pages, maxSim, notes>>
    <3>1. proc' \in [Procs -> Proc] => StartupTypeOK'
      BY <1>2, <2>2 DEF StartupTypeOK, CommitTables
    <3> QED
      BY <1>0, <1>2, <2>2, <3>1, GotoSteps DEF CommitTables, PStep, Before
  <2> QED
    BY <1>2, <2>1, <2>2 DEF CommitTables
<1>3. CASE LookExtension(p)
  <2>1. PICK pc \in {"vecs", "ext2"} : Moves(p, pc, proc[p].saw)
    BY <1>3, LookExtensionMoves
  <2>2. StartupTypeOK'
    BY <1>3, <2>1 DEF LookExtension, StartupTypeOK, Moves
  <2> QED
    BY <1>3, <1>s, <2>1, <2>2 DEF StepsOn, LookExtension, PStep, Before, ProcPcs, Starts
<1>4. CASE MakeExtension(p)
  <2>1. PICK pc \in {"vecs", "ext", AfterVectors(p)} : Moves(p, pc, proc[p].saw)
    BY <1>4, MakeExtensionMoves
  <2>2. proc[p].pc \notin Before /\ UNCHANGED <<system, pages>> /\ hurt \subseteq hurt'
    BY <1>4 DEF MakeExtension, PStep, Before, Fault
  <2>3. StartupTypeOK'
    <3>1. ext' \in BOOLEAN /\ hurt' \in {hurt, hurt \cup {p}} /\ UNCHANGED <<tables, vecs, maxSim, twice, lost>>
      BY <1>4, MakeExtensionMoves DEF StartupTypeOK, Fault
    <3> QED
      BY <2>1, <2>2, <3>1 DEF StartupTypeOK, Moves
  <2> QED
    BY <1>0, <1>s, <2>1, <2>2, <2>3 DEF StepsOn, Before, ProcPcs, Starts
<1>5. CASE LookVectors(p)
  <2>1. PICK pc \in {"vecs2", "ask", AfterVectors(p)}, saw \in {"none", "old", "new"} : Moves(p, pc, saw)
    BY <1>5, LookVectorsMoves
  <2>2. proc[p].pc \notin Before /\ UNCHANGED <<system, pages>> /\ hurt \subseteq hurt'
    BY <1>5 DEF LookVectors, PStep, Before
  <2>3. StartupTypeOK'
    <3>1. twice' \in BOOLEAN
      BY <1>5, Zenon DEF LookVectors, StartupTypeOK
    <3>2. UNCHANGED <<tables, ext, vecs, pages, maxSim, redis, child, used, hurt, lost>>
      BY <1>5 DEF LookVectors
    <3> QED
      BY <2>1, <3>1, <3>2 DEF StartupTypeOK, Moves
  <2> QED
    BY <1>0, <2>1, <2>2, <2>3 DEF StepsOn, Before, ProcPcs, Starts
<1>6. CASE AskToRecreate(p)
  <2>1. PICK pc \in {"vecs2", AfterVectors(p)} : PGoto(p, pc) /\ hurt' \in {hurt, hurt \cup {p}}
    BY <1>6 DEF AskToRecreate
  <2>2. proc' \in [Procs -> Proc] => StartupTypeOK'
    BY <1>6, <2>1 DEF StartupTypeOK, AskToRecreate
  <2> QED
    BY <1>0, <1>6, <2>1, <2>2, GotoSteps DEF AskToRecreate, PStep, Before, ProcPcs, Starts
<1>7. CASE CommitVectors(p)
  <2>1. CASE Fault(p, AfterVectors(p))
    BY <1>0, <1>7, <2>1, FaultSteps DEF CommitVectors, PStep, Before
  <2>2. CASE /\ PGoto(p, AfterVectors(p))
             /\ vecs' \in {vecs, [dim |-> "new", rows |-> FALSE]}
             /\ lost' = (lost \/ (proc[p].saw = "old" /\ vecs = [dim |-> "new", rows |-> TRUE]))
             /\ UNCHANGED <<tables, ext, pages, maxSim, hurt, twice>>
    <3>1. proc' \in [Procs -> Proc] => StartupTypeOK'
      <4>1. lost' \in BOOLEAN
        BY <2>2, Zenon DEF StartupTypeOK
      <4>2. vecs' \in {Absent} \cup Vecs
        <5>1. [dim |-> "new", rows |-> FALSE] \in Vecs
          BY DEF Vecs
        <5>2. vecs' \in {vecs, [dim |-> "new", rows |-> FALSE]} /\ vecs \in {Absent} \cup Vecs
          BY <2>2 DEF StartupTypeOK
        <5> QED
          BY <5>1, <5>2, Zenon
      <4>3. UNCHANGED <<tables, ext, pages, maxSim, redis, child, used, hurt, twice>>
        BY <1>7, <2>2 DEF CommitVectors
      <4> QED
        BY <4>1, <4>2, <4>3 DEF StartupTypeOK
    <3> QED
      BY <1>0, <1>7, <2>2, <3>1, GotoSteps DEF CommitVectors, PStep, Before
  <2> QED
    BY <1>7, <2>1, <2>2 DEF CommitVectors
<1> QED
  BY <1>1, <1>2, <1>3, <1>4, <1>5, <1>6, <1>7

LEMMA PagesStep ==
    ASSUME StartupTypeOK, NEW w \in Workers,
           LookPages(w) \/ CreatePages(w) \/ AddColumns(w) \/ DemandDocument(w) \/ DropMaxSim(w) \/ MakeMaxSim(w),
           proc[w].pc \in {"columns", "strict"} => pages # Absent
    PROVE  StepsOn(w)
<1> USE StartupAssumption DEF schema, system, notes
<1>0. w \in Procs /\ PageSteps \cup {"up"} \subseteq ProcPcs \ Before
  BY DEF Procs, PageSteps, Before, ProcPcs
<1>1. proc[w].pc \in PageSteps /\ UNCHANGED system
  BY DEF LookPages, CreatePages, AddColumns, DemandDocument, DropMaxSim, MakeMaxSim, PStep, PageSteps
<1>2. CASE Fault(w, "up")
  BY <1>0, <1>1, <1>2, FaultSteps
<1>3. CASE ~Fault(w, "up")
  <2>1. PICK pc \in PageSteps \cup {"up"} : PGoto(w, pc) /\ (pc = "columns" => LookPages(w) /\ pages # Absent)
                                           /\ (pc = "strict" => AddColumns(w))
    BY <1>3 DEF LookPages, CreatePages, AddColumns, DemandDocument, DropMaxSim, MakeMaxSim, PageSteps
  <2>2. pages' \in {Absent} \cup Pages /\ (pages # Absent => pages' # Absent)
        /\ (LookPages(w) => UNCHANGED pages) /\ (AddColumns(w) => pages' # Absent)
    <3>1. pages \in {Absent} \cup Pages
      BY DEF StartupTypeOK
    <3>2. CASE LookPages(w) \/ DropMaxSim(w) \/ MakeMaxSim(w)
      BY <1>3, <3>1, <3>2 DEF LookPages, DropMaxSim, MakeMaxSim, AddColumns, PStep
    <3>3. CASE CreatePages(w)
      <4>1. [cols |-> TRUE, strict |-> TRUE, nulls |-> FALSE] \in Pages
        BY DEF Pages
      <4> QED
        BY <1>3, <3>1, <3>3, <4>1 DEF CreatePages, AddColumns, LookPages, PStep
    <3>4. CASE AddColumns(w)
      <4>1. pages \in Pages /\ pages' = [pages EXCEPT !.cols = TRUE]
        BY <1>3, <3>1, <3>4 DEF AddColumns, PStep
      <4>2. pages' \in Pages
        BY <4>1 DEF Pages
      <4> QED
        BY <3>4, <4>2 DEF AddColumns, LookPages, PStep
    <3>5. CASE DemandDocument(w)
      <4>1. pages \in Pages /\ pages' = [pages EXCEPT !.strict = ~pages.nulls]
        BY <1>3, <3>1, <3>5 DEF DemandDocument, PStep
      <4>2. pages' \in Pages
        BY <4>1 DEF Pages
      <4> QED
        BY <3>5, <4>2 DEF DemandDocument, AddColumns, LookPages, PStep
    <3> QED
      BY <3>2, <3>3, <3>4, <3>5
  <2>3. UNCHANGED <<tables, ext, vecs, notes>> /\ maxSim' \in BOOLEAN
    BY <1>3 DEF LookPages, CreatePages, AddColumns, DemandDocument, DropMaxSim, MakeMaxSim, StartupTypeOK
  <2>4. proc' \in [Procs -> Proc] => StartupTypeOK'
    BY <1>1, <2>2, <2>3 DEF StartupTypeOK
  <2> QED
    BY <1>0, <1>1, <2>1, <2>2, <2>3, <2>4, GotoSteps
<1> QED
  BY <1>2, <1>3

LEMMA StoreChunksIs ==
    ASSUME StartupTypeOK, NEW w \in Workers, StoreChunksOf(w)
    PROVE  /\ StartupTypeOK' /\ Fits /\ Fits'
           /\ UNCHANGED <<tables, ext, pages, maxSim, proc, system, notes>>
<1>1. vecs \in Vecs /\ vecs.dim = "new" /\ vecs' = [vecs EXCEPT !.rows = TRUE]
  BY DEF StartupTypeOK, StoreChunksOf
<1>2. vecs' \in Vecs /\ vecs'.dim = "new"
  BY <1>1 DEF Vecs
<1> QED
  BY <1>1, <1>2, StartupAssumption DEF StoreChunksOf, StartupTypeOK, Fits, system, notes

LEMMA KilledIs ==
    ASSUME StartupTypeOK, NEW p \in Procs, Killed(p)
    PROVE  /\ StartupTypeOK' /\ Moves(p, "off", "none")
           /\ UNCHANGED <<schema, redis, used, twice, lost>> /\ hurt' = hurt \cup {p}
           /\ child' = IF p = Server THEN Absent ELSE child
<1>1. proc' = [proc EXCEPT ![p] = Off]
  BY DEF Killed
<1>2. Off \in Proc /\ Off.pc = "off" /\ Off.saw = "none"
  BY StartupAssumption DEF Off, Proc, ProcPcs
<1>3. Moves(p, "off", "none")
  BY <1>1, <1>2 DEF Moves, StartupTypeOK
<1> QED
  BY <1>3 DEF Killed, Moves, StartupTypeOK, schema

LEMMA StrayInitially == StartupInit => StrayInv
<1> SUFFICES ASSUME StartupInit PROVE StrayInv
  OBVIOUS
<1>1. Off \in Proc /\ Off.pc = "off"
  BY StartupAssumption DEF Off, Proc, ProcPcs
<1>2. StartupTypeOK
  <2>1. /\ tables \in {"none", "old", "whole"} /\ ext \in BOOLEAN /\ maxSim \in BOOLEAN
        /\ vecs \in {Absent} \cup Vecs /\ pages \in {Absent} \cup Pages
    BY DEF StartupInit, Vecs, Pages
  <2> QED
    BY <1>1, <2>1 DEF StartupInit, StartupTypeOK
<1> QED
  BY <1>1, <1>2 DEF StartupInit, StrayInv, Running, Procs

LEMMA StrayStep == StrayInv /\ [StartupNext]_startupVars => StrayInv'
<1> SUFFICES ASSUME StrayInv, [StartupNext]_startupVars
             PROVE  StrayInv'
  OBVIOUS
<1>0. StartupTypeOK
  BY DEF StrayInv
<1>1. ASSUME NEW p \in Procs, StepsOn(p)
      PROVE  StrayInv'
  <2>1. PICK pc \in ProcPcs \ Before, saw \in {"none", "old", "new", "whole"} :
           Moves(p, pc, saw) /\ (pc \in {"columns", "strict"} => pages' # Absent)
    BY <1>1 DEF StepsOn
  <2>2. proc[p].pc # "off" /\ pc \notin {"redis", "wait", "spawn"}
    BY <1>1 DEF StepsOn, Before
  <2> QED
    BY <1>1, <2>1, <2>2, OneMoves DEF StepsOn, system
<1>2. ASSUME NEW w \in Workers, StoreChunksOf(w)
      PROVE  StrayInv'
  BY <1>0, <1>2, StoreChunksIs DEF StrayInv, Running, system, notes
<1>3. ASSUME NEW p \in Procs, Killed(p)
      PROVE  StrayInv'
  <2>1. /\ StartupTypeOK' /\ Moves(p, "off", "none")
        /\ UNCHANGED <<pages, used>> /\ hurt' = hurt \cup {p}
        /\ child' = IF p = Server THEN Absent ELSE child
    BY <1>0, <1>3, KilledIs DEF schema
  <2>2. \A q \in Procs \ {p} : proc'[q] = proc[q]
    BY <2>1 DEF Moves
  <2>3. proc'[p].pc = "off"
    BY <2>1 DEF Moves
  <2> QED
    BY <2>1, <2>2, <2>3, StartupAssumption DEF StrayInv, Running, Procs
<1>4. CASE UNCHANGED startupVars
  BY <1>4 DEF startupVars, StrayInv, StartupTypeOK, Running
<1>5. ASSUME NEW p \in Procs, StoreSteps(p)
      PROVE  StrayInv'
  BY <1>0, <1>1, <1>3, <1>5, StoresStep DEF StoreSteps
<1>6. ASSUME NEW w \in Workers, WorkerSteps(w)
      PROVE  StrayInv'
  BY <1>0, <1>1, <1>2, <1>6, PagesStep DEF WorkerSteps, Procs, StrayInv
<1> QED
  BY <1>4, <1>5, <1>6, ServerSteps DEF StartupNext

LEMMA StrayHolds == StartupSpec => []StrayInv
<1> QED
  BY StrayInitially, StrayStep, PTL DEF StartupSpec

\* The variables of Startup keep their types.
THEOREM StartupTypesCorrect == StartupSpec => []StartupTypeOK
<1>1. StrayInv => StartupTypeOK
  BY DEF StrayInv
<1> QED
  BY <1>1, StrayHolds, PTL

\* cleanup_processes ends the worker with the server, at whatever stage that is.
THEOREM NeverStrayWorkers == StartupSpec => []NoStrayWorkers
<1>1. StrayInv => NoStrayWorkers
  BY DEF StrayInv, NoStrayWorkers, Running, Before
<1> QED
  BY <1>1, StrayHolds, PTL

-----------------------------------------------------------------------------
(* Chunks of the configured dimension.                                     *)

\* Whoever has moved is not asking; who has not moved is where it was.
Elsewhere(pcs) == \A q \in Procs : proc'[q] = proc[q] \/ proc'[q].pc \notin pcs

LEMMA AskKeeps ==
    ASSUME AskInv, Elsewhere({"ask", "vecs2"}), UNCHANGED <<vecs, lost>>, twice => twice'
    PROVE  AskInv'
BY DEF AskInv, Elsewhere, Asking

LEMMA MovesElsewhere ==
    ASSUME NEW p \in Procs, NEW pc, NEW saw, Moves(p, pc, saw), NEW pcs, pc \notin pcs
    PROVE  Elsewhere(pcs)
BY DEF Moves, Elsewhere

\* The steps of start_server.py move processes to places outside the stores, or to their start.
LEMMA ServerElsewhere ==
    ASSUME StrayInv, Launch \/ StartRedis \/ WaitForRedis \/ StartWorker \/ MakePool \/ Exit \/ RedisStops
    PROVE  \A q \in Procs : proc'[q] = proc[q] \/ proc'[q].pc \in Before \cup {"tables", "up"}
<1>0. Server \in Procs /\ StartupTypeOK
  BY DEF Procs, StrayInv
<1>1. ASSUME NEW pc \in Before \cup {"up"}, PGoto(Server, pc)
      PROVE  \A q \in Procs : proc'[q] = proc[q] \/ proc'[q].pc \in Before \cup {"up"}
  <2>1. Moves(Server, pc, proc[Server].saw)
    BY <1>0, <1>1, GotoMoves DEF ProcPcs, Before
  <2> QED
    BY <2>1 DEF Moves
<1>2. CASE Launch \/ StartRedis \/ WaitForRedis
  <2>1. \E pc \in Before : PGoto(Server, pc)
    BY <1>2 DEF Launch, StartRedis, WaitForRedis, Before
  <2> QED
    BY <1>1, <2>1
<1>3. CASE StartWorker
  BY <1>3, StartWorkerMoves
<1>4. CASE MakePool
  BY <1>1, <1>4 DEF MakePool, Off, Before
<1>5. CASE Exit
  BY <1>5 DEF Exit, Off, Before
<1>6. CASE RedisStops
  BY <1>6 DEF RedisStops
<1> QED
  BY <1>2, <1>3, <1>4, <1>5, <1>6

LEMMA ServerKeepsSchema ==
    ASSUME Launch \/ StartRedis \/ WaitForRedis \/ StartWorker \/ MakePool \/ Exit \/ RedisStops
    PROVE  UNCHANGED <<schema, twice, lost>>
BY DEF Launch, StartRedis, WaitForRedis, StartWorker, MakePool, Exit, RedisStops, notes

LEMMA LookVectorsKeepsAsk ==
    ASSUME StartupTypeOK, AskInv, NEW p \in Procs, LookVectors(p)
    PROVE  AskInv'
<1>1. UNCHANGED <<vecs, lost>> /\ (twice => twice')
  BY DEF LookVectors, schema
<1>2. CASE vecs = Absent /\ Moves(p, "vecs2", "none")
  BY <1>1, <1>2 DEF AskInv, Moves, Asking
<1>3. CASE /\ vecs # Absent /\ vecs.dim = "old" /\ Moves(p, "ask", "old")
           /\ twice' = (twice \/ \E q \in Procs \ {p} : Asking(q))
  <2>1. \A q \in Procs \ {p} : Asking(q)' => Asking(q)
    BY <1>3 DEF Moves, Asking
  <2> QED
    BY <1>1, <1>3, <2>1 DEF AskInv, Moves, Asking
<1>4. CASE Fits /\ Moves(p, AfterVectors(p), "new")
  <2>1. Elsewhere({"ask", "vecs2"})
    BY <1>4, MovesElsewhere, AfterVectorsIs
  <2> QED
    BY <1>1, <2>1, AskKeeps
<1> QED
  BY <1>2, <1>3, <1>4, LookVectorsMoves

LEMMA AskToRecreateKeepsAsk ==
    ASSUME StartupTypeOK, AskInv, NEW p \in Procs, AskToRecreate(p)
    PROVE  AskInv'
<1>1. UNCHANGED <<vecs, lost, twice>> /\ proc[p].pc = "ask"
  BY DEF AskToRecreate, schema, PStep
<1>2. CASE PGoto(p, "vecs2")
  <2>1. Moves(p, "vecs2", proc[p].saw)
    BY <1>2, GotoMoves DEF ProcPcs, Starts
  <2>2. \A q \in Procs : Asking(q)' => Asking(q)
    BY <1>1, <2>1 DEF Moves, Asking
  <2> QED
    BY <1>1, <2>1, <2>2 DEF AskInv, Moves
<1>3. CASE PGoto(p, AfterVectors(p))
  <2>1. Moves(p, AfterVectors(p), proc[p].saw)
    BY <1>3, GotoMoves, AfterVectorsIs
  <2>2. Elsewhere({"ask", "vecs2"})
    BY <2>1, MovesElsewhere, AfterVectorsIs
  <2> QED
    BY <1>1, <2>2, AskKeeps
<1> QED
  BY <1>2, <1>3 DEF AskToRecreate

LEMMA CommitVectorsKeepsAsk ==
    ASSUME StartupTypeOK, AskInv, NEW p \in Procs, CommitVectors(p)
    PROVE  AskInv'
<1>1. Moves(p, AfterVectors(p), proc[p].saw)
  BY GotoMoves, AfterVectorsIs DEF CommitVectors, Fault
<1>2. Elsewhere({"ask", "vecs2"})
  BY <1>1, MovesElsewhere, AfterVectorsIs
<1>3. CASE Fault(p, AfterVectors(p))
  BY <1>2, <1>3, AskKeeps DEF Fault, schema
<1>4. CASE /\ vecs' = IF proc[p].saw = "none" /\ vecs # Absent THEN vecs ELSE [dim |-> "new", rows |-> FALSE]
           /\ lost' = (lost \/ (proc[p].saw = "old" /\ vecs = [dim |-> "new", rows |-> TRUE]))
           /\ UNCHANGED twice
  <2>1. proc[p].pc = "vecs2" /\ proc[p].saw \in {"none", "old"}
    BY DEF CommitVectors, PStep, AskInv
  <2>2. ASSUME NEW q \in Procs, Asking(q)'
        PROVE  q # p /\ Asking(q)
    BY <1>1, <1>2, <2>2, AfterVectorsIs DEF Moves, Elsewhere, Asking
  <2>3. CASE proc[p].saw = "none"
    <3>1. UNCHANGED lost
      BY <1>4, <2>3 DEF StartupTypeOK
    <3>2. CASE vecs # Absent
      BY <1>2, <1>4, <2>3, <3>1, <3>2, AskKeeps
    <3>3. CASE vecs = Absent
      <4>1. \A q \in Procs : ~Asking(q)
        BY <3>3 DEF AskInv
      <4> QED
        BY <1>1, <1>4, <2>2, <3>1, <4>1, AfterVectorsIs DEF AskInv, Moves
    <3> QED
      BY <3>2, <3>3
  <2>4. CASE proc[p].saw = "old"
    <3>1. Asking(p) /\ vecs' = [dim |-> "new", rows |-> FALSE] /\ vecs' # Absent
      <4>1. [dim |-> "new", rows |-> FALSE] \in Vecs
        BY DEF Vecs
      <4> QED
        BY <1>4, <2>1, <2>4, <4>1, StartupAssumption DEF Asking
    <3>2. lost' => twice
      <4>1. lost' => lost \/ vecs.dim = "new"
        <5>1. [dim |-> "new", rows |-> TRUE].dim = "new"
          OBVIOUS
        <5>2. lost' => lost \/ vecs = [dim |-> "new", rows |-> TRUE]
          BY <1>4, Zenon
        <5> QED
          BY <5>1, <5>2, Zenon
      <4> QED
        BY <3>1, <4>1 DEF AskInv
    <3>3. \A q \in Procs : Asking(q)' => twice
      BY <2>2, <3>1 DEF AskInv
    <3> QED
      BY <1>1, <1>4, <3>1, <3>2, <3>3, AfterVectorsIs DEF AskInv, Moves
  <2> QED
    BY <2>1, <2>3, <2>4
<1> QED
  BY <1>3, <1>4 DEF CommitVectors

LEMMA AskStep == StrayInv /\ AskInv /\ [StartupNext]_startupVars => AskInv'
<1> SUFFICES ASSUME StrayInv, AskInv, [StartupNext]_startupVars
             PROVE  AskInv'
  OBVIOUS
<1>0. StartupTypeOK
  BY DEF StrayInv
<1>1. CASE Launch \/ StartRedis \/ WaitForRedis \/ StartWorker \/ MakePool \/ Exit \/ RedisStops
  <2>1. UNCHANGED <<vecs, lost, twice>>
    BY <1>1, ServerKeepsSchema DEF schema
  <2>2. Elsewhere({"ask", "vecs2"})
    BY <1>1, ServerElsewhere DEF Elsewhere, Before
  <2> QED
    BY <2>1, <2>2, AskKeeps
<1>2. ASSUME NEW p \in Procs, NEW pc \in ProcPcs \ {"ask", "vecs2"}, NEW saw, Moves(p, pc, saw),
             UNCHANGED <<vecs, lost, twice>>
      PROVE  AskInv'
  BY <1>2, MovesElsewhere, AskKeeps
<1>3. ASSUME NEW p \in Procs, LookTables(p) \/ LookExtension(p)
      PROVE  AskInv'
  <2>1. UNCHANGED <<vecs, lost, twice>>
    BY <1>3 DEF LookTables, LookExtension, schema, notes
  <2> QED
    BY <1>0, <1>2, <1>3, <2>1, LookTablesMoves, LookExtensionMoves DEF ProcPcs, Starts
<1>4. ASSUME NEW p \in Procs, CommitTables(p)
      PROVE  AskInv'
  <2>1. UNCHANGED <<vecs, lost, twice>> /\ PGoto(p, "ext")
    BY <1>4 DEF CommitTables, Fault, schema, notes, AfterTables
  <2>2. "ext" \in ProcPcs \ {"ask", "vecs2"}
    BY DEF ProcPcs, Starts
  <2>3. Moves(p, "ext", proc[p].saw)
    BY <1>0, <2>1, <2>2, GotoMoves
  <2> QED
    BY <1>2, <2>1, <2>2, <2>3
<1>5. ASSUME NEW p \in Procs, MakeExtension(p)
      PROVE  AskInv'
  <2>1. UNCHANGED <<vecs, lost, twice>>
    BY <1>5 DEF MakeExtension, Fault, schema, notes
  <2>2. PICK pc \in {"vecs", "ext", AfterVectors(p)} : Moves(p, pc, proc[p].saw)
    BY <1>0, <1>5, MakeExtensionMoves
  <2> QED
    BY <1>2, <2>1, <2>2, AfterVectorsIs DEF ProcPcs, Starts
<1>6. ASSUME NEW p \in Procs, Killed(p)
      PROVE  AskInv'
  BY <1>0, <1>2, <1>6, KilledIs DEF schema, ProcPcs
<1>7. ASSUME NEW w \in Workers, StoreChunksOf(w)
      PROVE  AskInv'
  <2>1. Fits /\ Fits' /\ UNCHANGED <<proc, lost, twice>>
    BY <1>0, <1>7, StoreChunksIs DEF notes
  <2> QED
    BY <2>1 DEF AskInv, Asking, Fits
<1>8. ASSUME NEW w \in Workers,
             LookPages(w) \/ CreatePages(w) \/ AddColumns(w) \/ DemandDocument(w) \/ DropMaxSim(w) \/ MakeMaxSim(w)
      PROVE  AskInv'
  <2>1. UNCHANGED <<vecs, lost, twice>>
    BY <1>8 DEF LookPages, CreatePages, AddColumns, DemandDocument, DropMaxSim, MakeMaxSim, Fault, schema, notes
  <2>2. PICK pc \in PageSteps \cup {"up"} : PGoto(w, pc)
    BY <1>8 DEF LookPages, CreatePages, AddColumns, DemandDocument, DropMaxSim, MakeMaxSim, Fault, PageSteps
  <2>3. w \in Procs /\ pc \in ProcPcs \ {"ask", "vecs2"}
    BY DEF Procs, ProcPcs, PageSteps
  <2>4. Moves(w, pc, proc[w].saw)
    BY <1>0, <2>2, <2>3, GotoMoves
  <2> QED
    BY <1>2, <2>1, <2>3, <2>4
<1>9. CASE UNCHANGED startupVars
  BY <1>9 DEF startupVars, AskInv, Asking
<1> QED
  BY <1>0, <1>1, <1>3, <1>4, <1>5, <1>6, <1>7, <1>8, <1>9, LookVectorsKeepsAsk, AskToRecreateKeepsAsk,
     CommitVectorsKeepsAsk DEF StartupNext, StoreSteps, WorkerSteps

LEMMA AskHolds == StartupSpec => []AskInv
<1>1. StartupInit => AskInv
  BY DEF StartupInit, AskInv, Asking, Off
<1> QED
  BY <1>1, StrayHolds, AskStep, PTL DEF StartupSpec

\* The question whether to drop the vector table is not asked again about the new table:
\* chunks of the configured dimension go only where two processes asked at once.
THEOREM ChunksAlwaysSurvive == StartupSpec => []ChunksSurviveStarts
<1>1. AskInv => ChunksSurviveStarts
  BY DEF AskInv, ChunksSurviveStarts
<1> QED
  BY <1>1, AskHolds, PTL

-----------------------------------------------------------------------------
(* The stores after a start.                                               *)

ServerStep == Launch \/ StartRedis \/ WaitForRedis \/ StartWorker \/ MakePool \/ Exit \/ RedisStops

\* As long as nobody is hurt the server's steps move only itself and workers that are off or up.
LEMMA ServerMoves ==
    ASSUME StrayInv, ServerStep, hurt' = {}
    PROVE  /\ \A q \in Procs : proc'[q] = proc[q] \/
                 /\ proc[q].pc \in Before \cup {"pool", "up"}
                 /\ proc'[q].pc \in Before \cup {"tables"} \/ (q = Server /\ proc[q].pc = "pool" /\ proc'[q].pc = "up")
           /\ UNCHANGED schema
<1>0. Server \in Procs /\ StartupTypeOK /\ UNCHANGED schema
  BY ServerKeepsSchema DEF Procs, StrayInv, ServerStep
<1>1. ASSUME NEW pc \in Before \cup {"up"}, PGoto(Server, pc)
      PROVE  (\A q \in Procs \ {Server} : proc'[q] = proc[q]) /\ proc'[Server].pc = pc
  <2>1. Moves(Server, pc, proc[Server].saw)
    BY <1>0, <1>1, GotoMoves DEF ProcPcs, Before
  <2> QED
    BY <2>1 DEF Moves
<1>2. CASE Launch \/ StartRedis \/ WaitForRedis
  <2>1. (\E pc \in Before : PGoto(Server, pc)) /\ proc[Server].pc \in Before
    BY <1>2 DEF Launch, StartRedis, WaitForRedis, Before, PStep
  <2> QED
    BY <1>0, <1>1, <2>1
<1>3. CASE StartWorker
  <2>1. proc[Server].pc = "spawn"
    BY <1>3 DEF StartWorker, PStep
  <2> QED
    BY <1>0, <1>3, <2>1, StartWorkerMoves DEF Before
<1>4. CASE MakePool
  <2>1. CASE PGoto(Server, "up")
    BY <1>0, <1>1, <1>4, <2>1 DEF MakePool, PStep
  <2>2. CASE /\ proc' = [p \in Procs |-> IF p \in {Server, child} THEN Off ELSE proc[p]]
             /\ hurt' = hurt \cup {p \in {child} \cap Workers : Starting(p)}
    <3>1. \A q \in Procs : proc'[q] = proc[q] \/ (q \in {Server, child} /\ proc'[q].pc = "off")
      BY <2>2 DEF Off
    <3>2. \A q \in {child} \cap Workers : proc[q].pc \in {"off", "up"}
      BY <2>2 DEF Starting
    <3>3. proc[Server].pc = "pool"
      BY <1>4 DEF MakePool, PStep
    <3> QED
      BY <1>0, <3>1, <3>2, <3>3 DEF Before, Procs
  <2> QED
    BY <1>4, <2>1, <2>2 DEF MakePool
<1>5. CASE Exit
  <2>1. \A q \in Procs : proc'[q] = proc[q] \/ (q \in Cleaned /\ proc'[q].pc = "off")
    BY <1>5 DEF Exit, Off
  <2>2. \A q \in Cleaned : proc[q].pc \in {"off", "up"}
    BY <1>5 DEF Exit, Starting
  <2> QED
    BY <1>0, <2>1, <2>2 DEF Before
<1>6. CASE RedisStops
  BY <1>0, <1>6 DEF RedisStops
<1> QED
  BY <1>2, <1>3, <1>4, <1>5, <1>6 DEF ServerStep

LEMMA NobodyHurt ==
    ASSUME StrayInv, [StartupNext]_startupVars, hurt' = {}
    PROVE  hurt = {}
<1>0. StartupTypeOK
  BY DEF StrayInv
<1>1. hurt \subseteq hurt'
  <2>1. CASE ServerStep
    BY <2>1 DEF ServerStep, Launch, StartRedis, WaitForRedis, StartWorker, MakePool, Exit, RedisStops, notes
  <2>2. ASSUME NEW p \in Procs, StoreSteps(p)
        PROVE  hurt \subseteq hurt'
    BY <1>0, <2>2, StoresStep DEF StoreSteps, StepsOn, Killed
  <2>3. ASSUME NEW w \in Workers, WorkerSteps(w)
        PROVE  hurt \subseteq hurt'
    BY <1>0, <2>3, PagesStep DEF WorkerSteps, StepsOn, StoreChunksOf, notes, StrayInv, Procs
  <2>4. CASE UNCHANGED startupVars
    BY <2>4 DEF startupVars
  <2> QED
    BY <2>1, <2>2, <2>3, <2>4 DEF StartupNext, ServerStep
<1> QED
  BY <1>1

LEMMA TablesKeepWhole ==
    ASSUME TablesWhole, UNCHANGED tables,
           \A q \in Procs : \/ proc'[q] = proc[q]
                            \/ proc'[q].pc \in Before \cup {"tables"}
                            \/ proc[q].pc \notin Before \cup {"tables", "tables2"} /\ proc'[q].pc # "tables2"
    PROVE  TablesWhole'
BY DEF TablesWhole, Before

LEMMA CommitTablesKeeps ==
    ASSUME StartupTypeOK, TablesWhole, NEW p \in Procs, CommitTables(p), hurt' = {}
    PROVE  TablesWhole' /\ tables' = "whole" /\ Moves(p, "ext", proc[p].saw)
           /\ UNCHANGED <<ext, vecs, pages, maxSim>>
<1>1. /\ proc[p].pc = "tables2" /\ PGoto(p, "ext") /\ UNCHANGED <<ext, vecs, pages, maxSim>>
      /\ tables' = IF proc[p].saw = "none" /\ tables # "none" THEN tables ELSE "whole"
  BY DEF CommitTables, Fault, AfterTables, PStep
<1>2. tables' = "whole"
  BY <1>1 DEF TablesWhole, StartupTypeOK
<1>3. Moves(p, "ext", proc[p].saw)
  BY <1>1, GotoMoves DEF ProcPcs, Starts
<1> QED
  BY <1>1, <1>2, <1>3 DEF TablesWhole

\* A step that leaves table and extension, and nobody from or to their making.
LEMMA VectorsKeepWhole ==
    ASSUME VectorsWhole, UNCHANGED <<ext, vecs>>,
           \A q \in Procs : \/ proc'[q] = proc[q]
                            \/ /\ proc[q].pc \notin Looking
                               /\ proc'[q].pc \notin Looking \cup {"ext2"}
                               /\ proc'[q].pc \in Past => proc[q].pc \in Past
    PROVE  VectorsWhole'
<1>1. \A q \in Procs : /\ proc'[q].pc \in Past => proc[q].pc \in Past
                       /\ proc'[q].pc \in Looking => proc[q].pc \in Looking /\ proc'[q] = proc[q]
                       /\ proc[q].pc \in Looking => proc'[q].pc \in Looking
                       /\ proc'[q].pc = "ext2" => proc[q].pc = "ext2"
  OBVIOUS
<1>2. Fits' <=> Fits
  BY DEF Fits
<1>3. (\A p \in Procs : proc[p].pc \in Looking \cup Past => ext)'
  BY <1>1 DEF VectorsWhole
<1>4. (\A p \in Procs : proc[p].pc = "vecs2" /\ proc[p].saw = "none" => vecs = Absent \/ Fits)'
  BY <1>1, <1>2 DEF VectorsWhole, Looking
<1>5. (\A p \in Procs : proc[p].pc \in Past \/ (ext /\ proc[p].pc = "ext2") =>
          Fits \/ \E q \in Procs : proc[q].pc \in Looking)'
  BY <1>1, <1>2 DEF VectorsWhole
<1> QED
  BY <1>3, <1>4, <1>5 DEF VectorsWhole

LEMMA LookExtensionKeeps ==
    ASSUME StartupTypeOK, VectorsWhole, NEW p \in Procs, LookExtension(p)
    PROVE  VectorsWhole' /\ UNCHANGED schema
<1>1. Moves(p, IF ext THEN "vecs" ELSE "ext2", proc[p].saw) /\ UNCHANGED schema /\ proc[p].pc = "ext"
  BY LookExtensionMoves DEF LookExtension, PStep
<1>2. Fits' <=> Fits
  BY <1>1 DEF Fits, schema
<1>3. CASE ext
  <2>1. proc'[p].pc = "vecs" /\ \A q \in Procs \ {p} : proc'[q] = proc[q]
    BY <1>1, <1>3 DEF Moves
  <2> QED
    BY <1>1, <1>2, <1>3, <2>1 DEF VectorsWhole, schema, Looking, Past, PageSteps
<1>4. CASE ~ext
  <2>1. proc'[p].pc = "ext2" /\ \A q \in Procs \ {p} : proc'[q] = proc[q]
    BY <1>1, <1>4 DEF Moves
  <2> QED
    BY <1>1, <1>2, <1>4, <2>1 DEF VectorsWhole, schema, Looking, Past, PageSteps
<1> QED
  BY <1>3, <1>4

LEMMA MakeExtensionKeeps ==
    ASSUME StartupTypeOK, VectorsWhole, NEW p \in Procs, MakeExtension(p), hurt' = {}
    PROVE  VectorsWhole' /\ UNCHANGED <<tables, pages, maxSim>>
<1>0. proc[p].pc = "ext2" /\ proc[p].pc \notin Looking \cup Past
  BY DEF MakeExtension, PStep, Looking, Past, PageSteps
<1>1. CASE Moves(p, "ext", proc[p].saw) /\ UNCHANGED schema
  <2>1. proc'[p].pc = "ext" /\ \A q \in Procs \ {p} : proc'[q] = proc[q]
    BY <1>1 DEF Moves
  <2>2. VectorsWhole'
    BY <1>0, <1>1, <2>1, VectorsKeepWhole DEF schema, Looking, Past, PageSteps
  <2> QED
    BY <1>1, <2>2 DEF schema
<1>2. CASE /\ Moves(p, IF ext THEN AfterVectors(p) ELSE "vecs", proc[p].saw)
           /\ ext' = TRUE /\ UNCHANGED <<tables, vecs, pages, maxSim>>
  <2>1. Fits' <=> Fits
    BY <1>2 DEF Fits
  <2>2. \A q \in Procs \ {p} : proc'[q] = proc[q]
    BY <1>2 DEF Moves
  <2>3. CASE ext
    <3>1. proc'[p].pc = AfterVectors(p) /\ proc'[p].pc \in Past /\ proc'[p].pc # "vecs2"
      BY <1>2, <2>3, AfterVectorsIs DEF Moves
    <3>2. Fits \/ \E q \in Procs \ {p} : proc[q].pc \in Looking
      BY <1>0, <2>3 DEF VectorsWhole
    <3> QED
      BY <1>0, <1>2, <2>1, <2>2, <2>3, <3>1, <3>2 DEF VectorsWhole
  <2>4. CASE ~ext
    <3>1. proc'[p].pc = "vecs" /\ proc'[p].pc \in Looking
      BY <1>2, <2>4 DEF Moves, Looking
    <3> QED
      BY <1>2, <2>1, <2>2, <2>4, <3>1 DEF VectorsWhole
  <2> QED
    BY <2>3, <2>4
<1>3. ~Fault(p, AfterVectors(p))
  BY DEF Fault
<1> QED
  BY <1>1, <1>2, <1>3, MakeExtensionMoves

LEMMA LookVectorsKeeps ==
    ASSUME StartupTypeOK, VectorsWhole, NEW p \in Procs, LookVectors(p)
    PROVE  VectorsWhole' /\ UNCHANGED schema
<1>1. UNCHANGED schema /\ proc[p].pc = "vecs" /\ (Fits' <=> Fits) /\ ext
  BY DEF LookVectors, PStep, schema, Fits, VectorsWhole, Looking
<1>2. CASE vecs = Absent /\ Moves(p, "vecs2", "none")
  <2>1. proc'[p].pc = "vecs2" /\ \A q \in Procs \ {p} : proc'[q] = proc[q]
    BY <1>2 DEF Moves
  <2> QED
    BY <1>1, <1>2, <2>1 DEF VectorsWhole, schema, Looking
<1>3. CASE vecs # Absent /\ Moves(p, "ask", "old")
  <2>1. proc'[p].pc = "ask" /\ \A q \in Procs \ {p} : proc'[q] = proc[q]
    BY <1>3 DEF Moves
  <2> QED
    BY <1>1, <1>3, <2>1 DEF VectorsWhole, schema, Looking
<1>4. CASE Fits /\ Moves(p, AfterVectors(p), "new")
  <2>1. proc'[p].pc \notin {"vecs2"} /\ \A q \in Procs \ {p} : proc'[q] = proc[q]
    BY <1>4, AfterVectorsIs DEF Moves
  <2> QED
    BY <1>1, <1>4, <2>1 DEF VectorsWhole, schema, Looking
<1> QED
  BY <1>2, <1>3, <1>4, LookVectorsMoves

LEMMA AskToRecreateKeeps ==
    ASSUME StartupTypeOK, AskInv, VectorsWhole, NEW p \in Procs, AskToRecreate(p), hurt' = {}
    PROVE  VectorsWhole' /\ UNCHANGED schema
<1>1. UNCHANGED schema /\ proc[p].pc = "ask" /\ PGoto(p, "vecs2") /\ (Fits' <=> Fits) /\ ext
  BY DEF AskToRecreate, PStep, schema, Fits, VectorsWhole, Looking
<1>2. Moves(p, "vecs2", "old")
  BY <1>1, GotoMoves DEF AskInv, ProcPcs, Starts
<1>3. proc'[p].pc = "vecs2" /\ proc'[p].saw = "old" /\ \A q \in Procs \ {p} : proc'[q] = proc[q]
  BY <1>2 DEF Moves
<1> QED
  BY <1>1, <1>3 DEF VectorsWhole, schema, Looking

LEMMA CommitVectorsKeeps ==
    ASSUME StartupTypeOK, VectorsWhole, NEW p \in Procs, CommitVectors(p), hurt' = {}
    PROVE  VectorsWhole' /\ UNCHANGED <<tables, pages, maxSim>>
<1>1. /\ proc[p].pc = "vecs2" /\ PGoto(p, AfterVectors(p))
      /\ vecs' = IF proc[p].saw = "none" /\ vecs # Absent THEN vecs ELSE [dim |-> "new", rows |-> FALSE]
      /\ UNCHANGED <<tables, ext, pages, maxSim>>
  BY DEF CommitVectors, PStep, Fault
<1>2. Fits'
  <2>1. CASE proc[p].saw = "none" /\ vecs # Absent
    BY <1>1, <2>1 DEF VectorsWhole, Fits
  <2>2. CASE ~(proc[p].saw = "none" /\ vecs # Absent)
    <3>1. vecs' = [dim |-> "new", rows |-> FALSE]
      BY <1>1, <2>2
    <3>2. [dim |-> "new", rows |-> FALSE] \in Vecs
      BY DEF Vecs
    <3> QED
      BY <3>1, <3>2, StartupAssumption DEF Fits
  <2> QED
    BY <2>1, <2>2
<1>3. Moves(p, AfterVectors(p), proc[p].saw)
  BY <1>1, GotoMoves, AfterVectorsIs
<1>4. \A q \in Procs \ {p} : proc'[q] = proc[q]
  BY <1>3 DEF Moves
<1>5. ext
  BY <1>1 DEF VectorsWhole, Looking
<1> QED
  BY <1>1, <1>2, <1>4, <1>5 DEF VectorsWhole

-----------------------------------------------------------------------------
LEMMA Alone ==
    ASSUME StrayInv, hurt = {}, NEW v \in Workers, NEW w \in Workers, Running(v), Running(w)
    PROVE  v = w
BY DEF StrayInv

AtPages == {"create", "columns", "strict", "drop", "function"}

LEMMA PagesKeepWhole ==
    ASSUME PagesWhole, UNCHANGED <<pages, maxSim>>,
           \A w \in Workers : \/ proc'[w] = proc[w]
                              \/ proc[w].pc \notin AtPages /\ proc'[w].pc \notin AtPages /\ (Colpali => proc'[w].pc # "up")
    PROVE  PagesWhole'
<1>1. \A w \in Workers : /\ proc'[w].pc \in AtPages => proc[w].pc = proc'[w].pc
                         /\ proc[w].pc \in AtPages => proc[w].pc = proc'[w].pc
                         /\ Colpali /\ proc'[w].pc = "up" => proc[w].pc = "up"
  OBVIOUS
<1>2. (\A w \in Workers :
          /\ proc[w].pc = "create" => pages = Absent
          /\ proc[w].pc = "columns" => pages # Absent /\ ~pages.cols
          /\ proc[w].pc \in {"strict", "drop", "function"} => pages # Absent /\ pages.cols
          /\ Colpali /\ proc[w].pc = "up" => pages # Absent /\ pages.cols)'
  BY <1>1 DEF PagesWhole, AtPages
<1>3. (pages # Absent /\ pages.cols =>
          pages.strict \/ pages.nulls \/ \E w \in Workers : proc[w].pc = "strict")'
  BY <1>1 DEF PagesWhole, AtPages
<1>4. (pages = Absent \/ maxSim \/ \E w \in Workers : proc[w].pc \in {"drop", "function"})'
  BY <1>1 DEF PagesWhole, AtPages
<1> QED
  BY <1>2, <1>3, <1>4 DEF PagesWhole

LEMMA PagesStepKeeps ==
    ASSUME StrayInv, VectorsWhole, PagesWhole, hurt = {}, hurt' = {}, NEW w \in Workers,
           LookPages(w) \/ CreatePages(w) \/ AddColumns(w) \/ DemandDocument(w) \/ DropMaxSim(w) \/ MakeMaxSim(w)
    PROVE  /\ PagesWhole' /\ UNCHANGED <<tables, ext, vecs>>
           /\ \E pc \in PageSteps \cup {"up"} : Moves(w, pc, proc[w].saw)
<1>0. StartupTypeOK /\ w \in Procs /\ Workers \subseteq Procs
  BY DEF StrayInv, Procs
<1>1. ~Fault(w, "up") /\ proc[w].pc \in PageSteps /\ Running(w)
  BY DEF Fault, LookPages, CreatePages, AddColumns, DemandDocument, DropMaxSim, MakeMaxSim, PStep, PageSteps, Running
<1>2. \A v \in Workers \ {w} : proc[v].pc = "off"
  BY <1>1, Alone DEF Running
<1>3. UNCHANGED <<tables, ext, vecs>>
  BY <1>1 DEF LookPages, CreatePages, AddColumns, DemandDocument, DropMaxSim, MakeMaxSim, schema
<1>4. PICK pc \in PageSteps \cup {"up"} : PGoto(w, pc)
  BY <1>1 DEF LookPages, CreatePages, AddColumns, DemandDocument, DropMaxSim, MakeMaxSim, PageSteps
<1>5. Moves(w, pc, proc[w].saw)
  BY <1>0, <1>4, GotoMoves DEF ProcPcs
<1>6. proc'[w].pc = pc /\ \A v \in Workers \ {w} : proc'[v].pc = "off"
  BY <1>0, <1>2, <1>5 DEF Moves
\* With one worker the table and the function are as far as it is.
<1>7. /\ pages # Absent /\ pages.cols => pages.strict \/ pages.nulls \/ proc[w].pc = "strict"
      /\ pages = Absent \/ maxSim \/ proc[w].pc \in {"drop", "function"}
  BY <1>2 DEF PagesWhole
<1>8. SUFFICES /\ pc = "create" => pages' = Absent
               /\ pc = "columns" => pages' # Absent /\ ~pages'.cols
               /\ pc \in {"strict", "drop", "function", "up"} => pages' # Absent /\ pages'.cols
               /\ pages' # Absent /\ pages'.cols => pages'.strict \/ pages'.nulls \/ pc = "strict"
               /\ pages' = Absent \/ maxSim' \/ pc \in {"drop", "function"}
  BY <1>3, <1>5, <1>6 DEF PagesWhole
<1>9. pages = Absent \/ pages \in Pages
  BY <1>0 DEF StartupTypeOK
<1>p. \A x \in {"create", "columns", "strict", "drop", "function", "up"} : PGoto(w, x) => pc = x
  <2> SUFFICES ASSUME NEW x \in {"create", "columns", "strict", "drop", "function", "up"}, PGoto(w, x)
               PROVE  pc = x
    OBVIOUS
  <2>1. x \in ProcPcs
    BY DEF ProcPcs, PageSteps
  <2>2. Moves(w, x, proc[w].saw)
    BY <1>0, <2>1, GotoMoves
  <2> QED
    BY <1>6, <2>2 DEF Moves
<1>10. CASE LookPages(w)
  <2>1. ext /\ proc[w].pc = "pages" /\ UNCHANGED <<pages, maxSim>>
    BY <1>0, <1>1, <1>10 DEF LookPages, PStep, VectorsWhole, Past, PageSteps, schema
  <2>2. CASE pages = Absent
    <3>1. PGoto(w, "create")
      BY <1>1, <1>10, <2>1, <2>2 DEF LookPages
    <3> QED
      BY <1>p, <2>1, <2>2, <3>1
  <2>3. CASE pages # Absent /\ pages.cols
    <3>1. PGoto(w, "drop")
      BY <1>1, <1>10, <2>1, <2>3 DEF LookPages
    <3> QED
      BY <1>7, <1>p, <2>1, <2>3, <3>1
  <2>4. CASE pages # Absent /\ ~pages.cols
    <3>1. PGoto(w, "columns")
      BY <1>1, <1>10, <2>1, <2>4 DEF LookPages
    <3> QED
      BY <1>7, <1>p, <2>1, <2>4, <3>1
  <2> QED
    BY <2>2, <2>3, <2>4
<1>11. CASE CreatePages(w)
  <2>1. [cols |-> TRUE, strict |-> TRUE, nulls |-> FALSE] \in Pages
    BY DEF Pages
  <2>2. PGoto(w, "drop") /\ pages' = [cols |-> TRUE, strict |-> TRUE, nulls |-> FALSE]
    BY <1>1, <1>11 DEF CreatePages, PStep, PagesWhole
  <2> QED
    BY <1>p, <2>1, <2>2, StartupAssumption
<1>12. CASE AddColumns(w)
  <2>1. pages \in Pages /\ ~pages.cols /\ maxSim /\ UNCHANGED maxSim
    BY <1>1, <1>7, <1>9, <1>12 DEF AddColumns, PStep, PagesWhole
  <2>2. PGoto(w, "strict") /\ pages' = [pages EXCEPT !.cols = TRUE]
    BY <1>1, <1>12, <2>1 DEF AddColumns
  <2>3. pages' \in Pages /\ pages'.cols
    BY <2>1, <2>2 DEF Pages
  <2> QED
    BY <1>p, <2>1, <2>2, <2>3, StartupAssumption
<1>13. CASE DemandDocument(w)
  <2>1. pages \in Pages /\ pages.cols /\ maxSim /\ UNCHANGED maxSim
    BY <1>1, <1>7, <1>9, <1>13 DEF DemandDocument, PStep, PagesWhole
  <2>2. PGoto(w, IF pages.nulls THEN "up" ELSE "drop") /\ pages' = [pages EXCEPT !.strict = ~pages.nulls]
    BY <1>1, <1>13 DEF DemandDocument
  <2>3. pages' \in Pages /\ pages'.cols /\ (pages'.strict \/ pages'.nulls)
    BY <2>1, <2>2 DEF Pages
  <2>4. pc \in {"up", "drop"}
    BY <1>p, <2>2
  <2> QED
    BY <2>1, <2>3, <2>4, StartupAssumption
<1>14. CASE DropMaxSim(w)
  <2>1. PGoto(w, "function") /\ UNCHANGED pages /\ proc[w].pc = "drop"
    BY <1>1, <1>14 DEF DropMaxSim, PStep
  <2> QED
    BY <1>7, <1>p, <2>1 DEF PagesWhole
<1>15. CASE MakeMaxSim(w)
  <2>1. PGoto(w, "up") /\ UNCHANGED pages /\ maxSim' = TRUE /\ proc[w].pc = "function"
    BY <1>1, <1>15 DEF MakeMaxSim, PStep
  <2> QED
    BY <1>7, <1>p, <2>1 DEF PagesWhole
<1> QED
  BY <1>10, <1>11, <1>12, <1>13, <1>14, <1>15

LEMMA WholeStep == StrayInv /\ AskInv /\ WholeInv /\ [StartupNext]_startupVars => WholeInv'
<1> SUFFICES ASSUME StrayInv, AskInv, WholeInv, [StartupNext]_startupVars, hurt' = {}
             PROVE  (TablesWhole /\ VectorsWhole /\ PagesWhole)'
  BY DEF WholeInv
<1>0. /\ StartupTypeOK /\ hurt = {} /\ TablesWhole /\ VectorsWhole /\ PagesWhole
      /\ Server \notin Workers /\ Workers \subseteq Procs
  BY NobodyHurt, StartupAssumption DEF StrayInv, WholeInv, Procs
<1>1. CASE ServerStep
  <2>1. /\ \A q \in Procs : proc'[q] = proc[q] \/
              /\ proc[q].pc \in Before \cup {"pool", "up"}
              /\ proc'[q].pc \in Before \cup {"tables"} \/ (q = Server /\ proc[q].pc = "pool" /\ proc'[q].pc = "up")
        /\ UNCHANGED schema
    BY <1>1, ServerMoves
  <2>2. TablesWhole'
    <3>1. \A q \in Procs : \/ proc'[q] = proc[q]
                           \/ proc'[q].pc \in Before \cup {"tables"}
                           \/ proc[q].pc \notin Before \cup {"tables", "tables2"} /\ proc'[q].pc # "tables2"
      BY <2>1 DEF Before
    <3> QED
      BY <1>0, <2>1, <3>1, TablesKeepWhole DEF schema
  <2>3. VectorsWhole'
    BY <1>0, <2>1, VectorsKeepWhole DEF schema, Before, Looking, Past, PageSteps
  <2>4. PagesWhole'
    <3>1. \A w \in Workers : \/ proc'[w] = proc[w]
                             \/ proc[w].pc \notin AtPages /\ proc'[w].pc \notin AtPages /\ (Colpali => proc'[w].pc # "up")
      BY <1>0, <2>1 DEF Before, AtPages
    <3> QED
      BY <1>0, <2>1, <3>1, PagesKeepWhole DEF schema
  <2> QED
    BY <2>2, <2>3, <2>4
\* A step of the stores before the pages.
<1>2. ASSUME NEW p \in Procs, NEW pc, NEW saw, Moves(p, pc, saw), UNCHANGED <<pages, maxSim>>,
             proc[p].pc \notin AtPages, pc \notin AtPages, p \in Workers /\ Colpali => pc # "up"
      PROVE  PagesWhole'
  <2>1. \A w \in Workers : \/ proc'[w] = proc[w]
                           \/ proc[w].pc \notin AtPages /\ proc'[w].pc \notin AtPages /\ (Colpali => proc'[w].pc # "up")
    BY <1>0, <1>2 DEF Moves
  <2> QED
    BY <1>0, <1>2, <2>1, PagesKeepWhole
<1>3. ASSUME NEW p \in Procs, NEW pc, NEW saw, Moves(p, pc, saw), UNCHANGED tables,
             proc[p].pc \notin Before \cup {"tables", "tables2"}, pc # "tables2"
      PROVE  TablesWhole'
  <2>1. \A q \in Procs : \/ proc'[q] = proc[q]
                         \/ proc'[q].pc \in Before \cup {"tables"}
                         \/ proc[q].pc \notin Before \cup {"tables", "tables2"} /\ proc'[q].pc # "tables2"
    BY <1>3 DEF Moves
  <2> QED
    BY <1>0, <1>3, <2>1, TablesKeepWhole
<1>4. ASSUME NEW p \in Procs
      PROVE  /\ AfterVectors(p) \notin AtPages /\ AfterVectors(p) # "tables2"
             /\ p \in Workers /\ Colpali => AfterVectors(p) # "up"
  BY <1>4, AfterVectorsIs DEF AtPages
<1>5. ASSUME NEW p \in Procs, LookTables(p)
      PROVE  (TablesWhole /\ VectorsWhole /\ PagesWhole)'
  <2>1. Moves(p, "tables2", tables) /\ UNCHANGED schema /\ proc[p].pc = "tables"
    BY <1>0, <1>5, LookTablesMoves DEF LookTables, PStep
  <2>2. proc'[p].pc = "tables2" /\ proc'[p].saw = tables /\ \A q \in Procs \ {p} : proc'[q] = proc[q]
    BY <2>1 DEF Moves
  <2>3. TablesWhole'
    BY <1>0, <2>1, <2>2 DEF TablesWhole, schema
  <2>4. VectorsWhole'
    BY <1>0, <2>1, <2>2, VectorsKeepWhole DEF schema, Looking, Past, PageSteps
  <2>5. PagesWhole'
    BY <1>2, <2>1 DEF AtPages, schema
  <2> QED
    BY <2>3, <2>4, <2>5
<1>6. ASSUME NEW p \in Procs, CommitTables(p)
      PROVE  (TablesWhole /\ VectorsWhole /\ PagesWhole)'
  <2>1. /\ TablesWhole' /\ Moves(p, "ext", proc[p].saw) /\ proc[p].pc = "tables2"
        /\ UNCHANGED <<ext, vecs, pages, maxSim>>
    BY <1>0, <1>6, CommitTablesKeeps DEF CommitTables, PStep
  <2>2. proc'[p].pc = "ext" /\ \A q \in Procs \ {p} : proc'[q] = proc[q]
    BY <2>1 DEF Moves
  <2>3. VectorsWhole'
    BY <1>0, <2>1, <2>2, VectorsKeepWhole DEF Looking, Past, PageSteps
  <2>4. PagesWhole'
    BY <1>2, <2>1 DEF AtPages
  <2> QED
    BY <2>1, <2>3, <2>4
<1>7. ASSUME NEW p \in Procs,
             LookExtension(p) \/ MakeExtension(p) \/ LookVectors(p) \/ AskToRecreate(p) \/ CommitVectors(p)
      PROVE  (TablesWhole /\ VectorsWhole /\ PagesWhole)'
  <2>1. VectorsWhole' /\ UNCHANGED <<tables, pages, maxSim>>
    BY <1>0, <1>7, LookExtensionKeeps, MakeExtensionKeeps, LookVectorsKeeps, AskToRecreateKeeps, CommitVectorsKeeps
       DEF schema
  <2>2. PICK pc \in {"ext", "ext2", "vecs", "ask", "vecs2", AfterVectors(p)} :
           \E saw : Moves(p, pc, saw)
    <3>1. CASE LookExtension(p) \/ MakeExtension(p) \/ LookVectors(p)
      BY <1>0, <3>1, LookExtensionMoves, MakeExtensionMoves, LookVectorsMoves
    <3>2. CASE AskToRecreate(p) \/ CommitVectors(p)
      <4>1. PICK pc \in {"vecs2", AfterVectors(p)} : PGoto(p, pc)
        BY <3>2 DEF AskToRecreate, CommitVectors, Fault
      <4>2. Moves(p, pc, proc[p].saw)
        BY <1>0, <4>1, GotoMoves, AfterVectorsIs DEF ProcPcs, Starts
      <4> QED
        BY <4>2
    <3> QED
      BY <1>7, <3>1, <3>2
  <2>3. proc[p].pc \in {"ext", "ext2", "vecs", "ask", "vecs2"}
    BY <1>7 DEF LookExtension, MakeExtension, LookVectors, AskToRecreate, CommitVectors, PStep
  <2>4. pc \notin AtPages /\ pc # "tables2" /\ (p \in Workers /\ Colpali => pc # "up")
    BY <1>4 DEF AtPages
  <2>5. TablesWhole'
    BY <1>3, <2>1, <2>2, <2>3, <2>4 DEF Before
  <2>6. PagesWhole'
    BY <1>2, <2>1, <2>2, <2>3, <2>4 DEF AtPages
  <2> QED
    BY <2>1, <2>5, <2>6
<1>8. ASSUME NEW p \in Procs, Killed(p)
      PROVE  FALSE
  BY <1>8 DEF Killed
<1>9. ASSUME NEW w \in Workers,
             LookPages(w) \/ CreatePages(w) \/ AddColumns(w) \/ DemandDocument(w) \/ DropMaxSim(w) \/ MakeMaxSim(w)
      PROVE  (TablesWhole /\ VectorsWhole /\ PagesWhole)'
  <2>1. PICK pc \in PageSteps \cup {"up"} :
              PagesWhole' /\ UNCHANGED <<tables, ext, vecs>> /\ Moves(w, pc, proc[w].saw)
    BY <1>0, <1>9, PagesStepKeeps
  <2>2. proc[w].pc \in PageSteps /\ w \in Procs
    BY <1>0, <1>9 DEF LookPages, CreatePages, AddColumns, DemandDocument, DropMaxSim, MakeMaxSim, PStep, PageSteps
  <2>3. proc'[w].pc = pc /\ \A q \in Procs \ {w} : proc'[q] = proc[q]
    BY <2>1, <2>2 DEF Moves
  <2>4. TablesWhole'
    BY <1>3, <2>1, <2>2 DEF Before, PageSteps
  <2>5. VectorsWhole'
    BY <1>0, <2>1, <2>2, <2>3, VectorsKeepWhole DEF Looking, Past, PageSteps
  <2> QED
    BY <2>1, <2>4, <2>5
<1>10. ASSUME NEW w \in Workers, StoreChunksOf(w)
       PROVE  (TablesWhole /\ VectorsWhole /\ PagesWhole)'
  <2>1. Fits /\ Fits' /\ UNCHANGED <<tables, ext, pages, maxSim, proc>>
    BY <1>0, <1>10, StoreChunksIs
  <2> QED
    BY <1>0, <2>1 DEF TablesWhole, VectorsWhole, PagesWhole
<1>11. CASE UNCHANGED startupVars
  BY <1>0, <1>11 DEF startupVars, TablesWhole, VectorsWhole, PagesWhole, Fits
<1> QED
  BY <1>1, <1>5, <1>6, <1>7, <1>8, <1>9, <1>10, <1>11 DEF StartupNext, ServerStep, StoreSteps, WorkerSteps

LEMMA WholeInitially == StartupInit => WholeInv
<1> SUFFICES ASSUME StartupInit PROVE TablesWhole /\ VectorsWhole /\ PagesWhole
  BY DEF WholeInv
<1>1. \A p \in Procs : proc[p].pc = "off"
  BY DEF StartupInit, Off
<1>2. Workers \subseteq Procs
  BY DEF Procs
<1>3. pages = Absent \/ (maxSim /\ pages \in Pages /\ (pages.cols => pages.strict))
  BY DEF StartupInit, Pages
<1> QED
  BY <1>1, <1>2, <1>3 DEF TablesWhole, VectorsWhole, PagesWhole, Before, Looking, Past, PageSteps

LEMMA WholeHolds == StartupSpec => []WholeInv
BY WholeInitially, WholeStep, StrayHolds, AskHolds, PTL DEF StartupSpec

\* Server and worker race to make the stores, and what the loser of a race did not make
\* the other has made once neither is starting any more.
THEOREM StoresAreAlwaysWholeAfterStart == StartupSpec => []StoresAreWholeAfterStart
<1>1. StrayInv /\ WholeInv => StoresAreWholeAfterStart
  <2> SUFFICES ASSUME StrayInv, WholeInv, hurt = {}, \A p \in Procs : ~Starting(p)
               PROVE  /\ (\E p \in Procs : Running(p)) => tables = "whole" /\ Fits
                      /\ Colpali /\ (\E w \in Workers : Running(w)) =>
                            pages # Absent /\ pages.cols /\ (pages.strict \/ pages.nulls) /\ maxSim
    BY DEF StoresAreWholeAfterStart, Fits
  <2>1. TablesWhole /\ VectorsWhole /\ PagesWhole /\ Workers \subseteq Procs
    BY DEF WholeInv, Procs
  <2>2. \A p \in Procs : proc[p].pc \in {"off", "up"}
    BY DEF Starting
  <2>3. ASSUME NEW p \in Procs, Running(p)
        PROVE  tables = "whole" /\ Fits
    <3>1. proc[p].pc = "up"
      BY <2>2, <2>3 DEF Running
    <3>2. tables = "whole"
      BY <2>1, <3>1 DEF TablesWhole, Before
    <3>3. Fits \/ \E q \in Procs : proc[q].pc \in Looking
      BY <2>1, <3>1 DEF VectorsWhole, Past
    <3> QED
      BY <2>2, <3>2, <3>3 DEF Looking
  <2>4. ASSUME Colpali, NEW w \in Workers, Running(w)
        PROVE  pages # Absent /\ pages.cols /\ (pages.strict \/ pages.nulls) /\ maxSim
    <3>1. proc[w].pc = "up" /\ \A v \in Workers : proc[v].pc \in {"off", "up"}
      BY <2>1, <2>2, <2>4 DEF Running
    <3>2. pages # Absent /\ pages.cols
      BY <2>1, <2>4, <3>1 DEF PagesWhole
    <3> QED
      BY <2>1, <3>1, <3>2 DEF PagesWhole
  <2> QED
    BY <2>3, <2>4
<1> QED
  BY <1>1, StrayHolds, WholeHolds, PTL

-----------------------------------------------------------------------------
(* Retrieval.                                                              *)

Searched == {"results", "urls", "documents", "links"}

\* The answer so far holds what was due.
Full(c) ==
    /\ c.op = "batch" => c.asked \cap c.due \subseteq c.text \cup c.pages
    /\ c.op # "batch" => Cardinality(c.text) >= Least(TopK, Cardinality(c.due))

\* Wherever a call is, its chunks are of the documents found to be its own.
Scoped(c) ==
    /\ DocsOf(c.text \cup c.pages) \subseteq c.docs
    /\ c.docs \subseteq c.scope
    /\ c.pc = "idle" => c.text = {} /\ c.pages = {} /\ c.known = {}
    /\ c.pc \in Searched => c.todo = {}
    /\ c.pc = "search" /\ "pages" \in c.todo => c.pages = {}

\* Of a call nothing went wrong with: its documents keep their rows, what was due is in
\* the store until the search and in the answer from then on.
Fair(c, present, texts) ==
    /\ c.pc # "failed"
    /\ c.pc \in Searched \cup {"search"} => c.docs \subseteq present /\ DocsOf(c.due) \subseteq c.docs
    /\ c.pc = "search" /\ "text" \in c.todo => DocsOf(c.due) \subseteq texts
    /\ (c.pc = "search" /\ "text" \notin c.todo) \/ c.pc \in Searched \cup {"done"} => Full(c)
    /\ c.pc \in {"urls", "documents", "links", "done"} => c.known = DocsOf(c.text \cup c.pages)

RetrievalInv ==
    /\ RetrievalTypeOK
    /\ \A d \in gone : rowState[d] = "deleted"
    /\ \A q \in Queries : Scoped(qcall[q]) /\ (q \notin upset => Fair(qcall[q], Rows, textStore))

-----------------------------------------------------------------------------
(* Chunks, documents and limits.                                           *)

LEMMA DocsOfChunks ==
    ASSUME NEW S, NEW D, S \subseteq ChunksOf(D)
    PROVE  DocsOf(S) \subseteq D
BY DEF DocsOf, ChunksOf

LEMMA ChunksAreFinite ==
    ASSUME NEW D
    PROVE  IsFiniteSet(ChunksOf(D))
<1>1. IsFiniteSet(QDocs \X ChunkNos)
  BY RetrievalAssumption, FS_Product
<1>2. PICK f : f = [p \in QDocs \X ChunkNos |-> [doc |-> p[1], n |-> p[2]]]
  OBVIOUS
<1>3. f \in Surjection(QDocs \X ChunkNos, QChunk)
  <2>1. f \in [QDocs \X ChunkNos -> QChunk]
    BY <1>2 DEF QChunk
  <2>2. ASSUME NEW k \in QChunk
        PROVE  \E p \in QDocs \X ChunkNos : f[p] = k
    <3>1. <<k.doc, k.n>> \in QDocs \X ChunkNos /\ k = [doc |-> k.doc, n |-> k.n]
      BY DEF QChunk
    <3> QED
      BY <1>2, <3>1
  <2> QED
    BY <2>1, <2>2 DEF Surjection
<1>4. IsFiniteSet(QChunk)
  BY <1>1, <1>3, FS_Surjection
<1> QED
  BY <1>4, FS_Subset DEF ChunksOf

\* The k nearest of a set of chunks are as many as of any part of it.
LEMMA NearestSuffice ==
    ASSUME NEW open, IsFiniteSet(open), NEW S, Cardinality(S) = Least(TopK, Cardinality(open)),
           NEW due, due \subseteq open
    PROVE  Cardinality(S) >= Least(TopK, Cardinality(due))
<1>1. Cardinality(due) <= Cardinality(open) /\ Cardinality(due) \in Nat /\ Cardinality(open) \in Nat
  BY FS_Subset, FS_CardinalityType
<1> QED
  BY <1>1, RetrievalAssumption DEF Least

-----------------------------------------------------------------------------
(* The documents.                                                          *)

LEMMA RetrievalInitially == RetrievalInit => RetrievalInv
<1> SUFFICES ASSUME RetrievalInit PROVE RetrievalInv
  OBVIOUS
<1>1. PICK c : c = [op |-> "none", pc |-> "idle", todo |-> {}, scope |-> {}, docs |-> {}, asked |-> {},
                    due |-> {}, text |-> {}, pages |-> {}, known |-> {}]
  OBVIOUS
<1>2. c \in QCall
  BY <1>1 DEF QCall, QPcs
<1>3. Scoped(c) /\ Fair(c, Rows, textStore)
  BY <1>1 DEF Scoped, Fair, DocsOf, Searched
<1>4. qcall = [q \in Queries |-> c]
  BY <1>1 DEF RetrievalInit
<1> QED
  BY <1>2, <1>3, <1>4 DEF RetrievalInit, RetrievalInv, RetrievalTypeOK

LEMMA DocumentStepKeeps ==
    ASSUME RetrievalInv, DocumentStep
    PROVE  RetrievalInv'
<1>1. PICK d \in QDocs : StoreRow(d) \/ StoreChunks(d) \/ RemoveRow(d) \/ RemoveRest(d)
  BY DEF DocumentStep
<1>2. RetrievalTypeOK' /\ UNCHANGED qcall /\ upset \subseteq upset'
  BY <1>1 DEF RetrievalInv, RetrievalTypeOK, StoreRow, StoreChunks, RemoveRow, RemoveRest
<1>3. (\A e \in gone : rowState[e] = "deleted")'
  BY <1>1 DEF RetrievalInv, RetrievalTypeOK, StoreRow, StoreChunks, RemoveRow, RemoveRest, Rows
\* No row goes that an undisturbed call still needs, and chunks go only after their row.
<1>4. ASSUME NEW q \in Queries, q \notin upset', NEW c, c = qcall[q],
             c.pc \in Searched \cup {"search"}, c.docs \subseteq Rows
      PROVE  c.docs \subseteq Rows' /\ c.docs \cap textStore \subseteq textStore'
  BY <1>1, <1>4 DEF RetrievalInv, RetrievalTypeOK, StoreRow, StoreChunks, RemoveRow, RemoveRest, Rows, Searched
<1>5. ASSUME NEW q \in Queries, q \notin upset'
      PROVE  Fair(qcall[q], Rows, textStore)'
  <2>1. PICK c : c = qcall[q]
    OBVIOUS
  <2>2. Fair(c, Rows, textStore)
    BY <1>2, <1>5, <2>1 DEF RetrievalInv
  <2>3. c.pc \in Searched \cup {"search"} => c.docs \subseteq Rows' /\ c.docs \cap textStore \subseteq textStore'
    BY <1>4, <1>5, <2>1, <2>2 DEF Fair
  <2>4. Fair(c, Rows', textStore')
    BY <2>2, <2>3 DEF Fair
  <2> QED
    BY <1>2, <2>1, <2>4
<1>6. \A q \in Queries : Scoped(qcall[q])'
  BY <1>2 DEF RetrievalInv
<1> QED
  BY <1>2, <1>3, <1>5, <1>6 DEF RetrievalInv

-----------------------------------------------------------------------------
(* The calls.                                                              *)

\* A call that moves on to c.
LEMMA CallKeeps ==
    ASSUME RetrievalInv, NEW q \in Queries, NEW c \in QCall, qcall' = [qcall EXCEPT ![q] = c],
           UNCHANGED <<rowState, textStore, pageStore, gone>>, upset' \in {upset, upset \cup {q}},
           Scoped(c), q \notin upset' => Fair(c, Rows, textStore)
    PROVE  RetrievalInv'
<1>1. RetrievalTypeOK'
  BY DEF RetrievalInv, RetrievalTypeOK
<1>2. UNCHANGED Rows
  BY DEF Rows
<1>3. \A p \in Queries : qcall'[p] = IF p = q THEN c ELSE qcall[p]
  BY DEF RetrievalInv, RetrievalTypeOK
<1>4. ASSUME NEW p \in Queries
      PROVE  (Scoped(qcall[p]) /\ (p \notin upset => Fair(qcall[p], Rows, textStore)))'
  <2>1. CASE p = q
    BY <1>2, <1>3, <2>1
  <2>2. CASE p # q
    BY <1>2, <1>3, <2>2 DEF RetrievalInv
  <2> QED
    BY <2>1, <2>2
<1> QED
  BY <1>1, <1>4 DEF RetrievalInv

LEMMA AuthorizeKeeps ==
    ASSUME RetrievalInv, NEW q \in Queries, Authorize(q)
    PROVE  RetrievalInv'
<1>1. PICK op \in QOps, colpali \in BOOLEAN, scope \in SUBSET QDocs, asked \in SUBSET QChunk,
           docs \in SUBSET QDocs :
          LET wanted == IF op = "batch" THEN scope \cap DocsOf(asked) ELSE scope
              open   == {d \in wanted : d \in Rows}
          IN /\ op = "batch" <=> asked # {}
             /\ Reads(q, open, docs)
             /\ qcall' = [qcall EXCEPT ![q] =
                   [@ EXCEPT !.op = op, !.scope = scope, !.asked = asked, !.docs = docs,
                             !.due = ChunksOf(open \cap textStore),
                             !.pc = IF docs = {} THEN "done" ELSE "search",
                             !.todo = IF colpali THEN {"text", "pages"} ELSE {"text"}]]
  BY DEF Authorize
<1>2. PICK open : open = {d \in (IF op = "batch" THEN scope \cap DocsOf(asked) ELSE scope) : d \in Rows}
  OBVIOUS
<1>3. PICK b : b = qcall[q]
  OBVIOUS
<1>4. PICK due : due = ChunksOf(open \cap textStore)
  OBVIOUS
<1>5. PICK pc : pc = IF docs = {} THEN "done" ELSE "search"
  OBVIOUS
<1>6. PICK todo : todo = IF colpali THEN {"text", "pages"} ELSE {"text"}
  OBVIOUS
<1>7. PICK c : c = [b EXCEPT !.op = op, !.scope = scope, !.asked = asked, !.docs = docs, !.due = due,
                             !.pc = pc, !.todo = todo]
  OBVIOUS
<1>8. qcall' = [qcall EXCEPT ![q] = c]
  BY <1>1, <1>2, <1>3, <1>4, <1>5, <1>6, <1>7 DEF RetrievalInv, RetrievalTypeOK
<1>9. b \in QCall /\ b.pc = "idle" /\ b.text = {} /\ b.pages = {} /\ b.known = {}
  BY <1>3 DEF RetrievalInv, RetrievalTypeOK, Authorize, Scoped
<1>10. /\ c.op = op /\ c.scope = scope /\ c.asked = asked /\ c.docs = docs /\ c.due = due
       /\ c.pc = pc /\ c.todo = todo /\ c.text = {} /\ c.pages = {} /\ c.known = {}
  BY <1>7, <1>9 DEF QCall
<1>11. c \in QCall
  <2>1. due \in SUBSET QChunk /\ pc \in QPcs /\ todo \in SUBSET {"text", "pages"}
    BY <1>4, <1>5, <1>6 DEF ChunksOf, QPcs
  <2> QED
    BY <1>7, <1>9, <2>1 DEF QCall
<1>12. /\ open \subseteq scope /\ open \subseteq Rows
       /\ (docs = open /\ UNCHANGED upset) \/ (docs = {} /\ upset' = upset \cup {q})
  BY <1>1, <1>2 DEF Reads
<1>13. Scoped(c)
  BY <1>5, <1>10, <1>12 DEF Scoped, DocsOf, Searched
<1>14. ASSUME q \notin upset'
       PROVE  Fair(c, Rows, textStore)
  <2>1. docs = open
    BY <1>12, <1>14
  <2>2. DocsOf(due) \subseteq open \cap textStore
    BY <1>4, DocsOfChunks
  <2>3. CASE docs # {}
    BY <1>5, <1>6, <1>10, <1>12, <2>1, <2>2, <2>3 DEF Fair, Searched
  <2>4. CASE docs = {}
    <3>1. due = {}
      BY <1>4, <2>1, <2>4 DEF ChunksOf
    <3>2. Full(c)
      BY <1>10, <3>1, FS_EmptySet, RetrievalAssumption DEF Full, Least
    <3> QED
      BY <1>5, <1>10, <2>4, <3>2 DEF Fair, Searched, DocsOf
  <2> QED
    BY <2>3, <2>4
<1> QED
  BY <1>8, <1>11, <1>12, <1>13, <1>14, CallKeeps DEF Authorize

\* What a search of a store may bring: chunks of the call's documents, and of what is due
\* in the text store all that was asked for, or enough.
LEMMA HitsAre ==
    ASSUME NEW q \in Queries, NEW store, NEW S \in Hits(q, store), NEW b, b = qcall[q]
    PROVE  /\ S \subseteq ChunksOf(store \cap b.docs) /\ S \subseteq QChunk
           /\ b.op = "batch" => b.asked \cap ChunksOf(store \cap b.docs) \subseteq S
           /\ b.op # "batch" => Cardinality(S) = Least(TopK, Cardinality(ChunksOf(store \cap b.docs)))
BY DEF Hits, Asked, Nearest, ChunksOf

LEMMA ChunksOfDocs ==
    ASSUME NEW S \in SUBSET QChunk, NEW D, DocsOf(S) \subseteq D
    PROVE  S \subseteq ChunksOf(D)
BY DEF DocsOf, ChunksOf

\* The step of a search, with the new call made explicit.
LEMMA SearchTextMoves ==
    ASSUME RetrievalInv, NEW q \in Queries, SearchText(q), NEW b \in QCall, b = qcall[q]
    PROVE  \E S \in SUBSET QChunk, pc \in {IF b.todo = {"text"} THEN "results" ELSE "search"} :
           \E c :
              /\ c = [b EXCEPT !.text = S, !.todo = b.todo \ {"text"}, !.pc = pc]
              /\ qcall' = [qcall EXCEPT ![q] = c]
              /\ \/ S \in Hits(q, textStore) /\ UNCHANGED upset
                 \/ S = b.text /\ upset' = upset \cup {q}
<1>1. PICK pc : pc = IF b.todo = {"text"} THEN "results" ELSE "search"
  OBVIOUS
<1>2. pc = After(q, "text")
  BY <1>1 DEF After
<1>3. ASSUME NEW S \in Hits(q, textStore), UNCHANGED upset,
             qcall' = [qcall EXCEPT ![q] = [@ EXCEPT !.text = S, !.todo = qcall[q].todo \ {"text"}, !.pc = After(q, "text")]]
      PROVE  S \in SUBSET QChunk /\ \E c : /\ c = [b EXCEPT !.text = S, !.todo = b.todo \ {"text"}, !.pc = pc]
                   /\ qcall' = [qcall EXCEPT ![q] = c]
  <2>1. PICK c : c = [b EXCEPT !.text = S, !.todo = b.todo \ {"text"}, !.pc = pc]
    OBVIOUS
  <2>2. qcall' = [qcall EXCEPT ![q] = c]
    BY <1>2, <1>3, <2>1 DEF RetrievalInv, RetrievalTypeOK, QCall
  <2>3. S \in SUBSET QChunk
    BY <1>3, HitsAre
  <2> QED
    BY <2>1, <2>2, <2>3
<1>4. ASSUME qcall' = [qcall EXCEPT ![q] = [@ EXCEPT !.todo = qcall[q].todo \ {"text"}, !.pc = After(q, "text")]],
             upset' = upset \cup {q}
      PROVE  b.text \in SUBSET QChunk /\ \E c : /\ c = [b EXCEPT !.text = b.text, !.todo = b.todo \ {"text"}, !.pc = pc]
                   /\ qcall' = [qcall EXCEPT ![q] = c]
  <2>1. PICK c : c = [b EXCEPT !.text = b.text, !.todo = b.todo \ {"text"}, !.pc = pc]
    OBVIOUS
  <2>2. c = [b EXCEPT !.todo = b.todo \ {"text"}, !.pc = pc]
    BY <2>1 DEF QCall
  <2>3. qcall' = [qcall EXCEPT ![q] = c]
    BY <1>2, <1>4, <2>2 DEF RetrievalInv, RetrievalTypeOK, QCall
  <2> QED
    BY <2>1, <2>3 DEF QCall
<1>5. CASE \E S \in Hits(q, textStore) :
              /\ qcall' = [qcall EXCEPT ![q] = [@ EXCEPT !.text = S, !.todo = qcall[q].todo \ {"text"}, !.pc = After(q, "text")]]
              /\ UNCHANGED upset
  BY <1>1, <1>3, <1>5
<1>6. CASE /\ qcall' = [qcall EXCEPT ![q] = [@ EXCEPT !.todo = qcall[q].todo \ {"text"}, !.pc = After(q, "text")]]
           /\ upset' = upset \cup {q}
  <2>1. PICK S : S = b.text
    OBVIOUS
  <2> QED
    BY <1>1, <1>4, <1>6, <2>1
<1> QED
  BY <1>5, <1>6 DEF SearchText

LEMMA SearchTextKeeps ==
    ASSUME RetrievalInv, NEW q \in Queries, SearchText(q)
    PROVE  RetrievalInv'
<1>1. PICK b \in QCall : b = qcall[q]
  BY DEF RetrievalInv, RetrievalTypeOK
<1>2. b.pc = "search" /\ "text" \in b.todo /\ Scoped(b) /\ (q \notin upset => Fair(b, Rows, textStore))
  BY <1>1 DEF SearchText, RetrievalInv
<1>3. PICK S, pc, c :
         /\ S \in SUBSET QChunk /\ pc \in {IF b.todo = {"text"} THEN "results" ELSE "search"}
         /\ c = [b EXCEPT !.text = S, !.todo = b.todo \ {"text"}, !.pc = pc]
         /\ qcall' = [qcall EXCEPT ![q] = c]
         /\ \/ S \in Hits(q, textStore) /\ UNCHANGED upset
            \/ S = b.text /\ upset' = upset \cup {q}
  <2>1. PICK S \in SUBSET QChunk, pc \in {IF b.todo = {"text"} THEN "results" ELSE "search"} : \E c :
         /\ c = [b EXCEPT !.text = S, !.todo = b.todo \ {"text"}, !.pc = pc]
         /\ qcall' = [qcall EXCEPT ![q] = c]
         /\ \/ S \in Hits(q, textStore) /\ UNCHANGED upset
            \/ S = b.text /\ upset' = upset \cup {q}
    BY <1>1, SearchTextMoves
  <2> QED
    BY <2>1
<1>6. /\ c.text = S /\ c.todo = b.todo \ {"text"} /\ c.pc = pc
      /\ c.op = b.op /\ c.docs = b.docs /\ c.scope = b.scope /\ c.asked = b.asked /\ c.due = b.due
      /\ c.pages = b.pages /\ c.known = b.known
  BY <1>3 DEF QCall
<1>7. pc = (IF b.todo = {"text"} THEN "results" ELSE "search")
  BY <1>3
<1>8. c \in QCall
  <2>1. pc \in QPcs /\ b.todo \ {"text"} \in SUBSET {"text", "pages"}
    BY <1>7 DEF QPcs, QCall
  <2> QED
    BY <1>3, <2>1 DEF QCall
<1>9. DocsOf(S) \subseteq b.docs
  <2>1. CASE S = b.text
    BY <1>2, <2>1 DEF Scoped, DocsOf
  <2>2. CASE S \in Hits(q, textStore)
    <3>1. S \subseteq ChunksOf(textStore \cap b.docs)
      BY <1>1, <2>2, HitsAre
    <3> QED
      BY <3>1, DocsOfChunks
  <2> QED
    BY <1>3, <2>1, <2>2
<1>10. Scoped(c)
  BY <1>2, <1>6, <1>7, <1>9 DEF Scoped, DocsOf, Searched
<1>11. ASSUME q \notin upset'
       PROVE  Fair(c, Rows, textStore)
  <2>1. S \in Hits(q, textStore) /\ Fair(b, Rows, textStore)
    BY <1>2, <1>3, <1>11
  <2>2. DocsOf(b.due) \subseteq textStore \cap b.docs /\ b.docs \subseteq Rows /\ b.due \in SUBSET QChunk
    BY <1>2, <2>1 DEF Fair, QCall
  <2>3. b.due \subseteq ChunksOf(textStore \cap b.docs)
    BY <2>2, ChunksOfDocs
  <2>4. c.op = "batch" => c.asked \cap c.due \subseteq c.text
    <3>1. b.op = "batch" => b.asked \cap ChunksOf(textStore \cap b.docs) \subseteq S
      BY <1>1, <2>1, HitsAre
    <3> QED
      BY <1>6, <2>3, <3>1
  <2>5. c.op # "batch" => Cardinality(c.text) >= Least(TopK, Cardinality(c.due))
    <3>1. IsFiniteSet(ChunksOf(textStore \cap b.docs))
      BY ChunksAreFinite
    <3>2. ASSUME b.op # "batch"
          PROVE  Cardinality(S) >= Least(TopK, Cardinality(b.due))
      <4>1. Cardinality(S) = Least(TopK, Cardinality(ChunksOf(textStore \cap b.docs)))
        BY <1>1, <2>1, <3>2, HitsAre
      <4> QED
        BY <2>3, <3>1, <4>1, NearestSuffice
    <3> QED
      BY <1>6, <3>2
  <2>6. Full(c)
    BY <2>4, <2>5 DEF Full
  <2> QED
    BY <1>6, <1>7, <2>2, <2>6 DEF Fair, Searched
<1> QED
  BY <1>3, <1>8, <1>10, <1>11, CallKeeps DEF SearchText

LEMMA SearchPagesMoves ==
    ASSUME RetrievalInv, NEW q \in Queries, SearchPages(q), NEW b \in QCall, b = qcall[q]
    PROVE  \E S \in SUBSET QChunk, pc \in {IF b.todo = {"pages"} THEN "results" ELSE "search", "failed"} :
           \E c :
              /\ c = [b EXCEPT !.pages = S, !.todo = b.todo \ {"pages"}, !.pc = pc]
              /\ qcall' = [qcall EXCEPT ![q] = c]
              /\ \/ S \in Hits(q, pageStore) /\ pc # "failed" /\ UNCHANGED upset
                 \/ S = b.pages /\ upset' = upset \cup {q}
<1>1. PICK pc : pc = IF b.todo = {"pages"} THEN "results" ELSE "search"
  OBVIOUS
<1>2. pc = After(q, "pages") /\ pc # "failed"
  BY <1>1 DEF After
<1>3. ASSUME NEW S \in Hits(q, pageStore), UNCHANGED upset,
             qcall' = [qcall EXCEPT ![q] = [@ EXCEPT !.pages = S, !.todo = qcall[q].todo \ {"pages"}, !.pc = After(q, "pages")]]
      PROVE  S \in SUBSET QChunk /\ \E c : /\ c = [b EXCEPT !.pages = S, !.todo = b.todo \ {"pages"}, !.pc = pc]
                   /\ qcall' = [qcall EXCEPT ![q] = c]
  <2>1. PICK c : c = [b EXCEPT !.pages = S, !.todo = b.todo \ {"pages"}, !.pc = pc]
    OBVIOUS
  <2>2. qcall' = [qcall EXCEPT ![q] = c]
    BY <1>2, <1>3, <2>1 DEF RetrievalInv, RetrievalTypeOK, QCall
  <2>3. S \in SUBSET QChunk
    BY <1>3, HitsAre
  <2> QED
    BY <2>1, <2>2, <2>3
<1>4. PICK bad : bad = IF qcall[q].op = "batch" THEN After(q, "pages") ELSE "failed"
  OBVIOUS
<1>5. ASSUME qcall' = [qcall EXCEPT ![q] = [@ EXCEPT !.todo = qcall[q].todo \ {"pages"}, !.pc = bad]],
             upset' = upset \cup {q}
      PROVE  b.pages \in SUBSET QChunk /\ \E c : /\ c = [b EXCEPT !.pages = b.pages, !.todo = b.todo \ {"pages"}, !.pc = bad]
                   /\ qcall' = [qcall EXCEPT ![q] = c]
  <2>1. PICK c : c = [b EXCEPT !.pages = b.pages, !.todo = b.todo \ {"pages"}, !.pc = bad]
    OBVIOUS
  <2>2. c = [b EXCEPT !.todo = b.todo \ {"pages"}, !.pc = bad]
    BY <2>1 DEF QCall
  <2>3. qcall' = [qcall EXCEPT ![q] = c]
    BY <1>5, <2>2 DEF RetrievalInv, RetrievalTypeOK, QCall
  <2> QED
    BY <2>1, <2>3 DEF QCall
<1>6. CASE \E S \in Hits(q, pageStore) :
              /\ qcall' = [qcall EXCEPT ![q] = [@ EXCEPT !.pages = S, !.todo = qcall[q].todo \ {"pages"}, !.pc = After(q, "pages")]]
              /\ UNCHANGED upset
  BY <1>1, <1>2, <1>3, <1>6
<1>7. CASE /\ qcall' = [qcall EXCEPT ![q] = [@ EXCEPT !.todo = qcall[q].todo \ {"pages"}, !.pc = bad]]
           /\ upset' = upset \cup {q}
  <2>1. PICK S : S = b.pages
    OBVIOUS
  <2>2. bad \in {pc, "failed"}
    BY <1>2, <1>4
  <2> QED
    BY <1>1, <1>5, <1>7, <2>1, <2>2
<1> QED
  BY <1>4, <1>6, <1>7 DEF SearchPages

LEMMA SearchPagesKeeps ==
    ASSUME RetrievalInv, NEW q \in Queries, SearchPages(q)
    PROVE  RetrievalInv'
<1>1. PICK b \in QCall : b = qcall[q]
  BY DEF RetrievalInv, RetrievalTypeOK
<1>2. b.pc = "search" /\ "pages" \in b.todo /\ Scoped(b) /\ (q \notin upset => Fair(b, Rows, textStore))
  BY <1>1 DEF SearchPages, RetrievalInv
<1>3. PICK S, pc, c :
         /\ S \in SUBSET QChunk /\ pc \in {IF b.todo = {"pages"} THEN "results" ELSE "search", "failed"}
         /\ c = [b EXCEPT !.pages = S, !.todo = b.todo \ {"pages"}, !.pc = pc]
         /\ qcall' = [qcall EXCEPT ![q] = c]
         /\ \/ S \in Hits(q, pageStore) /\ pc # "failed" /\ UNCHANGED upset
            \/ S = b.pages /\ upset' = upset \cup {q}
  <2>1. PICK S \in SUBSET QChunk, pc \in {IF b.todo = {"pages"} THEN "results" ELSE "search", "failed"} : \E c :
         /\ c = [b EXCEPT !.pages = S, !.todo = b.todo \ {"pages"}, !.pc = pc]
         /\ qcall' = [qcall EXCEPT ![q] = c]
         /\ \/ S \in Hits(q, pageStore) /\ pc # "failed" /\ UNCHANGED upset
            \/ S = b.pages /\ upset' = upset \cup {q}
    BY <1>1, SearchPagesMoves
  <2> QED
    BY <2>1
<1>5. /\ c.pages = S /\ c.todo = b.todo \ {"pages"} /\ c.pc = pc
      /\ c.op = b.op /\ c.docs = b.docs /\ c.scope = b.scope /\ c.asked = b.asked /\ c.due = b.due
      /\ c.text = b.text /\ c.known = b.known
  BY <1>3 DEF QCall
<1>6. pc \in {IF b.todo = {"pages"} THEN "results" ELSE "search", "failed"}
  BY <1>3
<1>7. c \in QCall
  <2>1. pc \in QPcs /\ b.todo \ {"pages"} \in SUBSET {"text", "pages"}
    BY <1>6 DEF QPcs, QCall
  <2> QED
    BY <1>3, <2>1 DEF QCall
<1>8. DocsOf(S) \subseteq b.docs
  <2>1. CASE S = b.pages
    BY <1>2, <2>1 DEF Scoped, DocsOf
  <2>2. CASE S \in Hits(q, pageStore)
    <3>1. S \subseteq ChunksOf(pageStore \cap b.docs)
      BY <1>1, <2>2, HitsAre
    <3> QED
      BY <3>1, DocsOfChunks
  <2> QED
    BY <1>3, <2>1, <2>2
<1>9. Scoped(c)
  BY <1>2, <1>5, <1>6, <1>8 DEF Scoped, DocsOf, Searched
<1>10. ASSUME q \notin upset'
       PROVE  Fair(c, Rows, textStore)
  <2>1. S \in Hits(q, pageStore) /\ Fair(b, Rows, textStore) /\ pc = (IF b.todo = {"pages"} THEN "results" ELSE "search")
    BY <1>2, <1>3, <1>10
  <2>2. b.op = "batch" /\ "text" \notin b.todo => b.asked \cap b.due \subseteq b.text \cup S
    <3>1. b.pages = {}
      BY <1>2 DEF Scoped
    <3> QED
      BY <1>2, <2>1, <3>1 DEF Fair, Full
  <2>3. "text" \notin b.todo => Full(c)
    BY <1>2, <1>5, <2>1, <2>2 DEF Fair, Full
  <2>4. b.todo = {"pages"} => "text" \notin b.todo
    OBVIOUS
  <2> QED
    BY <1>2, <1>5, <2>1, <2>3, <2>4 DEF Fair, Searched
<1> QED
  BY <1>3, <1>7, <1>9, <1>10, CallKeeps DEF SearchPages

\* A read of the rows of the documents found: of an undisturbed call, it finds them all.
LEMMA RowsOfFound ==
    ASSUME RetrievalInv, NEW q \in Queries, NEW b, b = qcall[q], b.pc \in Searched,
           NEW known, NEW F, F = DocsOf(b.text \cup b.pages), Reads(q, F \cap Rows, known)
    PROVE  upset' \in {upset, upset \cup {q}} /\ (q \notin upset' => known = F)
<1>1. upset' \in {upset, upset \cup {q}}
  BY DEF Reads
<1>2. ASSUME q \notin upset' PROVE known = F
  <2>1. known = F \cap Rows /\ q \notin upset
    BY <1>2 DEF Reads
  <2>2. F \subseteq b.docs /\ b.docs \subseteq Rows
    BY <2>1 DEF RetrievalInv, Scoped, Fair
  <2> QED
    BY <2>1, <2>2
<1> QED
  BY <1>1, <1>2

LEMMA CreateChunkResultsKeeps ==
    ASSUME RetrievalInv, NEW q \in Queries, CreateChunkResults(q)
    PROVE  RetrievalInv'
<1>1. PICK b \in QCall : b = qcall[q]
  BY DEF RetrievalInv, RetrievalTypeOK
<1>2. b.pc = "results" /\ Scoped(b) /\ (q \notin upset => Fair(b, Rows, textStore))
  BY <1>1 DEF CreateChunkResults, RetrievalInv
<1>3. PICK F : F = DocsOf(b.text \cup b.pages)
  OBVIOUS
<1>4. PICK text : text = IF b.op = "batch" THEN b.text \ b.pages ELSE b.text
  OBVIOUS
<1>5. Found(q) = b.text \cup b.pages /\ text = Merged(q)
  BY <1>1, <1>4 DEF Found, Merged
<1>6. PICK known \in SUBSET QDocs :
         /\ IF Found(q) = {} THEN known = {} /\ UNCHANGED upset
                             ELSE Reads(q, DocsOf(Found(q)) \cap Rows, known)
         /\ qcall' = [qcall EXCEPT ![q] = [@ EXCEPT !.known = known, !.text = Merged(q), !.pc = "urls"]]
  BY DEF CreateChunkResults
<1>7. PICK c : c = [b EXCEPT !.known = known, !.text = text, !.pc = "urls"]
  OBVIOUS
<1>8. qcall' = [qcall EXCEPT ![q] = c]
  BY <1>1, <1>5, <1>6, <1>7
<1>9. /\ c.text = text /\ c.pages = b.pages /\ c.known = known /\ c.pc = "urls"
      /\ c.op = b.op /\ c.docs = b.docs /\ c.scope = b.scope /\ c.asked = b.asked /\ c.due = b.due
      /\ c.todo = b.todo
  BY <1>7 DEF QCall
<1>10. c \in QCall
  <2>1. text \in SUBSET QChunk /\ "urls" \in QPcs
    BY <1>4 DEF QCall, QPcs
  <2> QED
    BY <1>7, <2>1 DEF QCall
<1>11. upset' \in {upset, upset \cup {q}} /\ (q \notin upset' => known = F)
  <2>1. CASE Found(q) = {}
    BY <1>3, <1>5, <1>6, <2>1 DEF DocsOf
  <2>2. CASE Found(q) # {}
    <3>1. Reads(q, F \cap Rows, known) /\ b.pc \in Searched
      BY <1>2, <1>3, <1>5, <1>6, <2>2 DEF Searched
    <3> QED
      BY <1>1, <1>3, <3>1, RowsOfFound
  <2> QED
    BY <2>1, <2>2
<1>12. c.text \cup c.pages = b.text \cup b.pages
  BY <1>4, <1>9
<1>13. Scoped(c)
  BY <1>2, <1>9, <1>12 DEF Scoped, Searched
<1>14. ASSUME q \notin upset' PROVE Fair(c, Rows, textStore)
  <2>1. Fair(b, Rows, textStore)
    BY <1>2, <1>11, <1>14
  <2>2. Full(c)
    BY <1>2, <1>4, <1>9, <1>12, <2>1 DEF Fair, Full, Searched
  <2> QED
    BY <1>2, <1>3, <1>9, <1>11, <1>12, <1>14, <2>1, <2>2 DEF Fair, Searched
<1> QED
  BY <1>8, <1>10, <1>11, <1>13, <1>14, CallKeeps DEF CreateChunkResults

\* The file of a document goes after its row: an undisturbed call has none such.
LEMMA NoneUnreachable ==
    ASSUME RetrievalInv, NEW q \in Queries, q \notin upset,
           qcall[q].pc \in {"urls", "documents", "links"}
    PROVE  ~Unreachable(q)
<1>1. PICK b : b = qcall[q]
  OBVIOUS
<1>2. Fair(b, Rows, textStore) /\ Scoped(b) /\ b.pc \in {"urls", "documents", "links"}
  BY <1>1 DEF RetrievalInv
<1>3. b.known \subseteq Rows
  BY <1>2 DEF Fair, Scoped, Searched
<1> QED
  BY <1>1, <1>3 DEF Unreachable, RetrievalInv, Rows

LEMMA LinkChunksKeeps ==
    ASSUME RetrievalInv, NEW q \in Queries, LinkChunks(q)
    PROVE  RetrievalInv'
<1>1. PICK b \in QCall : b = qcall[q]
  BY DEF RetrievalInv, RetrievalTypeOK
<1>2. b.pc = "urls" /\ Scoped(b) /\ (q \notin upset => Fair(b, Rows, textStore))
  BY <1>1 DEF LinkChunks, RetrievalInv
<1>3. PICK kept : kept = ChunksOf(b.known)
  OBVIOUS
<1>4. PICK pc : pc = IF Unreachable(q) THEN "failed" ELSE
                     IF b.op \in {"docs", "query"} /\ Found(q) \cap kept # {} THEN "documents" ELSE "done"
  OBVIOUS
<1>5. PICK c : c = [b EXCEPT !.text = b.text \cap kept, !.pages = b.pages \cap kept, !.pc = pc]
  OBVIOUS
<1>6. qcall' = [qcall EXCEPT ![q] = c]
  BY <1>1, <1>3, <1>4, <1>5 DEF LinkChunks
<1>7. /\ c.text = b.text \cap kept /\ c.pages = b.pages \cap kept /\ c.known = b.known /\ c.pc = pc
      /\ c.op = b.op /\ c.docs = b.docs /\ c.scope = b.scope /\ c.asked = b.asked /\ c.due = b.due
      /\ c.todo = b.todo
  BY <1>5 DEF QCall
<1>8. c \in QCall
  <2>1. pc \in QPcs /\ b.text \cap kept \in SUBSET QChunk /\ b.pages \cap kept \in SUBSET QChunk
    BY <1>4 DEF QCall, QPcs
  <2> QED
    BY <1>5, <2>1 DEF QCall
<1>9. Scoped(c)
  BY <1>2, <1>4, <1>7 DEF Scoped, Searched, DocsOf
<1>10. ASSUME q \notin upset' PROVE Fair(c, Rows, textStore)
  <2>1. Fair(b, Rows, textStore) /\ q \notin upset
    BY <1>2, <1>10 DEF LinkChunks
  <2>2. b.known = DocsOf(b.text \cup b.pages) /\ b.text \cup b.pages \subseteq QChunk
    BY <1>2, <2>1 DEF Fair, QCall
  <2>3. b.text \cup b.pages \subseteq kept
    BY <1>3, <2>2 DEF DocsOf, ChunksOf
  <2>4. c.text = b.text /\ c.pages = b.pages
    BY <1>7, <2>3
  <2>5. pc \in {"documents", "done"}
    BY <1>1, <1>2, <1>4, <2>1, NoneUnreachable
  <2>6. Full(c)
    BY <1>2, <1>7, <2>1, <2>4 DEF Fair, Full, Searched
  <2> QED
    BY <1>2, <1>7, <2>1, <2>2, <2>4, <2>5, <2>6 DEF Fair, Searched
<1> QED
  BY <1>6, <1>8, <1>9, <1>10, CallKeeps DEF LinkChunks

LEMMA CreateDocumentResultsKeeps ==
    ASSUME RetrievalInv, NEW q \in Queries, CreateDocumentResults(q)
    PROVE  RetrievalInv'
<1>1. PICK b \in QCall : b = qcall[q]
  BY DEF RetrievalInv, RetrievalTypeOK
<1>2. b.pc = "documents" /\ Scoped(b) /\ (q \notin upset => Fair(b, Rows, textStore))
  BY <1>1 DEF CreateDocumentResults, RetrievalInv
<1>3. PICK F : F = DocsOf(b.text \cup b.pages)
  OBVIOUS
<1>4. PICK known \in SUBSET QDocs :
         /\ Reads(q, DocsOf(Found(q)) \cap Rows, known)
         /\ qcall' = [qcall EXCEPT ![q] = [@ EXCEPT !.known = known, !.pc = "links"]]
  BY DEF CreateDocumentResults
<1>5. PICK c : c = [b EXCEPT !.known = known, !.pc = "links"]
  OBVIOUS
<1>6. qcall' = [qcall EXCEPT ![q] = c]
  BY <1>1, <1>4, <1>5
<1>7. /\ c.text = b.text /\ c.pages = b.pages /\ c.known = known /\ c.pc = "links"
      /\ c.op = b.op /\ c.docs = b.docs /\ c.scope = b.scope /\ c.asked = b.asked /\ c.due = b.due
      /\ c.todo = b.todo
  BY <1>5 DEF QCall
<1>8. c \in QCall
  <2>1. "links" \in QPcs
    BY DEF QPcs
  <2> QED
    BY <1>5, <2>1 DEF QCall
<1>9. upset' \in {upset, upset \cup {q}} /\ (q \notin upset' => known = F)
  <2>1. Reads(q, F \cap Rows, known) /\ b.pc \in Searched
    BY <1>1, <1>2, <1>3, <1>4 DEF Searched, Found
  <2> QED
    BY <1>1, <1>3, <2>1, RowsOfFound
<1>10. Scoped(c)
  BY <1>2, <1>7 DEF Scoped, Searched
<1>11. ASSUME q \notin upset' PROVE Fair(c, Rows, textStore)
  <2>1. Fair(b, Rows, textStore)
    BY <1>2, <1>9, <1>11
  <2>2. Full(c)
    BY <1>2, <1>7, <2>1 DEF Fair, Full, Searched
  <2> QED
    BY <1>2, <1>3, <1>7, <1>9, <1>11, <2>1, <2>2 DEF Fair, Searched
<1> QED
  BY <1>6, <1>8, <1>9, <1>10, <1>11, CallKeeps DEF CreateDocumentResults

LEMMA LinkDocumentsKeeps ==
    ASSUME RetrievalInv, NEW q \in Queries, LinkDocuments(q)
    PROVE  RetrievalInv'
<1>1. PICK b \in QCall : b = qcall[q]
  BY DEF RetrievalInv, RetrievalTypeOK
<1>2. b.pc = "links" /\ Scoped(b) /\ (q \notin upset => Fair(b, Rows, textStore))
  BY <1>1 DEF LinkDocuments, RetrievalInv
<1>3. PICK pc \in {"failed", "done"} :
         /\ qcall' = [qcall EXCEPT ![q].pc = pc]
         /\ pc = "failed" => Unreachable(q) \/ ~ DocsOf(b.text \cup b.pages) \subseteq b.known
  <2>1. CASE Unreachable(q) /\ qcall' = [qcall EXCEPT ![q].pc = "failed"]
    BY <2>1
  <2>2. CASE qcall' = [qcall EXCEPT ![q].pc =
                IF qcall[q].op = "query" /\ ~ DocsOf(Found(q)) \subseteq qcall[q].known THEN "failed" ELSE "done"]
    BY <1>1, <2>2 DEF Found
  <2> QED
    BY <2>1, <2>2 DEF LinkDocuments
<1>4. PICK c : c = [b EXCEPT !.pc = pc]
  OBVIOUS
<1>5. qcall' = [qcall EXCEPT ![q] = c]
  BY <1>1, <1>3, <1>4 DEF RetrievalInv, RetrievalTypeOK
<1>6. /\ c.text = b.text /\ c.pages = b.pages /\ c.known = b.known /\ c.pc = pc
      /\ c.op = b.op /\ c.docs = b.docs /\ c.scope = b.scope /\ c.asked = b.asked /\ c.due = b.due
      /\ c.todo = b.todo
  BY <1>4 DEF QCall
<1>7. c \in QCall
  <2>1. pc \in QPcs
    BY DEF QPcs
  <2> QED
    BY <1>4, <2>1 DEF QCall
<1>8. Scoped(c)
  BY <1>2, <1>6 DEF Scoped, Searched
<1>9. ASSUME q \notin upset' PROVE Fair(c, Rows, textStore)
  <2>1. Fair(b, Rows, textStore) /\ q \notin upset
    BY <1>2, <1>9 DEF LinkDocuments
  <2>2. b.known = DocsOf(b.text \cup b.pages)
    BY <1>2, <2>1 DEF Fair
  <2>3. pc = "done"
    BY <1>1, <1>2, <1>3, <2>1, <2>2, NoneUnreachable
  <2>4. Full(c)
    BY <1>2, <1>6, <2>1 DEF Fair, Full, Searched
  <2> QED
    BY <1>6, <2>2, <2>3, <2>4 DEF Fair, Searched
<1> QED
  BY <1>5, <1>7, <1>8, <1>9, CallKeeps DEF LinkDocuments

-----------------------------------------------------------------------------
(* The theorems.                                                           *)

LEMMA RetrievalStep == RetrievalInv /\ [RetrievalNext]_retrievalVars => RetrievalInv'
<1> SUFFICES ASSUME RetrievalInv, [RetrievalNext]_retrievalVars PROVE RetrievalInv'
  OBVIOUS
<1>1. CASE DocumentStep
  BY <1>1, DocumentStepKeeps
<1>2. CASE \E q \in Queries : QueryStep(q)
  BY <1>2, AuthorizeKeeps, SearchTextKeeps, SearchPagesKeeps, CreateChunkResultsKeeps, LinkChunksKeeps,
     CreateDocumentResultsKeeps, LinkDocumentsKeeps DEF QueryStep
<1>3. CASE UNCHANGED retrievalVars
  <2>1. UNCHANGED Rows
    BY <1>3 DEF retrievalVars, Rows
  <2> QED
    BY <1>3, <2>1 DEF retrievalVars, RetrievalInv, RetrievalTypeOK
<1> QED
  BY <1>1, <1>2, <1>3 DEF RetrievalNext

LEMMA RetrievalInvHolds == RetrievalSpec => []RetrievalInv
BY RetrievalInitially, RetrievalStep, PTL DEF RetrievalSpec

\* Every variable of retrieval keeps its type, whatever the documents, the calls, the limit
\* and the faults are.
THEOREM RetrievalTypesCorrect == RetrievalSpec => []RetrievalTypeOK
<1>1. RetrievalInv => RetrievalTypeOK
  BY DEF RetrievalInv
<1> QED
  BY <1>1, RetrievalInvHolds, PTL

\* A call during which no row was deleted and no step failed ends without an error and with a
\* full answer, and no answer leaves the documents its call may read: the chunks that deletions
\* leave behind take nobody's place among the k nearest.
THEOREM UndisturbedQueriesStayFull == RetrievalSpec => []UndisturbedQueriesAreFull
<1>1. RetrievalInv => UndisturbedQueriesAreFull
  <2> SUFFICES ASSUME RetrievalInv, NEW q \in Queries, NEW c, c = qcall[q]
      PROVE  /\ DocsOf(c.text \cup c.pages) \subseteq c.scope
             /\ c.pc \in {"done", "failed"} /\ q \notin upset =>
                   /\ c.pc = "done"
                   /\ c.op = "batch" => c.asked \cap c.due \subseteq c.text \cup c.pages
                   /\ c.op # "batch" => Cardinality(c.text) >= Least(TopK, Cardinality(c.due))
                   /\ c.op \in {"docs", "query"} /\ c.text \cup c.pages # {} =>
                         c.known = DocsOf(c.text \cup c.pages)
    BY DEF UndisturbedQueriesAreFull, Found
  <2>1. Scoped(c) /\ (q \notin upset => Fair(c, Rows, textStore))
    BY DEF RetrievalInv
  <2>2. DocsOf(c.text \cup c.pages) \subseteq c.scope
    BY <2>1 DEF Scoped
  <2>3. ASSUME c.pc \in {"done", "failed"}, q \notin upset
        PROVE  c.pc = "done" /\ Full(c) /\ c.known = DocsOf(c.text \cup c.pages)
    BY <2>1, <2>3 DEF Fair
  <2> QED
    BY <2>2, <2>3 DEF Full
<1> QED
  BY <1>1, RetrievalInvHolds, PTL
=============================================================================

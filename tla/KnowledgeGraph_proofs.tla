---------------------------- MODULE KnowledgeGraph_proofs ----------------------------
(***************************************************************************)
(* Machine-checked theorems on KnowledgeGraph, for any sets of documents,  *)
(* labels and requests, any texts, any answers of the resolver and any     *)
(* combination of faults; and on GraphSearch, for any graph, seeds and     *)
(* hop depth.                                                              *)
(***************************************************************************)
EXTENDS GraphService, Integers, FiniteSetTheorems, WellFoundedInduction, TLAPS

-----------------------------------------------------------------------------
(* What extraction and merging return.                                     *)

LEMMA EntityMapFacts ==
    ASSUME NEW e \in EntityMap
    PROVE  DOMAIN e \subseteq Labels /\ \A l \in DOMAIN e : e[l] \in Entities
BY DEF EntityMap

LEMMA EntityMapIntro ==
    ASSUME NEW S \in SUBSET Labels, NEW e \in [S -> Entities]
    PROVE  e \in EntityMap
BY DEF EntityMap

\* Every answer of the resolver takes labels to labels.
LEMMA CanonType ==
    ASSUME NEW got \in SUBSET Docs, NEW m \in Resolve(got), NEW l \in Labels
    PROVE  Canon(m, l) \in Labels
<1>1. m \in [Labels -> Labels] \/ m = None
  BY ResolutionsAssumption DEF Resolve
<1> QED
  BY <1>1 DEF Canon

LEMMA MentionedType ==
    ASSUME NEW got \in SUBSET Docs
    PROVE  Mentioned(got) \subseteq Labels
BY TextAssumption DEF Mentioned

LEMMA CanonLabelsType ==
    ASSUME NEW got \in SUBSET Docs, NEW m \in Resolve(got)
    PROVE  CanonLabels(got, m) \subseteq Labels
BY CanonType, MentionedType DEF CanonLabels

\* An extraction yields one entity for each canonical label.
LEMMA NewEntitiesType ==
    ASSUME NEW o \in Ops, NEW got \in SUBSET Docs, NEW m \in Resolve(got),
           NEW origin \in Origins(got, m)
    PROVE  /\ NewEntities(o, got, m, origin) \in EntityMap
           /\ DOMAIN NewEntities(o, got, m, origin) = CanonLabels(got, m)
<1> DEFINE C == CanonLabels(got, m)
           f == [c \in C |-> [id |-> <<o, origin[c][1], origin[c][2]>>,
                              docs |-> Mentioning(got, m, c)]]
<1>1. origin \in [C -> got \X Labels]
  BY DEF Origins
<1>2. ASSUME NEW c \in C
      PROVE  [id |-> <<o, origin[c][1], origin[c][2]>>, docs |-> Mentioning(got, m, c)]
                 \in Entities
  <2>1. <<o, origin[c][1], origin[c][2]>> \in Ids
    BY <1>1 DEF Ids
  <2>2. Mentioning(got, m, c) \in SUBSET Docs
    BY DEF Mentioning
  <2> QED
    BY <2>1, <2>2 DEF Entities
<1>3. f \in [C -> Entities]
  BY <1>2
<1>4. f \in EntityMap
  BY <1>3, CanonLabelsType, EntityMapIntro
<1> QED
  BY <1>3, <1>4 DEF NewEntities

\* Its relationships are between canonical labels.
LEMMA NewPairsType ==
    ASSUME NEW got \in SUBSET Docs, NEW m, NEW origin
    PROVE  \A p \in NewPairs(got, m, origin) :
               /\ p.from \in CanonLabels(got, m)
               /\ p.to \in CanonLabels(got, m)
               /\ p.docs \in SUBSET Docs
BY DEF NewPairs, Relating

\* Merging entities keeps every label of either side, and the ids of the old entities.
LEMMA MergeEntitiesType ==
    ASSUME NEW old \in EntityMap, NEW new \in EntityMap
    PROVE  /\ MergeEntities(old, new) \in EntityMap
           /\ DOMAIN MergeEntities(old, new) = DOMAIN old \cup DOMAIN new
           /\ \A l \in DOMAIN old : MergeEntities(old, new)[l].id = old[l].id
<1> DEFINE D == DOMAIN old \cup DOMAIN new
           f == [l \in D |-> IF l \notin DOMAIN new THEN old[l]
                             ELSE IF l \notin DOMAIN old THEN new[l]
                             ELSE [old[l] EXCEPT !.docs = @ \cup new[l].docs]]
<1>1. \A l \in DOMAIN old : old[l] \in Entities
  BY EntityMapFacts
<1>2. \A l \in DOMAIN new : new[l] \in Entities
  BY EntityMapFacts
<1>3. ASSUME NEW l \in D
      PROVE  f[l] \in Entities /\ (l \in DOMAIN old => f[l].id = old[l].id)
  <2>1. CASE l \notin DOMAIN new
    BY <1>1, <2>1
  <2>2. CASE l \notin DOMAIN old
    BY <1>2, <2>2
  <2>3. CASE l \in DOMAIN old /\ l \in DOMAIN new
    <3>1. f[l] = [old[l] EXCEPT !.docs = old[l].docs \cup new[l].docs]
      BY <2>3
    <3>2. old[l] \in Entities /\ new[l] \in Entities
      BY <1>1, <1>2, <2>3
    <3> QED
      BY <3>1, <3>2 DEF Entities
  <2> QED
    BY <2>1, <2>2, <2>3
<1>4. f \in [D -> Entities]
  BY <1>3
<1>5. D \subseteq Labels
  BY EntityMapFacts
<1>6. f \in EntityMap
  BY <1>4, <1>5, EntityMapIntro
<1> QED
  BY <1>3, <1>4, <1>6 DEF MergeEntities

\* The ids of the entities of a graph.
IdsOf(ents) == {ents[l].id : l \in DOMAIN ents}

\* Relationships whose ends exist.
Linked(arcs, ents) == \A r \in arcs : r.src \in IdsOf(ents) /\ r.dst \in IdsOf(ents)

\* Merging relationships into a graph whose entities have been merged leaves no end
\* without its entity.
LEMMA MergeRelationsType ==
    ASSUME NEW old \in SUBSET Relations, NEW ents \in EntityMap, NEW pairs,
           Linked(old, ents),
           \A p \in pairs : /\ p.from \in DOMAIN ents /\ p.to \in DOMAIN ents
                            /\ p.docs \in SUBSET Docs
    PROVE  /\ MergeRelations(old, pairs, ents) \in SUBSET Relations
           /\ Linked(MergeRelations(old, pairs, ents), ents)
<1> SUFFICES ASSUME NEW q \in MergeRelations(old, pairs, ents)
             PROVE  q \in Relations /\ q.src \in IdsOf(ents) /\ q.dst \in IdsOf(ents)
  BY DEF Linked
<1> DEFINE news(r) == UNION {p.docs : p \in {p \in pairs : Same(r, p, ents)}}
<1>1. CASE \E r \in old : q = [r EXCEPT !.docs = r.docs \cup news(r)]
  <2>1. PICK r \in old : q = [r EXCEPT !.docs = r.docs \cup news(r)]
    BY <1>1
  <2>2. r \in Relations /\ r.src \in IdsOf(ents) /\ r.dst \in IdsOf(ents)
    BY DEF Linked
  <2>3. news(r) \in SUBSET Docs
    OBVIOUS
  <2> HIDE DEF news
  <2> QED
    BY <2>1, <2>2, <2>3 DEF Relations
<1>2. CASE \E p \in pairs : q = [src |-> ents[p.from].id, dst |-> ents[p.to].id,
                                 docs |-> p.docs]
  <2>1. PICK p \in pairs : q = [src |-> ents[p.from].id, dst |-> ents[p.to].id,
                                docs |-> p.docs]
    BY <1>2
  <2>2. ents[p.from] \in Entities /\ ents[p.to] \in Entities
    BY EntityMapFacts
  <2>3. ents[p.from].id \in Ids /\ ents[p.to].id \in Ids
    BY <2>2 DEF Entities
  <2>4. ents[p.from].id \in IdsOf(ents) /\ ents[p.to].id \in IdsOf(ents)
    BY DEF IdsOf
  <2> QED
    BY <2>1, <2>3, <2>4 DEF Relations
<1> QED
  BY <1>1, <1>2 DEF MergeRelations

\* What update_graph makes of its copy.
LEMMA ExtractedGraph ==
    ASSUME NEW g \in Graph, Linked(g.rels, g.ents),
           NEW o \in Ops, NEW got \in SUBSET Docs, NEW m \in Resolve(got),
           NEW origin \in Origins(got, m), NEW D \in SUBSET Docs,
           NEW fl \in {None} \cup SUBSET Docs,
           NEW ents, ents = MergeEntities(g.ents, NewEntities(o, got, m, origin)),
           NEW arcs, arcs = MergeRelations(g.rels, NewPairs(got, m, origin), ents)
    PROVE  /\ [status |-> "completed", docs |-> D, filter |-> fl,
               ents |-> ents, rels |-> arcs] \in Graph
           /\ Linked(arcs, ents)
<1>1. g.ents \in EntityMap /\ g.rels \in SUBSET Relations
  BY DEF Graph
<1> DEFINE new == NewEntities(o, got, m, origin)
<1>2. new \in EntityMap /\ DOMAIN new = CanonLabels(got, m)
  BY NewEntitiesType
<1>3. ents = MergeEntities(g.ents, new)
  OBVIOUS
<1> HIDE DEF new
<1>4. /\ MergeEntities(g.ents, new) \in EntityMap
      /\ DOMAIN MergeEntities(g.ents, new) = DOMAIN g.ents \cup DOMAIN new
      /\ \A l \in DOMAIN g.ents : MergeEntities(g.ents, new)[l].id = g.ents[l].id
  BY <1>1, <1>2, MergeEntitiesType
<1>5. /\ ents \in EntityMap
      /\ CanonLabels(got, m) \subseteq DOMAIN ents
      /\ \A l \in DOMAIN g.ents : l \in DOMAIN ents /\ ents[l].id = g.ents[l].id
  BY <1>2, <1>3, <1>4
<1>6. Linked(g.rels, ents)
  BY <1>5 DEF Linked, IdsOf
<1>7. \A p \in NewPairs(got, m, origin) :
          /\ p.from \in DOMAIN ents /\ p.to \in DOMAIN ents
          /\ p.docs \in SUBSET Docs
  BY <1>5, NewPairsType
<1>8. arcs \in SUBSET Relations /\ Linked(arcs, ents)
  BY <1>1, <1>5, <1>6, <1>7, MergeRelationsType
<1> QED
  BY <1>5, <1>8 DEF Graph, Statuses

\* Changing the documents or the status of a graph leaves it a graph.
LEMMA GraphUpdateTypes ==
    ASSUME NEW g \in Graph
    PROVE  /\ \A D \in SUBSET Docs : [g EXCEPT !.docs = D] \in Graph
           /\ \A st \in Statuses : [g EXCEPT !.status = st] \in Graph
           /\ g # None
BY NoneAssumption DEF Graph

\* What get_graph returns: a graph with the status, entities and relationships of the row.
LEMMA ViewType ==
    ASSUME TypeOK, NEW o \in Ops, NEW g \in Views(o), g # None
    PROVE  /\ graph # None /\ g \in Graph
           /\ g.status = graph.status
           /\ g.ents = graph.ents /\ g.rels = graph.rels
<1> DEFINE in == graph.docs \cap known \cap req[o].scope
<1>1. g = View(o)
  BY DEF Views
<1>2. graph # None
  BY <1>1 DEF View
<1>3. graph \in Graph
  BY <1>2 DEF TypeOK
<1>4. g = graph \/ g = [graph EXCEPT !.docs = in]
  BY <1>1 DEF View
<1>5. in \in SUBSET Docs
  BY DEF known
<1> HIDE DEF in
<1> QED
  BY <1>2, <1>3, <1>4, <1>5, GraphUpdateTypes DEF Graph

-----------------------------------------------------------------------------
(* The inductive invariant.                                                *)

Holding == {"match", "empty", "load", "extract", "write", "failing"}

BuildOnly == {"new", "raised", "failing"}

\* An operation holds a copy of the row between reading it and writing it back, the copy
\* it is about to write says "completed", and only builds have a handler.
CopiesInHand ==
    \A o \in Ops : /\ pc[o] \in Holding <=> snap[o] # None
                   /\ snap[o] # None => graph # None
                   /\ pc[o] = "write" => snap[o].status = "completed"
                   /\ pc[o] \in BuildOnly => req[o].create

\* The row and all copies of it are whole: any of them may be the next row.
WholeGraph(g) == g # None => Linked(g.rels, g.ents)

GraphInv == /\ TypeOK
            /\ CopiesInHand
            /\ BuildsAlone
            /\ WholeGraph(graph)
            /\ \A o \in Ops : WholeGraph(snap[o])

\* What ends an operation keeps the types.
LEMMA ForgetTypes ==
    ASSUME TypeOK, NEW o \in Ops, NEW to \in Pcs
    PROVE  /\ Forget(o, to) => /\ pc' \in [Ops -> Pcs]
                               /\ snap' \in [Ops -> Graph \cup {None}]
                               /\ found' \in [Ops -> SUBSET Docs]
                               /\ objs' \in [Ops -> SUBSET Docs]
           /\ End(o, to) => stale' \in [Ops -> BOOLEAN]
           /\ Handler(o) \in Pcs
BY DEF Forget, End, Goto, Handler, TypeOK, Pcs

LEMMA InitInv == Init => GraphInv
<1> SUFFICES ASSUME Init PROVE GraphInv
  OBVIOUS
<1>1. TypeOK
  BY DEF Init, TypeOK, Pcs
<1>2. CopiesInHand
  BY DEF Init, CopiesInHand, Holding, BuildOnly
<1> QED
  BY <1>1, <1>2 DEF Init, GraphInv, BuildsAlone, WholeGraph

\* A step of o that leaves the row alone and at most drops o's copy.
LEMMA KeepStep ==
    ASSUME GraphInv, TypeOK', NEW o \in Ops, graph' = graph, req' = req,
           \A p \in Ops : p # o => snap'[p] = snap[p] /\ pc'[p] = pc[p],
           snap'[o] \in {snap[o], None},
           pc'[o] \in Holding <=> snap'[o] # None,
           pc'[o] = "write" => snap'[o].status = "completed",
           pc'[o] \in BuildOnly => req[o].create
    PROVE  GraphInv'
<1>1. CopiesInHand'
  BY DEF GraphInv, CopiesInHand
<1>2. BuildsAlone'
  BY DEF GraphInv, BuildsAlone
<1>3. WholeGraph(graph)' /\ \A p \in Ops : WholeGraph(snap[p])'
  BY DEF GraphInv, WholeGraph
<1> QED
  BY <1>1, <1>2, <1>3 DEF GraphInv

\* A step of o that takes a copy of the row as get_graph shows it.
LEMMA CopyStep ==
    ASSUME GraphInv, NEW o \in Ops, NEW g \in Views(o), g # None,
           g.status = "processing" => req[o].create,
           NEW to \in Holding \ {"write"}, to = "failing" => req[o].create,
           Goto(o, to), snap' = [snap EXCEPT ![o] = g],
           UNCHANGED <<graph, docSt, req, found, objs, stale>>, muted' \in BOOLEAN
    PROVE  GraphInv'
<1>1. /\ graph # None /\ g \in Graph /\ g.status = graph.status
      /\ g.ents = graph.ents /\ g.rels = graph.rels
  BY ViewType DEF GraphInv
<1>2. \A p \in Ops : /\ pc'[p] = IF p = o THEN to ELSE pc[p]
                     /\ snap'[p] = IF p = o THEN g ELSE snap[p]
  BY DEF Goto, GraphInv, TypeOK
<1>3. TypeOK'
  <2>1. pc' \in [Ops -> Pcs] /\ snap' \in [Ops -> Graph \cup {None}]
    BY <1>1 DEF Goto, GraphInv, TypeOK, Holding, Pcs
  <2> QED
    BY <2>1 DEF GraphInv, TypeOK
<1>4. CopiesInHand'
  <2>1. to \in BuildOnly => req[o].create
    BY DEF Holding, BuildOnly
  <2> QED
    BY <1>1, <1>2, <2>1 DEF GraphInv, CopiesInHand
<1>5. BuildsAlone'
  BY <1>1, <1>2 DEF GraphInv, BuildsAlone
<1>6. WholeGraph(graph)' /\ \A p \in Ops : WholeGraph(snap[p])'
  BY <1>1, <1>2 DEF GraphInv, WholeGraph
<1> QED
  BY <1>3, <1>4, <1>5, <1>6 DEF GraphInv

\* A step of o that replaces its copy by one to be written.
LEMMA ReplaceStep ==
    ASSUME GraphInv, NEW o \in Ops, NEW h \in Graph, snap[o] # None,
           h.status = "completed", WholeGraph(h),
           Goto(o, "write"), snap' = [snap EXCEPT ![o] = h],
           UNCHANGED <<graph, docSt, req, found, objs, stale, muted>>
    PROVE  GraphInv'
<1>1. \A p \in Ops : /\ pc'[p] = IF p = o THEN "write" ELSE pc[p]
                     /\ snap'[p] = IF p = o THEN h ELSE snap[p]
  BY DEF Goto, GraphInv, TypeOK
<1>2. TypeOK'
  BY DEF Goto, GraphInv, TypeOK, Pcs
<1>3. CopiesInHand'
  <2>1. "write" \in Holding /\ "write" \notin BuildOnly /\ h # None
    BY GraphUpdateTypes DEF Holding, BuildOnly
  <2> QED
    BY <1>1, <2>1 DEF GraphInv, CopiesInHand
<1>4. BuildsAlone'
  BY <1>1 DEF GraphInv, BuildsAlone
<1>5. WholeGraph(graph)' /\ \A p \in Ops : WholeGraph(snap[p])'
  BY <1>1 DEF GraphInv, WholeGraph
<1> QED
  BY <1>2, <1>3, <1>4, <1>5 DEF GraphInv

\* A step of o that writes its copy back.
LEMMA StoreStep ==
    ASSUME GraphInv, NEW o \in Ops, NEW g \in Graph, snap[o] # None,
           g.status # "processing", g.ents = snap[o].ents, g.rels = snap[o].rels,
           NEW to \in Pcs \ Holding, to \in BuildOnly => req[o].create,
           StoreAndForget(o, g, to),
           UNCHANGED <<docSt, req, muted>>
    PROVE  GraphInv'
<1>1. g # None
  BY GraphUpdateTypes
<1>2. graph' = g /\ Forget(o, to)
  BY DEF StoreAndForget
<1>3. \A p \in Ops : /\ pc'[p] = IF p = o THEN to ELSE pc[p]
                     /\ snap'[p] = IF p = o THEN None ELSE snap[p]
  BY <1>2 DEF Forget, Goto, GraphInv, TypeOK
<1>4. TypeOK'
  <2>1. stale' \in [Ops -> BOOLEAN]
    BY DEF StoreAndForget, GraphInv, TypeOK
  <2>2. /\ pc' \in [Ops -> Pcs] /\ snap' \in [Ops -> Graph \cup {None}]
        /\ found' \in [Ops -> SUBSET Docs] /\ objs' \in [Ops -> SUBSET Docs]
    BY <1>2, ForgetTypes DEF GraphInv
  <2> QED
    BY <1>2, <2>1, <2>2 DEF GraphInv, TypeOK
<1>5. CopiesInHand'
  <2>1. to # "write"
    BY DEF Holding
  <2> QED
    BY <1>1, <1>2, <1>3, <2>1 DEF GraphInv, CopiesInHand
<1>6. BuildsAlone'
  BY <1>2 DEF BuildsAlone
<1>7. WholeGraph(graph)' /\ \A p \in Ops : WholeGraph(snap[p])'
  BY <1>2, <1>3 DEF GraphInv, WholeGraph
<1> QED
  BY <1>4, <1>5, <1>6, <1>7 DEF GraphInv

\* A step of o that ends it, with or without a handler to follow.
LEMMA EndStep ==
    ASSUME GraphInv, NEW o \in Ops, NEW to \in Pcs \ Holding,
           to \in BuildOnly => req[o].create, End(o, to),
           UNCHANGED <<graph, docSt, req>>, muted' \in BOOLEAN
    PROVE  GraphInv'
<1>1. TypeOK'
  BY ForgetTypes DEF End, GraphInv, TypeOK
<1>2. \A p \in Ops : /\ pc'[p] = IF p = o THEN to ELSE pc[p]
                     /\ snap'[p] = IF p = o THEN None ELSE snap[p]
  BY DEF End, Forget, Goto, GraphInv, TypeOK
<1>3. to # "write"
  BY DEF Holding
<1> QED
  BY <1>1, <1>2, <1>3, KeepStep

LEMMA HandlerType ==
    ASSUME NEW o \in Ops
    PROVE  Handler(o) \in Pcs \ Holding /\ (Handler(o) \in BuildOnly => req[o].create)
BY DEF Handler, Pcs, Holding, BuildOnly

LEMMA InvStep == GraphInv /\ [Next]_vars => GraphInv'
<1> SUFFICES ASSUME GraphInv, [Next]_vars PROVE GraphInv'
  OBVIOUS
<1>1. TypeOK /\ muted \in BOOLEAN
  BY DEF GraphInv, TypeOK
<1>2. {"done", "unread", "error"} \subseteq (Pcs \ Holding) \ BuildOnly
  BY DEF Pcs, Holding, BuildOnly
<1>3. ASSUME NEW o \in Ops, Create(o) PROVE GraphInv'
  <2>1. /\ pc[o] = "new" /\ UNCHANGED <<docSt, req, snap, found, objs, stale>>
        /\ pc' \in [Ops -> Pcs] /\ muted' \in BOOLEAN
        /\ \A p \in Ops : p # o => pc'[p] = pc[p]
        /\ pc'[o] \in {"get", "error"} /\ pc'[o] \notin BuildOnly
    BY <1>1, <1>3 DEF Create, Goto, TypeOK, Pcs, BuildOnly
  <2>2. snap[o] = None /\ "new" \notin Holding /\ "get" \notin Holding /\ "error" \notin Holding
    BY <2>1 DEF GraphInv, CopiesInHand, Holding
  <2>3. CASE UNCHANGED graph
    <3>1. TypeOK'
      BY <1>1, <2>1, <2>3 DEF TypeOK
    <3> QED
      BY <2>1, <2>2, <2>3, <3>1, KeepStep
  <2>4. CASE graph = None /\ graph' # graph
    <3> DEFINE stub == [status |-> "processing", docs |-> {}, filter |-> req[o].filter,
                        ents |-> [l \in {} |-> None], rels |-> {}]
    <3>1. graph' = stub
      BY <1>3, <2>4 DEF Create
    <3>2. stub \in Graph
      <4>1. [l \in {} |-> None] \in EntityMap
        <5>1. [l \in {} |-> None] \in [{} -> Entities]
          OBVIOUS
        <5> QED
          BY <5>1, EntityMapIntro
      <4>2. req[o].filter \in {None} \cup SUBSET Docs
        BY <1>1, RequestsAssumption DEF TypeOK, RequestType
      <4> QED
        BY <4>1, <4>2 DEF Graph, Statuses
    <3>3. \A p \in Ops : snap[p] = None
      BY <2>4 DEF GraphInv, CopiesInHand
    <3>4. TypeOK'
      BY <1>1, <2>1, <3>1, <3>2 DEF TypeOK
    <3>5. CopiesInHand'
      BY <2>1, <2>2, <3>3 DEF GraphInv, CopiesInHand, Holding
    <3>6. BuildsAlone'
      BY <2>1, <3>3 DEF BuildsAlone
    <3>7. WholeGraph(graph)' /\ \A p \in Ops : WholeGraph(snap[p])'
      BY <2>1, <3>1, <3>3 DEF WholeGraph, Linked
    <3> QED
      BY <3>4, <3>5, <3>6, <3>7 DEF GraphInv
  <2> QED
    BY <1>3, <2>3, <2>4 DEF Create
<1>4. ASSUME NEW o \in Ops, Get(o) PROVE GraphInv'
  <2>1. PICK g \in Views(o) :
          \/ Ready(o, g) /\ snap' = [snap EXCEPT ![o] = g] /\ Goto(o, "match")
                         /\ UNCHANGED <<found, objs, stale>>
          \/ ~Ready(o, g) /\ Raise(o)
    BY <1>4 DEF Get
  <2>2. UNCHANGED <<graph, docSt, req, muted>>
    BY <1>4 DEF Get
  <2>3. CASE Ready(o, g) /\ snap' = [snap EXCEPT ![o] = g] /\ Goto(o, "match")
                         /\ UNCHANGED <<found, objs, stale>>
    <3>1. "match" \in Holding \ {"write"}
      BY DEF Holding
    <3> QED
      BY <1>1, <2>2, <2>3, <3>1, CopyStep DEF Ready
  <2>4. CASE Raise(o)
    BY <1>1, <2>2, <2>4, HandlerType, EndStep DEF Raise
  <2> QED
    BY <2>1, <2>3, <2>4
<1>5. ASSUME NEW o \in Ops, Match(o) PROVE GraphInv'
  <2>1. PICK M \in SUBSET Docs :
          found' = [found EXCEPT ![o] = (req[o].explicit \cup M) \ snap[o].docs]
    <3>1. snap[o].filter \in {None} \cup SUBSET Docs
      BY <1>1, <1>5 DEF Match, GraphInv, CopiesInHand, Holding, TypeOK, Graph
    <3>2. MatchedNow(o) \subseteq Docs /\ MatchedBefore(o) \subseteq Docs
      BY <3>1 DEF MatchedNow, MatchedBefore, known
    <3>3. PICK A \in Answers(MatchedNow(o)), B \in Answers(MatchedBefore(o)) :
             found' = [found EXCEPT ![o] = (req[o].explicit \cup A \cup B) \ snap[o].docs]
      BY <1>5 DEF Match
    <3>4. A \in SUBSET Docs /\ B \in SUBSET Docs
      BY <3>2 DEF Answers
    <3>5. A \cup B \in SUBSET Docs
      BY <3>4
    <3> QED
      <4>1. req[o].explicit \cup A \cup B = req[o].explicit \cup (A \cup B)
        OBVIOUS
      <4> QED
        BY <3>3, <3>5, <4>1
  <2>2. snap[o] # None /\ snap[o] \in Graph
    BY <1>1, <1>5 DEF Match, GraphInv, CopiesInHand, Holding, TypeOK
  <2>3. M \in SUBSET Docs
    OBVIOUS
  <2>4. req[o].explicit \in SUBSET Docs
    BY <1>1, RequestsAssumption DEF TypeOK, RequestType
  <2>5. pc' \in [Ops -> Pcs] /\ pc'[o] \in {"empty", "load"}
        /\ \A p \in Ops : p # o => pc'[p] = pc[p]
    BY <1>1, <1>5 DEF Match, Goto, TypeOK, Pcs
  <2>6. TypeOK'
    BY <1>1, <1>5, <2>1, <2>3, <2>4, <2>5 DEF Match, TypeOK
  <2>7. pc'[o] \in Holding /\ pc'[o] # "write" /\ pc'[o] \notin BuildOnly
    BY <2>5 DEF Holding, BuildOnly
  <2>8. UNCHANGED <<graph, req, snap>>
    BY <1>5 DEF Match
  <2> QED
    BY <2>2, <2>5, <2>6, <2>7, <2>8, KeepStep
<1>6. ASSUME NEW o \in Ops, Load(o) PROVE GraphInv'
  <2>1. UNCHANGED <<graph, docSt, req, muted>> /\ pc[o] = "load"
    BY <1>6 DEF Load
  <2>2. PICK D \in SUBSET Docs :
          \/ objs' = [objs EXCEPT ![o] = D] /\ Goto(o, "extract")
                                            /\ UNCHANGED <<snap, found, stale>>
          \/ End(o, "unread")
    BY <1>6 DEF Load, Answers, known
  <2>3. CASE objs' = [objs EXCEPT ![o] = D] /\ Goto(o, "extract")
                                            /\ UNCHANGED <<snap, found, stale>>
    <3>1. TypeOK'
      BY <1>1, <2>1, <2>3 DEF TypeOK, Goto, Pcs
    <3>2. snap[o] # None /\ "extract" \in Holding /\ "extract" \notin BuildOnly
      BY <2>1 DEF GraphInv, CopiesInHand, Holding, BuildOnly
    <3>3. \A p \in Ops : pc'[p] = IF p = o THEN "extract" ELSE pc[p]
      BY <1>1, <2>3 DEF Goto, TypeOK
    <3> QED
      BY <2>1, <2>3, <3>1, <3>2, <3>3, KeepStep
  <2>4. CASE End(o, "unread")
    BY <1>1, <1>2, <2>1, <2>4, EndStep
  <2> QED
    BY <2>2, <2>3, <2>4
<1>7. ASSUME NEW o \in Ops, Extract(o) PROVE GraphInv'
  <2>1. UNCHANGED <<graph, docSt, req, found, objs, stale, muted>>
        /\ pc[o] = "extract" /\ Goto(o, "write")
    BY <1>7 DEF Extract
  <2>2. snap[o] # None /\ snap[o] \in Graph /\ Linked(snap[o].rels, snap[o].ents)
    BY <1>1, <2>1 DEF GraphInv, CopiesInHand, Holding, TypeOK, WholeGraph
  <2> DEFINE D == AllDocs(o) \cup objs[o]
             e(got, m, origin) == MergeEntities(snap[o].ents, NewEntities(o, got, m, origin))
             r(got, m, origin) == MergeRelations(snap[o].rels, NewPairs(got, m, origin),
                                                 e(got, m, origin))
             g(got, m, origin, fl) == [status |-> "completed", docs |-> D, filter |-> fl,
                                       ents |-> e(got, m, origin),
                                       rels |-> r(got, m, origin)]
  <2>3. PICK got \in SUBSET objs[o] : \E m \in Resolve(got) :
          \E origin \in Origins(got, m) : \E fl \in MergedFilters(o) :
             snap' = [snap EXCEPT ![o] = g(got, m, origin, fl)]
    BY <1>1, <1>7 DEF Extract, TypeOK
  <2>4. PICK m \in Resolve(got) : \E origin \in Origins(got, m) : \E fl \in MergedFilters(o) :
             snap' = [snap EXCEPT ![o] = g(got, m, origin, fl)]
    BY <2>3
  <2>4a. PICK origin \in Origins(got, m) : \E fl \in MergedFilters(o) :
             snap' = [snap EXCEPT ![o] = g(got, m, origin, fl)]
    BY <2>4
  <2>4b. PICK fl \in MergedFilters(o) : snap' = [snap EXCEPT ![o] = g(got, m, origin, fl)]
    BY <2>4a
  <2>5. objs[o] \in SUBSET Docs /\ got \in SUBSET Docs
    BY <1>1 DEF TypeOK
  <2>6. D \in SUBSET Docs
    BY <1>1, <2>2, <2>5, RequestsAssumption DEF AllDocs, TypeOK, Graph, RequestType
  <2>7. fl \in {None} \cup SUBSET Docs
    BY <2>2 DEF MergedFilters, Graph
  <2>8. /\ g(got, m, origin, fl) \in Graph
        /\ Linked(r(got, m, origin), e(got, m, origin))
    <3> HIDE DEF D
    <3> QED
      BY <2>2, <2>5, <2>6, <2>7, ExtractedGraph
  <2>9. /\ g(got, m, origin, fl).status = "completed"
        /\ g(got, m, origin, fl).ents = e(got, m, origin)
        /\ g(got, m, origin, fl).rels = r(got, m, origin)
    OBVIOUS
  <2> HIDE DEF g, e, r, D
  <2>10. PICK h \in Graph : /\ h.status = "completed" /\ WholeGraph(h)
                            /\ snap' = [snap EXCEPT ![o] = h]
    BY <2>4b, <2>8, <2>9 DEF WholeGraph
  <2> QED
    BY <2>1, <2>2, <2>10, ReplaceStep
<1>8. ASSUME NEW o \in Ops, ExtractRaises(o) PROVE GraphInv'
  BY <1>1, <1>8, HandlerType, EndStep DEF ExtractRaises, Raise
<1>9. ASSUME NEW o \in Ops, Write(o) PROVE GraphInv'
  <2>1. pc[o] = "write" /\ UNCHANGED <<docSt, req, muted>>
    BY <1>9 DEF Write
  <2>2. snap[o] # None /\ snap[o] \in Graph /\ snap[o].status # "processing"
    BY <1>1, <2>1 DEF GraphInv, CopiesInHand, Holding, TypeOK
  <2>3. CASE StoreAndForget(o, snap[o], "done")
    BY <1>2, <2>1, <2>2, <2>3, StoreStep
  <2>4. CASE StoreAndForget(o, snap[o], Handler(o))
    BY <2>1, <2>2, <2>4, HandlerType, StoreStep
  <2>5. CASE Raise(o) /\ UNCHANGED graph
    BY <1>1, <2>1, <2>5, HandlerType, EndStep DEF Raise
  <2> QED
    BY <1>9, <2>3, <2>4, <2>5 DEF Write
\* The two writes that only change the status.
<1>10. ASSUME NEW o \in Ops, snap[o] # None, NEW st \in {"completed", "failed"},
              UNCHANGED <<docSt, req>>, muted' \in BOOLEAN,
              \/ /\ StoreAndForget(o, [snap[o] EXCEPT !.status = st], "done")
                 /\ UNCHANGED muted
              \/ End(o, "done") /\ UNCHANGED graph
       PROVE  GraphInv'
  <2> DEFINE g == [snap[o] EXCEPT !.status = st]
  <2>1. snap[o] \in Graph /\ st \in Statuses
    BY <1>1, <1>10 DEF TypeOK, Statuses
  <2>2. g \in Graph
    BY <2>1, GraphUpdateTypes
  <2>3. g.status = st /\ g.ents = snap[o].ents /\ g.rels = snap[o].rels
    BY <2>1 DEF Graph
  <2> HIDE DEF g
  <2>4. CASE StoreAndForget(o, g, "done") /\ UNCHANGED muted
    BY <1>2, <1>10, <2>2, <2>3, <2>4, StoreStep
  <2>5. CASE End(o, "done") /\ UNCHANGED graph
    BY <1>2, <1>10, <2>5, EndStep
  <2> QED
    BY <1>10, <2>4, <2>5 DEF g
<1>11. ASSUME NEW o \in Ops, WriteEmpty(o) \/ HandlerWrite(o) PROVE GraphInv'
  <2>1. snap[o] # None
    BY <1>11 DEF WriteEmpty, HandlerWrite, GraphInv, CopiesInHand, Holding
  <2>2. muted' \in BOOLEAN
    BY <1>1, <1>11 DEF WriteEmpty, HandlerWrite
  <2>3. CASE WriteEmpty(o)
    BY <2>1, <2>2, <2>3, <1>10 DEF WriteEmpty
  <2>4. CASE HandlerWrite(o)
    BY <2>1, <2>2, <2>4, <1>10 DEF HandlerWrite
  <2> QED
    BY <1>11, <2>3, <2>4
<1>12. ASSUME NEW o \in Ops, HandlerRead(o) PROVE GraphInv'
  <2>1. pc[o] = "raised" /\ UNCHANGED <<graph, docSt, req>>
    BY <1>12 DEF HandlerRead
  <2>2. req[o].create
    BY <2>1 DEF GraphInv, CopiesInHand, BuildOnly
  <2>3. PICK g \in Views(o) :
          \/ /\ g # None /\ snap' = [snap EXCEPT ![o] = g] /\ Goto(o, "failing")
             /\ UNCHANGED <<found, objs, stale, muted>>
          \/ End(o, "done") /\ muted' = (muted \/ View(o) # None)
    BY <1>12 DEF HandlerRead
  <2>4. CASE /\ g # None /\ snap' = [snap EXCEPT ![o] = g] /\ Goto(o, "failing")
             /\ UNCHANGED <<found, objs, stale, muted>>
    <3>1. "failing" \in Holding \ {"write"}
      BY DEF Holding
    <3> QED
      BY <1>1, <2>1, <2>2, <2>4, <3>1, CopyStep
  <2>5. CASE End(o, "done") /\ muted' = (muted \/ View(o) # None)
    <3>1. muted' \in BOOLEAN
      BY <2>5
    <3> QED
      BY <1>2, <2>1, <2>5, <3>1, EndStep
  <2> QED
    BY <2>3, <2>4, <2>5
<1>13. ASSUME Crash PROVE GraphInv'
  <2>1. /\ pc' = [o \in Ops |-> IF Active(o) THEN "crashed" ELSE pc[o]]
        /\ snap' = [o \in Ops |-> None]
        /\ UNCHANGED <<graph, docSt, req, muted>>
    BY <1>13 DEF Crash
  <2>2. TypeOK'
    <3>1. pc' \in [Ops -> Pcs]
      BY <1>1, <2>1 DEF TypeOK, Pcs
    <3> QED
      BY <1>1, <1>13, <2>1, <3>1 DEF Crash, TypeOK
  <2>3. \A o \in Ops : /\ pc'[o] \notin Holding
                       /\ pc'[o] \in BuildOnly => pc[o] \in BuildOnly
    BY <2>1 DEF Active, Holding, BuildOnly
  <2>4. CopiesInHand'
    <3>1. "write" \in Holding
      BY DEF Holding
    <3> QED
      BY <2>1, <2>3, <3>1 DEF GraphInv, CopiesInHand
  <2>5. BuildsAlone'
    BY <2>1 DEF BuildsAlone
  <2>6. WholeGraph(graph)' /\ \A o \in Ops : WholeGraph(snap[o])'
    BY <2>1 DEF GraphInv, WholeGraph
  <2> QED
    BY <2>2, <2>4, <2>5, <2>6 DEF GraphInv
<1>14. ASSUME UNCHANGED <<graph, req, pc, snap, found, objs, stale, muted>>,
              docSt' \in [Docs -> {"new", "here", "gone"}]
       PROVE  GraphInv'
  <2>1. TypeOK'
    BY <1>1, <1>14 DEF TypeOK
  <2>2. CopiesInHand' /\ BuildsAlone'
    BY <1>14 DEF GraphInv, CopiesInHand, BuildsAlone
  <2>3. WholeGraph(graph)' /\ \A o \in Ops : WholeGraph(snap[o])'
    BY <1>14 DEF GraphInv, WholeGraph
  <2> QED
    BY <2>1, <2>2, <2>3 DEF GraphInv
<1>15. CASE \E d \in Docs : Ingest(d) \/ Delete(d)
  BY <1>1, <1>14, <1>15 DEF Ingest, Delete, TypeOK
<1>16. CASE UNCHANGED vars
  BY <1>1, <1>14, <1>16 DEF vars, TypeOK
<1> QED
  BY <1>3, <1>4, <1>5, <1>6, <1>7, <1>8, <1>9, <1>11, <1>12, <1>13, <1>15, <1>16
  DEF Next, OpStep

LEMMA InvHolds == Spec => []GraphInv
BY InitInv, InvStep, PTL DEF Spec

-----------------------------------------------------------------------------
(* The theorems.                                                           *)

\* Whatever fails and however requests interleave, the row and the copies of it are well
\* formed: no status, entity or relationship is of a kind its readers do not know.
THEOREM TypeCorrect == Spec => []TypeOK
<1>1. GraphInv => TypeOK
  BY DEF GraphInv
<1> QED
  BY <1>1, InvHolds, PTL

\* Extraction, entity resolution, merging and lost updates never leave a relationship in
\* the graph without the two entities it joins (_merge_relationships).
THEOREM EndpointsExistAlways == Spec => []EndpointsExist
<1>1. GraphInv => EndpointsExist
  BY DEF GraphInv, WholeGraph, Linked, IdsOf, EndpointsExist
<1> QED
  BY <1>1, InvHolds, PTL

\* The status check of update_graph is enough: while a graph says "processing", nobody but
\* a build has a copy of it to write back.
THEOREM BuildsAloneAlways == Spec => []BuildsAlone
<1>1. GraphInv => BuildsAlone
  BY DEF GraphInv
<1> QED
  BY <1>1, InvHolds, PTL
-----------------------------------------------------------------------------
(* Merging adds what is new and nothing else.                              *)

IdsUnique(ents)  == \A l, k \in DOMAIN ents : ents[l].id = ents[k].id => l = k
RelsUnique(arcs) == \A r, s \in arcs : r.src = s.src /\ r.dst = s.dst => r = s
Listed(g) == /\ \A l \in DOMAIN g.ents : g.ents[l].docs \subseteq g.docs
             /\ \A r \in g.rels : r.docs \subseteq g.docs

\* An entity of the graph was extracted by o.
Authored(o, ents) == \E l \in DOMAIN ents : ents[l].id[1] = o

\* h has all that g has.
Extends(g, h) ==
    /\ g.docs \subseteq h.docs
    /\ \A l \in DOMAIN g.ents : /\ l \in DOMAIN h.ents
                                /\ h.ents[l].id = g.ents[l].id
                                /\ g.ents[l].docs \subseteq h.ents[l].docs
    /\ \A r \in g.rels : \E s \in h.rels :
          s.src = r.src /\ s.dst = r.dst /\ r.docs \subseteq s.docs

LEMMA ExtendsItself == \A g : Extends(g, g)
BY DEF Extends

\* What an extraction yields for a canonical label was extracted for no other.
LEMMA NewEntitiesUnique ==
    ASSUME NEW o \in Ops, NEW got \in SUBSET Docs, NEW m \in Resolve(got),
           NEW origin \in Origins(got, m),
           NEW new, new = NewEntities(o, got, m, origin)
    PROVE  /\ IdsUnique(new)
           /\ \A c \in DOMAIN new : new[c].id[1] = o /\ new[c].docs \subseteq got
<1> DEFINE C == CanonLabels(got, m)
<1>1. \A c \in C : new[c] = [id |-> <<o, origin[c][1], origin[c][2]>>,
                             docs |-> Mentioning(got, m, c)]
  BY DEF NewEntities
<1>2. DOMAIN new = C
  BY DEF NewEntities
<1>3. \A c \in C : Canon(m, origin[c][2]) = c
  BY DEF Origins
<1> HIDE DEF C
<1>4. ASSUME NEW c \in C
      PROVE  /\ new[c].id = <<o, origin[c][1], origin[c][2]>>
             /\ new[c].docs = Mentioning(got, m, c)
  <2>1. PICK x, D : x = <<o, origin[c][1], origin[c][2]>> /\ D = Mentioning(got, m, c)
    OBVIOUS
  <2>2. new[c] = [id |-> x, docs |-> D]
    BY <1>1, <2>1
  <2> QED
    BY <2>1, <2>2
<1>5. \A c \in C : new[c].id[1] = o /\ new[c].id[3] = origin[c][2]
  BY <1>4
<1>6. ASSUME NEW c \in C, NEW d \in C, new[c].id = new[d].id PROVE c = d
  BY <1>3, <1>5, <1>6
<1>7. \A c \in C : new[c].docs \subseteq got
  BY <1>4 DEF Mentioning
<1> QED
  BY <1>2, <1>5, <1>6, <1>7 DEF IdsUnique

\* Merging entities keeps them apart, and gives each the documents of both sides.
LEMMA MergeEntitiesExact ==
    ASSUME NEW old \in EntityMap, NEW new \in EntityMap, NEW o,
           IdsUnique(old), IdsUnique(new), ~ Authored(o, old),
           \A c \in DOMAIN new : new[c].id[1] = o,
           NEW ents, ents = MergeEntities(old, new)
    PROVE  /\ IdsUnique(ents)
           /\ \A l \in DOMAIN old : /\ l \in DOMAIN ents
                                    /\ ents[l].id = old[l].id
                                    /\ old[l].docs \subseteq ents[l].docs
           /\ \A l \in DOMAIN ents : \/ l \in DOMAIN old
                                     \/ ents[l].id[1] = o
           /\ \A l \in DOMAIN ents : \A d \in ents[l].docs :
                 \/ l \in DOMAIN old /\ d \in old[l].docs
                 \/ l \in DOMAIN new /\ d \in new[l].docs
<1>1. /\ DOMAIN ents = DOMAIN old \cup DOMAIN new
      /\ \A l \in DOMAIN old : ents[l].id = old[l].id
  BY MergeEntitiesType
<1>2. \A l \in DOMAIN ents : l \notin DOMAIN old => ents[l] = new[l]
  BY <1>1 DEF MergeEntities
<1>3. ASSUME NEW l \in DOMAIN old
      PROVE  /\ l \notin DOMAIN new => ents[l].docs = old[l].docs
             /\ l \in DOMAIN new => ents[l].docs = old[l].docs \cup new[l].docs
  <2>1. old[l] \in Entities
    BY EntityMapFacts
  <2>2. CASE l \in DOMAIN new
    <3>1. ents[l] = [old[l] EXCEPT !.docs = old[l].docs \cup new[l].docs]
      BY <1>1, <2>2 DEF MergeEntities
    <3> QED
      BY <2>1, <2>2, <3>1 DEF Entities
  <2>3. CASE l \notin DOMAIN new
    BY <1>1, <2>3 DEF MergeEntities
  <2> QED
    BY <2>2, <2>3
<1>4. ASSUME NEW l \in DOMAIN ents, NEW k \in DOMAIN ents, ents[l].id = ents[k].id
      PROVE  l = k
  BY <1>1, <1>2, <1>4 DEF IdsUnique, Authored
<1>5. IdsUnique(ents)
  BY <1>4 DEF IdsUnique
<1>6. \A l \in DOMAIN ents : l \in DOMAIN old \/ ents[l].id[1] = o
  BY <1>1, <1>2
<1>7. \A l \in DOMAIN ents : \A d \in ents[l].docs :
         \/ l \in DOMAIN old /\ d \in old[l].docs
         \/ l \in DOMAIN new /\ d \in new[l].docs
  BY <1>1, <1>2, <1>3
<1> QED
  BY <1>1, <1>3, <1>5, <1>6, <1>7

\* Two labels are related once in an extraction.
LEMMA NewPairsUnique ==
    ASSUME NEW got, NEW m, NEW origin
    PROVE  \A p, q \in NewPairs(got, m, origin) :
              /\ p.from = q.from /\ p.to = q.to => p = q
              /\ p.docs \subseteq got
<1>1. ASSUME NEW p \in NewPairs(got, m, origin)
      PROVE  p = [from |-> p.from, to |-> p.to,
                  docs |-> Relating(got, m, origin, <<p.from, p.to>>)]
  <2>1. PICK x \in CanonLabels(got, m) \X CanonLabels(got, m) :
           p = [from |-> x[1], to |-> x[2], docs |-> Relating(got, m, origin, x)]
    BY DEF NewPairs
  <2>2. x = <<p.from, p.to>>
    BY <2>1
  <2> QED
    BY <2>1, <2>2
<1>2. \A x : Relating(got, m, origin, x) \subseteq got
  BY DEF Relating
<1>3. ASSUME NEW p \in NewPairs(got, m, origin), NEW q \in NewPairs(got, m, origin),
             p.from = q.from, p.to = q.to
      PROVE  p = q
  BY <1>1, <1>3
<1>4. ASSUME NEW p \in NewPairs(got, m, origin) PROVE p.docs \subseteq got
  <2>1. p.docs = Relating(got, m, origin, <<p.from, p.to>>)
    BY <1>1
  <2> QED
    BY <1>2, <2>1
<1> QED
  BY <1>3, <1>4

\* Merging relationships adds to those there are, and no relationship twice.
LEMMA MergeRelationsExact ==
    ASSUME NEW old \in SUBSET Relations, NEW ents, IdsUnique(ents), RelsUnique(old),
           NEW pairs, \A p, q \in pairs : p.from = q.from /\ p.to = q.to => p = q,
           \A p \in pairs : p.from \in DOMAIN ents /\ p.to \in DOMAIN ents,
           NEW arcs, arcs = MergeRelations(old, pairs, ents)
    PROVE  /\ RelsUnique(arcs)
           /\ \A r \in old : \E s \in arcs :
                 s.src = r.src /\ s.dst = r.dst /\ r.docs \subseteq s.docs
           /\ \A s \in arcs : \A d \in s.docs :
                 (\E r \in old : d \in r.docs) \/ (\E p \in pairs : d \in p.docs)
<1> DEFINE news(r) == UNION {p.docs : p \in {p \in pairs : Same(r, p, ents)}}
           grown(r) == [r EXCEPT !.docs = r.docs \cup news(r)]
           added(p) == [src |-> ents[p.from].id, dst |-> ents[p.to].id, docs |-> p.docs]
<1>1. arcs = {grown(r) : r \in old} \cup {added(p) : p \in {p \in pairs : \A r \in old : ~Same(r, p, ents)}}
  BY DEF MergeRelations
<1>2. ASSUME NEW r \in old
      PROVE  /\ grown(r).src = r.src /\ grown(r).dst = r.dst
             /\ grown(r).docs = r.docs \cup news(r)
  <2>1. r \in Relations
    OBVIOUS
  <2> HIDE DEF news
  <2> QED
    BY <2>1 DEF Relations
<1>3. \A p : added(p).src = ents[p.from].id /\ added(p).dst = ents[p.to].id /\ added(p).docs = p.docs
  OBVIOUS
<1>4. \A r : \A d \in news(r) : \E p \in pairs : d \in p.docs
  OBVIOUS
<1> HIDE DEF news, grown, added
<1>5. ASSUME NEW s \in arcs
      PROVE  \/ \E r \in old : s = grown(r)
             \/ \E p \in pairs : s = added(p) /\ \A r \in old : ~Same(r, p, ents)
  BY <1>1
<1>6. ASSUME NEW s \in arcs, NEW t \in arcs, s.src = t.src, s.dst = t.dst
      PROVE  s = t
  <2>1. CASE \E r \in old : s = grown(r) /\ \E q \in old : t = grown(q)
    BY <1>2, <1>6, <2>1 DEF RelsUnique
  <2>2. CASE \E r \in old : s = grown(r) /\ \E p \in pairs : t = added(p) /\ ~Same(r, p, ents)
    BY <1>2, <1>3, <1>6, <2>2 DEF Same
  <2>3. CASE \E r \in old : t = grown(r) /\ \E p \in pairs : s = added(p) /\ ~Same(r, p, ents)
    BY <1>2, <1>3, <1>6, <2>3 DEF Same
  <2>4. CASE \E p, q \in pairs : s = added(p) /\ t = added(q)
    <3>1. PICK p \in pairs, q \in pairs : s = added(p) /\ t = added(q)
      BY <2>4
    <3>2. p.from = q.from /\ p.to = q.to
      <4>1. /\ ents[p.from].id = ents[q.from].id
            /\ ents[p.to].id = ents[q.to].id
        BY <1>3, <1>6, <3>1
      <4> QED
        BY <4>1 DEF IdsUnique
    <3> QED
      BY <3>1, <3>2
  <2> QED
    BY <1>5, <2>1, <2>2, <2>3, <2>4
<1>7. \A r \in old : \E s \in arcs : s.src = r.src /\ s.dst = r.dst /\ r.docs \subseteq s.docs
  <2>1. \A r \in old : grown(r) \in arcs
    BY <1>1
  <2> QED
    BY <1>2, <2>1
<1>8. \A s \in arcs : \A d \in s.docs :
         (\E r \in old : d \in r.docs) \/ (\E p \in pairs : d \in p.docs)
  <2> SUFFICES ASSUME NEW s \in arcs, NEW d \in s.docs
               PROVE  (\E r \in old : d \in r.docs) \/ (\E p \in pairs : d \in p.docs)
    OBVIOUS
  <2>1. CASE \E r \in old : s = grown(r)
    <3>1. PICK r \in old : s = grown(r)
      BY <2>1
    <3>2. d \in r.docs \/ d \in news(r)
      BY <1>2, <3>1
    <3> QED
      BY <1>4, <3>2
  <2>2. CASE \E p \in pairs : s = added(p)
    BY <1>3, <2>2
  <2> QED
    BY <1>5, <2>1, <2>2
<1> QED
  BY <1>6, <1>7, <1>8 DEF RelsUnique

\* A graph is merged well: an id stands for one label, two entities are related once, and
\* unless somebody asks for a part of it, every source is one of its documents.
Unscoped == \A o \in Ops : req[o].scope = None
Merged(g) == IdsUnique(g.ents) /\ RelsUnique(g.rels) /\ (Unscoped => Listed(g))

\* What Extract makes of a copy that is merged well and has nothing of o in it yet.
LEMMA ExtractAdds ==
    ASSUME GraphInv, NEW o \in Ops, Extract(o),
           Merged(snap[o]), ~ Authored(o, snap[o].ents)
    PROVE  \E h : /\ snap' = [snap EXCEPT ![o] = h]
                  /\ Merged(h) /\ Extends(snap[o], h)
                  /\ \A q : Authored(q, h.ents) => q = o \/ Authored(q, snap[o].ents)
<1>1. TypeOK /\ pc[o] = "extract"
  BY DEF GraphInv, Extract
<1>2. PICK g : g = snap[o]
  OBVIOUS
<1>3. g \in Graph /\ g.ents \in EntityMap /\ g.rels \in SUBSET Relations /\ g.docs \in SUBSET Docs
  <2>1. g \in Graph
    BY <1>1, <1>2 DEF GraphInv, CopiesInHand, Holding, TypeOK
  <2> QED
    BY <2>1 DEF Graph
<1>4. PICK D : D = AllDocs(o) \cup objs[o]
  OBVIOUS
<1> DEFINE es(got, m, origin) == MergeEntities(snap[o].ents, NewEntities(o, got, m, origin))
           rs(got, m, origin) == MergeRelations(snap[o].rels, NewPairs(got, m, origin),
                                                es(got, m, origin))
           copy(got, m, origin, fl) == [status |-> "completed", docs |-> AllDocs(o) \cup objs[o],
                                        filter |-> fl, ents |-> es(got, m, origin),
                                        rels |-> rs(got, m, origin)]
<1>5. PICK got \in SUBSET objs[o] : \E m \in Resolve(got) :
        \E origin \in Origins(got, m) : \E fl \in MergedFilters(o) :
           snap' = [snap EXCEPT ![o] = copy(got, m, origin, fl)]
  BY <1>1 DEF Extract, TypeOK
<1>6. PICK m \in Resolve(got) : \E origin \in Origins(got, m) : \E fl \in MergedFilters(o) :
           snap' = [snap EXCEPT ![o] = copy(got, m, origin, fl)]
  BY <1>5
<1>7. PICK origin \in Origins(got, m), fl \in MergedFilters(o) :
           snap' = [snap EXCEPT ![o] = copy(got, m, origin, fl)]
  BY <1>6
<1>7a. PICK ents, arcs : ents = es(got, m, origin) /\ arcs = rs(got, m, origin)
  OBVIOUS
<1>8. got \in SUBSET Docs /\ got \subseteq D /\ g.docs \subseteq D
  BY <1>1, <1>2, <1>4 DEF TypeOK, AllDocs
<1>9. PICK new : new = NewEntities(o, got, m, origin)
  OBVIOUS
<1>10. PICK pairs : pairs = NewPairs(got, m, origin)
  OBVIOUS
<1>11. /\ new \in EntityMap /\ IdsUnique(new) /\ DOMAIN new = CanonLabels(got, m)
       /\ \A c \in DOMAIN new : new[c].id[1] = o /\ new[c].docs \subseteq got
  BY <1>8, <1>9, NewEntitiesType, NewEntitiesUnique
<1>12. IdsUnique(g.ents) /\ RelsUnique(g.rels) /\ ~ Authored(o, g.ents)
  BY <1>2 DEF Merged
<1>13. ents = MergeEntities(g.ents, new) /\ arcs = MergeRelations(g.rels, pairs, ents)
  BY <1>2, <1>7a, <1>9, <1>10
<1>14. /\ IdsUnique(ents)
       /\ \A l \in DOMAIN g.ents : /\ l \in DOMAIN ents
                                   /\ ents[l].id = g.ents[l].id
                                   /\ g.ents[l].docs \subseteq ents[l].docs
       /\ \A l \in DOMAIN ents : l \in DOMAIN g.ents \/ ents[l].id[1] = o
       /\ \A l \in DOMAIN ents : \A d \in ents[l].docs :
             \/ l \in DOMAIN g.ents /\ d \in g.ents[l].docs
             \/ l \in DOMAIN new /\ d \in new[l].docs
  BY <1>3, <1>11, <1>12, <1>13, MergeEntitiesExact
<1>15. DOMAIN new \subseteq DOMAIN ents
  BY <1>3, <1>11, <1>13, MergeEntitiesType
<1>16. /\ \A p, q \in pairs : p.from = q.from /\ p.to = q.to => p = q
       /\ \A p \in pairs : p.docs \subseteq got
       /\ \A p \in pairs : p.from \in DOMAIN ents /\ p.to \in DOMAIN ents
  <2>1. /\ \A p, q \in pairs : p.from = q.from /\ p.to = q.to => p = q
        /\ \A p \in pairs : p.docs \subseteq got
    BY <1>10, NewPairsUnique
  <2>2. \A p \in pairs : p.from \in DOMAIN new /\ p.to \in DOMAIN new
    BY <1>8, <1>10, <1>11, NewPairsType
  <2> QED
    BY <1>15, <2>1, <2>2
<1>17. /\ RelsUnique(arcs)
       /\ \A r \in g.rels : \E s \in arcs :
             s.src = r.src /\ s.dst = r.dst /\ r.docs \subseteq s.docs
       /\ \A s \in arcs : \A d \in s.docs :
             (\E r \in g.rels : d \in r.docs) \/ (\E p \in pairs : d \in p.docs)
  BY <1>3, <1>12, <1>13, <1>14, <1>16, MergeRelationsExact
<1>18. PICK h : h = [status |-> "completed", docs |-> D, filter |-> fl,
                     ents |-> ents, rels |-> arcs]
  OBVIOUS
<1>19. h.docs = D /\ h.ents = ents /\ h.rels = arcs
  BY <1>18
<1>20. Extends(g, h)
  BY <1>8, <1>14, <1>17, <1>19 DEF Extends
<1>21. Unscoped => Listed(h)
  <2> SUFFICES ASSUME Listed(g) PROVE Listed(h)
    BY <1>2 DEF Merged
  <2>1. \A l \in DOMAIN ents : ents[l].docs \subseteq D
    BY <1>8, <1>11, <1>14 DEF Listed
  <2>2. \A s \in arcs : s.docs \subseteq D
    BY <1>8, <1>16, <1>17 DEF Listed
  <2> QED
    BY <1>19, <2>1, <2>2 DEF Listed
<1>22. \A q : Authored(q, ents) => q = o \/ Authored(q, g.ents)
  BY <1>14 DEF Authored
<1>23. Merged(h)
  BY <1>14, <1>17, <1>19, <1>21 DEF Merged
<1>24. snap' = [snap EXCEPT ![o] = h]
  BY <1>4, <1>7, <1>7a, <1>18
<1> QED
  BY <1>2, <1>19, <1>20, <1>22, <1>23, <1>24

-----------------------------------------------------------------------------
(* The kinds of steps of an operation, for the proofs that follow.         *)

\* Where an operation has not extracted anything yet.
Before == {"new", "get", "match", "empty", "load", "extract"}

OnlyMoves(o) ==
    /\ req' = req /\ docSt' = docSt
    /\ \A p \in Ops : p # o => pc'[p] = pc[p] /\ snap'[p] = snap[p]
    /\ pc'[o] \in Before => pc[o] \in Before

Keeps(o) ==
    /\ graph' = graph /\ snap'[o] \in {snap[o], None}
    /\ \A p \in Ops : snap'[p] # None => stale'[p] = stale[p]
    /\ snap'[o] # None => pc[o] # "write" /\ pc'[o] # "write"

Takes(o) ==
    /\ graph' = graph /\ stale' = stale /\ pc'[o] # "write"
    /\ \E g \in Views(o) : g # None /\ snap'[o] = g

Stores(o) ==
    /\ snap[o] # None /\ snap'[o] = None
    /\ \A p \in Ops : p # o /\ snap[p] # None => stale'[p]
    /\ graph' # None /\ graph'.status # "processing"
    /\ graph'.docs = snap[o].docs /\ graph'.ents = snap[o].ents /\ graph'.rels = snap[o].rels

Begins(o) ==
    /\ pc[o] = "new" /\ graph = None /\ snap' = snap /\ stale' = stale /\ graph' # None
    /\ graph'.docs = {} /\ DOMAIN graph'.ents = {} /\ graph'.rels = {}

\* What ends an operation.
LEMMA EndKind ==
    ASSUME TypeOK, NEW o \in Ops, NEW to \in Pcs \ Before, End(o, to), UNCHANGED <<graph, req, docSt>>
    PROVE  OnlyMoves(o) /\ Keeps(o) /\ pc'[o] = to
BY DEF End, Forget, Goto, OnlyMoves, Keeps, TypeOK

\* What writes back a copy, with another status or as it is.
LEMMA StoreKind ==
    ASSUME GraphInv, NEW o \in Ops, NEW to \in Pcs \ Before, NEW g \in Graph, snap[o] # None,
           StoreAndForget(o, g, to), UNCHANGED <<req, docSt>>, g.status # "processing",
           g.docs = snap[o].docs, g.ents = snap[o].ents, g.rels = snap[o].rels
    PROVE  OnlyMoves(o) /\ Stores(o) /\ pc'[o] = to
<1>1. g # None
  BY GraphUpdateTypes
<1>2. TypeOK
  BY DEF GraphInv
<1>3. OnlyMoves(o) /\ pc'[o] = to /\ snap'[o] = None
  BY <1>2 DEF StoreAndForget, Forget, Goto, OnlyMoves, TypeOK
<1> QED
  BY <1>1, <1>3 DEF StoreAndForget, Stores

\* Every step of an operation is of one of these kinds.
LEMMA StepKinds ==
    ASSUME GraphInv, NEW o \in Ops, Create(o) \/ OpStep(o)
    PROVE  /\ OnlyMoves(o)
           /\ Keeps(o) \/ Takes(o) \/ Extract(o) \/ Stores(o) \/ Begins(o)
<1>1. TypeOK /\ snap \in [Ops -> Graph \cup {None}] /\ pc \in [Ops -> Pcs]
  BY DEF GraphInv, TypeOK
<1>2. {"done", "unread", "error", "raised"} \subseteq Pcs \ Before
  BY DEF Pcs, Before
<1>3. Handler(o) \in {"raised", "error"}
  BY DEF Handler
<1>4. ASSUME Raise(o), UNCHANGED <<graph, req, docSt>> PROVE OnlyMoves(o) /\ Keeps(o)
  BY <1>1, <1>2, <1>3, <1>4, EndKind DEF Raise
<1>5. CASE Create(o)
  <2>1. pc[o] = "new" /\ UNCHANGED <<docSt, req, snap, stale>> /\ snap[o] = None
    BY <1>5 DEF Create, GraphInv, CopiesInHand, Holding
  <2>2. (\A p \in Ops : p # o => pc'[p] = pc[p]) /\ "new" \in Before
    BY <1>1, <1>5 DEF Create, Goto, Before
  <2>3. OnlyMoves(o)
    BY <2>1, <2>2 DEF OnlyMoves
  <2>4. CASE UNCHANGED graph
    BY <2>1, <2>3, <2>4 DEF Keeps
  <2>5. CASE graph = None /\ graph' = [status |-> "processing", docs |-> {},
                                       filter |-> req[o].filter,
                                       ents |-> [l \in {} |-> None], rels |-> {}]
    <3>1. /\ graph'.docs = {} /\ graph'.rels = {}
          /\ graph'.ents = [l \in {} |-> None]
      BY <2>5
    <3>2. graph' # None => Begins(o)
      BY <2>1, <2>5, <3>1 DEF Begins
    <3> QED
      BY <2>3, <2>4, <2>5, <3>2
  <2> QED
    BY <1>5, <2>3, <2>4, <2>5 DEF Create
<1>6. CASE Get(o) \/ HandlerRead(o)
  <2>1. PICK g \in Views(o), to \in {"match", "failing"} :
          \/ /\ g # None /\ snap' = [snap EXCEPT ![o] = g] /\ Goto(o, to)
             /\ UNCHANGED stale
             /\ to = "match" => pc[o] = "get"
          \/ Raise(o)
          \/ End(o, "done")
    BY <1>6 DEF Get, HandlerRead, Ready
  <2>2. UNCHANGED <<graph, docSt, req>>
    BY <1>6 DEF Get, HandlerRead
  <2>3. CASE /\ g # None /\ snap' = [snap EXCEPT ![o] = g] /\ Goto(o, to)
             /\ UNCHANGED stale
             /\ to = "match" => pc[o] = "get"
    <3>1. \A p \in Ops : /\ pc'[p] = IF p = o THEN to ELSE pc[p]
                         /\ snap'[p] = IF p = o THEN g ELSE snap[p]
      BY <1>1, <2>3 DEF Goto
    <3>2. OnlyMoves(o)
      BY <2>2, <2>3, <3>1 DEF OnlyMoves, Before
    <3>3. Takes(o)
      BY <2>2, <2>3, <3>1 DEF Takes
    <3> QED
      BY <3>2, <3>3
  <2>4. CASE Raise(o)
    BY <1>4, <2>2, <2>4
  <2>5. CASE End(o, "done")
    BY <1>1, <1>2, <2>2, <2>5, EndKind
  <2> QED
    BY <2>1, <2>3, <2>4, <2>5
<1>7. CASE Match(o) \/ Load(o)
  <2>1. UNCHANGED <<graph, docSt, req>> /\ pc[o] \in {"match", "load"}
    BY <1>7 DEF Match, Load
  <2>2. \/ UNCHANGED <<snap, stale>> /\ \E to \in {"empty", "load", "extract"} : Goto(o, to)
        \/ End(o, "unread")
    BY <1>7 DEF Match, Load
  <2>3. CASE UNCHANGED <<snap, stale>> /\ \E to \in {"empty", "load", "extract"} : Goto(o, to)
    <3>1. /\ \A p \in Ops : p # o => pc'[p] = pc[p]
          /\ pc'[o] \in {"empty", "load", "extract"}
      BY <1>1, <2>3 DEF Goto
    <3> QED
      BY <2>1, <2>3, <3>1 DEF OnlyMoves, Keeps, Before
  <2>4. CASE End(o, "unread")
    BY <1>1, <1>2, <2>1, <2>4, EndKind
  <2> QED
    BY <2>2, <2>3, <2>4
<1>8. CASE Extract(o)
  <2>1. UNCHANGED <<docSt, req>> /\ Goto(o, "write") /\ \E h : snap' = [snap EXCEPT ![o] = h]
    BY <1>8 DEF Extract
  <2>2. \A p \in Ops : /\ pc'[p] = IF p = o THEN "write" ELSE pc[p]
                       /\ p # o => snap'[p] = snap[p]
    BY <1>1, <2>1 DEF Goto
  <2> QED
    BY <1>8, <2>1, <2>2 DEF OnlyMoves, Before
<1>9. CASE ExtractRaises(o)
  BY <1>4, <1>9 DEF ExtractRaises
<1>10. CASE Write(o)
  <2>1. UNCHANGED <<docSt, req>> /\ snap[o] # None /\ snap[o] \in Graph
        /\ snap[o].status # "processing"
    BY <1>1, <1>10 DEF Write, GraphInv, CopiesInHand, Holding
  <2>2. CASE \E to \in {"done", "raised", "error"} : StoreAndForget(o, snap[o], to)
    BY <1>2, <2>1, <2>2, StoreKind
  <2>3. CASE Raise(o) /\ UNCHANGED graph
    BY <1>4, <2>1, <2>3
  <2> QED
    BY <1>3, <1>10, <2>2, <2>3 DEF Write
<1>11. CASE WriteEmpty(o) \/ HandlerWrite(o)
  <2>1. UNCHANGED <<docSt, req>> /\ snap[o] # None /\ snap[o] \in Graph
    BY <1>1, <1>11 DEF WriteEmpty, HandlerWrite, GraphInv, CopiesInHand, Holding
  <2>2. PICK st \in {"completed", "failed"} :
          \/ StoreAndForget(o, [snap[o] EXCEPT !.status = st], "done")
          \/ End(o, "done") /\ UNCHANGED graph
    BY <1>11 DEF WriteEmpty, HandlerWrite
  <2>3. CASE StoreAndForget(o, [snap[o] EXCEPT !.status = st], "done")
    <3>1. PICK g : g = [snap[o] EXCEPT !.status = st]
      OBVIOUS
    <3>2. /\ g \in Graph /\ g.status = st
          /\ g.docs = snap[o].docs /\ g.ents = snap[o].ents /\ g.rels = snap[o].rels
      BY <2>1, <3>1 DEF Graph, Statuses
    <3> QED
      BY <1>2, <2>1, <2>3, <3>1, <3>2, StoreKind
  <2>4. CASE End(o, "done") /\ UNCHANGED graph
    BY <1>1, <1>2, <2>1, <2>4, EndKind
  <2> QED
    BY <2>2, <2>3, <2>4
<1> QED
  BY <1>5, <1>6, <1>7, <1>8, <1>9, <1>10, <1>11 DEF OpStep

-----------------------------------------------------------------------------
(* The row and its copies stay merged well, and a copy that is up to date  *)
(* has all that the row has.                                               *)

\* Well merged, and without anything of an operation that has not extracted yet.
SoundGraph(g) ==
    g # None => Merged(g) /\ \A o \in Ops : pc[o] \in Before => ~ Authored(o, g.ents)

UpToDate(o) ==
    snap[o] # None /\ ~ stale[o] /\ req[o].scope = None =>
        IF pc[o] = "write" THEN Extends(graph, snap[o]) ELSE snap[o] = graph

MergeInv == /\ SoundGraph(graph)
            /\ \A o \in Ops : SoundGraph(snap[o]) /\ UpToDate(o)

LEMMA SoundStays ==
    ASSUME req' = req, \A o \in Ops : pc'[o] \in Before => pc[o] \in Before,
           NEW g, SoundGraph(g)
    PROVE  SoundGraph(g)'
BY DEF SoundGraph, Merged, Unscoped

\* What get_graph shows is sound, and is the row itself if nobody asked for a part of it.
LEMMA ViewSound ==
    ASSUME GraphInv, NEW o \in Ops, NEW g \in Views(o), g # None, SoundGraph(graph)
    PROVE  SoundGraph(g) /\ (req[o].scope = None => g = graph)
<1>1. graph # None /\ g.ents = graph.ents /\ g.rels = graph.rels
  BY ViewType DEF GraphInv
<1>2. req[o].scope = None => g = graph
  BY DEF Views, View
<1> QED
  BY <1>1, <1>2 DEF SoundGraph, Merged, Unscoped

LEMMA MergeOpStep ==
    ASSUME GraphInv, MergeInv, NEW o \in Ops, Create(o) \/ OpStep(o)
    PROVE  MergeInv'
<1>1. OnlyMoves(o)
  BY StepKinds
<1>2. req' = req /\ \A p \in Ops : pc'[p] \in Before => pc[p] \in Before
  BY <1>1 DEF OnlyMoves
<1>3. \A g : SoundGraph(g) => SoundGraph(g)'
  BY <1>2, SoundStays
<1>4. \A p \in Ops : p # o => snap'[p] = snap[p] /\ pc'[p] = pc[p]
  BY <1>1 DEF OnlyMoves
<1>5. ASSUME NEW g, g = graph', SoundGraph(g),
             NEW h, h = snap'[o], SoundGraph(h)',
             \A p \in Ops : UpToDate(p)'
      PROVE  MergeInv'
  <2>1. SoundGraph(graph)'
    BY <1>3, <1>5 DEF SoundGraph
  <2>2. ASSUME NEW p \in Ops PROVE SoundGraph(snap[p])'
    <3>1. CASE p = o
      BY <1>5, <3>1 DEF SoundGraph
    <3>2. CASE p # o
      <4>1. PICK x : x = snap[p]
        OBVIOUS
      <4>2. SoundGraph(x)' /\ snap'[p] = x
        BY <1>3, <1>4, <3>2, <4>1 DEF MergeInv
      <4> QED
        BY <4>2 DEF SoundGraph
    <3> QED
      BY <3>1, <3>2
  <2> QED
    BY <1>5, <2>1, <2>2 DEF MergeInv
<1>6. PICK gr, sn : gr = graph' /\ sn = snap'[o]
  OBVIOUS
<1>7. SoundGraph(None)'
  BY DEF SoundGraph
<1>8. CASE Keeps(o)
  <2>1. SoundGraph(gr)
    BY <1>6, <1>8 DEF Keeps, MergeInv
  <2>2. SoundGraph(sn)'
    BY <1>3, <1>6, <1>7, <1>8 DEF Keeps, MergeInv
  <2>3. ASSUME NEW p \in Ops PROVE UpToDate(p)'
    BY <1>2, <1>4, <1>8 DEF Keeps, MergeInv, UpToDate
  <2> QED
    BY <1>5, <1>6, <2>1, <2>2, <2>3
<1>9. CASE Takes(o)
  <2>1. SoundGraph(gr)
    BY <1>6, <1>9 DEF Takes, MergeInv
  <2>2. PICK g \in Views(o) : g # None /\ snap'[o] = g
    BY <1>9 DEF Takes
  <2>3. SoundGraph(g) /\ (req[o].scope = None => g = graph)
    BY <2>2, ViewSound DEF MergeInv
  <2>4. SoundGraph(sn)'
    BY <1>3, <1>6, <2>2, <2>3
  <2>5. ASSUME NEW p \in Ops PROVE UpToDate(p)'
    BY <1>2, <1>4, <1>9, <2>2, <2>3 DEF Takes, MergeInv, UpToDate
  <2> QED
    BY <1>5, <1>6, <2>1, <2>4, <2>5
<1>10. CASE Extract(o)
  <2>1. UNCHANGED <<graph, stale>> /\ pc[o] = "extract" /\ Goto(o, "write")
    BY <1>10 DEF Extract
  <2>2. pc'[o] = "write"
    BY <2>1 DEF Goto, GraphInv, TypeOK
  <2>3. snap[o] # None
    BY <2>1 DEF GraphInv, CopiesInHand, Holding
  <2>4. Merged(snap[o]) /\ \A q \in Ops : pc[q] \in Before => ~ Authored(q, snap[o].ents)
    BY <2>3 DEF MergeInv, SoundGraph
  <2>5. PICK h : /\ snap' = [snap EXCEPT ![o] = h]
                 /\ Merged(h) /\ Extends(snap[o], h)
                 /\ \A q : Authored(q, h.ents) => q = o \/ Authored(q, snap[o].ents)
    BY <1>10, <2>1, <2>4, ExtractAdds DEF Before
  <2>6. snap'[o] = h
    BY <2>5 DEF GraphInv, TypeOK
  <2>7. SoundGraph(h)'
    <3>1. \A q \in Ops : pc'[q] \in Before => ~ Authored(q, h.ents)
      BY <1>2, <2>2, <2>4, <2>5 DEF Before
    <3> QED
      BY <1>2, <2>5, <3>1 DEF SoundGraph, Merged, Unscoped
  <2>8. ASSUME NEW p \in Ops PROVE UpToDate(p)'
    <3>1. CASE p = o
      BY <1>2, <2>1, <2>2, <2>3, <2>5, <2>6, <3>1 DEF MergeInv, UpToDate
    <3>2. CASE p # o
      BY <1>2, <1>4, <2>1, <3>2 DEF MergeInv, UpToDate
    <3> QED
      BY <3>1, <3>2
  <2>9. SoundGraph(gr)
    BY <1>6, <2>1 DEF MergeInv
  <2> QED
    BY <1>5, <1>6, <2>6, <2>7, <2>8, <2>9
<1>11. CASE Stores(o)
  <2>1. SoundGraph(gr)
    <3>1. SoundGraph(snap[o]) /\ snap[o] # None
      BY <1>11 DEF MergeInv, Stores
    <3>2. gr.docs = snap[o].docs /\ gr.ents = snap[o].ents /\ gr.rels = snap[o].rels
      BY <1>6, <1>11 DEF Stores
    <3> QED
      BY <3>1, <3>2 DEF SoundGraph, Merged, Listed
  <2>2. SoundGraph(sn)'
    BY <1>6, <1>7, <1>11 DEF Stores
  <2>3. ASSUME NEW p \in Ops PROVE UpToDate(p)'
    BY <1>4, <1>11 DEF Stores, UpToDate
  <2> QED
    BY <1>5, <1>6, <2>1, <2>2, <2>3
<1>12. CASE Begins(o)
  <2>1. SoundGraph(gr)
    BY <1>6, <1>12 DEF Begins, SoundGraph, Merged, IdsUnique, RelsUnique, Listed, Authored
  <2>2. \A p \in Ops : snap'[p] = None
    BY <1>12 DEF Begins, GraphInv, CopiesInHand
  <2>3. SoundGraph(sn)' /\ \A p \in Ops : UpToDate(p)'
    BY <1>6, <1>7, <2>2 DEF UpToDate
  <2> QED
    BY <1>5, <1>6, <2>1, <2>3
<1> QED
  BY <1>8, <1>9, <1>10, <1>11, <1>12, StepKinds

LEMMA MergeStep ==
    ASSUME GraphInv, MergeInv, [Next]_vars
    PROVE  MergeInv'
<1>1. CASE \E o \in Ops : Create(o) \/ OpStep(o)
  BY <1>1, MergeOpStep
<1>2. CASE Crash
  <2>1. /\ graph' = graph /\ req' = req
        /\ \A o \in Ops : snap'[o] = None /\ (pc'[o] \in Before => pc[o] \in Before)
    BY <1>2 DEF Crash, Before
  <2>2. PICK g : g = graph
    OBVIOUS
  <2>3. SoundGraph(g)' /\ SoundGraph(None)'
    BY <2>1, <2>2, SoundStays DEF MergeInv, SoundGraph
  <2>4. SoundGraph(graph)' /\ \A o \in Ops : SoundGraph(snap[o])'
    BY <2>1, <2>2, <2>3 DEF SoundGraph
  <2> QED
    BY <2>1, <2>4 DEF MergeInv, UpToDate
<1>3. CASE UNCHANGED <<graph, req, pc, snap, stale>>
  BY <1>3 DEF MergeInv, SoundGraph, UpToDate, Merged, Unscoped
<1> QED
  BY <1>1, <1>2, <1>3 DEF Next, Ingest, Delete, vars

LEMMA MergeHolds == Spec => [](GraphInv /\ MergeInv)
<1>1. Init => MergeInv
  BY DEF Init, MergeInv, SoundGraph, UpToDate
<1> QED
  BY <1>1, MergeStep, InvHolds, PTL DEF Spec

\* However operations interleave and fail, adding documents to a graph adds what is new in
\* them and nothing else (_merge_graph_data).
THEOREM MergesAreExactAlways == Spec => []MergesAreExact
<1>1. GraphInv /\ MergeInv => MergesAreExact
  BY DEF MergeInv, SoundGraph, Merged, RelsUnique, Unscoped, Listed,
         MergesAreExact, RelationsUnique, SourcesAreListed
<1> QED
  BY <1>1, MergeHolds, PTL

\* A step of an operation that is up to date never takes anything away from the graph
\* (update_graph).
THEOREM NothingForgottenAlways == Spec => NothingForgotten
<1> DEFINE A == \A o \in Ops :
         (snap[o] # None /\ pc'[o] # pc[o] /\ ~stale[o] /\ req[o].scope = None) =>
             /\ graph.docs \subseteq graph'.docs
             /\ \A l \in DOMAIN graph.ents :
                   /\ l \in DOMAIN graph'.ents
                   /\ graph'.ents[l].id = graph.ents[l].id
                   /\ graph.ents[l].docs \subseteq graph'.ents[l].docs
             /\ \A r \in graph.rels : \E s \in graph'.rels :
                   s.src = r.src /\ s.dst = r.dst /\ r.docs \subseteq s.docs
<1>1. ASSUME GraphInv, MergeInv, [Next]_vars PROVE [A]_vars
  <2> SUFFICES ASSUME NEW o \in Ops, snap[o] # None, pc'[o] # pc[o], ~ stale[o],
                      req[o].scope = None
               PROVE  Extends(graph, graph')
    BY DEF Extends
  <2>1. CASE graph' = graph
    BY <2>1, ExtendsItself
  <2>2. CASE \E p \in Ops : Create(p) \/ OpStep(p)
    <3>1. PICK p \in Ops : Create(p) \/ OpStep(p)
      BY <2>2
    <3>2. OnlyMoves(p) /\ (Keeps(p) \/ Takes(p) \/ Extract(p) \/ Stores(p) \/ Begins(p))
      BY <1>1, <3>1, StepKinds
    <3>3. p = o
      BY <3>2 DEF OnlyMoves
    <3>4. CASE Stores(o)
      <4>1. Extends(graph, snap[o])
        BY <1>1, ExtendsItself DEF MergeInv, UpToDate
      <4> QED
        BY <3>4, <4>1 DEF Stores, Extends
    <3>5. ~ Begins(o)
      BY <1>1 DEF Begins, GraphInv, CopiesInHand
    <3> QED
      BY <2>1, <3>2, <3>3, <3>4, <3>5 DEF Keeps, Takes, Extract
  <2>3. CASE UNCHANGED graph
    BY <2>1, <2>3
  <2> QED
    BY <1>1, <2>2, <2>3 DEF Next, Crash, Ingest, Delete, vars
<1> HIDE DEF A
<1>3. Spec => [][A]_vars
  BY <1>1, MergeHolds, PTL DEF Spec
<1> QED
  BY <1>3 DEF A, NothingForgotten
-----------------------------------------------------------------------------
(* Why a graph says "processing".                                          *)

\* A build that is at work, or could not go on.
Building(o) == req[o].create /\ (Active(o) \/ pc[o] \in {"unread", "crashed"})

\* Besides, a graph that says "processing" is still the stub: it has no documents, so
\* that get_graph shows it whatever the scope.
ExplainedInv ==
    graph # None /\ graph.status = "processing" =>
        /\ graph.docs = {}
        /\ ~ muted => \E o \in Ops : Building(o)

\* A build ends by writing, because it read nothing, or when an error is swallowed.
LEMMA BuildGoesOn ==
    ASSUME GraphInv, NEW o \in Ops, OpStep(o), req[o].create,
           graph # None, graph.docs = {}
    PROVE  Building(o)' \/ muted' \/ Stores(o)
<1>1. TypeOK /\ snap \in [Ops -> Graph \cup {None}] /\ pc \in [Ops -> Pcs]
  BY DEF GraphInv, TypeOK
<1>2. req' = req /\ Handler(o) = "raised"
  BY StepKinds DEF OnlyMoves, Handler
<1>3. ASSUME NEW to \in {"match", "empty", "load", "extract", "write", "failing", "raised", "unread"},
             Goto(o, to)
      PROVE  Building(o)'
  <2>1. pc'[o] = to
    BY <1>1, <1>3 DEF Goto
  <2> QED
    BY <1>2, <2>1 DEF Building, Active
<1>4. Raise(o) => Building(o)'
  BY <1>2, <1>3 DEF Raise, End, Forget
<1>5. CASE Get(o) \/ Match(o) \/ Extract(o) \/ ExtractRaises(o)
  BY <1>3, <1>4, <1>5 DEF Get, Match, Extract, ExtractRaises
<1>6. CASE Load(o)
  BY <1>3, <1>6 DEF Load, End, Forget
<1>7. CASE Write(o)
  <2>1. Stores(o) \/ ~ \E to : StoreAndForget(o, snap[o], to)
    <3>1. snap[o] # None /\ snap[o] \in Graph /\ snap[o].status = "completed"
      BY <1>1, <1>7 DEF Write, GraphInv, CopiesInHand, Holding
    <3>2. (snap[o] # None /\ snap'[o] = None) \/ ~ \E to : StoreAndForget(o, snap[o], to)
      BY <1>1, <3>1 DEF StoreAndForget, Forget
    <3> QED
      BY <3>1, <3>2 DEF StoreAndForget, Stores
  <2> QED
    BY <1>4, <1>7, <2>1 DEF Write
<1>8. CASE WriteEmpty(o) \/ HandlerWrite(o)
  <2>1. snap[o] # None /\ snap[o] \in Graph
    BY <1>1, <1>8 DEF WriteEmpty, HandlerWrite, GraphInv, CopiesInHand, Holding
  <2>2. muted' \/ \E st \in {"completed", "failed"} :
                     StoreAndForget(o, [snap[o] EXCEPT !.status = st], "done")
    BY <1>8 DEF WriteEmpty, HandlerWrite
  <2>3. ASSUME NEW st \in {"completed", "failed"},
               StoreAndForget(o, [snap[o] EXCEPT !.status = st], "done")
        PROVE  Stores(o)
    <3>1. PICK g : g = [snap[o] EXCEPT !.status = st]
      OBVIOUS
    <3>2. /\ g \in Graph /\ g # None /\ g.status = st
          /\ g.docs = snap[o].docs /\ g.ents = snap[o].ents /\ g.rels = snap[o].rels
      BY <2>1, <3>1, NoneAssumption DEF Graph, Statuses
    <3>3. graph' = g /\ snap'[o] = None
      BY <1>1, <2>3, <3>1 DEF StoreAndForget, Forget
    <3> QED
      BY <2>1, <2>3, <3>2, <3>3 DEF StoreAndForget, Stores
  <2> QED
    BY <2>2, <2>3
<1>9. CASE HandlerRead(o)
  <2>1. View(o) # None
    BY DEF View
  <2> QED
    BY <1>3, <1>9, <2>1 DEF HandlerRead
<1> QED
  BY <1>5, <1>6, <1>7, <1>8, <1>9 DEF OpStep

\* What was swallowed is not forgotten.
LEMMA MutedStays ==
    ASSUME [Next]_vars, muted
    PROVE  muted'
BY DEF Next, OpStep, Create, Get, Match, Load, Extract, ExtractRaises, Write, WriteEmpty,
       HandlerRead, HandlerWrite, Crash, Ingest, Delete, vars

LEMMA ExplainedStep ==
    ASSUME GraphInv, ExplainedInv, [Next]_vars
    PROVE  ExplainedInv'
<1> SUFFICES ASSUME graph' # None, graph'.status = "processing"
             PROVE  graph'.docs = {} /\ (~ muted' => \E o \in Ops : Building(o)')
  BY DEF ExplainedInv
<1>1. ASSUME NEW o \in Ops, Create(o), graph = None
      PROVE  graph'.docs = {} /\ (~ muted' => \E p \in Ops : Building(p)')
  <2>1. /\ pc[o] = "new" /\ req' = req
        /\ graph'.docs = {}
        /\ muted' \/ Goto(o, "get")
    BY <1>1 DEF Create
  <2>2. req[o].create
    BY <2>1 DEF GraphInv, CopiesInHand, BuildOnly
  <2>3. Goto(o, "get") => Building(o)'
    BY <2>1, <2>2 DEF Goto, Building, Active, GraphInv, TypeOK
  <2> QED
    BY <2>1, <2>3
<1>2. ASSUME graph' = graph,
             \A o \in Ops : Building(o) => Building(o)' \/ muted'
      PROVE  graph'.docs = {} /\ (~ muted' => \E p \in Ops : Building(p)')
  BY <1>2, MutedStays DEF ExplainedInv
<1>3. ASSUME NEW o \in Ops, Create(o), graph # None
      PROVE  graph'.docs = {} /\ (~ muted' => \E p \in Ops : Building(p)')
  <2>1. graph' = graph /\ req' = req /\ pc[o] = "new"
    BY <1>3 DEF Create
  <2>2. \A p \in Ops : p # o => pc'[p] = pc[p]
    BY <1>3, StepKinds DEF OnlyMoves
  <2>3. ~ Building(o)
    BY <2>1 DEF Building, Active
  <2>4. \A p \in Ops : Building(p) => Building(p)'
    BY <2>1, <2>2, <2>3 DEF Building, Active
  <2> QED
    BY <1>2, <2>1, <2>4
<1>4. ASSUME NEW o \in Ops, OpStep(o)
      PROVE  graph'.docs = {} /\ (~ muted' => \E p \in Ops : Building(p)')
  <2>1. OnlyMoves(o) /\ (Keeps(o) \/ Takes(o) \/ Extract(o) \/ Stores(o) \/ Begins(o))
    BY <1>4, StepKinds
  <2>2. ~ Stores(o)
    BY DEF Stores
  <2>3. ~ Begins(o)
    BY <1>4 DEF Begins, OpStep, Get, Match, Load, Extract, ExtractRaises, Write, WriteEmpty,
       HandlerRead, HandlerWrite
  <2>4. graph' = graph
    BY <2>1, <2>2, <2>3 DEF Keeps, Takes, Extract
  <2>5. graph # None /\ graph.docs = {}
    BY <2>4 DEF ExplainedInv
  <2>6. Building(o) => Building(o)' \/ muted'
    BY <1>4, <2>2, <2>5, BuildGoesOn DEF Building
  <2>7. \A p \in Ops : p # o => (Building(p) => Building(p)')
    BY <2>1 DEF OnlyMoves, Building, Active
  <2> QED
    BY <1>2, <2>4, <2>6, <2>7
<1>5. CASE Crash
  <2>1. \A p \in Ops : Building(p) => Building(p)'
    BY <1>5 DEF Crash, Building, Active
  <2>2. graph' = graph
    BY <1>5 DEF Crash
  <2> QED
    BY <1>2, <2>1, <2>2
<1>6. CASE UNCHANGED <<graph, req, pc, muted>>
  <2>1. \A p \in Ops : Building(p) => Building(p)'
    BY <1>6 DEF Building, Active
  <2> QED
    BY <1>2, <1>6, <2>1
<1> QED
  BY <1>1, <1>3, <1>4, <1>5, <1>6 DEF Next, Ingest, Delete, vars

\* A graph that still says "processing" has a build at work, or one that crashed or read
\* nothing, unless a database error was swallowed (_build_graph_async).
THEOREM ProcessingIsExplainedAlways == Spec => []ProcessingIsExplained
<1>1. Init => ExplainedInv
  BY DEF Init, ExplainedInv
<1>2. ExplainedInv => ProcessingIsExplained
  BY DEF ExplainedInv, ProcessingIsExplained, Building
<1> QED
  BY <1>1, <1>2, ExplainedStep, InvHolds, PTL DEF Spec

-----------------------------------------------------------------------------
(* Walks reach what they should (GraphSearch).  The functions that Within  *)
(* and the inner loop of a search are made of are unfolded by induction.   *)

\* Induction over the naturals, for sets: a number outside of S would give a least
\* interval 1..n of those with n outside of S.
LEMMA SetInduction ==
    ASSUME NEW S, 0 \in S, \A n \in Nat : n \in S => n + 1 \in S
    PROVE  Nat \subseteq S
<1> SUFFICES ASSUME NEW k \in Nat, k \notin S PROVE FALSE
  OBVIOUS
<1> DEFINE T == {1..n : n \in Nat \ S}
<1>1. T # {}
  OBVIOUS
<1>2. T \subseteq FiniteSubsetsOf(Nat)
  <2> SUFFICES ASSUME NEW n \in Nat PROVE 1..n \in SUBSET Nat /\ IsFiniteSet(1..n)
    BY DEF FiniteSubsetsOf
  <2> QED
    BY FS_Interval
<1>3. IsWellFoundedOn(StrictSubsetOrdering(Nat), FiniteSubsetsOf(Nat))
  BY FS_StrictSubsetOrderingWellFounded
<1> HIDE DEF T
<1>4. PICK X \in T : \A Y \in T : ~(<<Y, X>> \in StrictSubsetOrdering(Nat))
  BY <1>1, <1>2, <1>3, WFMin
<1>5. PICK n \in Nat \ S : X = 1..n
  BY <1>4 DEF T
<1>6. n # 0 /\ n - 1 \in Nat /\ n - 1 \notin S
  <2>1. n # 0
    OBVIOUS
  <2> QED
    BY <2>1
<1>7. 1..(n - 1) \in T
  BY <1>6 DEF T
<1>8. 1..(n - 1) \subseteq 1..n /\ 1..(n - 1) # 1..n /\ 1..n \in SUBSET Nat
  BY <1>6
<1>9. <<1..(n - 1), X>> \in StrictSubsetOrdering(Nat)
  BY <1>5, <1>8 DEF StrictSubsetOrdering
<1> QED
  BY <1>4, <1>7, <1>9

\* Beside and Within, with the entities P and the relations Q as parameters.
Near(P, Q, T, close) ==
    {x \in P : \E i \in DOMAIN Q, e \in T : (close => Q[i].together) /\ {e, x} = Q[i].ends}

IsReach(g, P, Q, S, close, n) ==
    g = [m \in 0..n |-> IF m = 0 THEN S ELSE g[m - 1] \cup Near(P, Q, g[m - 1], close)]

Reach(P, Q, S, close, n) ==
    LET g == CHOOSE g : IsReach(g, P, Q, S, close, n) IN g[n]

\* The function that Within chooses is the one of IsReach.
LEMMA WithinIsReach ==
    \A S, close, n : Within(S, close, n) = Reach(present, rels, S, close, n)
BY DEF Within, Reach, IsReach, Beside, Near

\* There is one for each depth.
LEMMA ReachExists ==
    ASSUME NEW P, NEW Q, NEW S, NEW close, NEW n \in Nat
    PROVE  \E g : IsReach(g, P, Q, S, close, n)
<1> DEFINE H == {k \in Nat : \E g : IsReach(g, P, Q, S, close, k)}
<1>1. 0 \in H
  <2> DEFINE g == [m \in 0..0 |-> S]
  <2>1. IsReach(g, P, Q, S, close, 0)
    BY DEF IsReach
  <2> QED
    BY <2>1
<1>2. ASSUME NEW k \in Nat, k \in H PROVE k + 1 \in H
  <2>1. PICK g : IsReach(g, P, Q, S, close, k)
    BY <1>2
  <2> DEFINE h == [m \in 0..(k + 1) |-> IF m = k + 1 THEN g[k] \cup Near(P, Q, g[k], close) ELSE g[m]]
  <2>2. \A m \in 0..k : g[m] = IF m = 0 THEN S ELSE g[m - 1] \cup Near(P, Q, g[m - 1], close)
    BY <2>1 DEF IsReach
  <2>3. ASSUME NEW m \in 0..(k + 1)
        PROVE  h[m] = IF m = 0 THEN S ELSE h[m - 1] \cup Near(P, Q, h[m - 1], close)
    <3>1. CASE m = k + 1
      <4>1. m - 1 = k /\ k \in 0..(k + 1) /\ k # k + 1 /\ m # 0
        BY <3>1
      <4>2. h[m - 1] = g[k]
        BY <4>1
      <4> QED
        BY <3>1, <4>1, <4>2
    <3>2. CASE m # k + 1
      <4>1. m \in 0..k /\ h[m] = g[m]
        BY <3>2
      <4>2. CASE m = 0
        BY <4>1, <4>2, <2>2
      <4>3. CASE m # 0
        <5>1. m - 1 \in 0..(k + 1) /\ m - 1 # k + 1
          BY <3>2, <4>3
        <5>2. h[m - 1] = g[m - 1]
          BY <5>1
        <5> QED
          BY <4>1, <4>3, <5>2, <2>2
      <4> QED
        BY <4>2, <4>3
    <3> QED
      BY <3>1, <3>2
  <2>4. h = [m \in 0..(k + 1) |-> IF m = 0 THEN S ELSE h[m - 1] \cup Near(P, Q, h[m - 1], close)]
    BY <2>3
  <2>5. IsReach(h, P, Q, S, close, k + 1)
    BY <2>4 DEF IsReach
  <2> QED
    BY <2>5
<1> HIDE DEF H
<1>3. Nat \subseteq H
  BY <1>1, <1>2, SetInduction
<1> QED
  BY <1>3 DEF H

\* Two such functions agree where both are defined.
LEMMA ReachUnique ==
    ASSUME NEW P, NEW Q, NEW S, NEW close, NEW n \in Nat, NEW k \in Nat,
           NEW g, IsReach(g, P, Q, S, close, n), NEW h, IsReach(h, P, Q, S, close, k)
    PROVE  \A m \in Nat : m \in 0..n /\ m \in 0..k => g[m] = h[m]
<1>1. \A m \in 0..n : g[m] = IF m = 0 THEN S ELSE g[m - 1] \cup Near(P, Q, g[m - 1], close)
  BY DEF IsReach
<1>2. \A m \in 0..k : h[m] = IF m = 0 THEN S ELSE h[m - 1] \cup Near(P, Q, h[m - 1], close)
  BY DEF IsReach
<1> DEFINE H == {m \in Nat : m \in 0..n /\ m \in 0..k => g[m] = h[m]}
<1>3. 0 \in H
  BY <1>1, <1>2
<1>4. ASSUME NEW m \in Nat, m \in H PROVE m + 1 \in H
  <2> SUFFICES ASSUME m + 1 \in 0..n, m + 1 \in 0..k PROVE g[m + 1] = h[m + 1]
    OBVIOUS
  <2>1. m \in 0..n /\ m \in 0..k /\ m + 1 # 0 /\ (m + 1) - 1 = m
    OBVIOUS
  <2>2. g[m] = h[m]
    BY <1>4, <2>1
  <2>3. g[m + 1] = g[m] \cup Near(P, Q, g[m], close)
    BY <1>1, <2>1
  <2>4. h[m + 1] = h[m] \cup Near(P, Q, h[m], close)
    BY <1>2, <2>1
  <2> QED
    BY <2>2, <2>3, <2>4
<1> HIDE DEF H
<1>5. Nat \subseteq H
  BY <1>3, <1>4, SetInduction
<1> QED
  BY <1>5 DEF H

\* Nothing but the seeds is within no hop; each hop adds the neighbours.
LEMMA ReachStart ==
    ASSUME NEW P, NEW Q, NEW S, NEW close
    PROVE  Reach(P, Q, S, close, 0) = S
<1> DEFINE g == CHOOSE g : IsReach(g, P, Q, S, close, 0)
<1>1. IsReach(g, P, Q, S, close, 0)
  BY ReachExists
<1>2. Reach(P, Q, S, close, 0) = g[0]
  BY DEF Reach
<1> HIDE DEF g
<1>3. \A m \in 0..0 : g[m] = IF m = 0 THEN S ELSE g[m - 1] \cup Near(P, Q, g[m - 1], close)
  BY <1>1 DEF IsReach
<1> QED
  BY <1>2, <1>3

LEMMA ReachNext ==
    ASSUME NEW P, NEW Q, NEW S, NEW close, NEW n \in Nat
    PROVE  Reach(P, Q, S, close, n + 1)
             = Reach(P, Q, S, close, n) \cup Near(P, Q, Reach(P, Q, S, close, n), close)
<1> DEFINE G(k) == CHOOSE g : IsReach(g, P, Q, S, close, k)
<1>1. IsReach(G(n), P, Q, S, close, n)
  BY ReachExists
<1>2. IsReach(G(n + 1), P, Q, S, close, n + 1)
  <2>1. n + 1 \in Nat
    OBVIOUS
  <2>2. \E g : IsReach(g, P, Q, S, close, n + 1)
    BY <2>1, ReachExists
  <2> QED
    BY <2>2
<1>3. Reach(P, Q, S, close, n) = G(n)[n] /\ Reach(P, Q, S, close, n + 1) = G(n + 1)[n + 1]
  BY DEF Reach
<1> HIDE DEF G
<1>4. n \in 0..n /\ n \in 0..(n + 1) /\ n + 1 \in 0..(n + 1) /\ n + 1 # 0 /\ (n + 1) - 1 = n
  OBVIOUS
<1>5. G(n)[n] = G(n + 1)[n]
  <2>1. n + 1 \in Nat
    OBVIOUS
  <2>2. \A m \in Nat : m \in 0..n /\ m \in 0..(n + 1) => G(n)[m] = G(n + 1)[m]
    BY <1>1, <1>2, <2>1, ReachUnique
  <2> QED
    BY <1>4, <2>2
<1>6. \A m \in 0..(n + 1) :
         G(n + 1)[m] = IF m = 0 THEN S ELSE G(n + 1)[m - 1] \cup Near(P, Q, G(n + 1)[m - 1], close)
  BY <1>2 DEF IsReach
<1>7. G(n + 1)[n + 1] = G(n + 1)[n] \cup Near(P, Q, G(n + 1)[n], close)
  BY <1>4, <1>6
<1> QED
  BY <1>3, <1>5, <1>7

LEMMA ReachStep ==
    ASSUME NEW P, NEW Q, NEW S, NEW close, NEW h \in Nat \ {0}, NEW T, T = Reach(P, Q, S, close, h - 1)
    PROVE  Reach(P, Q, S, close, h) = T \cup Near(P, Q, T, close)
<1>1. PICK n \in Nat : n = h - 1
  OBVIOUS
<1>2. n + 1 = h
  BY <1>1
<1> QED
  BY <1>1, <1>2, ReachNext

\* The neighbour of what is within n hops is within n + 1.
LEMMA ReachAdds ==
    ASSUME NEW P, NEW Q, NEW S, NEW close, NEW n \in Nat,
           NEW x \in Reach(P, Q, S, close, n), NEW y \in Near(P, Q, {x}, close)
    PROVE  y \in Reach(P, Q, S, close, n + 1)
<1>1. y \in Near(P, Q, Reach(P, Q, S, close, n), close)
  BY DEF Near
<1> QED
  BY <1>1, ReachNext

\* More hops reach no less.
LEMMA ReachGrows ==
    ASSUME NEW P, NEW Q, NEW S, NEW close
    PROVE  \A m, n \in Nat : m <= n => Reach(P, Q, S, close, m) \subseteq Reach(P, Q, S, close, n)
<1> DEFINE R(n) == Reach(P, Q, S, close, n)
<1>1. \A n \in Nat : R(n) \subseteq R(n + 1)
  BY ReachNext
<1> HIDE DEF R
<1> SUFFICES ASSUME NEW m \in Nat PROVE \A n \in Nat : m <= n => R(m) \subseteq R(n)
  BY DEF R
<1> DEFINE H == {k \in Nat : R(m) \subseteq R(m + k)}
<1>2. 0 \in H
  OBVIOUS
<1>3. ASSUME NEW k \in Nat, k \in H PROVE k + 1 \in H
  <2>1. R(m) \subseteq R(m + k)
    BY <1>3
  <2>2. R(m + k) \subseteq R((m + k) + 1) /\ (m + k) + 1 = m + (k + 1)
    BY <1>1
  <2> QED
    BY <2>1, <2>2
<1> HIDE DEF H
<1>4. Nat \subseteq H
  BY <1>2, <1>3, SetInduction
<1>5. \A k \in Nat : R(m) \subseteq R(m + k)
  BY <1>4 DEF H
<1> SUFFICES ASSUME NEW n \in Nat, m <= n PROVE R(m) \subseteq R(n)
  OBVIOUS
<1>6. n - m \in Nat /\ m + (n - m) = n
  OBVIOUS
<1> QED
  BY <1>5, <1>6

\* A hop that finds nothing is the last.
LEMMA ReachEnds ==
    ASSUME NEW P, NEW Q, NEW S, NEW close, NEW m \in Nat,
           Near(P, Q, Reach(P, Q, S, close, m), close) \subseteq Reach(P, Q, S, close, m)
    PROVE  \A n \in Nat : m <= n => Reach(P, Q, S, close, n) = Reach(P, Q, S, close, m)
<1> DEFINE R(n) == Reach(P, Q, S, close, n)
<1>1. \A n \in Nat : R(n + 1) = R(n) \cup Near(P, Q, R(n), close)
  BY ReachNext
<1>2. Near(P, Q, R(m), close) \subseteq R(m)
  OBVIOUS
<1> HIDE DEF R
<1> SUFFICES \A n \in Nat : m <= n => R(n) = R(m)
  BY DEF R
<1> DEFINE H == {k \in Nat : R(m + k) = R(m)}
<1>3. 0 \in H
  OBVIOUS
<1>4. ASSUME NEW k \in Nat, k \in H PROVE k + 1 \in H
  <2>1. R(m + k) = R(m)
    BY <1>4
  <2>2. R((m + k) + 1) = R(m + k) \cup Near(P, Q, R(m + k), close) /\ (m + k) + 1 = m + (k + 1)
    BY <1>1
  <2>3. R(m + (k + 1)) = R(m) \cup Near(P, Q, R(m), close)
    BY <2>1, <2>2
  <2> QED
    BY <1>2, <2>3
<1> HIDE DEF H
<1>5. Nat \subseteq H
  BY <1>3, <1>4, SetInduction
<1>6. \A k \in Nat : R(m + k) = R(m)
  BY <1>5 DEF H
<1> SUFFICES ASSUME NEW n \in Nat, m <= n PROVE R(n) = R(m)
  OBVIOUS
<1>7. n - m \in Nat /\ m + (n - m) = n
  OBVIOUS
<1> QED
  BY <1>6, <1>7

\* What a walk reaches from within a set that is closed up to the depth n stays in it.
LEMMA ReachStays ==
    ASSUME NEW P, NEW Q, NEW S, NEW close, NEW V, NEW n \in Nat
    PROVE  /\ S \subseteq V
           /\ \A m \in Nat : m < n =>
                 \A x \in V : x \in Reach(P, Q, S, close, m) => Near(P, Q, {x}, close) \subseteq V
           => Reach(P, Q, S, close, n) \subseteq V
<1> DEFINE R(k) == Reach(P, Q, S, close, k)
<1>1. R(0) = S
  BY ReachStart
<1>1a. \A k \in Nat : R(k + 1) = R(k) \cup Near(P, Q, R(k), close)
  <2> SUFFICES ASSUME NEW k \in Nat PROVE R(k + 1) = R(k) \cup Near(P, Q, R(k), close)
    OBVIOUS
  <2> QED
    BY ReachNext
<1> SUFFICES ASSUME S \subseteq V,
                    \A m \in Nat : m < n => \A x \in V : x \in R(m) => Near(P, Q, {x}, close) \subseteq V
             PROVE  R(n) \subseteq V
  OBVIOUS
<1>2. \A m \in Nat : m < n => \A x \in V : x \in R(m) => Near(P, Q, {x}, close) \subseteq V
  OBVIOUS
<1>3. \A T : \A y \in Near(P, Q, T, close) : \E x \in T : y \in Near(P, Q, {x}, close)
  BY DEF Near
<1> HIDE DEF R
<1> DEFINE H == {k \in Nat : k <= n => R(k) \subseteq V}
<1>4. 0 \in H
  BY <1>1
<1>5. ASSUME NEW k \in Nat, k \in H PROVE k + 1 \in H
  <2> SUFFICES ASSUME k + 1 <= n, NEW y \in R(k + 1) PROVE y \in V
    OBVIOUS
  <2>1. R(k) \subseteq V /\ k < n
    BY <1>5
  <2>2. CASE y \in R(k)
    BY <2>1, <2>2
  <2>3. CASE y \in Near(P, Q, R(k), close)
    <3>1. PICK x \in R(k) : y \in Near(P, Q, {x}, close)
      BY <1>3, <2>3
    <3> QED
      BY <1>2, <2>1, <3>1
  <2> QED
    BY <1>1a, <2>2, <2>3
<1> HIDE DEF H
<1>6. Nat \subseteq H
  BY <1>4, <1>5, SetInduction
<1> QED
  BY <1>6 DEF H, R

-----------------------------------------------------------------------------
(* What the inner loop finds.                                              *)

\* The function that FoldLeft chooses in Follow, on the sets of positions in the list.
IsIter(g, path, N) ==
    g = [s \in SUBSET N |->
           IF s = {} THEN [visited |-> visited, added |-> <<>>]
           ELSE LET i == Max(s) IN FollowRelation(g[s \ {i}], path, rels[i])]

\* The last position is the largest.
LEMMA MaxIs ==
    ASSUME NEW k \in Nat, NEW s \in SUBSET (1..(k + 1)), k + 1 \in s
    PROVE  Max(s) = k + 1
<1>1. k + 1 \in s /\ \A y \in s : k + 1 >= y
  OBVIOUS
<1>2. \A x \in s : (\A y \in s : x >= y) => x = k + 1
  <2> SUFFICES ASSUME NEW x \in s, \A y \in s : x >= y PROVE x = k + 1
    OBVIOUS
  <2>1. x \in 1..(k + 1) /\ x >= k + 1
    OBVIOUS
  <2> QED
    BY <2>1
<1> QED
  BY <1>1, <1>2 DEF Max

\* There is one for a list of any length.
LEMMA IterExists ==
    ASSUME NEW path, NEW n \in Nat
    PROVE  \E g : IsIter(g, path, 1..n)
<1> DEFINE None0 == [visited |-> visited, added |-> <<>>]
<1> DEFINE H == {k \in Nat : \E g : IsIter(g, path, 1..k)}
<1>1. 0 \in H
  <2> DEFINE g == [s \in SUBSET (1..0) |-> None0]
  <2>1. \A s \in SUBSET (1..0) : s = {}
    OBVIOUS
  <2>2. IsIter(g, path, 1..0)
    BY <2>1 DEF IsIter
  <2> QED
    BY <2>2
<1>2. ASSUME NEW k \in Nat, k \in H PROVE k + 1 \in H
  <2>1. PICK g : IsIter(g, path, 1..k)
    BY <1>2
  <2> DEFINE h == [s \in SUBSET (1..(k + 1)) |->
                     IF k + 1 \in s THEN FollowRelation(g[s \ {k + 1}], path, rels[k + 1]) ELSE g[s]]
  <2>2. \A s \in SUBSET (1..k) : g[s] = IF s = {} THEN None0
                                        ELSE FollowRelation(g[s \ {Max(s)}], path, rels[Max(s)])
    BY <2>1 DEF IsIter
  <2>3. \A s \in SUBSET (1..(k + 1)) : k + 1 \notin s => s \in SUBSET (1..k) /\ h[s] = g[s]
    <3> SUFFICES ASSUME NEW s \in SUBSET (1..(k + 1)), k + 1 \notin s, NEW x \in s PROVE x \in 1..k
      OBVIOUS
    <3>1. x \in 1..(k + 1) /\ x # k + 1
      OBVIOUS
    <3> QED
      BY <3>1
  <2>4. ASSUME NEW s \in SUBSET (1..(k + 1))
        PROVE  h[s] = IF s = {} THEN None0 ELSE FollowRelation(h[s \ {Max(s)}], path, rels[Max(s)])
    <3>1. CASE k + 1 \in s
      <4>1. Max(s) = k + 1
        BY <3>1, MaxIs
      <4>2. s \ {k + 1} \in SUBSET (1..(k + 1)) /\ k + 1 \notin s \ {k + 1}
        OBVIOUS
      <4>3. h[s \ {k + 1}] = g[s \ {k + 1}]
        BY <2>3, <4>2
      <4>4. h[s] = FollowRelation(g[s \ {k + 1}], path, rels[k + 1])
        BY <3>1
      <4> HIDE DEF h
      <4> QED
        BY <3>1, <4>1, <4>3, <4>4
    <3>2. CASE k + 1 \notin s
      <4>1. s \in SUBSET (1..k) /\ h[s] = g[s]
        BY <2>3, <3>2
      <4>2. s \ {Max(s)} \in SUBSET (1..(k + 1)) /\ k + 1 \notin s \ {Max(s)}
        BY <3>2
      <4>3. h[s \ {Max(s)}] = g[s \ {Max(s)}]
        BY <2>3, <4>2
      <4>4. g[s] = IF s = {} THEN None0 ELSE FollowRelation(g[s \ {Max(s)}], path, rels[Max(s)])
        BY <2>2, <4>1
      <4> HIDE DEF h, None0
      <4> QED
        BY <4>1, <4>3, <4>4
    <3> QED
      BY <3>1, <3>2
  <2>5. h = [s \in SUBSET (1..(k + 1)) |->
               IF s = {} THEN None0 ELSE FollowRelation(h[s \ {Max(s)}], path, rels[Max(s)])]
    <3>1. h = [s \in SUBSET (1..(k + 1)) |-> h[s]]
      OBVIOUS
    <3> HIDE DEF h, None0
    <3> QED
      BY <2>4, <3>1
  <2> HIDE DEF h
  <2>6. IsIter(h, path, 1..(k + 1))
    BY <2>5 DEF IsIter
  <2> QED
    BY <2>6
<1> HIDE DEF H
<1>3. Nat \subseteq H
  BY <1>1, <1>2, SetInduction
<1> QED
  BY <1>3 DEF H

\* The inner loop takes one relation after the other, in the order of the list.
LEMMA FollowUnfolds ==
    ASSUME NEW path, NEW n \in Nat, DOMAIN rels = 1..n
    PROVE  \E acc : /\ acc[0] = [visited |-> visited, added |-> <<>>]
                    /\ \A k \in 1..n : acc[k] = FollowRelation(acc[k - 1], path, rels[k])
                    /\ Follow(path) = acc[n]
<1> DEFINE iter == CHOOSE g : IsIter(g, path, 1..n)
<1>1. IsIter(iter, path, 1..n)
  BY IterExists
<1>2. Follow(path) = iter[1..n]
  BY DEF Follow, FoldLeft, MapThenFoldSet, IsIter
<1> HIDE DEF iter
<1> DEFINE acc == [k \in 0..n |-> iter[1..k]]
<1>3. \A s \in SUBSET (1..n) : iter[s] = IF s = {} THEN [visited |-> visited, added |-> <<>>]
                                         ELSE FollowRelation(iter[s \ {Max(s)}], path, rels[Max(s)])
  BY <1>1 DEF IsIter
<1>4. acc[0] = [visited |-> visited, added |-> <<>>]
  <2>1. 1..0 = {} /\ 0 \in 0..n
    OBVIOUS
  <2> QED
    BY <1>3, <2>1
<1>5. ASSUME NEW k \in 1..n PROVE acc[k] = FollowRelation(acc[k - 1], path, rels[k])
  <2>1. k - 1 \in Nat /\ (k - 1) + 1 = k /\ 1..k \in SUBSET (1..((k - 1) + 1)) /\ k \in 1..k
    OBVIOUS
  <2>2. Max(1..k) = k
    BY <2>1, MaxIs
  <2>3. (1..k) \ {k} = 1..(k - 1) /\ 1..k \in SUBSET (1..n) /\ 1..k # {} /\ k \in 0..n /\ k - 1 \in 0..n
    OBVIOUS
  <2>4. iter[1..k] = FollowRelation(iter[1..(k - 1)], path, rels[k])
    BY <1>3, <2>2, <2>3
  <2> QED
    BY <2>3, <2>4
<1>6. Follow(path) = acc[n]
  BY <1>2
<1> HIDE DEF acc
<1> QED
  BY <1>4, <1>5, <1>6

\* What a path is extended by when the first k relations are followed: f.visited has
\* grown by the ends of the new paths, and by whatever is next to the path's end.
Finds(f, path, k) ==
    /\ visited \subseteq f.visited /\ f.visited \subseteq present
    /\ f.added \in Seq(Seq(present))
    /\ \A i \in DOMAIN f.added : \E x \in f.visited \ visited :
          f.added[i] = Append(path, x) /\ x \in Near(present, rels, {Last(path)}, TRUE)
    /\ \A x \in f.visited \ visited : \E i \in DOMAIN f.added : f.added[i] = Append(path, x)
    /\ \A i \in 1..k : Last(path) \in rels[i].ends /\ rels[i].together =>
          rels[i].ends \cap present \subseteq f.visited

\* Following one relation more finds what it leads to, and no more.
LEMMA RelationFollowed ==
    ASSUME NEW n \in Nat, rels \in [1..n -> Relation], NEW path \in Seq(present), path # <<>>,
           Last(path) \in visited, NEW k \in 1..n, NEW f, Finds(f, path, k - 1)
    PROVE  Finds(FollowRelation(f, path, rels[k]), path, k)
<1> DEFINE e == Last(path)
           r == rels[k]
           next == (r.ends \cap present) \ f.visited
<1>1. PICK a, b : r.ends = {a, b}
  <2>1. r \in Relation
    OBVIOUS
  <2> HIDE DEF r
  <2>2. r.ends \in {{x, y} : x, y \in GIds}
    BY <2>1 DEF Relation
  <2> DEFINE E == r.ends
  <2>3. E \in {{x, y} : x, y \in GIds}
    BY <2>2
  <2> HIDE DEF E
  <2>4. \E x, y \in GIds : E = {x, y}
    BY <2>3
  <2> QED
    BY <2>4 DEF E
<1>2. e \in f.visited
  BY DEF Finds
<1>3. CASE e \in r.ends /\ r.together /\ next # {}
  <2> DEFINE x == CHOOSE y \in next : TRUE
             h == [visited |-> f.visited \cup {x}, added |-> Append(f.added, Append(path, x))]
  <2>1. FollowRelation(f, path, r) = h
    BY <1>3 DEF FollowRelation
  <2>2. x \in next
    BY <1>3
  <2> HIDE DEF x
  <2>3. x # e /\ {e, x} = r.ends /\ x \in present /\ x \notin f.visited
    BY <1>1, <1>2, <1>3, <2>2
  <2>4. x \in Near(present, rels, {e}, TRUE)
    BY <1>3, <2>3 DEF Near
  <2>5. Append(path, x) \in Seq(present)
    BY <2>3
  <2>6. /\ h.visited = f.visited \cup {x}
        /\ h.added \in Seq(Seq(present))
        /\ DOMAIN h.added = 1..(Len(f.added) + 1)
        /\ \A i \in DOMAIN f.added : i \in DOMAIN h.added /\ h.added[i] = f.added[i]
        /\ h.added[Len(f.added) + 1] = Append(path, x)
        /\ \A i \in DOMAIN h.added : i \in DOMAIN f.added \/ i = Len(f.added) + 1
    BY <2>5 DEF Finds
  <2> HIDE DEF h
  <2>7. ASSUME NEW i \in DOMAIN h.added
        PROVE  \E y \in h.visited \ visited :
                  h.added[i] = Append(path, y) /\ y \in Near(present, rels, {e}, TRUE)
    <3>1. CASE i \in DOMAIN f.added
      BY <2>6, <3>1 DEF Finds
    <3>2. CASE i = Len(f.added) + 1
      BY <2>3, <2>4, <2>6, <3>2 DEF Finds
    <3> QED
      BY <2>6, <3>1, <3>2
  <2>8. ASSUME NEW y \in h.visited \ visited
        PROVE  \E i \in DOMAIN h.added : h.added[i] = Append(path, y)
    <3>1. CASE y = x
      <4>1. Len(f.added) + 1 \in DOMAIN h.added
        BY <2>6 DEF Finds
      <4> QED
        BY <2>6, <3>1, <4>1
    <3>2. CASE y # x
      BY <2>6, <3>2 DEF Finds
    <3> QED
      BY <3>1, <3>2
  <2>9. ASSUME NEW i \in 1..k, e \in rels[i].ends, rels[i].together
        PROVE  rels[i].ends \cap present \subseteq h.visited
    <3>1. CASE i = k
      BY <1>2, <2>3, <2>6, <3>1
    <3>2. CASE i # k
      <4>1. i \in 1..(k - 1)
        BY <3>2
      <4> QED
        BY <2>6, <2>9, <4>1 DEF Finds
    <3> QED
      BY <3>1, <3>2
  <2>10. visited \subseteq h.visited /\ h.visited \subseteq present
    BY <2>3, <2>6 DEF Finds
  <2>11. Finds(h, path, k)
    BY <2>6, <2>7, <2>8, <2>9, <2>10 DEF Finds
  <2> QED
    BY <2>1, <2>11
<1>4. CASE ~(e \in r.ends /\ r.together /\ next # {})
  <2>1. FollowRelation(f, path, r) = f
    BY <1>4 DEF FollowRelation
  <2>2. ASSUME NEW i \in 1..k, e \in rels[i].ends, rels[i].together
        PROVE  rels[i].ends \cap present \subseteq f.visited
    <3>1. CASE i = k
      BY <1>4, <2>2, <3>1
    <3>2. CASE i # k
      <4>1. i \in 1..(k - 1)
        BY <3>2
      <4> QED
        BY <2>2, <4>1 DEF Finds
    <3> QED
      BY <3>1, <3>2
  <2>3. Finds(f, path, k)
    BY <2>2 DEF Finds
  <2> QED
    BY <2>1, <2>3
<1> QED
  BY <1>3, <1>4

\* The inner loop visits all that is next to the end of its path.
LEMMA FollowFinds ==
    ASSUME NEW n \in Nat, rels \in [1..n -> Relation], visited \subseteq present,
           NEW path \in Seq(present), path # <<>>, Last(path) \in visited
    PROVE  /\ Finds(Follow(path), path, n)
           /\ Near(present, rels, {Last(path)}, TRUE) \subseteq Follow(path).visited
<1>1. PICK acc : /\ acc[0] = [visited |-> visited, added |-> <<>>]
                 /\ \A k \in 1..n : acc[k] = FollowRelation(acc[k - 1], path, rels[k])
                 /\ Follow(path) = acc[n]
  BY FollowUnfolds
<1> DEFINE H == {k \in Nat : k <= n => Finds(acc[k], path, k)}
<1>2. 0 \in H
  <2>1. Finds([visited |-> visited, added |-> <<>>], path, 0)
    BY DEF Finds
  <2> QED
    BY <1>1, <2>1
<1>3. ASSUME NEW k \in Nat, k \in H PROVE k + 1 \in H
  <2> SUFFICES ASSUME k + 1 <= n PROVE Finds(acc[k + 1], path, k + 1)
    OBVIOUS
  <2>1. k + 1 \in 1..n /\ (k + 1) - 1 = k
    OBVIOUS
  <2>2. Finds(acc[k], path, k)
    BY <1>3
  <2>3. Finds(acc[k], path, (k + 1) - 1)
    BY <2>1, <2>2
  <2>4. Finds(FollowRelation(acc[k], path, rels[k + 1]), path, k + 1)
    BY <2>1, <2>3, RelationFollowed
  <2> QED
    BY <1>1, <2>1, <2>4
<1> HIDE DEF H
<1>4. Nat \subseteq H
  BY <1>2, <1>3, SetInduction
<1>5. Finds(Follow(path), path, n)
  BY <1>1, <1>4 DEF H
<1>6. ASSUME NEW x \in Near(present, rels, {Last(path)}, TRUE) PROVE x \in Follow(path).visited
  <2>1. PICK i \in DOMAIN rels : rels[i].together /\ {Last(path), x} = rels[i].ends
    BY DEF Near
  <2>2. x \in present /\ i \in 1..n
    BY DEF Near
  <2> QED
    BY <1>5, <2>1, <2>2 DEF Finds
<1> QED
  BY <1>5, <1>6

-----------------------------------------------------------------------------
(* A search from s, with queue qu, visited vi and paths pa.                *)

\* What is within n close relations of s; a path of pa that leads from s to x; all that
\* is around s is led to.
Around(s, n)    == Reach(present, rels, {s}, TRUE, n)
Leads(pa, s, x) == \E j \in DOMAIN pa : pa[j][1] = s /\ Last(pa[j]) = x
Finished(s, pa) == \A x \in Around(s, hops) \ {s} : Leads(pa, s, x)

\* A path that is recorded leads to its end on a shortest way.
Shortest(p) ==
    /\ Len(p) >= 2 /\ Len(p) - 1 <= hops
    /\ Last(p) \in Around(p[1], Len(p) - 1)
    /\ Last(p) \notin Around(p[1], Len(p) - 2)

\* A path in the queue leads from s to a visited entity; the first one is s alone.
OnWay(p, s, vi) ==
    /\ p # <<>> /\ p[1] = s /\ Last(p) \in vi
    /\ Len(p) = 1 \/ Shortest(p)

\* What was visited is still to be extended, or all next to it was visited too, or it
\* is as far away as the search goes.
Searched(s, qu, vi, pa) ==
    /\ \A i \in DOMAIN qu : OnWay(qu[i], s, vi)
    /\ s \in vi /\ \A x \in vi : x = s \/ Leads(pa, s, x)
    /\ \A x \in vi : \/ \E i \in DOMAIN qu : Last(qu[i]) = x
                     \/ Near(present, rels, {x}, TRUE) \subseteq vi
                     \/ x \notin Around(s, hops - 1)

\* The queue is in the order of the lengths, which differ by 1 at most.
Ordered(qu) ==
    \A i, j \in DOMAIN qu : i <= j => Len(qu[i]) <= Len(qu[j]) /\ Len(qu[j]) <= Len(qu[i]) + 1

\* The types of what a walk works on: the graph may be of any size.
WalkTypes ==
    /\ \E n \in Nat : rels \in [1..n -> Relation]
    /\ seeds \in Seq(present) /\ hops \in Nat \ {0} /\ hop \in Nat
    /\ start \in Nat /\ start <= Len(seeds)
    /\ queue \in Seq(Seq(present)) /\ paths \in Seq(Seq(present)) /\ visited \subseteq present

LEMMA AroundStarts == ASSUME NEW s PROVE Around(s, 0) = {s}
BY ReachStart DEF Around

LEMMA AroundNext ==
    ASSUME NEW s, NEW n \in Nat, NEW x \in Around(s, n), NEW y \in Near(present, rels, {x}, TRUE)
    PROVE  y \in Around(s, n + 1)
<1>1. x \in Reach(present, rels, {s}, TRUE, n)
  BY DEF Around
<1>2. y \in Reach(present, rels, {s}, TRUE, n + 1)
  BY <1>1, ReachAdds
<1> QED
  BY <1>2 DEF Around

LEMMA AroundGrows ==
    ASSUME NEW s, NEW m \in Nat, NEW n \in Nat, m <= n
    PROVE  Around(s, m) \subseteq Around(s, n) /\ s \in Around(s, n)
<1>1. \A k \in Nat : k <= n => Around(s, k) \subseteq Around(s, n)
  BY ReachGrows DEF Around
<1>2. s \in Around(s, 0)
  BY AroundStarts
<1> QED
  BY <1>1, <1>2

\* When the queue has got to the paths of length l + 1, or to its end, all that is within
\* l - 1 hops of what was visited, and is not in the queue, was extended.
LEMMA NearerIsVisited ==
    ASSUME WalkTypes, NEW s, NEW qu \in Seq(Seq(present)), NEW vi, NEW pa, Searched(s, qu, vi, pa),
           NEW l \in Nat, l <= hops, \A i \in DOMAIN qu : Len(qu[i]) > l
    PROVE  Around(s, l) \subseteq vi
<1>1. {s} \subseteq vi
  BY DEF Searched
<1>2. ASSUME NEW m \in Nat, m < l, NEW x \in vi, x \in Around(s, m)
      PROVE  Near(present, rels, {x}, TRUE) \subseteq vi
  <2>1. x \in Around(s, hops - 1)
    <3>1. hops - 1 \in Nat /\ m <= hops - 1
      BY <1>2 DEF WalkTypes
    <3> QED
      BY <1>2, <3>1, AroundGrows
  <2>2. ASSUME NEW i \in DOMAIN qu, Last(qu[i]) = x PROVE FALSE
    <3>1. OnWay(qu[i], s, vi) /\ Len(qu[i]) > l /\ qu[i] \in Seq(present)
      BY DEF Searched
    <3>2. CASE Len(qu[i]) = 1
      BY <1>2, <3>1, <3>2
    <3>3. CASE Shortest(qu[i])
      <4>1. Len(qu[i]) - 2 \in Nat /\ m <= Len(qu[i]) - 2
        BY <1>2, <3>1, <3>3 DEF Shortest
      <4>2. x \in Around(s, Len(qu[i]) - 2)
        BY <1>2, <4>1, AroundGrows
      <4> QED
        BY <2>2, <3>1, <3>3, <4>2 DEF Shortest, OnWay
    <3> QED
      BY <3>1, <3>2, <3>3 DEF OnWay
  <2> QED
    BY <1>2, <2>1, <2>2 DEF Searched
<1> QED
  BY <1>1, <1>2, ReachStays DEF Around

\* A search whose queue is empty has led to all that is around its seed.
LEMMA SearchEnds ==
    ASSUME WalkTypes, NEW s, NEW vi, NEW pa, Searched(s, <<>>, vi, pa)
    PROVE  Finished(s, pa)
<1>1. <<>> \in Seq(Seq(present)) /\ \A i \in DOMAIN <<>> : FALSE
  OBVIOUS
<1>2. Around(s, hops) \subseteq vi
  <2>1. hops \in Nat /\ hops <= hops
    BY DEF WalkTypes
  <2> QED
    BY <1>1, <2>1, NearerIsVisited
<1> QED
  BY <1>2 DEF Finished, Searched

\* What is nearer than the head of the queue was visited.
LEMMA NearerThanHead ==
    ASSUME WalkTypes, NEW s, NEW qu \in Seq(Seq(present)), NEW vi, NEW pa, Searched(s, qu, vi, pa),
           Ordered(qu), qu # <<>>
    PROVE  /\ Len(qu[1]) - 1 \in Nat /\ Len(qu[1]) - 1 <= hops
           /\ Around(s, Len(qu[1]) - 1) \subseteq vi
<1>1. 1 \in DOMAIN qu /\ qu[1] \in Seq(present)
  OBVIOUS
<1>2. OnWay(qu[1], s, vi)
  BY <1>1 DEF Searched
<1>3. Len(qu[1]) - 1 \in Nat /\ Len(qu[1]) - 1 <= hops
  <2>1. hops \in Nat /\ Len(qu[1]) \in Nat /\ (Len(qu[1]) = 1 \/ Shortest(qu[1]))
    BY <1>1, <1>2 DEF WalkTypes, OnWay
  <2>2. Shortest(qu[1]) => Len(qu[1]) >= 2 /\ Len(qu[1]) - 1 <= hops
    BY DEF Shortest
  <2>3. CASE Len(qu[1]) = 1
    BY <2>1, <2>3
  <2>4. CASE Len(qu[1]) >= 2 /\ Len(qu[1]) - 1 <= hops
    BY <2>1, <2>4
  <2> QED
    BY <2>1, <2>2, <2>3, <2>4
<1>4. ASSUME NEW i \in DOMAIN qu PROVE Len(qu[i]) > Len(qu[1]) - 1
  <2>1. 1 <= i /\ Len(qu[i]) \in Nat
    OBVIOUS
  <2>2. Len(qu[1]) <= Len(qu[i])
    BY <1>1, <2>1 DEF Ordered
  <2> QED
    BY <1>3, <2>1, <2>2
<1>5. Around(s, Len(qu[1]) - 1) \subseteq vi
  BY <1>3, <1>4, NearerIsVisited
<1> QED
  BY <1>3, <1>5

\* Where the elements of a tail, of an extended and of two joined sequences come from.
LEMMA TailIs ==
    ASSUME NEW S, NEW q \in Seq(S), q # <<>>
    PROVE  /\ Tail(q) \in Seq(S) /\ Len(Tail(q)) = Len(q) - 1 /\ Len(q) \in Nat
           /\ \A i \in DOMAIN Tail(q) : i \in Nat /\ i + 1 \in DOMAIN q /\ Tail(q)[i] = q[i + 1]
           /\ \A i \in DOMAIN q : i = 1 \/ (i - 1 \in DOMAIN Tail(q) /\ Tail(q)[i - 1] = q[i])
           /\ \A i \in Nat : i \in DOMAIN Tail(q) <=> 1 <= i /\ i < Len(q)
<1>1. Tail(q) \in Seq(S) /\ Len(Tail(q)) = Len(q) - 1 /\ Len(q) \in Nat /\ DOMAIN q = 1..Len(q)
  OBVIOUS
<1>2. DOMAIN Tail(q) = 1..(Len(q) - 1)
  BY <1>1
<1>3. \A i \in 1..(Len(q) - 1) : Tail(q)[i] = q[i + 1]
  OBVIOUS
<1>4. ASSUME NEW i \in DOMAIN q, i # 1
      PROVE  i - 1 \in DOMAIN Tail(q) /\ Tail(q)[i - 1] = q[i]
  <2>1. i \in Nat /\ i - 1 \in 1..(Len(q) - 1) /\ (i - 1) + 1 = i
    BY <1>1, <1>4
  <2> QED
    BY <1>2, <1>3, <2>1
<1> QED
  BY <1>1, <1>2, <1>3, <1>4

LEMMA AppendIs ==
    ASSUME NEW S, NEW q \in Seq(S), NEW x \in S
    PROVE  /\ Append(q, x) \in Seq(S) /\ Len(Append(q, x)) = Len(q) + 1 /\ Append(q, x) # <<>>
           /\ \A i \in DOMAIN q : i \in DOMAIN Append(q, x) /\ Append(q, x)[i] = q[i]
           /\ \A i \in DOMAIN Append(q, x) : i \in DOMAIN q \/ Append(q, x)[i] = x
           /\ Append(q, x)[Len(q) + 1] = x
<1>1. /\ Append(q, x) \in Seq(S) /\ Len(Append(q, x)) = Len(q) + 1 /\ Len(q) \in Nat
      /\ DOMAIN q = 1..Len(q) /\ DOMAIN Append(q, x) = 1..(Len(q) + 1)
      /\ \A i \in DOMAIN q : Append(q, x)[i] = q[i]
      /\ Append(q, x)[Len(q) + 1] = x
  OBVIOUS
<1>2. \A i \in 1..(Len(q) + 1) : i \in 1..Len(q) \/ i = Len(q) + 1
  BY <1>1
<1>3. 1..Len(q) \subseteq 1..(Len(q) + 1)
  BY <1>1
<1> QED
  BY <1>1, <1>2, <1>3

Joins(p, q, r) ==
    /\ \A i \in DOMAIN q : i \in DOMAIN p /\ p[i] = q[i]
    /\ \A i \in DOMAIN r : Len(q) + i \in DOMAIN p /\ p[Len(q) + i] = r[i]
    /\ \A i \in DOMAIN p : /\ i \in Nat /\ 1 <= i
                           /\ (i \in DOMAIN q \/ (i - Len(q) \in DOMAIN r /\ p[i] = r[i - Len(q)]))

LEMMA JoinIs ==
    ASSUME NEW S, NEW q \in Seq(S), NEW r \in Seq(S)
    PROVE  q \o r \in Seq(S) /\ Joins(q \o r, q, r)
<1>1. /\ q \o r \in Seq(S) /\ Len(q) \in Nat /\ Len(r) \in Nat /\ Len(q \o r) = Len(q) + Len(r)
      /\ DOMAIN q = 1..Len(q) /\ DOMAIN r = 1..Len(r)
  OBVIOUS
<1>2. DOMAIN (q \o r) = 1..(Len(q) + Len(r))
  BY <1>1
<1>3. \A i \in 1..(Len(q) + Len(r)) : (q \o r)[i] = IF i <= Len(q) THEN q[i] ELSE r[i - Len(q)]
  BY <1>1
<1>4. ASSUME NEW i \in DOMAIN q
      PROVE  i \in DOMAIN (q \o r) /\ (q \o r)[i] = q[i]
  <2>1. i \in 1..(Len(q) + Len(r)) /\ i <= Len(q)
    BY <1>1
  <2> QED
    BY <1>2, <1>3, <2>1
<1>5. ASSUME NEW i \in DOMAIN (q \o r), i \notin DOMAIN q
      PROVE  i - Len(q) \in DOMAIN r /\ (q \o r)[i] = r[i - Len(q)]
  <2>1. i \in 1..(Len(q) + Len(r)) /\ ~(i <= Len(q)) /\ i - Len(q) \in 1..Len(r)
    BY <1>1, <1>2, <1>5
  <2> QED
    BY <1>1, <1>3, <2>1
<1>6. ASSUME NEW i \in DOMAIN r
      PROVE  Len(q) + i \in DOMAIN (q \o r) /\ (q \o r)[Len(q) + i] = r[i]
  <2>1. /\ Len(q) + i \in 1..(Len(q) + Len(r)) /\ ~(Len(q) + i <= Len(q)) /\ (Len(q) + i) - Len(q) = i
    BY <1>1
  <2> QED
    BY <1>2, <1>3, <2>1
<1> QED
  BY <1>1, <1>2, <1>4, <1>5, <1>6 DEF Joins

\* A path that is long enough is as long as any.
LEMMA RecordStep ==
    ASSUME WalkTypes, NEW s, Searched(s, queue, visited, paths), Ordered(queue), queue # <<>>,
           \A j \in DOMAIN paths : Shortest(paths[j]), LongEnough(Head(queue))
    PROVE  LET pa == Append(paths, Head(queue))
           IN /\ Searched(s, Tail(queue), visited, pa) /\ Ordered(Tail(queue))
              /\ \A j \in DOMAIN pa : Shortest(pa[j])
<1> DEFINE path == Head(queue)
           pa == Append(paths, path)
           qu == Tail(queue)
<1>1. /\ queue \in Seq(Seq(present)) /\ paths \in Seq(Seq(present)) /\ hops \in Nat \ {0}
      /\ path = queue[1] /\ path \in Seq(present) /\ 1 \in DOMAIN queue
  BY DEF WalkTypes
<1>2. OnWay(path, s, visited)
  BY <1>1 DEF Searched
<1>3. Len(path) = hops + 1 /\ Shortest(path)
  <2>1. Len(path) \in Nat /\ Len(path) >= hops + 1
    BY <1>1 DEF LongEnough
  <2>2. Len(path) # 1
    <3>1. hops \in Nat /\ hops # 0
      BY <1>1
    <3>2. \A l, h \in Nat : h # 0 /\ l >= h + 1 => l # 1
      OBVIOUS
    <3> QED
      BY <2>1, <3>1, <3>2
  <2>3. Shortest(path)
    BY <1>2, <2>2 DEF OnWay
  <2>4. Len(path) - 1 <= hops
    BY <2>3 DEF Shortest
  <2> QED
    BY <1>1, <2>1, <2>3, <2>4
<1>4. /\ qu \in Seq(Seq(present)) /\ pa \in Seq(Seq(present))
      /\ \A i \in DOMAIN qu : i + 1 \in DOMAIN queue /\ qu[i] = queue[i + 1]
      /\ \A i \in DOMAIN queue : i = 1 \/ (i - 1 \in DOMAIN qu /\ qu[i - 1] = queue[i])
      /\ \A j \in DOMAIN paths : j \in DOMAIN pa /\ pa[j] = paths[j]
      /\ \A j \in DOMAIN pa : j \in DOMAIN paths \/ pa[j] = path
  BY <1>1, TailIs, AppendIs
<1> HIDE DEF path, pa, qu
<1>5. \A j \in DOMAIN pa : Shortest(pa[j])
  BY <1>3, <1>4
<1>6. Ordered(qu)
  <2> SUFFICES ASSUME NEW i \in DOMAIN qu, NEW j \in DOMAIN qu, i <= j
               PROVE  Len(qu[i]) <= Len(qu[j]) /\ Len(qu[j]) <= Len(qu[i]) + 1
    BY DEF Ordered
  <2>1. i + 1 <= j + 1
    BY <1>4
  <2> QED
    BY <1>4, <2>1 DEF Ordered
<1>7. ASSUME NEW i \in DOMAIN qu PROVE OnWay(qu[i], s, visited)
  BY <1>4 DEF Searched
<1>8. ASSUME NEW x \in visited PROVE x = s \/ Leads(pa, s, x)
  BY <1>4 DEF Searched, Leads
<1>9. ASSUME NEW x \in visited
      PROVE  \/ \E i \in DOMAIN qu : Last(qu[i]) = x
             \/ Near(present, rels, {x}, TRUE) \subseteq visited
             \/ x \notin Around(s, hops - 1)
  <2>1. CASE \E i \in DOMAIN queue : Last(queue[i]) = x
    <3>1. PICK i \in DOMAIN queue : Last(queue[i]) = x
      BY <2>1
    <3>2. CASE i = 1
      <4>1. Len(path) - 2 = hops - 1 /\ path[1] = s /\ Last(path) = x
        BY <1>1, <1>2, <1>3, <3>1, <3>2 DEF OnWay
      <4> QED
        BY <1>3, <4>1 DEF Shortest
    <3>3. CASE i # 1
      BY <1>4, <3>1, <3>3
    <3> QED
      BY <3>2, <3>3
  <2> QED
    BY <2>1 DEF Searched
<1>10. Searched(s, qu, visited, pa)
  BY <1>7, <1>8, <1>9 DEF Searched
<1> QED
  BY <1>5, <1>6, <1>10 DEF pa, qu, path

\* The extensions of a path lead one hop further, where no visit was yet.
LEMMA ExtendStep ==
    ASSUME WalkTypes, NEW s, Searched(s, queue, visited, paths), Ordered(queue), queue # <<>>,
           \A j \in DOMAIN paths : Shortest(paths[j]), ~LongEnough(Head(queue))
    PROVE  LET follow == Follow(Head(queue))
               qu == Tail(queue) \o follow.added
               pa == paths \o follow.added
           IN /\ follow.visited \subseteq present /\ follow.added \in Seq(Seq(present))
              /\ Searched(s, qu, follow.visited, pa) /\ Ordered(qu)
              /\ \A j \in DOMAIN pa : Shortest(pa[j])
<1> DEFINE path == Head(queue)
           follow == Follow(path)
           vi == follow.visited
           added == follow.added
           qu == Tail(queue) \o added
           pa == paths \o added
<1>1. /\ queue \in Seq(Seq(present)) /\ paths \in Seq(Seq(present)) /\ hops \in Nat \ {0}
      /\ path = queue[1] /\ path \in Seq(present) /\ 1 \in DOMAIN queue
  BY DEF WalkTypes
<1>2. OnWay(path, s, visited)
  BY <1>1 DEF Searched
<1>3. path # <<>> /\ Len(path) \in Nat /\ Len(path) >= 1 /\ Last(path) \in visited /\ path[1] = s
  BY <1>1, <1>2 DEF OnWay
<1>4. Len(path) <= hops
  BY <1>1 DEF LongEnough
<1>5. PICK n \in Nat : rels \in [1..n -> Relation]
  BY DEF WalkTypes
<1>6. Finds(follow, path, n) /\ Near(present, rels, {Last(path)}, TRUE) \subseteq vi
  BY <1>1, <1>3, <1>5, FollowFinds DEF WalkTypes
<1>7. Len(path) - 1 \in Nat /\ Around(s, Len(path) - 1) \subseteq visited
  BY <1>1, NearerThanHead
<1>8. Last(path) \in Around(s, Len(path) - 1)
  <2>1. CASE Len(path) = 1
    <3>1. Last(path) = s /\ Len(path) - 1 = 0
      BY <1>3, <2>1 DEF Last
    <3> QED
      BY <3>1, AroundStarts
  <2>2. CASE Shortest(path)
    BY <1>3, <2>2 DEF Shortest
  <2> QED
    BY <1>2, <2>1, <2>2 DEF OnWay
<1> HIDE DEF path, follow
<1>9. ASSUME NEW i \in DOMAIN added
      PROVE  Len(added[i]) = Len(path) + 1 /\ Shortest(added[i]) /\ OnWay(added[i], s, vi)
  <2>1. PICK x \in vi \ visited : added[i] = Append(path, x) /\ x \in Near(present, rels, {Last(path)}, TRUE)
    BY <1>6 DEF Finds
  <2>2. x \in present
    BY <2>1 DEF Near
  <2>3. /\ Len(added[i]) = Len(path) + 1 /\ added[i] # <<>> /\ Last(added[i]) = x /\ added[i][1] = s
    BY <1>1, <1>3, <2>1, <2>2, AppendIs DEF Last
  <2>4. x \in Around(s, Len(path))
    <3>1. x \in Around(s, (Len(path) - 1) + 1)
      BY <1>7, <1>8, <2>1, AroundNext
    <3>2. (Len(path) - 1) + 1 = Len(path)
      BY <1>3
    <3> QED
      BY <3>1, <3>2
  <2>5. x \notin Around(s, Len(path) - 1)
    BY <1>7, <2>1
  <2>6. Len(added[i]) - 1 = Len(path) /\ Len(added[i]) - 2 = Len(path) - 1 /\ Len(added[i]) >= 2
    BY <1>3, <2>3
  <2>7. Shortest(added[i])
    BY <1>4, <2>3, <2>4, <2>5, <2>6 DEF Shortest
  <2> QED
    BY <2>1, <2>3, <2>7 DEF OnWay
<1>10. added \in Seq(Seq(present)) /\ visited \subseteq vi /\ vi \subseteq present
  BY <1>6 DEF Finds
<1> HIDE DEF vi, added
<1>11. pa \in Seq(Seq(present)) /\ Joins(pa, paths, added)
  BY <1>1, <1>10, JoinIs
<1>12. /\ qu \in Seq(Seq(present))
       /\ \A i \in DOMAIN queue : i = 1 \/ (i - 1 \in DOMAIN qu /\ qu[i - 1] = queue[i])
       /\ \A i \in DOMAIN qu : IF i < Len(queue) THEN i + 1 \in DOMAIN queue /\ qu[i] = queue[i + 1]
                                ELSE i - Len(queue) + 1 \in DOMAIN added /\ qu[i] = added[i - Len(queue) + 1]
       /\ \A i \in DOMAIN added : Len(queue) - 1 + i \in DOMAIN qu /\ qu[Len(queue) - 1 + i] = added[i]
  <2> DEFINE tail == Tail(queue)
  <2>1. /\ tail \in Seq(Seq(present)) /\ Len(tail) = Len(queue) - 1 /\ Len(queue) \in Nat
        /\ \A i \in DOMAIN tail : i \in Nat /\ i + 1 \in DOMAIN queue /\ tail[i] = queue[i + 1]
        /\ \A i \in DOMAIN queue : i = 1 \/ (i - 1 \in DOMAIN tail /\ tail[i - 1] = queue[i])
        /\ \A i \in Nat : i \in DOMAIN tail <=> 1 <= i /\ i < Len(queue)
    BY <1>1, TailIs
  <2> HIDE DEF tail
  <2>2. qu \in Seq(Seq(present)) /\ Joins(qu, tail, added)
    BY <1>10, <2>1, JoinIs DEF tail
  <2> HIDE DEF qu
  <2>3. ASSUME NEW i \in DOMAIN queue
        PROVE  i = 1 \/ (i - 1 \in DOMAIN qu /\ qu[i - 1] = queue[i])
    BY <2>1, <2>2 DEF Joins
  <2>4. ASSUME NEW i \in DOMAIN qu
        PROVE  IF i < Len(queue) THEN i + 1 \in DOMAIN queue /\ qu[i] = queue[i + 1]
               ELSE i - Len(queue) + 1 \in DOMAIN added /\ qu[i] = added[i - Len(queue) + 1]
    <3>1. i - Len(tail) = i - Len(queue) + 1
      BY <2>1, <2>2 DEF Joins
    <3>2. i < Len(queue) <=> i \in DOMAIN tail
      BY <2>1, <2>2 DEF Joins
    <3> QED
      BY <2>1, <2>2, <3>1, <3>2 DEF Joins
  <2>5. ASSUME NEW i \in DOMAIN added
        PROVE  Len(queue) - 1 + i \in DOMAIN qu /\ qu[Len(queue) - 1 + i] = added[i]
    BY <2>1, <2>2 DEF Joins
  <2> QED
    BY <2>2, <2>3, <2>4, <2>5
<1> HIDE DEF pa, qu
<1>13. \A j \in DOMAIN pa : Shortest(pa[j])
  BY <1>9, <1>11 DEF Joins
<1>14. ASSUME NEW i \in DOMAIN qu PROVE OnWay(qu[i], s, vi)
  <2>1. CASE i < Len(queue)
    <3>1. OnWay(queue[i + 1], s, visited) /\ qu[i] = queue[i + 1]
      BY <1>12, <2>1 DEF Searched
    <3> QED
      BY <1>10, <3>1 DEF OnWay
  <2>2. CASE ~(i < Len(queue))
    BY <1>9, <1>12, <2>2
  <2> QED
    BY <2>1, <2>2
<1>15. ASSUME NEW x \in vi \ visited
       PROVE  Leads(pa, s, x) /\ \E i \in DOMAIN qu : Last(qu[i]) = x
  <2>1. PICK i \in DOMAIN added : added[i] = Append(path, x)
    BY <1>6 DEF Finds, added, vi
  <2>2. Last(added[i]) = x /\ added[i][1] = s
    <3>1. x \in present
      BY <1>10
    <3> QED
      BY <1>1, <1>3, <2>1, <3>1, AppendIs DEF Last
  <2>3. Len(paths) + i \in DOMAIN pa /\ pa[Len(paths) + i] = added[i]
    BY <1>11 DEF Joins
  <2>4. Len(queue) - 1 + i \in DOMAIN qu /\ qu[Len(queue) - 1 + i] = added[i]
    BY <1>12
  <2> QED
    BY <2>2, <2>3, <2>4 DEF Leads
<1>16. ASSUME NEW x \in vi PROVE x = s \/ Leads(pa, s, x)
  <2>1. CASE x \in visited
    BY <1>11, <2>1 DEF Searched, Leads, Joins
  <2> QED
    BY <1>15, <2>1
<1>17. ASSUME NEW x \in vi
       PROVE  \/ \E i \in DOMAIN qu : Last(qu[i]) = x
              \/ Near(present, rels, {x}, TRUE) \subseteq vi
              \/ x \notin Around(s, hops - 1)
  <2>1. CASE x \in visited /\ \E i \in DOMAIN queue : Last(queue[i]) = x
    <3>1. PICK i \in DOMAIN queue : Last(queue[i]) = x
      BY <2>1
    <3>2. CASE i = 1
      BY <1>1, <1>6, <3>1, <3>2 DEF vi
    <3>3. CASE i # 1
      BY <1>12, <3>1, <3>3
    <3> QED
      BY <3>2, <3>3
  <2>2. CASE x \in visited /\ ~\E i \in DOMAIN queue : Last(queue[i]) = x
    BY <1>10, <2>2 DEF Searched
  <2> QED
    BY <1>15, <2>1, <2>2
<1>18. Searched(s, qu, vi, pa)
  <2>1. s \in vi
    BY <1>10 DEF Searched
  <2> QED
    BY <1>14, <1>16, <1>17, <2>1 DEF Searched
<1>19. Ordered(qu)
  <2>1. \A i \in DOMAIN queue : /\ Len(queue[i]) \in Nat
                                /\ Len(path) <= Len(queue[i]) /\ Len(queue[i]) <= Len(path) + 1
    <3> SUFFICES ASSUME NEW i \in DOMAIN queue
                 PROVE  /\ Len(queue[i]) \in Nat
                        /\ Len(path) <= Len(queue[i]) /\ Len(queue[i]) <= Len(path) + 1
      OBVIOUS
    <3>1. 1 <= i /\ Len(queue[i]) \in Nat
      BY <1>1
    <3> QED
      BY <1>1, <3>1 DEF Ordered
  <2> SUFFICES ASSUME NEW i \in DOMAIN qu, NEW j \in DOMAIN qu, i <= j
               PROVE  Len(qu[i]) <= Len(qu[j]) /\ Len(qu[j]) <= Len(qu[i]) + 1
    BY DEF Ordered
  <2>2. i \in Nat /\ j \in Nat /\ Len(queue) \in Nat
    BY <1>1, <1>12
  <2>3. CASE j < Len(queue)
    <3>1. i + 1 \in DOMAIN queue /\ j + 1 \in DOMAIN queue /\ i + 1 <= j + 1
      BY <1>12, <2>2, <2>3
    <3>2. qu[i] = queue[i + 1] /\ qu[j] = queue[j + 1]
      BY <1>12, <2>2, <2>3
    <3> QED
      BY <3>1, <3>2 DEF Ordered
  <2>4. CASE ~(j < Len(queue))
    <3>1. Len(qu[j]) = Len(path) + 1
      BY <1>9, <1>12, <2>4
    <3>2. CASE i < Len(queue)
      <4>1. Len(qu[i]) \in Nat /\ Len(path) <= Len(qu[i]) /\ Len(qu[i]) <= Len(path) + 1
        BY <1>12, <2>1, <3>2
      <4> QED
        BY <1>3, <3>1, <4>1
    <3>3. CASE ~(i < Len(queue))
      <4>1. Len(qu[i]) = Len(path) + 1
        BY <1>9, <1>12, <3>3
      <4> QED
        BY <1>3, <3>1, <4>1
    <3> QED
      BY <3>2, <3>3
  <2> QED
    BY <2>3, <2>4
<1> QED
  BY <1>10, <1>13, <1>18, <1>19 DEF pa, qu, vi, added, follow, path

-----------------------------------------------------------------------------
(* The walk.                                                               *)

SeedSet == {seeds[i] : i \in DOMAIN seeds}

\* The expansion has made its hops; before it and in it, nothing was searched.
ExpandInv ==
    /\ walk \in {"asked", "fallback", "expand"} => start = 0 /\ queue = <<>> /\ paths = <<>> /\ visited = {}
    /\ walk \in {"asked", "fallback"} => hop = 1
    /\ walk = "expand" => hop \in 1..hops /\ expanded = Reach(present, rels, SeedSet, FALSE, hop - 1)
    /\ walk \in {"paths", "done"} => expanded = Reach(present, rels, SeedSet, FALSE, hops - 1)

\* The paths are shortest, and the searches from the seeds so far are complete, except
\* for what is in the queue.
PathsInv ==
    /\ \A j \in DOMAIN paths : Shortest(paths[j])
    /\ \A i \in 1..start : i < start \/ queue = <<>> => Finished(seeds[i], paths)
    /\ queue # <<>> => start >= 1 /\ Searched(seeds[start], queue, visited, paths) /\ Ordered(queue)
    /\ walk = "done" => start = Len(seeds) /\ queue = <<>>

\* The inductive invariant of the walk.
WalkInv == WalkTypes /\ ExpandInv /\ PathsInv

\* The entities of one more hop are those next to the ones reached.
LEMMA NextIsNear ==
    ASSUME WalkTypes
    PROVE  NextEntities = Near(present, rels, expanded, FALSE) \ expanded
<1>1. \A i \in DOMAIN rels : \E a, b : rels[i].ends = {a, b}
  <2> SUFFICES ASSUME NEW i \in DOMAIN rels PROVE \E a, b : rels[i].ends = {a, b}
    OBVIOUS
  <2> DEFINE E == rels[i].ends
  <2>1. rels[i] \in Relation
    BY DEF WalkTypes
  <2>2. E \in {{x, y} : x, y \in GIds}
    BY <2>1 DEF Relation
  <2> HIDE DEF E
  <2>3. \E x, y \in GIds : E = {x, y}
    BY <2>2
  <2> QED
    BY <2>3 DEF E
<1>2. ASSUME NEW x
      PROVE  x \in NextEntities <=>
                /\ x \in present /\ x \notin expanded
                /\ \E e \in expanded : \E i \in DOMAIN rels : e \in rels[i].ends /\ x \in rels[i].ends
  <2>1. x \in NextEntities <=> x \in present /\ x \notin expanded /\ \E e \in expanded : x \in Connected(e)
    BY DEF NextEntities
  <2>2. ASSUME NEW e
        PROVE  x \in Connected(e) <=> \E i \in DOMAIN rels : e \in rels[i].ends /\ x \in rels[i].ends
    BY DEF Connected
  <2> QED
    BY <2>1, <2>2
<1>3. ASSUME NEW x, NEW e \in expanded, NEW i \in DOMAIN rels, x \notin expanded
      PROVE  e \in rels[i].ends /\ x \in rels[i].ends <=> {e, x} = rels[i].ends
  BY <1>1, <1>3
<1>4. ASSUME NEW x
      PROVE  x \in Near(present, rels, expanded, FALSE) <=>
                x \in present /\ \E e \in expanded : \E i \in DOMAIN rels : {e, x} = rels[i].ends
  <2> DEFINE near(i, e) == (FALSE => rels[i].together) /\ {e, x} = rels[i].ends
  <2>1. \A i, e : near(i, e) <=> {e, x} = rels[i].ends
    OBVIOUS
  <2>2. x \in Near(present, rels, expanded, FALSE) <=>
           x \in present /\ \E i \in DOMAIN rels, e \in expanded : near(i, e)
    BY DEF Near
  <2> HIDE DEF near
  <2> QED
    BY <2>1, <2>2
<1>5. ASSUME NEW x
      PROVE  x \in NextEntities <=> x \in Near(present, rels, expanded, FALSE) /\ x \notin expanded
  <2>1. CASE x \in expanded
    BY <1>2, <2>1
  <2>2. CASE x \notin expanded
    <3>1. (\E e \in expanded : \E i \in DOMAIN rels : e \in rels[i].ends /\ x \in rels[i].ends)
             <=> \E e \in expanded : \E i \in DOMAIN rels : {e, x} = rels[i].ends
      BY <1>3, <2>2
    <3> QED
      BY <1>2, <1>4, <2>2, <3>1
  <2> QED
    BY <2>1, <2>2
<1> DEFINE near == Near(present, rels, expanded, FALSE)
<1>6. \A x : x \in NextEntities <=> x \in near /\ x \notin expanded
  BY <1>5
<1> HIDE DEF near
<1>7. NextEntities = near \ expanded
  BY <1>6
<1> QED
  BY <1>7 DEF near

LEMMA WalkInit == GraphSearchInit => WalkInv
<1> SUFFICES ASSUME GraphSearchInit PROVE WalkInv
  OBVIOUS
<1>1. WalkTypes
  <2>1. rels \in [1..0 -> Relation]
    BY DEF GraphSearchInit
  <2> QED
    BY <2>1 DEF GraphSearchInit, WalkTypes
<1>2. ExpandInv
  BY DEF GraphSearchInit, ExpandInv
<1>3. PathsInv
  BY DEF GraphSearchInit, PathsInv
<1> QED
  BY <1>1, <1>2, <1>3 DEF WalkInv

\* One lemma for each step of the walk.
LEMMA ReadKeeps == WalkInv /\ ReadGraph => WalkInv'
<1> SUFFICES ASSUME WalkInv, ReadGraph PROVE WalkInv'
  OBVIOUS
<1>1. /\ start = 0 /\ queue = <<>> /\ paths = <<>> /\ visited = {} /\ hop = 1
      /\ start' = 0 /\ queue' = <<>> /\ paths' = <<>> /\ visited' = {} /\ hop' = 1
  BY DEF ReadGraph, WalkInv, ExpandInv
<1>2. WalkTypes'
  <2>1. CASE walk' = "expand"
    <3>1. \E n \in Nat : rels' \in [1..n -> Relation]
      BY <2>1, GraphSearchAssumption DEF ReadGraph
    <3>2. seeds' \in Seq(present')
      BY <2>1, GraphSearchAssumption DEF ReadGraph
    <3>3. hops' \in Nat \ {0}
      BY <2>1, GraphSearchAssumption DEF ReadGraph
    <3> QED
      BY <1>1, <3>1, <3>2, <3>3 DEF WalkTypes
  <2>2. CASE walk' = "fallback"
    <3>1. UNCHANGED <<present, rels, seeds, hops>>
      BY <2>2 DEF ReadGraph
    <3> QED
      BY <1>1, <3>1 DEF WalkInv, WalkTypes
  <2> QED
    BY <2>1, <2>2 DEF ReadGraph
<1>3. ExpandInv'
  <2>1. CASE walk' = "expand"
    <3>1. expanded' = SeedSet'
      BY <2>1 DEF ReadGraph, SeedSet
    <3>2. Reach(present', rels', SeedSet', FALSE, 0) = SeedSet'
      BY ReachStart
    <3>3. hop' - 1 = 0 /\ hop' \in 1..hops'
      BY <1>1, <1>2 DEF WalkTypes
    <3> QED
      BY <1>1, <2>1, <3>1, <3>2, <3>3 DEF ExpandInv
  <2>2. CASE walk' = "fallback"
    BY <1>1, <2>2 DEF ExpandInv
  <2> QED
    BY <2>1, <2>2 DEF ReadGraph
<1>4. PathsInv'
  BY <1>1 DEF ReadGraph, PathsInv
<1> QED
  BY <1>2, <1>3, <1>4 DEF WalkInv

LEMMA ExpandKeeps == WalkInv /\ ExpandHop => WalkInv'
<1> SUFFICES ASSUME WalkInv, ExpandHop PROVE WalkInv'
  OBVIOUS
<1>1. WalkTypes /\ hop \in 1..hops /\ expanded = Reach(present, rels, SeedSet, FALSE, hop - 1)
  BY DEF ExpandHop, WalkInv, ExpandInv
<1>2. /\ start = 0 /\ queue = <<>> /\ paths = <<>> /\ visited = {}
      /\ UNCHANGED <<present, rels, seeds, hops, start, queue, visited, paths>>
  BY DEF ExpandHop, WalkInv, ExpandInv
<1>3. hops \in Nat \ {0} /\ hop \in Nat /\ hop - 1 \in Nat /\ (hop - 1) + 1 = hop
  BY <1>1 DEF WalkTypes
<1> DEFINE R(n) == Reach(present, rels, SeedSet, FALSE, n)
<1>4. hop < hops => expanded' = R(hop)
  <2>1. PICK close : close = FALSE
    OBVIOUS
  <2>2. hop \in Nat \ {0}
    BY <1>1, <1>3
  <2>2a. expanded = Reach(present, rels, SeedSet, close, hop - 1)
    BY <1>1, <2>1
  <2>3. Reach(present, rels, SeedSet, close, hop) = expanded \cup Near(present, rels, expanded, close)
    BY <2>2, <2>2a, ReachStep
  <2>4. R(hop) = expanded \cup Near(present, rels, expanded, FALSE)
    BY <2>1, <2>3
  <2> QED
    BY <1>1, <2>4, NextIsNear DEF ExpandHop
<1>5. NextEntities = {} => R(hops - 1) = R(hop - 1)
  <2> SUFFICES ASSUME NextEntities = {} PROVE R(hops - 1) = R(hop - 1)
    OBVIOUS
  <2>1. Near(present, rels, R(hop - 1), FALSE) \subseteq R(hop - 1)
    BY <1>1, NextIsNear
  <2>2. PICK m \in Nat, n \in Nat : m = hop - 1 /\ n = hops - 1 /\ m <= n
    BY <1>1, <1>3
  <2>3. R(n) = R(m)
    BY <2>1, <2>2, ReachEnds
  <2> QED
    BY <2>2, <2>3
<1>6. WalkTypes'
  <2>1. hop' \in Nat
    BY <1>3 DEF ExpandHop
  <2> QED
    BY <1>1, <1>2, <2>1 DEF WalkTypes
<1>7. ExpandInv'
  <2>1. SeedSet' = SeedSet
    BY <1>2 DEF SeedSet
  <2>2. CASE hop < hops /\ NextEntities = {}
    <3>1. expanded' = expanded /\ hop' = hops /\ walk' = "expand"
      BY <2>2 DEF ExpandHop
    <3>2. hop' \in 1..hops' /\ hop' - 1 = hops - 1
      BY <1>2, <1>3, <3>1
    <3>3. expanded' = Reach(present', rels', SeedSet', FALSE, hop' - 1)
      BY <1>1, <1>2, <1>5, <2>1, <2>2, <3>1, <3>2
    <3> QED
      BY <1>2, <3>1, <3>2, <3>3 DEF ExpandInv
  <2>3. CASE hop < hops /\ NextEntities # {}
    <3>1. expanded' = R(hop) /\ hop' = hop + 1 /\ walk' = "expand"
      BY <1>4, <2>3 DEF ExpandHop
    <3>2. hop' \in 1..hops' /\ hop' - 1 = hop
      BY <1>2, <1>3, <2>3, <3>1
    <3>3. expanded' = Reach(present', rels', SeedSet', FALSE, hop' - 1)
      BY <1>2, <2>1, <3>1, <3>2
    <3> QED
      BY <1>2, <3>1, <3>2, <3>3 DEF ExpandInv
  <2>4. CASE ~(hop < hops)
    <3>1. expanded' = expanded /\ walk' = "paths" /\ hop = hops
      BY <1>1, <1>3, <2>4 DEF ExpandHop
    <3>2. expanded' = Reach(present', rels', SeedSet', FALSE, hops' - 1)
      BY <1>1, <1>2, <2>1, <3>1
    <3> QED
      BY <3>1, <3>2 DEF ExpandInv
  <2> QED
    BY <2>2, <2>3, <2>4
<1>8. PathsInv'
  <2>1. walk' # "done"
    BY DEF ExpandHop
  <2> QED
    BY <1>2, <2>1 DEF PathsInv
<1> QED
  BY <1>6, <1>7, <1>8 DEF WalkInv

\* A step that leaves the graph and the search alone keeps what was found.
LEMMA PathsStay ==
    ASSUME PathsInv, UNCHANGED <<present, rels, seeds, hops, start, queue, visited, paths>>,
           walk' = "done" => start = Len(seeds) /\ queue = <<>>
    PROVE  PathsInv'
<1>1. (\A j \in DOMAIN paths : Shortest(paths[j]))'
  BY DEF PathsInv, Shortest, Around
<1>2. ASSUME NEW i \in 1..start', i < start' \/ queue' = <<>>
      PROVE  Finished(seeds[i], paths)'
  <2>1. Finished(seeds[i], paths)
    BY <1>2 DEF PathsInv
  <2> QED
    BY <2>1 DEF Finished, Leads, Around
<1>3. queue' # <<>> => start' >= 1 /\ Searched(seeds[start], queue, visited, paths)' /\ Ordered(queue)'
  <2>1. queue # <<>> => start >= 1 /\ Searched(seeds[start], queue, visited, paths) /\ Ordered(queue)
    BY DEF PathsInv
  <2> QED
    BY <2>1 DEF Searched, OnWay, Shortest, Leads, Around, Ordered
<1>4. walk' = "done" => start' = Len(seeds') /\ queue' = <<>>
  OBVIOUS
<1> QED
  BY <1>1, <1>2, <1>3, <1>4 DEF PathsInv

LEMMA BeginKeeps == WalkInv /\ BeginSearch => WalkInv'
<1> SUFFICES ASSUME WalkInv, BeginSearch PROVE WalkInv'
  OBVIOUS
<1>1. /\ WalkTypes /\ queue = <<>> /\ walk = "paths"
      /\ UNCHANGED <<present, rels, seeds, hops, expanded, hop, paths>>
  BY DEF BeginSearch, WalkInv
<1>2. start \in Nat /\ Len(seeds) \in Nat /\ start <= Len(seeds)
  BY <1>1 DEF WalkTypes
<1>3. SeedSet' = SeedSet
  BY <1>1 DEF SeedSet
<1>4. CASE start < Len(seeds)
  <2> DEFINE s == seeds[start + 1]
             qu == << <<s>> >>
  <2>1. start' = start + 1 /\ queue' = qu /\ visited' = {s} /\ walk' = "paths"
    BY <1>1, <1>4 DEF BeginSearch
  <2>2. s \in present
    BY <1>1, <1>2, <1>4 DEF WalkTypes
  <2>3. WalkTypes'
    <3>1. qu \in Seq(Seq(present)) /\ {s} \subseteq present
      BY <2>2
    <3>2. start' \in Nat /\ start' <= Len(seeds')
      BY <1>1, <1>2, <1>4, <2>1
    <3> QED
      BY <1>1, <2>1, <3>1, <3>2 DEF WalkTypes
  <2>4. ExpandInv'
    BY <1>1, <1>3, <2>1 DEF WalkInv, ExpandInv
  <2>5. /\ \A i \in DOMAIN qu : i = 1 /\ qu[i] = <<s>>
        /\ Len(<<s>>) = 1 /\ Last(<<s>>) = s /\ <<s>>[1] = s /\ <<s>> # <<>> /\ qu # <<>> /\ 1 \in DOMAIN qu
    BY DEF Last
  <2> HIDE DEF s, qu
  <2>6. Searched(s, qu, {s}, paths)
    BY <2>5 DEF Searched, OnWay
  <2>7. Ordered(qu)
    BY <2>5 DEF Ordered
  <2>8. Searched(seeds[start], queue, visited, paths)'
    <3>2. seeds'[start'] = s
      BY <1>1, <2>1 DEF s
    <3> QED
      BY <1>1, <2>1, <2>6, <3>2 DEF Searched, OnWay, Shortest, Leads, Around
  <2>9. PathsInv'
    <3>1. (\A j \in DOMAIN paths : Shortest(paths[j]))'
      BY <1>1 DEF WalkInv, PathsInv, Shortest, Around
    <3>2. ASSUME NEW i \in 1..start', i < start' \/ queue' = <<>>
          PROVE  Finished(seeds[i], paths)'
      <4>1. i \in 1..start
        BY <1>2, <2>1, <2>5, <3>2
      <4>2. Finished(seeds[i], paths)
        BY <1>1, <4>1 DEF WalkInv, PathsInv
      <4> QED
        BY <1>1, <4>2 DEF Finished, Leads, Around
    <3>3. start' >= 1 /\ Ordered(queue)' /\ walk' # "done"
      BY <1>2, <2>1, <2>7 DEF Ordered
    <3> QED
      BY <2>8, <3>1, <3>2, <3>3 DEF PathsInv
  <2> QED
    BY <2>3, <2>4, <2>9 DEF WalkInv
<1>5. CASE ~(start < Len(seeds))
  <2>1. walk' = "done" /\ UNCHANGED <<start, queue, visited>> /\ start = Len(seeds)
    BY <1>1, <1>2, <1>5 DEF BeginSearch
  <2>2. WalkTypes'
    BY <1>1, <2>1 DEF WalkTypes
  <2>3. ExpandInv'
    BY <1>1, <1>3, <2>1 DEF WalkInv, ExpandInv
  <2>4. PathsInv'
    BY <1>1, <2>1, PathsStay DEF WalkInv
  <2> QED
    BY <2>2, <2>3, <2>4 DEF WalkInv
<1> QED
  BY <1>4, <1>5

LEMMA SearchKeeps == WalkInv /\ SearchStep => WalkInv'
<1> SUFFICES ASSUME WalkInv, SearchStep PROVE WalkInv'
  OBVIOUS
<1>1. /\ WalkTypes /\ queue # <<>> /\ walk = "paths"
      /\ UNCHANGED <<present, rels, seeds, hops, expanded, hop, start, walk>>
  BY DEF SearchStep, WalkInv
<1> DEFINE s == seeds[start]
<1>2. /\ start >= 1 /\ Searched(s, queue, visited, paths) /\ Ordered(queue)
      /\ \A j \in DOMAIN paths : Shortest(paths[j])
  BY <1>1 DEF WalkInv, PathsInv
<1>3. /\ Searched(s, queue', visited', paths') /\ Ordered(queue')
      /\ \A j \in DOMAIN paths' : Shortest(paths'[j])
      /\ \A j \in DOMAIN paths : j \in DOMAIN paths' /\ paths'[j] = paths[j]
      /\ queue' \in Seq(Seq(present)) /\ paths' \in Seq(Seq(present)) /\ visited' \subseteq present
  <2>1. queue \in Seq(Seq(present)) /\ paths \in Seq(Seq(present)) /\ visited \subseteq present
    BY <1>1 DEF WalkTypes
  <2>2. CASE LongEnough(Head(queue))
    <3>1. queue' = Tail(queue) /\ paths' = Append(paths, Head(queue)) /\ visited' = visited
      BY <2>2 DEF SearchStep
    <3>2. Searched(s, Tail(queue), visited, Append(paths, Head(queue))) /\ Ordered(Tail(queue))
      BY <1>1, <1>2, <2>2, RecordStep
    <3>3. \A j \in DOMAIN Append(paths, Head(queue)) : Shortest(Append(paths, Head(queue))[j])
      BY <1>1, <1>2, <2>2, RecordStep
    <3>4. Head(queue) \in Seq(present)
      BY <1>1, <2>1
    <3>5. \A j \in DOMAIN paths : j \in DOMAIN paths' /\ paths'[j] = paths[j]
      BY <2>1, <3>1, <3>4, AppendIs
    <3>6. Tail(queue) \in Seq(Seq(present)) /\ Append(paths, Head(queue)) \in Seq(Seq(present))
      BY <1>1, <2>1, <3>4, TailIs, AppendIs
    <3> QED
      BY <2>1, <3>1, <3>2, <3>3, <3>5, <3>6
  <2>3. CASE ~LongEnough(Head(queue))
    <3> DEFINE follow == Follow(Head(queue))
    <3>1. queue' = Tail(queue) \o follow.added /\ paths' = paths \o follow.added /\ visited' = follow.visited
      BY <2>3 DEF SearchStep
    <3>2. /\ follow.visited \subseteq present /\ follow.added \in Seq(Seq(present))
          /\ Searched(s, Tail(queue) \o follow.added, follow.visited, paths \o follow.added)
          /\ Ordered(Tail(queue) \o follow.added)
      BY <1>1, <1>2, <2>3, ExtendStep
    <3>3. \A j \in DOMAIN (paths \o follow.added) : Shortest((paths \o follow.added)[j])
      BY <1>1, <1>2, <2>3, ExtendStep
    <3> HIDE DEF follow
    <3>4. Joins(paths \o follow.added, paths, follow.added) /\ paths \o follow.added \in Seq(Seq(present))
      BY <2>1, <3>2, JoinIs
    <3>5. Tail(queue) \o follow.added \in Seq(Seq(present))
      BY <1>1, <2>1, <3>2, TailIs, JoinIs
    <3>6. \A j \in DOMAIN paths : j \in DOMAIN paths' /\ paths'[j] = paths[j]
      BY <3>1, <3>4 DEF Joins
    <3> QED
      BY <3>1, <3>2, <3>3, <3>4, <3>5, <3>6
  <2> QED
    BY <2>2, <2>3
<1>4. \A x : Finished(x, paths) => Finished(x, paths')
  BY <1>3 DEF Finished, Leads
<1>5. queue' = <<>> => Finished(s, paths')
  BY <1>1, <1>3, SearchEnds
<1>6. WalkTypes'
  BY <1>1, <1>3 DEF WalkTypes
<1>7. ExpandInv'
  BY <1>1 DEF WalkInv, ExpandInv, SeedSet
<1>8. PathsInv'
  <2>1. (\A j \in DOMAIN paths : Shortest(paths[j]))'
    BY <1>1, <1>3 DEF Shortest, Around
  <2>2. ASSUME NEW i \in 1..start', i < start' \/ queue' = <<>>
        PROVE  Finished(seeds[i], paths)'
    <3>1. Finished(seeds[i], paths')
      <4>1. CASE i < start
        <5>1. Finished(seeds[i], paths)
          BY <1>1, <2>2, <4>1 DEF WalkInv, PathsInv
        <5> QED
          BY <1>4, <5>1
      <4>2. CASE ~(i < start)
        <5>1. i = start /\ queue' = <<>>
          BY <1>1, <2>2, <4>2 DEF WalkTypes
        <5> QED
          BY <1>5, <5>1
      <4> QED
        BY <4>1, <4>2
    <3> QED
      BY <1>1, <3>1 DEF Finished, Leads, Around
  <2>3. Searched(seeds[start], queue, visited, paths)'
    BY <1>1, <1>3 DEF Searched, OnWay, Shortest, Leads, Around
  <2>4. start' >= 1 /\ Ordered(queue)' /\ walk' # "done"
    BY <1>1, <1>2, <1>3 DEF Ordered
  <2> QED
    BY <2>1, <2>2, <2>3, <2>4 DEF PathsInv
<1> QED
  BY <1>6, <1>7, <1>8 DEF WalkInv

LEMMA WalkStep == WalkInv /\ [GraphSearchNext]_graphVars => WalkInv'
<1>1. WalkInv /\ UNCHANGED graphVars => WalkInv'
  <2> SUFFICES ASSUME WalkInv, UNCHANGED graphVars PROVE WalkInv'
    OBVIOUS
  <2>1. WalkTypes'
    BY DEF graphVars, WalkInv, WalkTypes
  <2>2. ExpandInv'
    BY DEF graphVars, WalkInv, ExpandInv, SeedSet
  <2>3. PathsInv'
    <3>1. PathsInv /\ (walk' = "done" => start = Len(seeds) /\ queue = <<>>)
      BY DEF graphVars, WalkInv, PathsInv
    <3> QED
      BY <3>1, PathsStay DEF graphVars
  <2> QED
    BY <2>1, <2>2, <2>3 DEF WalkInv
<1> QED
  BY <1>1, ReadKeeps, ExpandKeeps, BeginKeeps, SearchKeeps DEF GraphSearchNext

\* At the end of the walk, the invariant is what WalksKeepTheirDepth says.
LEMMA WalkKeepsDepth == WalkInv => WalksKeepTheirDepth
<1> SUFFICES ASSUME WalkInv, walk = "done"
             PROVE  /\ \E n \in {hops - 1, hops} : expanded = Within(Range(seeds), FALSE, n)
                    /\ \A i \in DOMAIN seeds :
                          {Last(paths[j]) : j \in {k \in DOMAIN paths : paths[k][1] = seeds[i]}} = Reached(seeds[i])
                    /\ \A j \in DOMAIN paths :
                          /\ Last(paths[j]) \in Within({paths[j][1]}, TRUE, Len(paths[j]) - 1)
                          /\ Last(paths[j]) \notin Within({paths[j][1]}, TRUE, Len(paths[j]) - 2)
  BY DEF WalksKeepTheirDepth
<1>1. \A s, n : Within({s}, TRUE, n) = Around(s, n)
  BY WithinIsReach, Zenon DEF Around
<1>2. \E n \in {hops - 1, hops} : expanded = Within(Range(seeds), FALSE, n)
  <2>1. expanded = Reach(present, rels, SeedSet, FALSE, hops - 1)
    BY DEF WalkInv, ExpandInv
  <2>2. Within(SeedSet, FALSE, hops - 1) = Reach(present, rels, SeedSet, FALSE, hops - 1)
    BY WithinIsReach, Zenon
  <2>3. expanded = Within(SeedSet, FALSE, hops - 1)
    BY <2>1, <2>2
  <2>4. SeedSet = Range(seeds)
    BY DEF SeedSet, Range
  <2> QED
    BY <2>3, <2>4
<1>3. \A j \in DOMAIN paths : Shortest(paths[j]) /\ paths[j] \in Seq(present)
  BY DEF WalkInv, WalkTypes, PathsInv
<1>4. ASSUME NEW i \in DOMAIN seeds
      PROVE  {Last(paths[j]) : j \in {k \in DOMAIN paths : paths[k][1] = seeds[i]}} = Reached(seeds[i])
  <2> DEFINE s == seeds[i]
  <2>1. Reached(s) = Around(s, hops) \ {s}
    BY <1>1 DEF Reached
  <2>2. ASSUME NEW j \in DOMAIN paths, paths[j][1] = s
        PROVE  Last(paths[j]) \in Around(s, hops) \ {s}
    <3>1. Len(paths[j]) - 1 \in Nat /\ Len(paths[j]) - 2 \in Nat /\ hops \in Nat /\ Len(paths[j]) - 1 <= hops
      BY <1>3 DEF Shortest, WalkInv, WalkTypes
    <3>2. Last(paths[j]) \in Around(s, Len(paths[j]) - 1) /\ Last(paths[j]) \notin Around(s, Len(paths[j]) - 2)
      BY <1>3, <2>2 DEF Shortest
    <3>3. s \in Around(s, Len(paths[j]) - 2)
      BY <3>1, AroundGrows
    <3>4. Around(s, Len(paths[j]) - 1) \subseteq Around(s, hops)
      BY <3>1, AroundGrows
    <3> QED
      BY <3>2, <3>3, <3>4
  <2>3. Finished(s, paths)
    <3>1. i \in 1..start
      BY DEF WalkInv, WalkTypes, PathsInv
    <3> QED
      BY <3>1 DEF WalkInv, PathsInv
  <2>4. ASSUME NEW x \in Around(s, hops) \ {s}
        PROVE  \E j \in {k \in DOMAIN paths : paths[k][1] = s} : x = Last(paths[j])
    BY <2>3 DEF Finished, Leads
  <2> QED
    BY <2>1, <2>2, <2>4
<1>5. ASSUME NEW j \in DOMAIN paths
      PROVE  /\ Last(paths[j]) \in Within({paths[j][1]}, TRUE, Len(paths[j]) - 1)
             /\ Last(paths[j]) \notin Within({paths[j][1]}, TRUE, Len(paths[j]) - 2)
  BY <1>1, <1>3 DEF Shortest
<1> QED
  BY <1>2, <1>4, <1>5

\* The paths of a walk that is over lead from each seed to exactly the entities within
\* hop_depth close relations, each on a shortest way, and its expansion has made whole hops,
\* none beyond hop_depth and all but for the last, for any graph, seeds and depth
\* (_find_relationship_paths, _expand_entities).
LEMMA WalksStayInDepth == GraphSearchInit /\ [][GraphSearchNext]_graphVars => []WalksKeepTheirDepth
<1>1. WalkInv /\ [GraphSearchNext]_graphVars => WalkInv'
  BY WalkStep
<1> QED
  BY WalkInit, <1>1, WalkKeepsDepth, PTL

THEOREM WalksAlwaysKeepTheirDepth == GraphSearchSpec => []WalksKeepTheirDepth
BY WalksStayInDepth, PTL DEF GraphSearchSpec

-----------------------------------------------------------------------------
(* The graph beside the queries that walk it (GraphService).               *)

\* A walk works on what it has read and takes nothing from the graph, and so what is proved
\* of the graph, and of a walk, holds of GraphService, the specification that the run checks.
THEOREM ServiceKeepsTheGraph ==
    ServiceSpec => /\ Spec
                   /\ [](TypeOK /\ EndpointsExist /\ MergesAreExact)
                   /\ [](BuildsAlone /\ ProcessingIsExplained)
                   /\ NothingForgotten
                   /\ []WalksKeepTheirDepth
<1>1. ServiceInit => Init /\ GraphSearchInit
  BY DEF ServiceInit
<1>2. /\ [ServiceNext]_<<part, vars, graphVars>> => [Next]_vars
      /\ [ServiceNext]_<<part, vars, graphVars>> => [GraphSearchNext]_graphVars
  BY DEF ServiceNext, BuildPart, SearchPart
<1>3. ServiceSpec => Spec
  BY <1>1, <1>2, PTL DEF ServiceSpec, Spec
<1>4. ServiceSpec => []WalksKeepTheirDepth
  BY <1>1, <1>2, WalksStayInDepth, PTL DEF ServiceSpec
<1> QED
  BY <1>3, <1>4, TypeCorrect, EndpointsExistAlways, MergesAreExactAlways, BuildsAloneAlways,
     ProcessingIsExplainedAlways, NothingForgottenAlways, PTL
=============================================================================

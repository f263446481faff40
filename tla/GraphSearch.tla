---------------------------- MODULE GraphSearch ----------------------------
(***************************************************************************)
(* How a query walks the knowledge graph (query_with_graph in              *)
(* core/services/graph_service.py): _expand_entities goes out from the     *)
(* entities found for the question, one hop after the other, and           *)
(* _find_relationship_paths searches breadth first from each of them.      *)
(*                                                                         *)
(* A relation joins two ids, of which the graph may lack the entity, and   *)
(* knows whether some chunk holds both ends and itself                     *)
(* (_find_common_chunks).  A path is the sequence of its entities: the     *)
(* code writes the relation between each two as another element.           *)
(***************************************************************************)
EXTENDS Naturals, FiniteSets, Sequences, SequencesExt

CONSTANTS GIds,        \* the ids of entities, in the graph or only in relations
          MaxRels,    \* how many relations the graph has
          MaxSeeds,   \* how many entities the question leads to
          MaxHops     \* the largest hop depth

ASSUME GraphSearchAssumption ==
    /\ MaxRels \in Nat /\ MaxSeeds \in Nat
    /\ MaxHops \in Nat \ {0}

VARIABLES present,    \* the entities of the graph
          rels,       \* its relations, in the order of the list
          seeds,      \* the entities to start from; one may occur twice
          hops,       \* the hop depth
          expanded,   \* all_entities of _expand_entities
          hop,        \* the hops made
          start,      \* which seed is being searched from
          queue, visited, paths,  \* of _find_relationship_paths
          walk        \* "asked", "expand", "paths", "done" or "fallback"

graphVars == <<present, rels, seeds, hops, expanded, hop, start, queue, visited, paths, walk>>

\* Which end is the source only shows in the wording of a path.
Relation == [ends : {{x, y} : x, y \in GIds}, together : BOOLEAN]

-----------------------------------------------------------------------------
\* The graph is read, and its entities are matched with those of the question,
\* or ranked by their likeness to it; without a graph the call becomes an
\* ordinary query.  A hop depth of 1 makes no hop.
ReadGraph ==
    /\ walk = "asked"
    /\ \/ /\ present' \in SUBSET GIds
          /\ rels' \in UNION {[1..n -> Relation] : n \in 0..MaxRels}
          /\ seeds' \in UNION {[1..n -> present'] : n \in 0..MaxSeeds}
          /\ hops' \in 1..MaxHops
          /\ expanded' = {seeds'[i] : i \in DOMAIN seeds'}
          /\ walk' = "expand"
       \/ /\ walk' = "fallback"
          /\ UNCHANGED <<present, rels, seeds, hops, expanded>>
    /\ UNCHANGED <<hop, start, queue, visited, paths>>

(* _expand_entities.                                                       *)

\* _get_connected_entity_ids: the other ends of the relations of an entity.
Connected(e) == UNION {rels[i].ends : i \in {j \in DOMAIN rels : e \in rels[j].ends}}

\* The entities of one more hop, without those seen and those the graph lacks.
NextEntities == ((UNION {Connected(e) : e \in expanded}) \cap present) \ expanded

\* One hop; the last one, or one that finds nothing, ends the expansion.
ExpandHop ==
    /\ walk = "expand"
    /\ IF hop < hops
       THEN /\ expanded' = expanded \cup NextEntities
            /\ hop' = IF NextEntities = {} THEN hops ELSE hop + 1
            /\ UNCHANGED walk
       ELSE /\ walk' = "paths"
            /\ UNCHANGED <<expanded, hop>>
    /\ UNCHANGED <<present, rels, seeds, hops, start, queue, visited, paths>>

-----------------------------------------------------------------------------
(* _find_relationship_paths.                                               *)

\* The search from the next seed.
BeginSearch ==
    /\ walk = "paths" /\ queue = <<>>
    /\ IF start < Len(seeds)
       THEN /\ start' = start + 1
            /\ queue' = << <<seeds[start + 1]>> >>
            /\ visited' = {seeds[start + 1]}
            /\ UNCHANGED walk
       ELSE /\ walk' = "done"
            /\ UNCHANGED <<start, queue, visited>>
    /\ UNCHANGED <<present, rels, seeds, hops, expanded, hop, paths>>

\* Variant with a fault: a path one relation longer is still extended.
LongEnoughLate(path) == 2 * Len(path) - 1 > 2 * hops + 1

\* len(path) >= hop_depth * 2, where a path has an element per relation, too.
LongEnough(path) == 2 * Len(path) - 1 >= 2 * hops

\* One relation of the inner loop: its other end is visited, if the graph has
\* it, it was not visited, and the two occur together.
FollowRelation(found, path, r) ==
    LET e    == Last(path)
        next == (r.ends \cap present) \ found.visited
    IN IF e \in r.ends /\ r.together /\ next # {}
       THEN LET x == CHOOSE y \in next : TRUE
            IN [visited |-> found.visited \cup {x}, added |-> Append(found.added, Append(path, x))]
       ELSE found

Follow(path) ==
    FoldLeft(LAMBDA found, r : FollowRelation(found, path, r), [visited |-> visited, added |-> <<>>], rels)

\* The head of the queue is recorded, again, if it is long enough; otherwise
\* it is extended by every relation, and each extension is recorded.
SearchStep ==
    /\ walk = "paths" /\ queue # <<>>
    /\ LET path  == Head(queue)
           found == Follow(path)
       IN IF LongEnough(path)
          THEN /\ queue' = Tail(queue)
               /\ paths' = Append(paths, path)
               /\ UNCHANGED visited
          ELSE /\ queue' = Tail(queue) \o found.added
               /\ paths' = paths \o found.added
               /\ visited' = found.visited
    /\ UNCHANGED <<present, rels, seeds, hops, expanded, hop, start, walk>>

-----------------------------------------------------------------------------
GraphSearchInit ==
    /\ present = {} /\ rels = <<>> /\ seeds = <<>> /\ hops = 1
    /\ expanded = {} /\ hop = 1
    /\ start = 0 /\ queue = <<>> /\ visited = {} /\ paths = <<>>
    /\ walk = "asked"

GraphSearchNext == ReadGraph \/ ExpandHop \/ BeginSearch \/ SearchStep

GraphSearchSpec == GraphSearchInit /\ [][GraphSearchNext]_graphVars /\ WF_graphVars(GraphSearchNext)

\* The entities next to those of T; close: only by relations along which the two
\* occur together.
Beside(T, close) ==
    {x \in present : \E i \in DOMAIN rels, e \in T :
                        (close => rels[i].together) /\ {e, x} = rels[i].ends}

\* The entities within n hops of those of S.
Within(S, close, n) ==
    LET reach[m \in 0..n] ==
          IF m = 0 THEN S ELSE reach[m - 1] \cup Beside(reach[m - 1], close)
    IN reach[n]

\* The entities a search from s should find, none beyond the hop depth.
Reached(s) == Within({s}, TRUE, hops) \ {s}

\* When the walk is over, the paths lead from each seed to exactly the entities
\* within hop_depth relations of it along which two entities occur together, each
\* on a shortest way, and the entities whose chunks are fetched are all those within a
\* whole number of hops over any relation, hop_depth or one less (what a hop is, the two
\* methods do not agree on), and no others (_find_relationship_paths, _expand_entities).
WalksKeepTheirDepth ==
    walk = "done" =>
        /\ \E n \in {hops - 1, hops} : expanded = Within(Range(seeds), FALSE, n)
        /\ \A i \in DOMAIN seeds :
              {Last(paths[j]) : j \in {k \in DOMAIN paths : paths[k][1] = seeds[i]}} = Reached(seeds[i])
        /\ \A j \in DOMAIN paths :
              /\ Last(paths[j]) \in Within({paths[j][1]}, TRUE, Len(paths[j]) - 1)
              /\ Last(paths[j]) \notin Within({paths[j][1]}, TRUE, Len(paths[j]) - 2)
=============================================================================

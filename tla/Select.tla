------------------------------- MODULE Select -------------------------------
(***************************************************************************)
(* The select phase: src/src/osm/reader.  One PBF, a sequence of blobs of  *)
(* nodes, ways and relations, is classified in three passes - relations,   *)
(* then ways (Pass A), then nodes (Pass B) - that stream tag rows out and  *)
(* leave a SelectionContext behind.                                        *)
(*                                                                         *)
(* The sorted path (sorted.rs) bisects the blob list for the way and       *)
(* relation regions, decodes a chunk of blobs in parallel and folds the    *)
(* chunk sequentially in blob order; an ordered run routes rows from the   *)
(* fold, an unordered one from the parallel closures.  The fallback path   *)
(* (fallback.rs) scans the whole file three times, the ways and nodes in   *)
(* parallel with no order at all.                                          *)
(*                                                                         *)
(* Tags are abstracted to what classification makes of them: the topics    *)
(* that keep an element, and the topics a relation exports inherited       *)
(* fields for.  A row is [of, topic, parents].                             *)
(***************************************************************************)
EXTENDS Integers, SequencesExt, Positions

CONSTANTS
  Files,         \* the PBFs considered: sequences of blobs, themselves sequences of elements
  Modes,         \* the configurations considered, records of the fields below
  RelationGeom,  \* topics that want relation geometry (relation_geom_mask)
  NodeGraph,     \* topics whose nodes are graph vertices (node_graph_mask)
  Chunk          \* fold_chunk_blobs

(* mode.sorted       the header declares Sort.Type_then_ID                  *)
(* mode.ordered      a staged backend: rows must come out in file order     *)
(* mode.needsGraph   some topic wants a way graph                           *)
(* mode.inherit      some topic declares inherit_to_member                  *)
(* mode.hasNodes     some topic classifies nodes                            *)
(* mode.skipUntagged no topic keeps an untagged node                        *)

NodeElements == [kind : {"node"}, id : Int, tagged : BOOLEAN, topics : SUBSET Int]
WayElements  ==
  [kind : {"way"}, id : Int, topics : SUBSET Int, viaParent : SUBSET Int, refs : Seq(Int)]
RelationElements ==
  [kind : {"relation"}, id : Int, topics : SUBSET Int, exports : SUBSET Int, members : Seq(Int)]

\* A file is one snapshot: an id (which stands for a kind and a number) names one element.
ASSUME SelectAssumption ==
  /\ Chunk \in Nat \ {0}
  /\ Files \subseteq Seq(Seq(NodeElements \cup WayElements \cup RelationElements))
  /\ \A f \in Files : \A b, c \in DOMAIN f : \A i \in DOMAIN f[b], j \in DOMAIN f[c] :
       f[b][i].id = f[c][j].id => b = c /\ i = j
  /\ \A f \in Files : \A b \in DOMAIN f : \A i \in DOMAIN f[b] : IsFiniteSet(f[b][i].topics)
  /\ \A f \in Files : \A b \in DOMAIN f : \A i \in DOMAIN f[b] :
       f[b][i].kind = "way" => IsFiniteSet(f[b][i].viaParent)
  /\ \A m \in Modes : m.skipUntagged =>
       \A f \in Files : \A b \in DOMAIN f : \A i \in DOMAIN f[b] :
         f[b][i].kind = "node" /\ ~f[b][i].tagged => f[b][i].topics = {}
  /\ \A f \in Files : \A b \in DOMAIN f : \A i \in DOMAIN f[b] :
       f[b][i].kind = "relation" => f[b][i].exports \subseteq f[b][i].topics

VARIABLES
  file, mode,
  pass,        \* which pass is running
  at,          \* first blob of the current chunk
  done,        \* blobs of the chunk (elements of the scan) already classified
  rows,        \* tag rows, in the order they were routed
  points,      \* nodes whose point row was routed
  links,       \* relations whose member-way links were routed
  exported,    \* InheritStore: <<relation, topic>> with captured fields
  relMembers,  \* rel_members: the kept relations
  keptRels,    \* kept_relation_order
  wayRefs,     \* way_refs: <<way, keep mask>>
  keptWays,    \* kept_way_order
  counts,      \* use_counts: node id -> references by kept ways (0: not a member)
  extraNodes,  \* extra_node_ids
  coords,      \* node_coords: <<node id, shared>>
  selected     \* forced cut points

routedVars == <<rows, points, links>>
context    == <<relMembers, keptRels, wayRefs, keptWays, counts, extraNodes, coords, selected>>
vars       == <<file, mode, pass, at, done, routedVars, exported, context>>

-----------------------------------------------------------------------------
(* The file.                                                               *)

Elements == UNION {Range(file[b]) : b \in DOMAIN file}
Kind(k)  == {e \in Elements : e.kind = k}

Of(b, k) == ItemsAt(file[b], {i \in DOMAIN file[b] : file[b][i].kind = k})
Has(b, k) == Of(b, k) # <<>>

NodeIds == (UNION {Range(w.refs) : w \in Kind("way")}) \cup {n.id : n \in Kind("node")}

\* The smallest index from low to high whose blob is one of hits, if every blob after it is
\* one too: the bisection both boundary searches use.  Indices are the code's, from 0.
Bisect(low, high, hits) ==
  LET search[r \in (0..high) \X (0..high)] ==
        IF r[1] >= r[2] THEN r[1]
        ELSE LET mid == (r[1] + r[2]) \div 2
             IN  IF mid + 1 \in hits THEN search[<<r[1], mid>>] ELSE search[<<mid + 1, r[2]>>]
  IN  search[<<low, high>>]

\* find_way_section_start and its boundary check
WayStart == Bisect(0, Len(file), {b \in DOMAIN file : Has(b, "way") \/ Has(b, "relation")})

WayStartHolds ==
  /\ WayStart < Len(file) => Has(WayStart + 1, "way") \/ Has(WayStart + 1, "relation")
  /\ WayStart > 0 =>
       Has(WayStart, "node") /\ ~Has(WayStart, "way") /\ ~Has(WayStart, "relation")

\* find_relation_section_start and its boundary check
RelStart == Bisect(WayStart, Len(file), {b \in DOMAIN file : Has(b, "relation")})

RelStartHolds ==
  /\ RelStart < Len(file) => Has(RelStart + 1, "relation")
  /\ RelStart > WayStart => ~Has(RelStart, "relation")

Sorted == mode.sorted /\ WayStartHolds /\ RelStartHolds

\* The blobs a sorted pass decodes.
Region ==
  CASE pass = "relations" -> (RelStart + 1)..Len(file)
    [] pass = "ways" -> (WayStart + 1)..RelStart
    [] pass = "nodes" -> 1..WayStart
    [] OTHER -> {}

ChunkBlobs == {b \in Region : at <= b /\ b < at + Chunk}

-----------------------------------------------------------------------------
(* Classification: pure functions of an element and, for a way, of the     *)
(* fields its parent relations exported (InheritStore::parents_for).       *)

\* Where some relations list a way, as <<relation, position>>.
Listings(rels, w) == UNION {{r.id} \X {i \in DOMAIN r.members : r.members[i] = w.id} : r \in rels}

\* The relations of some listings, ascending, one of them once for every listing.
ListedBy(listings) ==
  [i \in 1..Cardinality(listings) |->
     CHOOSE id \in {l[1] : l \in listings} :
       /\ Cardinality({l \in listings : l[1] < id}) < i
       /\ i <= Cardinality({l \in listings : l[1] <= id})]

\* Seeded fault: the parents of a way are collected as a set.
ParentsOnce(w, t) ==
  IF ~mode.inherit THEN <<>>
  ELSE Ascending({l[1] : l \in Listings({r \in relMembers : <<r.id, t>> \in exported}, w)})

\* build_way_parents, then parents_for: the exporting parents in id order, as often as they
\* list the way.
Parents(w, t) ==
  IF ~mode.inherit THEN <<>>
  ELSE ListedBy(Listings({r \in relMembers : <<r.id, t>> \in exported}, w))

\* Topics that keep the way by its own tags, or by what a parent exported to it.
WayTopics(w) == w.topics \cup {t \in w.viaParent : Parents(w, t) # <<>>}

Row(e, t, parents) == [of |-> e.id, topic |-> t, parents |-> parents]

ElementRows(e, topics, parents(_)) ==
  [i \in 1..Cardinality(topics) |->
     LET t == Ascending(topics)[i] IN Row(e, t, parents(t))]

WayRows(w) == ElementRows(w, WayTopics(w), LAMBDA t : Parents(w, t))
PlainRows(e) == ElementRows(e, e.topics, LAMBDA t : <<>>)

\* Ways decoded beyond those kept by their tags: members of relations that want geometry.
ExtraWays ==
  UNION {Range(r.members) : r \in {p \in relMembers : p.topics \cap RelationGeom # {}}}

\* Seeded fault: a way inside a relation is indexed as relation-only even when kept.
KeepsMemberAsExtra(w) ==
  IF w.id \in ExtraWays THEN {<<w, {}>>}
  ELSE IF WayTopics(w) # {} THEN {<<w, WayTopics(w)>>} ELSE {}

\* The way_refs entry of a decoded way: kept by its tags, or an extra way with mask 0.
Keeps(w) ==
  IF WayTopics(w) # {} \/ w.id \in ExtraWays THEN {<<w, WayTopics(w)>>} ELSE {}

\* How often these ways refer to a node: every position of every ref list counts.
References(ways, n) ==
  Cardinality(UNION {{w.id} \X {i \in DOMAIN w.refs : w.refs[i] = n} : w \in ways})

\* `shared`, as lookup derives it; Present never says so.
SharedNode(n) == mode.needsGraph /\ counts[n] > 1

\* Pass B's three branches for a node.
Referenced(n) == counts[n.id] > 0
ExtraOnly(n)  == ~Referenced(n) /\ n.id \in extraNodes

\* Whether node n reaches classify_node.
Classified(n) ==
  /\ mode.hasNodes /\ ~ExtraOnly(n)
  /\ mode.skipUntagged => n.tagged

\* The coordinates collected for a node: at most one entry.
Coords(n) ==
  IF Referenced(n) THEN {<<n.id, SharedNode(n.id)>>}
  ELSE IF ExtraOnly(n) THEN {<<n.id, FALSE>>} ELSE {}

NodeRows(n) == IF Classified(n) THEN PlainRows(n) ELSE <<>>

Forced(n) == Referenced(n) /\ Classified(n) /\ n.topics \cap NodeGraph # {}

-----------------------------------------------------------------------------
Init ==
  /\ file \in Files /\ mode \in Modes
  /\ pass = IF Sorted THEN "relations" ELSE "scan relations"
  /\ at = IF Sorted THEN RelStart + 1 ELSE 1
  /\ done = {}
  /\ rows = <<>> /\ points = {} /\ links = {} /\ exported = {}
  /\ relMembers = {} /\ keptRels = <<>>
  /\ wayRefs = {} /\ keptWays = <<>>
  /\ counts = [n \in NodeIds |-> 0]
  /\ extraNodes = {} /\ coords = {} /\ selected = {}

InBlobOrder(blobs, Op(_)) ==
  FlattenSeq([i \in 1..Cardinality(blobs) |-> Op(Ascending(blobs)[i])])

InBlobs(blobs, k) == UNION {Range(Of(b, k)) : b \in blobs}

BlobRows(b) ==
  CASE pass = "relations" -> FlattenSeq([i \in DOMAIN Of(b, "relation") |-> PlainRows(Of(b, "relation")[i])])
    [] pass = "ways" -> FlattenSeq([i \in DOMAIN Of(b, "way") |-> WayRows(Of(b, "way")[i])])
    [] pass = "nodes" -> FlattenSeq([i \in DOMAIN Of(b, "node") |-> NodeRows(Of(b, "node")[i])])

\* Relations whose member links, and nodes whose point row, are routed.
Linked(rels)  == {r.id : r \in {p \in rels : p.topics # {} /\ p.members # <<>>}}
Pointed(nodes) == {n.id : n \in {m \in nodes : Classified(m) /\ m.topics # {}}}

\* route_tag, route_member and route_point for the elements of some blobs.
Route(blobs) ==
  /\ rows' = rows \o InBlobOrder(blobs, BlobRows)
  /\ links' = links \cup (IF pass = "relations" THEN Linked(InBlobs(blobs, "relation")) ELSE {})
  /\ points' = points \cup (IF pass = "nodes" THEN Pointed(InBlobs(blobs, "node")) ELSE {})

\* The parallel closure of one blob.  Classifying a relation captures what it exports;
\* an unordered run routes the blob's rows from here.
Classify(b) ==
  /\ b \in ChunkBlobs \ done
  /\ done' = done \cup {b}
  /\ exported' = exported \cup
       IF pass = "relations"
       THEN UNION {{r.id} \X r.exports : r \in Range(Of(b, "relation"))} ELSE {}
  /\ IF mode.ordered THEN UNCHANGED routedVars ELSE Route({b})
  /\ UNCHANGED <<file, mode, pass, at, context>>

\* The chunk has been collected: the sequential fold starts on it, routes its rows if the
\* run is ordered, and the next chunk follows.
ChunkReady == ChunkBlobs # {} /\ done = ChunkBlobs
NextChunk ==
  /\ at' = at + Chunk /\ done' = {}
  /\ IF mode.ordered THEN Route(ChunkBlobs) ELSE UNCHANGED routedVars
  /\ UNCHANGED <<file, mode, pass, exported>>

\* The ids of some of the chunk's elements, in file order.
IdsInOrder(kept) ==
  InBlobOrder(ChunkBlobs, LAMBDA b :
    LET es == ItemsAt(file[b], {i \in DOMAIN file[b] : file[b][i] \in kept})
    IN  [i \in DOMAIN es |-> es[i].id])

\* classify_relations
FoldRelations ==
  /\ pass = "relations" /\ ChunkReady
  /\ LET kept == {r \in InBlobs(ChunkBlobs, "relation") : r.topics # {}}
     IN  /\ relMembers' = relMembers \cup kept
         /\ keptRels' = IF mode.ordered THEN keptRels \o IdsInOrder(kept) ELSE keptRels
  /\ NextChunk
  /\ UNCHANGED <<wayRefs, keptWays, counts, extraNodes, coords, selected>>

\* Seeded fault: kept_way_order filled in the order the blobs came back, not folded.
FoldWaysLastBlobFirst ==
  /\ pass = "ways" /\ ChunkReady
  /\ LET ways == InBlobs(ChunkBlobs, "way")
         kept == {w \in ways : WayTopics(w) # {}}
     IN  /\ wayRefs' = wayRefs \cup UNION {Keeps(w) : w \in ways}
         /\ counts' = [n \in NodeIds |-> counts[n] + References(kept, n)]
         /\ extraNodes' = extraNodes \cup
              UNION {Range(w.refs) : w \in {v \in ways \ kept : v.id \in ExtraWays}}
         /\ keptWays' = IF mode.ordered THEN keptWays \o Reverse(IdsInOrder(kept)) ELSE keptWays
  /\ NextChunk
  /\ UNCHANGED <<relMembers, keptRels, coords, selected>>

\* classify_and_index: only kept ways count references, only extra ones ask for
\* coordinates on the side.
FoldWays ==
  /\ pass = "ways" /\ ChunkReady
  /\ LET ways == InBlobs(ChunkBlobs, "way")
         kept == {w \in ways : WayTopics(w) # {}}
     IN  /\ wayRefs' = wayRefs \cup UNION {Keeps(w) : w \in ways}
         /\ counts' = [n \in NodeIds |-> counts[n] + References(kept, n)]
         /\ extraNodes' = extraNodes \cup
              UNION {Range(w.refs) : w \in {v \in ways \ kept : v.id \in ExtraWays}}
         /\ keptWays' = IF mode.ordered THEN keptWays \o IdsInOrder(kept) ELSE keptWays
  /\ NextChunk
  /\ UNCHANGED <<relMembers, keptRels, coords, selected>>

\* collect_coords
FoldNodes ==
  /\ pass = "nodes" /\ ChunkReady
  /\ LET nodes == InBlobs(ChunkBlobs, "node")
     IN  /\ coords' = coords \cup UNION {Coords(n) : n \in nodes}
         /\ selected' = selected \cup {n.id : n \in {m \in nodes : Forced(m)}}
  /\ NextChunk
  /\ UNCHANGED <<relMembers, keptRels, wayRefs, keptWays, counts, extraNodes>>

\* The pass has folded its last chunk.
NextPass ==
  /\ pass \in {"relations", "ways", "nodes"} /\ ChunkBlobs = {}
  /\ pass' = CASE pass = "relations" -> "ways" [] pass = "ways" -> "nodes" [] OTHER -> "done"
  /\ at' = IF pass = "relations" THEN WayStart + 1 ELSE 1
  /\ UNCHANGED <<file, mode, done, routedVars, exported, context>>

-----------------------------------------------------------------------------
(* The fallback: three scans of the whole file.                            *)

\* Scan R, sequential in file order.  kept_relation_order is a hash map's.
ScanRelations ==
  /\ pass = "scan relations"
  /\ LET rels == FlattenSeq([b \in DOMAIN file |-> Of(b, "relation")])
         kept == {r \in Kind("relation") : r.topics # {}}
     IN  /\ rows' = FlattenSeq([i \in DOMAIN rels |-> PlainRows(rels[i])])
         /\ relMembers' = kept
         /\ links' = Linked(kept)
         /\ exported' = UNION {{r.id} \X r.exports : r \in kept}
         /\ keptRels' \in SetToSeqs({r.id : r \in kept})
  /\ pass' = "scan ways"
  /\ UNCHANGED <<file, mode, at, done, points, wayRefs, keptWays, counts, extraNodes, coords, selected>>

\* Scan 1 reaches one way: in parallel, so in any order.
ScanWay(w) ==
  /\ pass = "scan ways" /\ w \notin done
  /\ done' = done \cup {w}
  /\ rows' = rows \o WayRows(w)
  /\ wayRefs' = wayRefs \cup Keeps(w)
  /\ counts' = [n \in NodeIds |->
                  counts[n] + (IF WayTopics(w) # {} THEN References({w}, n) ELSE 0)]
  /\ UNCHANGED <<file, mode, pass, at, points, links, exported, relMembers, keptRels,
                 keptWays, extraNodes, coords, selected>>

\* The reduced maps are read out: kept_way_order is the order a hash map iterates in.
EndOfWays ==
  /\ pass = "scan ways" /\ done = Kind("way")
  /\ keptWays' \in SetToSeqs({k[1].id : k \in {v \in wayRefs : v[2] # {}}})
  /\ extraNodes' = UNION {Range(k[1].refs) : k \in {v \in wayRefs : v[2] = {}}}
  /\ pass' = "scan nodes" /\ done' = {}
  /\ UNCHANGED <<file, mode, at, routedVars, exported, relMembers, keptRels, wayRefs,
                 counts, coords, selected>>

\* Scan 2 reaches one node.  A referenced node is classified tagged or not.
ScanNode(n) ==
  /\ pass = "scan nodes" /\ n \notin done
  /\ LET classified == mode.hasNodes /\ (Referenced(n) \/ Classified(n))
     IN  /\ rows' = rows \o IF classified THEN PlainRows(n) ELSE <<>>
         /\ points' = points \cup IF classified /\ n.topics # {} THEN {n.id} ELSE {}
         /\ selected' = selected \cup
              IF classified /\ Referenced(n) /\ n.topics \cap NodeGraph # {} THEN {n.id} ELSE {}
  /\ done' = done \cup {n}
  /\ coords' = coords \cup Coords(n)
  /\ UNCHANGED <<file, mode, pass, at, links, exported, relMembers, keptRels, wayRefs, keptWays,
                 counts, extraNodes>>

EndOfNodes ==
  /\ pass = "scan nodes" /\ done = Kind("node")
  /\ pass' = "done"
  /\ UNCHANGED <<file, mode, at, done, routedVars, exported, context>>

-----------------------------------------------------------------------------
Done == pass = "done" /\ UNCHANGED vars

Next ==
  \/ \E b \in DOMAIN file : Classify(b)
  \/ FoldRelations \/ FoldWays \/ FoldNodes \/ NextPass
  \/ ScanRelations \/ EndOfWays \/ EndOfNodes
  \/ \E w \in Kind("way") : ScanWay(w)
  \/ \E n \in Kind("node") : ScanNode(n)
  \/ Done

Spec == Init /\ [][Next]_vars

\* What Sort.Type_then_ID promises, and every writer that declares it keeps: node blobs, then
\* way blobs, then relation blobs, each of one kind and none empty.
KindRank == [node |-> 1, way |-> 2, relation |-> 3]
BlobsInOrder ==
  /\ \A b \in DOMAIN file : file[b] # <<>>
  /\ \A b, c \in DOMAIN file : b <= c => \A i \in DOMAIN file[b], j \in DOMAIN file[c] :
       KindRank[file[b][i].kind] <= KindRank[file[c][j].kind]

\* A header that declares the order tells the truth.
HonestInit == Init /\ (mode.sorted => BlobsInOrder)

HonestSpec == HonestInit /\ [][Next]_vars

-----------------------------------------------------------------------------
(***************************************************************************)
(* The reference: what the whole file selects, in one look.                *)
(***************************************************************************)
RefRelations == {r \in Kind("relation") : r.topics # {}}

RefParents(w, t) == Listings({r \in RefRelations : mode.inherit /\ t \in r.exports}, w)

RefTopics(w) == w.topics \cup {t \in w.viaParent : RefParents(w, t) # {}}

RefKept  == {w \in Kind("way") : RefTopics(w) # {}}
RefExtra == {w \in Kind("way") \ RefKept :
               \E r \in RefRelations : r.topics \cap RelationGeom # {} /\ w.id \in Range(r.members)}

RefUses(n) ==
  Cardinality(UNION {{w.id} \X {i \in DOMAIN w.refs : w.refs[i] = n.id} : w \in RefKept})

RefExtraOnly(n) == RefUses(n) = 0 /\ \E w \in RefExtra : n.id \in Range(w.refs)

\* A node only relation-only ways refer to is not classified: the code's answer
\* (sorted.rs:446), not that of the comment at sorted.rs:365-367.
RefClassified == {n \in Kind("node") : mode.hasNodes /\ ~RefExtraOnly(n)}

RefRows ==
  (UNION {{[of |-> r.id, topic |-> t, parents |-> <<>>] : t \in r.topics} : r \in RefRelations}) \cup
  (UNION {{[of |-> w.id, topic |-> t, parents |-> ListedBy(RefParents(w, t))] :
             t \in RefTopics(w)} : w \in RefKept}) \cup
  (UNION {{[of |-> n.id, topic |-> t, parents |-> <<>>] : t \in n.topics} : n \in RefClassified})

(***************************************************************************)
(* Properties                                                              *)
(***************************************************************************)

\* Whatever the blob layout, the interleaving of the parallel closures and the path taken,
\* every row of every kept element is routed exactly once, a member way's rows with its
\* exporting parents in id order, each as often as it lists the way.
RowsOnce == pass = "done" => IsInjective(rows) /\ Range(rows) = RefRows

\* Whatever the layout, the interleaving and the path, the SelectionContext is the same.
ContextIsReference ==
  pass = "done" =>
    /\ relMembers = RefRelations
    /\ links = {r.id : r \in {p \in RefRelations : p.members # <<>>}}
    /\ wayRefs = {<<w, RefTopics(w)>> : w \in RefKept \cup RefExtra}
    /\ coords = {<<n.id, mode.needsGraph /\ RefUses(n) > 1>> :
                   n \in {m \in Kind("node") : RefUses(m) > 0 \/ RefExtraOnly(m)}}
    /\ selected = {n.id : n \in {m \in RefClassified : RefUses(m) > 0 /\ m.topics \cap NodeGraph # {}}}
    /\ points = {n.id : n \in {m \in RefClassified : m.topics # {}}}

\* Elements p and q are of one kind, and p comes first in the file.
Precedes(p, q) ==
  \E b, c \in DOMAIN file : \E i \in DOMAIN file[b], j \in DOMAIN file[c] :
    /\ file[b][i].id = p /\ file[c][j].id = q /\ file[b][i].kind = file[c][j].kind
    /\ b < c \/ (b = c /\ i < j)

InFileOrder(ids) == \A i, j \in DOMAIN ids : i < j => ~Precedes(ids[j], ids[i])

\* An ordered run of the sorted path routes each kind's rows in file order, and hands
\* materialize the elements that have rows, each once, in that same order: what the staged
\* backends' forward cursors rely on.
FileOrder ==
  mode.ordered /\ Sorted =>
    LET rowIds == [i \in DOMAIN rows |-> rows[i].of]
        WithRows(k) == {e.id : e \in {x \in Kind(k) : x.id \in Range(rowIds)}}
    IN  /\ InFileOrder(rowIds)
        /\ InFileOrder(keptWays) /\ IsInjective(keptWays) /\ Range(keptWays) = WithRows("way")
        /\ InFileOrder(keptRels) /\ IsInjective(keptRels) /\ Range(keptRels) = WithRows("relation")

=============================================================================

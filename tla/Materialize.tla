----------------------------- MODULE Materialize -----------------------------
(***************************************************************************)
(* The materialize phase: src/src/geom/materialize.rs `run`, over the      *)
(* SelectionContext the select phase (module Select) left behind.  It      *)
(* gives every graph vertex an internal id, cuts each kept way into edges  *)
(* at its vertices, routes each way's shapes, and assembles the relations' *)
(* geometry from their member ways.                                        *)
(*                                                                         *)
(* A coordinate is the id of the node it belongs to, so a geometry is a    *)
(* sequence of nodes.  A context is a record:                              *)
(*   refs[w]     node refs of way w, kept or a relation member (way_refs)  *)
(*   mask[w]     topics that kept w; {} for a relation-only way            *)
(*   present     nodes of the file                                         *)
(*   selected    referenced nodes some topic forces a cut at               *)
(*   keptWays, keptRels   kept_way_order, kept_relation_order              *)
(*   members[r], topics[r] <<way, role>> list and keep mask of relation r  *)
(*   graph       plan.any_way_graph                                        *)
(*   ordered     the backend is a staged one                               *)
(***************************************************************************)
EXTENDS Integers, SequencesExt, Positions

CONSTANTS
  Contexts,      \* the contexts considered
  WayGeom,       \* plan.way_geom_topics
  RelationShape  \* plan.relation_shape, as a function of plan.relation_geom_topics

ASSUME MaterializeAssumption ==
  /\ \A t \in DOMAIN RelationShape : RelationShape[t] \in {"line", "point", "polygon"}
  /\ \A c \in Contexts :
       /\ DOMAIN c.mask = DOMAIN c.refs /\ DOMAIN c.topics = DOMAIN c.members
       /\ \A w \in DOMAIN c.refs : c.refs[w] \in Seq(Int)
       /\ IsFiniteSet(c.present) /\ c.graph \in BOOLEAN /\ c.ordered \in BOOLEAN
       /\ c.keptWays \in Seq(DOMAIN c.refs) /\ c.keptRels \in Seq(DOMAIN c.members)
       /\ \A r \in DOMAIN c.members : c.members[r] \in Seq(Range(c.members[r]))
       /\ IsInjective(c.keptWays) /\ IsInjective(c.keptRels)
       /\ Range(c.keptWays) = {w \in DOMAIN c.refs : c.mask[w] # {}}
       /\ Range(c.keptRels) = DOMAIN c.members
       /\ \A n \in c.selected : n \in c.present /\ \E w \in Range(c.keptWays) : n \in Range(c.refs[w])

VARIABLES
  ctx,       \* the SelectionContext, with the plan's flags
  stage,     \* "assign", "ways", "relations", "done" or "panicked"
  nodeIds,   \* node -> internal vertex id
  nodeRows,  \* rows of `nodes`: <<id, node>>
  todo,      \* kept ways not routed yet
  crashed,   \* a worker has panicked
  edges,     \* rows of `edges`, in the order they were routed
  wayGeom,   \* wayGeom[t]: ways routed to {t}_way_geom, with their geometry
  requests,  \* relations not assembled yet
  relGeom    \* relGeom[t]: rows of {t}_relation_geom

outputs == <<edges, wayGeom>>
materializeVars    == <<ctx, stage, nodeIds, nodeRows, todo, crashed, outputs, requests, relGeom>>

-----------------------------------------------------------------------------
(* Reading the context.                                                    *)

Kept == Range(ctx.keptWays)

\* References to n by kept ways: <<w, i>> for the i-th ref of w.
Uses(n) == UNION {{w} \X {i \in DOMAIN ctx.refs[w] : ctx.refs[w][i] = n} : w \in Kept}

\* NodeCoords: the nodes of kept and relation-only ways the file has.
Located == {n \in ctx.present : \E w \in DOMAIN ctx.refs : n \in Range(ctx.refs[w])}

\* NodeRefCounts::lookup, a count above one: never for the nodes only a relation-only way
\* brings in.
Shared(n) == ctx.graph /\ \E a, b \in Uses(n) : a # b

\* WayRefsStore::endpoints
Endpoints == {Head(ctx.refs[w]) : w \in {v \in Kept : ctx.refs[v] # <<>>}} \cup
             {Last(ctx.refs[w]) : w \in {v \in Kept : ctx.refs[v] # <<>>}}

\* Seeded fault: an id for every located node.
VerticesUnfiltered == Located

\* The nodes assign_node_ids gives an id.
Vertices == {n \in Located : Shared(n) \/ n \in Endpoints \/ n \in ctx.selected}

\* resolve_geometry: the located nodes of a way, and the positions to cut it at.
Line(w) == ItemsAt(ctx.refs[w], {i \in DOMAIN ctx.refs[w] : ctx.refs[w][i] \in Located})

Resolves(w) == w \in DOMAIN ctx.refs /\ Len(Line(w)) >= 2

\* Seeded fault: cut points computed over the refs, not the resolved points.
CutPointsOfRefs(w) ==
  {i \in DOMAIN Line(w) :
     i = 1 \/ i = Len(Line(w)) \/ Shared(ctx.refs[w][i]) \/ ctx.refs[w][i] \in ctx.selected}

CutPoints(w) ==
  {i \in DOMAIN Line(w) :
     i = 1 \/ i = Len(Line(w)) \/ Shared(Line(w)[i]) \/ Line(w)[i] \in ctx.selected}

Edge(w, seg, first, last) ==
  [of |-> w, seg |-> seg, start |-> nodeIds[Line(w)[first]], end |-> nodeIds[Line(w)[last]],
   nodes |-> SubSeq(Line(w), first, last)]

\* Seeded fault: a segment that stops short of the cut point it shares with the next.
BuildEdgesExclusive(w) ==
  LET cut == Ascending(CutPoints(w))
  IN  [i \in 1..(Len(cut) - 1) |->
         [Edge(w, i - 1, cut[i], cut[i + 1]) EXCEPT
            !.nodes = SubSeq(Line(w), cut[i], IF i < Len(cut) - 1 THEN cut[i + 1] - 1 ELSE cut[i + 1])]]

\* build_edges: one row per pair of neighbouring cut points.
BuildEdges(w) ==
  LET cut == Ascending(CutPoints(w))
  IN  [i \in 1..(Len(cut) - 1) |-> Edge(w, i - 1, cut[i], cut[i + 1])]

\* `expect("cut-point node missing from internal node id map")`
Numbered(w) == \A i \in CutPoints(w) : Line(w)[i] \in DOMAIN nodeIds

-----------------------------------------------------------------------------
(* assemble_rings, one round of its loops at a time: the ring under        *)
(* construction (<<>> when none is), the finished rings, the segments left. *)

Closed(ring) == Head(ring) = Last(ring)

\* Positions of the segments that start or end where the ring ends.
Continuations(ring, left) ==
  {i \in DOMAIN left : Head(left[i]) = Last(ring) \/ Last(left[i]) = Last(ring)}

\* Seeded fault: the segment appended as it lies, never reversed.
ExtendAsIs(ring, segment) == ring \o Tail(segment)

\* The ring goes on with a segment, turned round if it is its end that matches.
Extend(ring, segment) ==
  ring \o Tail(IF Head(segment) = Last(ring) THEN segment ELSE Reverse(segment))

AssembleStep(a) ==
  IF a.ring = <<>>
  THEN IF a.left = <<>> THEN a
       ELSE [a EXCEPT !.ring = Last(a.left), !.left = Front(a.left)]
  ELSE IF Closed(a.ring) \/ Continuations(a.ring, a.left) = {}
  THEN [a EXCEPT !.rings = Append(@, a.ring), !.ring = <<>>]
  ELSE LET i == Min(Continuations(a.ring, a.left))
       IN  [a EXCEPT !.ring = Extend(@, a.left[i]), !.left = RemoveAt(@, i)]

\* Every segment is popped or appended once, and every ring finished once.
AssembleRings(segments) ==
  LET rounds == 2 * Len(segments)
      after[k \in 0..rounds] ==
        IF k = 0 THEN [ring |-> <<>>, rings |-> <<>>, left |-> segments]
        ELSE AssembleStep(after[k - 1])
  IN  after[rounds].rings

\* The resolved geometry of the members a test selects, in member order.
MemberLines(r, Test(_)) ==
  LET list   == ctx.members[r]
      chosen == ItemsAt(list, {i \in DOMAIN list : Test(list[i][2]) /\ Resolves(list[i][1])})
  IN  [i \in DOMAIN chosen |-> Line(chosen[i][1])]

\* `max_by_key`: the last of the longest.
Longest(rings) ==
  LET longest == {i \in DOMAIN rings : \A j \in DOMAIN rings : Len(rings[j]) <= Len(rings[i])}
  IN  rings[Max(longest)]

\* The relation's row of a shape, if it has one.
RelationRow(r, shape) ==
  LET all   == MemberLines(r, LAMBDA role : TRUE)
      outer == AssembleRings(MemberLines(r, LAMBDA role : role # "inner"))
      inner == AssembleRings(MemberLines(r, LAMBDA role : role = "inner"))
  IN  CASE shape = "line" /\ all # <<>> ->
             <<[of |-> r, shape |-> shape, lines |-> AssembleRings(all)]>>
        [] shape = "point" /\ all # <<>> ->
             <<[of |-> r, shape |-> shape, lines |-> <<FlattenSeq(all)>>]>>
        [] shape = "polygon" /\ outer # <<>> ->
             <<[of |-> r, shape |-> shape, lines |-> <<Longest(outer)>> \o inner]>>
        [] OTHER -> <<>>

-----------------------------------------------------------------------------
MaterializeInit ==
  /\ ctx \in Contexts
  /\ stage = "assign"
  /\ nodeIds = <<>> /\ nodeRows = <<>>
  /\ todo = Kept /\ crashed = FALSE
  /\ edges = <<>> /\ wayGeom = [t \in WayGeom |-> <<>>]
  /\ requests = DOMAIN ctx.members
  /\ relGeom = [t \in DOMAIN RelationShape |-> <<>>]

\* Seeded fault: the ids of shared nodes only.
AssignSharedIds ==
  /\ stage = "assign"
  /\ LET order == Ascending({n \in Vertices : Shared(n)})
     IN  /\ nodeRows' = [i \in DOMAIN order |-> <<i, order[i]>>]
         /\ nodeIds' = [n \in Range(order) |-> CHOOSE i \in DOMAIN order : order[i] = n]
  /\ stage' = "ways"
  /\ UNCHANGED <<ctx, todo, crashed, outputs, requests, relGeom>>

\* assign_node_ids walks the coordinates in the arena's hashed order.  The rows are
\* returned, and routed once the ways are done.
AssignIds ==
  /\ stage = "assign"
  /\ IF ctx.graph
     THEN \E order \in SetToSeqs(Vertices) :
            /\ nodeRows' = [i \in DOMAIN order |-> <<i, order[i]>>]
            /\ nodeIds' = [n \in Vertices |-> CHOOSE i \in DOMAIN order : order[i] = n]
     ELSE UNCHANGED <<nodeRows, nodeIds>>
  /\ stage' = "ways"
  /\ UNCHANGED <<ctx, todo, crashed, outputs, requests, relGeom>>

\* x comes first in order among what is left.
ComesFirst(x, order, left) ==
  \E i \in DOMAIN order : order[i] = x /\ \A j \in 1..(i - 1) : order[j] \notin left

\* An ordered run routes the kept ways in kept order; an unordered one from whichever
\* worker resolved them, and its other workers outlive one that panics.
Turn(w) == ctx.ordered => ~crashed /\ ComesFirst(w, ctx.keptWays, todo)

\* Seeded fault: a way's shape sent to every topic that wants way geometry.
RouteWayToAll(w) ==
  /\ stage = "ways" /\ w \in todo /\ Turn(w)
  /\ todo' = todo \ {w}
  /\ IF Resolves(w)
     THEN /\ edges' = IF ctx.graph THEN edges \o BuildEdges(w) ELSE edges
          /\ wayGeom' = [t \in WayGeom |-> Append(wayGeom[t], <<w, Line(w)>>)]
     ELSE UNCHANGED outputs
  /\ UNCHANGED <<ctx, stage, nodeIds, nodeRows, crashed, requests, relGeom>>

\* One way is resolved, built and routed.  Edges are built for every kept way once any
\* topic wants the graph.
RouteWay(w) ==
  /\ stage = "ways" /\ w \in todo /\ Turn(w)
  /\ todo' = todo \ {w}
  /\ IF Resolves(w) /\ ctx.graph /\ ~Numbered(w)
     THEN crashed' = TRUE /\ UNCHANGED outputs
     ELSE /\ UNCHANGED crashed
          /\ IF Resolves(w)
             THEN /\ edges' = IF ctx.graph THEN edges \o BuildEdges(w) ELSE edges
                  /\ wayGeom' = [t \in WayGeom |->
                       IF t \in ctx.mask[w] THEN Append(wayGeom[t], <<w, Line(w)>>) ELSE wayGeom[t]]
             ELSE UNCHANGED outputs
  /\ UNCHANGED <<ctx, stage, nodeIds, nodeRows, requests, relGeom>>

\* The parallel loop is over: it re-raises a worker's panic.
EndOfKeptWays ==
  /\ stage = "ways"
  /\ todo = {} \/ crashed
  /\ stage' = IF crashed THEN "panicked" ELSE "relations"
  /\ UNCHANGED <<ctx, nodeIds, nodeRows, todo, crashed, outputs, requests, relGeom>>

\* One relation's geometry, routed to every topic that kept it and wants some.
BuildRelation(r) ==
  /\ stage = "relations" /\ r \in requests
  /\ ctx.ordered => ComesFirst(r, ctx.keptRels, requests)
  /\ requests' = requests \ {r}
  /\ relGeom' = [t \in DOMAIN RelationShape |->
       IF t \in ctx.topics[r] THEN relGeom[t] \o RelationRow(r, RelationShape[t]) ELSE relGeom[t]]
  /\ UNCHANGED <<ctx, stage, nodeIds, nodeRows, todo, crashed, outputs>>

Finish ==
  /\ stage = "relations" /\ requests = {}
  /\ stage' = "done"
  /\ UNCHANGED <<ctx, nodeIds, nodeRows, todo, crashed, outputs, requests, relGeom>>

Stopped == stage \in {"done", "panicked"} /\ UNCHANGED materializeVars

MaterializeNext ==
  \/ AssignIds \/ EndOfKeptWays \/ Finish \/ Stopped
  \/ \E w \in DOMAIN ctx.refs : RouteWay(w)
  \/ \E r \in DOMAIN ctx.members : BuildRelation(r)

MaterializeSpec == MaterializeInit /\ [][MaterializeNext]_materializeVars

-----------------------------------------------------------------------------
(***************************************************************************)
(* Properties                                                              *)
(***************************************************************************)
\* The steps of a line, and where lines take one: the i-th from its j-th node.
Steps(line) == {{line[j], line[j + 1]} : j \in 1..(Len(line) - 1)}

Taken(lines, step) ==
  UNION {{i} \X {j \in 1..(Len(lines[i]) - 1) : {lines[i][j], lines[i][j + 1]} = step} :
           i \in DOMAIN lines}

\* The edges of a routed way, in segment order, are its geometry: neighbours share the node
\* they meet at, and nothing is left out, whatever nodes the file lacks.
EdgesTileWays ==
  \A w \in Kept :
    LET own == ItemsAt(edges, {k \in DOMAIN edges : edges[k].of = w})
    IN  IF w \in todo \/ ~Resolves(w) \/ ~ctx.graph \/ crashed THEN own = <<>> \/ crashed
        ELSE /\ \A i \in DOMAIN own : own[i].seg = i - 1 /\ Len(own[i].nodes) >= 2
             /\ \E cut \in [1..(Len(own) + 1) -> DOMAIN Line(w)] :
                  /\ cut[1] = 1 /\ cut[Len(own) + 1] = Len(Line(w))
                  /\ \A i \in DOMAIN own : own[i].nodes = SubSeq(Line(w), cut[i], cut[i + 1])

\* `nodes` resolves every id an edge uses to the node at that end of the edge, and has no
\* vertex without an edge, but the ends of ways too short to have a geometry.
NodesMatchEdges ==
  stage = "done" /\ ctx.graph =>
    LET nodeOf(id) == {row[2] : row \in {x \in Range(nodeRows) : x[1] = id}}
        short == {w \in Kept : ~Resolves(w) /\ ctx.refs[w] # <<>>}
    IN  /\ \A e \in Range(edges) :
             nodeOf(e.start) = {Head(e.nodes)} /\ nodeOf(e.end) = {Last(e.nodes)}
        /\ \A row \in Range(nodeRows) :
             \/ \E e \in Range(edges) : row[1] \in {e.start, e.end}
             \/ \E w \in short : row[2] \in {Head(ctx.refs[w]), Last(ctx.refs[w])}

\* The graph can be routed on: two ways, or two passages of one way, that meet at a node
\* meet at a vertex.  A node inside an edge occurs nowhere else in `edges`.
MeetAtVertices ==
  \A k, m \in DOMAIN edges :
    \A i \in 2..(Len(edges[k].nodes) - 1), j \in DOMAIN edges[m].nodes :
      edges[k].nodes[i] = edges[m].nodes[j] => k = m /\ i = j

\* Each topic's way geometry has exactly the ways it kept that have any, once, and in an
\* ordered run in the order of its tag rows.
GeometryFollowsTags ==
  stage \in {"relations", "done"} =>
    \A t \in WayGeom :
      LET ids == [i \in DOMAIN wayGeom[t] |-> wayGeom[t][i][1]]
          want == ItemsAt(ctx.keptWays, {i \in DOMAIN ctx.keptWays :
                                           t \in ctx.mask[ctx.keptWays[i]] /\ Resolves(ctx.keptWays[i])})
      IN  /\ IsInjective(ids) /\ Range(ids) = Range(want)
          /\ ctx.ordered => ids = want

\* A relation's line takes every member way that has a geometry, whole and once, and joins
\* ways only where they meet: its steps are the members' steps, with no chord added.
RelationLinesAreMembers ==
  \A t \in DOMAIN relGeom : \A k \in DOMAIN relGeom[t] :
    LET row   == relGeom[t][k]
        lines == MemberLines(row.of, LAMBDA role : TRUE)
    IN  row.shape = "line" =>
          \A step \in UNION {Steps(l) : l \in Range(lines) \cup Range(row.lines)} :
            Cardinality(Taken(row.lines, step)) = Cardinality(Taken(lines, step))

\* builders.rs:21-23: every cut-point node is guaranteed a spot in the id map, so no
\* worker panics on its `expect`.
CutPointsAreNumbered == ~crashed

=============================================================================

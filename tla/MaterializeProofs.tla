-------------------------- MODULE MaterializeProofs --------------------------
(***************************************************************************)
(* What the materialize phase gives, for every selection context: every    *)
(* cut point has an internal id, the edges of a way tile its geometry, the *)
(* ways meet at vertices only, `nodes` describes the ends of the edges, a  *)
(* topic's way geometry follows its tag rows, and a relation's line takes  *)
(* the steps of its members.                                               *)
(***************************************************************************)
EXTENDS Materialize, SequenceLemmas

-----------------------------------------------------------------------------
(* The inductive invariant.                                                *)

WayRow  == (DOMAIN ctx.refs) \X Seq(Int)
EdgeRow == [of : DOMAIN ctx.refs, seg : Nat, start : Nat, end : Nat, nodes : Seq(Int)]

MTypes ==
  /\ ctx \in Contexts
  /\ stage \in {"assign", "ways", "relations", "done", "panicked"}
  /\ todo \in SUBSET Kept /\ crashed \in BOOLEAN
  /\ edges \in Seq(EdgeRow)
  /\ wayGeom \in [WayGeom -> Seq(WayRow)]

\* Before the ids are assigned nothing is routed; a later phase starts when every way is.
InStage ==
  /\ stage = "assign" => todo = Kept /\ ~crashed /\ edges = <<>> /\ wayGeom = [t \in WayGeom |-> <<>>]
  /\ stage \in {"relations", "done"} => todo = {} /\ ~crashed

\* `nodes` and the id map say the same of every vertex.
IdsAreRows ==
  stage # "assign" /\ ctx.graph =>
    /\ nodeIds \in [Vertices -> Nat] /\ DOMAIN nodeRows \subseteq Nat
    /\ \A n \in Vertices : /\ nodeIds[n] \in DOMAIN nodeRows
                           /\ nodeRows[nodeIds[n]] = <<nodeIds[n], n>>
    /\ \A i \in DOMAIN nodeRows : \E n \in Vertices : nodeIds[n] = i /\ nodeRows[i] = <<i, n>>

\* The edges of w are a block of `edges`, and there are no others.
BlockAt(w, b) ==
  /\ b + Len(BuildEdges(w)) <= Len(edges)
  /\ \A i \in 1..Len(BuildEdges(w)) : edges[b + i] = BuildEdges(w)[i]
  /\ \A k \in 1..Len(edges) : edges[k].of = w => k \in (b + 1)..(b + Len(BuildEdges(w)))

Placed(w) == \E b \in Nat : BlockAt(w, b)

EdgesAreBlocks ==
  /\ \A k \in 1..Len(edges) : \E w \in Kept \ todo :
       edges[k].of = w /\ ctx.graph /\ Resolves(w) /\ Placed(w)
  /\ \A w \in Kept \ todo : ctx.graph /\ Resolves(w) => crashed \/ Placed(w)

\* The ways of a topic's geometry.
GeomIds(t) == [i \in DOMAIN wayGeom[t] |-> wayGeom[t][i][1]]

\* The ways whose shape goes to t.
Wanted(t, ways) == {w \in ways : t \in ctx.mask[w] /\ Resolves(w)}

\* The positions in kept_way_order, up to the k-th, of the ways whose shape goes to t.
WantedAt(t, k) == {i \in 1..k : t \in ctx.mask[ctx.keptWays[i]] /\ Resolves(ctx.keptWays[i])}

GeometryIsRouted ==
  ~crashed =>
    /\ \A t \in WayGeom : IsInjective(GeomIds(t)) /\ Range(GeomIds(t)) = Wanted(t, Kept \ todo)
    /\ ctx.ordered => \E k \in 0..Len(ctx.keptWays) :
         /\ todo = {ctx.keptWays[i] : i \in (k + 1)..Len(ctx.keptWays)}
         /\ \A t \in WayGeom : GeomIds(t) = ItemsAt(ctx.keptWays, WantedAt(t, k))

\* The file has both ends of every kept way.
EndsInFile ==
  \A w \in Kept : ctx.refs[w] # <<>> =>
    Head(ctx.refs[w]) \in ctx.present /\ Last(ctx.refs[w]) \in ctx.present

NoWorkerPanics == EndsInFile => ~crashed

MIInv == MTypes /\ InStage /\ IdsAreRows /\ EdgesAreBlocks /\ GeometryIsRouted /\ NoWorkerPanics

-----------------------------------------------------------------------------
(* The operators.                                                          *)

\* What MaterializeAssumption says of the context at hand.
LEMMA ContextFacts ==
  ASSUME ctx \in Contexts
  PROVE  /\ DOMAIN ctx.mask = DOMAIN ctx.refs
         /\ \A w \in DOMAIN ctx.refs : ctx.refs[w] \in Seq(Int)
         /\ IsFiniteSet(ctx.present) /\ ctx.graph \in BOOLEAN /\ ctx.ordered \in BOOLEAN
         /\ ctx.keptWays \in Seq(DOMAIN ctx.refs)
         /\ Kept = {ctx.keptWays[i] : i \in DOMAIN ctx.keptWays} /\ Kept \subseteq DOMAIN ctx.refs
         /\ \A i, j \in DOMAIN ctx.keptWays : ctx.keptWays[i] = ctx.keptWays[j] => i = j
         /\ \A n \in ctx.selected : n \in ctx.present /\ \E w \in Kept : n \in Range(ctx.refs[w])
BY MaterializeAssumption DEF Kept, Range, IsInjective

\* The positions of w's refs whose node the file has.
LocatedAt(w) == {i \in DOMAIN ctx.refs[w] : ctx.refs[w][i] \in Located}

\* The geometry of w lists its located nodes: At says where each is in the refs.
At(w) == Ascending(LocatedAt(w))

LEMMA LineFacts ==
  ASSUME ctx \in Contexts, NEW w \in DOMAIN ctx.refs
  PROVE  /\ Line(w) \in Seq(Int) /\ Len(Line(w)) \in Nat /\ DOMAIN Line(w) = 1..Len(Line(w))
         /\ \A p \in 1..Len(Line(w)) :
              /\ At(w)[p] \in DOMAIN ctx.refs[w] /\ Line(w)[p] = ctx.refs[w][At(w)[p]]
              /\ Line(w)[p] \in Located /\ Line(w)[p] \in Int
         /\ \A p, q \in 1..Len(Line(w)) : At(w)[p] = At(w)[q] => p = q
         /\ \A i \in LocatedAt(w) : \E p \in 1..Len(Line(w)) : At(w)[p] = i
         /\ \A p, q \in 1..Len(Line(w)) : p < q => At(w)[p] < At(w)[q]
<1>. DEFINE I == LocatedAt(w)
<1>1. ctx.refs[w] \in Seq(Int) /\ I \in SUBSET (DOMAIN ctx.refs[w])
  BY ContextFacts DEF LocatedAt
<1>2. Line(w) = ItemsAt(ctx.refs[w], I)
  BY DEF Line, LocatedAt
<1>3. /\ IsFiniteSet(I) /\ I \subseteq Int /\ Cardinality(I) \in Nat
      /\ Line(w) \in Seq(Int) /\ Len(Line(w)) = Cardinality(I)
      /\ \A k \in 1..Cardinality(I) : Line(w)[k] = ctx.refs[w][At(w)[k]]
  <2>. HIDE DEF I
  <2>. QED BY <1>1, <1>2, ItemsAtFacts DEF At, I
<1>4. /\ At(w) \in [1..Cardinality(I) -> I]
      /\ \A x \in I : \E i \in 1..Cardinality(I) : At(w)[i] = x
      /\ \A i, j \in 1..Cardinality(I) : i < j => At(w)[i] < At(w)[j]
      /\ \A i, j \in 1..Cardinality(I) : At(w)[i] = At(w)[j] => i = j
  <2>. HIDE DEF I
  <2>. QED BY <1>3, AscendingFacts DEF At, I
<1>5. \A p \in 1..Len(Line(w)) : Line(w)[p] \in Int
  BY <1>3, ElementOfSeq
<1>6. \A p \in 1..Len(Line(w)) :
        /\ At(w)[p] \in DOMAIN ctx.refs[w] /\ Line(w)[p] = ctx.refs[w][At(w)[p]]
        /\ Line(w)[p] \in Located
  <2>. SUFFICES ASSUME NEW p \in 1..Len(Line(w))
                PROVE  /\ At(w)[p] \in DOMAIN ctx.refs[w] /\ Line(w)[p] = ctx.refs[w][At(w)[p]]
                       /\ Line(w)[p] \in Located
    OBVIOUS
  <2>1. At(w)[p] \in I
    BY <1>3, <1>4
  <2>. QED BY <1>3, <2>1 DEF LocatedAt
<1>. QED BY <1>3, <1>4, <1>5, <1>6, LenProperties

\* The cut points of w in order.
Cut(w) == Ascending(CutPoints(w))

\* The cut points of a way with a geometry are positions in it, among them its ends.
LEMMA CutFacts ==
  ASSUME ctx \in Contexts, NEW w \in DOMAIN ctx.refs, Resolves(w)
  PROVE  /\ CutPoints(w) \subseteq 1..Len(Line(w)) /\ Len(Cut(w)) \in Nat /\ Len(Cut(w)) >= 2
         /\ Cut(w) \in [1..Len(Cut(w)) -> 1..Len(Line(w))]
         /\ Cut(w)[1] = 1 /\ Cut(w)[Len(Cut(w))] = Len(Line(w))
         /\ \A i \in 1..Len(Cut(w)) : Cut(w)[i] \in CutPoints(w)
         /\ \A i, j \in 1..Len(Cut(w)) : i < j => Cut(w)[i] < Cut(w)[j]
         /\ \A p \in CutPoints(w) : \E i \in 1..Len(Cut(w)) : Cut(w)[i] = p
         /\ \A i \in 1..(Len(Cut(w)) - 1) : \A p \in CutPoints(w) :
              ~(Cut(w)[i] < p /\ p < Cut(w)[i + 1])
<1>. DEFINE C == CutPoints(w)
            cut == Ascending(C)
            L == Len(Line(w))
<1>1. L \in Nat /\ DOMAIN Line(w) = 1..L /\ L >= 2
  BY LineFacts DEF Resolves
<1>2. C \subseteq 1..L /\ 1 \in C /\ L \in C
  BY <1>1 DEF CutPoints
<1>3. IsFiniteSet(C) /\ C \subseteq Int
  <2>1. IsFiniteSet(1..L)
    BY <1>1, FS_Interval
  <2>. QED BY <1>2, <2>1, FS_Subset
<1>4. \A x \in C : 1 <= x /\ x <= L
  BY <1>1, <1>2
<1>. HIDE DEF C, L
<1>5. /\ Cardinality(C) \in Nat /\ cut \in [1..Cardinality(C) -> C] /\ Len(cut) = Cardinality(C)
      /\ \A x \in C : \E i \in 1..Cardinality(C) : cut[i] = x
      /\ \A i, j \in 1..Cardinality(C) : i < j => cut[i] < cut[j]
  BY <1>3, AscendingFacts
<1>6. cut[1] = 1 /\ cut[Cardinality(C)] = L /\ Cardinality(C) >= 2
  <2>1. 1 # L /\ 1 \in C /\ L \in C
    BY <1>1, <1>2
  <2>. QED BY ONLY <1>3, <1>4, <2>1, AscendingEnds
<1>7. \A i \in 1..(Cardinality(C) - 1) : \A p \in C : ~(cut[i] < p /\ p < cut[i + 1])
  BY <1>3, AscendingGap
<1>8. cut \in [1..Cardinality(C) -> 1..L]
  BY <1>2, <1>5
<1>. HIDE DEF cut
<1>9. /\ C \subseteq 1..L /\ Len(cut) \in Nat /\ Len(cut) >= 2
      /\ cut \in [1..Len(cut) -> 1..L]
      /\ cut[1] = 1 /\ cut[Len(cut)] = L
      /\ \A i \in 1..Len(cut) : cut[i] \in C
      /\ \A i, j \in 1..Len(cut) : i < j => cut[i] < cut[j]
      /\ \A p \in C : \E i \in 1..Len(cut) : cut[i] = p
      /\ \A i \in 1..(Len(cut) - 1) : \A p \in C : ~(cut[i] < p /\ p < cut[i + 1])
  BY <1>2, <1>5, <1>6, <1>7, <1>8
<1>. QED BY <1>9 DEF C, L, cut, Cut

\* The i-th edge of w takes the nodes from its i-th cut point to the next.
LEMMA EdgeFacts ==
  ASSUME ctx \in Contexts, NEW w \in DOMAIN ctx.refs, Resolves(w)
  PROVE  /\ Len(BuildEdges(w)) = Len(Cut(w)) - 1 /\ DOMAIN BuildEdges(w) = 1..(Len(Cut(w)) - 1)
         /\ \A i \in 1..(Len(Cut(w)) - 1) :
              /\ BuildEdges(w)[i].of = w /\ BuildEdges(w)[i].seg = i - 1
              /\ BuildEdges(w)[i].start = nodeIds[Line(w)[Cut(w)[i]]]
              /\ BuildEdges(w)[i].end = nodeIds[Line(w)[Cut(w)[i + 1]]]
              /\ BuildEdges(w)[i].nodes = SubSeq(Line(w), Cut(w)[i], Cut(w)[i + 1])
              /\ BuildEdges(w)[i].nodes \in Seq(Int)
              /\ Len(BuildEdges(w)[i].nodes) = Cut(w)[i + 1] - Cut(w)[i] + 1
              /\ Len(BuildEdges(w)[i].nodes) >= 2
              /\ \A j \in 1..Len(BuildEdges(w)[i].nodes) :
                   /\ BuildEdges(w)[i].nodes[j] = Line(w)[Cut(w)[i] + j - 1]
                   /\ Cut(w)[i] + j - 1 \in 1..Len(Line(w))
<1>. DEFINE cut == Cut(w)
            m == Len(cut) - 1
<1>1. /\ Len(cut) \in Nat /\ Len(cut) >= 2 /\ cut \in [1..Len(cut) -> 1..Len(Line(w))]
      /\ \A i, j \in 1..Len(cut) : i < j => cut[i] < cut[j]
  BY CutFacts
<1>2. Line(w) \in Seq(Int) /\ Len(Line(w)) \in Nat /\ \A p \in 1..Len(Line(w)) : Line(w)[p] \in Int
  BY LineFacts
<1>3. BuildEdges(w) = [i \in 1..m |-> Edge(w, i - 1, cut[i], cut[i + 1])]
  BY DEF BuildEdges, Cut
<1>. HIDE DEF cut
<1>4. m \in Nat /\ Len(BuildEdges(w)) = m /\ DOMAIN BuildEdges(w) = 1..m
  <2>1. m \in Nat
    BY <1>1
  <2>. HIDE DEF m
  <2>. DEFINE S == {Edge(w, i - 1, cut[i], cut[i + 1]) : i \in 1..m}
  <2>a. BuildEdges(w) \in [1..m -> S]
    BY <1>3
  <2>2. BuildEdges(w) \in Seq(S)
    <3>. HIDE DEF S
    <3>. QED BY <2>a, <2>1, SeqDef
  <2>. QED BY <1>3, <2>1, <2>2, LenProperties
<1>5. ASSUME NEW i \in 1..m
      PROVE  /\ BuildEdges(w)[i].of = w /\ BuildEdges(w)[i].seg = i - 1
             /\ BuildEdges(w)[i].start = nodeIds[Line(w)[cut[i]]]
             /\ BuildEdges(w)[i].end = nodeIds[Line(w)[cut[i + 1]]]
             /\ BuildEdges(w)[i].nodes = SubSeq(Line(w), cut[i], cut[i + 1])
             /\ BuildEdges(w)[i].nodes \in Seq(Int)
             /\ Len(BuildEdges(w)[i].nodes) = cut[i + 1] - cut[i] + 1
             /\ Len(BuildEdges(w)[i].nodes) >= 2
             /\ \A j \in 1..Len(BuildEdges(w)[i].nodes) :
                  /\ BuildEdges(w)[i].nodes[j] = Line(w)[cut[i] + j - 1]
                  /\ cut[i] + j - 1 \in 1..Len(Line(w))
  <2>. DEFINE a == cut[i]
              b == cut[i + 1]
  <2>1. a \in 1..Len(Line(w)) /\ b \in 1..Len(Line(w)) /\ a < b
    <3>1. i \in 1..Len(cut) /\ i + 1 \in 1..Len(cut) /\ i < i + 1
      BY <1>1
    <3>. QED BY <1>1, <3>1
  <2>2. BuildEdges(w)[i] = Edge(w, i - 1, a, b)
    BY <1>3
  <2>. HIDE DEF a, b, m
  <2>3. \A p \in a..b : p \in 1..Len(Line(w)) /\ Line(w)[p] \in Int
    BY <1>2, <2>1
  <2>4. /\ SubSeq(Line(w), a, b) \in Seq(Int)
        /\ Len(SubSeq(Line(w), a, b)) = b - a + 1
        /\ \A j \in 1..(b - a + 1) : SubSeq(Line(w), a, b)[j] = Line(w)[a + j - 1]
    <3>1. a \in Int /\ b \in Int /\ a <= b
      BY <1>2, <2>1
    <3>. QED BY <2>3, <3>1, SubSeqProperties
  <2>5. b - a + 1 >= 2 /\ \A j \in 1..(b - a + 1) : a + j - 1 \in 1..Len(Line(w))
    BY <1>2, <2>1
  <2>6. /\ Edge(w, i - 1, a, b).of = w /\ Edge(w, i - 1, a, b).seg = i - 1
        /\ Edge(w, i - 1, a, b).start = nodeIds[Line(w)[a]]
        /\ Edge(w, i - 1, a, b).end = nodeIds[Line(w)[b]]
        /\ Edge(w, i - 1, a, b).nodes = SubSeq(Line(w), a, b)
    BY DEF Edge
  <2>. QED BY <2>2, <2>4, <2>5, <2>6 DEF a, b
<1>. QED BY <1>4, <1>5 DEF m, cut

\* When the file has the ends of a kept way, they are the ends of its geometry.
LEMMA LineEnds ==
  ASSUME ctx \in Contexts, NEW w \in Kept, Resolves(w), EndsInFile
  PROVE  Line(w)[1] = Head(ctx.refs[w]) /\ Line(w)[Len(Line(w))] = Last(ctx.refs[w])
<1>. DEFINE L == Len(Line(w))
            R == ctx.refs[w]
<1>1. w \in DOMAIN ctx.refs /\ R \in Seq(Int) /\ Len(R) \in Nat /\ DOMAIN R = 1..Len(R)
  BY ContextFacts, LenProperties
<1>2. /\ L \in Nat /\ L >= 2
      /\ \A p \in 1..L : At(w)[p] \in 1..Len(R) /\ Line(w)[p] = R[At(w)[p]] /\ Line(w)[p] \in Located
      /\ \A i \in LocatedAt(w) : \E p \in 1..L : At(w)[p] = i
      /\ \A p, q \in 1..L : p < q => At(w)[p] < At(w)[q]
  BY <1>1, LineFacts DEF Resolves
<1>3. 1 \in 1..L /\ L \in 1..L /\ At(w)[1] \in 1..Len(R) /\ At(w)[L] \in 1..Len(R)
  BY <1>2
<1>4. R # <<>> /\ 1 \in 1..Len(R) /\ Len(R) \in 1..Len(R)
  BY <1>1, <1>3, EmptySeq
<1>5. Head(R) = R[1] /\ Last(R) = R[Len(R)]
  BY <1>1, <1>4, HeadTailProperties DEF Last
<1>6. Head(R) \in ctx.present /\ Last(R) \in ctx.present
  BY <1>4 DEF EndsInFile
<1>7. 1 \in LocatedAt(w) /\ Len(R) \in LocatedAt(w)
  <2>1. R[1] \in Range(R) /\ R[Len(R)] \in Range(R)
    BY <1>1, <1>4 DEF Range
  <2>2. R[1] \in Located /\ R[Len(R)] \in Located
    BY <1>1, <1>5, <1>6, <2>1 DEF Located
  <2>. QED BY <1>1, <1>4, <2>2 DEF LocatedAt
<1>. HIDE DEF L, R
<1>8. At(w)[1] = 1
  <2>1. PICK p \in 1..L : At(w)[p] = 1
    BY <1>2, <1>7
  <2>2. p = 1
    BY <1>2, <1>3, <2>1
  <2>. QED BY <2>1, <2>2
<1>9. At(w)[L] = Len(R)
  <2>1. PICK p \in 1..L : At(w)[p] = Len(R)
    BY <1>2, <1>7
  <2>2. p < L => Len(R) < At(w)[L]
    BY <1>2, <1>3, <2>1
  <2>3. p = L
    BY <1>1, <1>2, <1>3, <2>2
  <2>. QED BY <2>1, <2>3
<1>10. Line(w)[1] = Head(R) /\ Line(w)[L] = Last(R)
  BY <1>2, <1>3, <1>5, <1>8, <1>9
<1>. QED BY <1>10 DEF L, R

\* Then every cut point is a vertex.
LEMMA CutPointsAreVertices ==
  ASSUME ctx \in Contexts, NEW w \in Kept, Resolves(w), EndsInFile, NEW p \in CutPoints(w)
  PROVE  Line(w)[p] \in Vertices
<1>1. w \in DOMAIN ctx.refs
  BY ContextFacts
<1>2. /\ Len(Line(w)) \in Nat /\ DOMAIN Line(w) = 1..Len(Line(w)) /\ Len(Line(w)) >= 2
      /\ \A q \in 1..Len(Line(w)) : Line(w)[q] \in Located
  BY <1>1, LineFacts DEF Resolves
<1>3. p \in 1..Len(Line(w)) /\ Line(w)[p] \in Located
  BY <1>2 DEF CutPoints
<1>4. ctx.refs[w] # <<>>
  <2>1. At(w)[1] \in DOMAIN ctx.refs[w]
    <3>1. 1 \in 1..Len(Line(w))
      BY <1>2
    <3>. QED BY <1>1, <3>1, LineFacts
  <2>2. ctx.refs[w] \in Seq(Int)
    BY <1>1, ContextFacts
  <2>. QED BY <2>1, <2>2, EmptySeq, LenProperties
<1>5. CASE p = 1 \/ p = Len(Line(w))
  <2>1. Line(w)[p] = Head(ctx.refs[w]) \/ Line(w)[p] = Last(ctx.refs[w])
    BY <1>5, LineEnds
  <2>2. Line(w)[p] \in Endpoints
    BY <1>4, <2>1 DEF Endpoints
  <2>. QED BY <1>3, <2>2 DEF Vertices
<1>6. CASE Shared(Line(w)[p]) \/ Line(w)[p] \in ctx.selected
  BY <1>3, <1>6 DEF Vertices
<1>. QED BY <1>5, <1>6 DEF CutPoints

-----------------------------------------------------------------------------
(* The inductive invariant holds initially and is preserved.               *)

\* Everything read off the context stays while the context does.
LEMMA SameContext ==
  ASSUME ctx' = ctx
  PROVE  /\ Kept' = Kept /\ Vertices' = Vertices /\ EndsInFile' = EndsInFile
         /\ WayRow' = WayRow /\ EdgeRow' = EdgeRow
         /\ \A w : /\ Line(w)' = Line(w) /\ Resolves(w)' = Resolves(w)
                   /\ CutPoints(w)' = CutPoints(w)
         /\ \A t, S : Wanted(t, S)' = Wanted(t, S)
         /\ \A t, k : WantedAt(t, k)' = WantedAt(t, k)
<1>1. Kept' = Kept /\ EndsInFile' = EndsInFile /\ WayRow' = WayRow /\ EdgeRow' = EdgeRow
  BY DEF Kept, EndsInFile, WayRow, EdgeRow
<1>2. Located' = Located /\ Endpoints' = Endpoints /\ \A n : Uses(n)' = Uses(n)
  BY <1>1 DEF Located, Endpoints, Uses
<1>3. \A n : Shared(n)' = Shared(n)
  BY <1>2 DEF Shared
<1>4. Vertices' = Vertices
  BY <1>2, <1>3 DEF Vertices
<1>5. \A w : Line(w)' = Line(w)
  BY <1>2 DEF Line
<1>6. \A w : Resolves(w)' = Resolves(w)
  BY <1>5 DEF Resolves
<1>7. \A w : CutPoints(w)' = CutPoints(w)
  BY <1>3, <1>5 DEF CutPoints
<1>8. \A t, S : Wanted(t, S)' = Wanted(t, S)
  BY <1>6 DEF Wanted
<1>9. \A t, k : WantedAt(t, k)' = WantedAt(t, k)
  BY <1>6 DEF WantedAt
<1>. QED BY <1>1, <1>4, <1>5, <1>6, <1>7, <1>8, <1>9

\* And so do the edges of a way while the ids do.
LEMMA SameEdges ==
  ASSUME ctx' = ctx, nodeIds' = nodeIds
  PROVE  \A w : BuildEdges(w)' = BuildEdges(w)
<1>1. \A w : Line(w)' = Line(w) /\ CutPoints(w)' = CutPoints(w)
  BY SameContext
<1>2. \A w, seg, first, last : Edge(w, seg, first, last)' = Edge(w, seg, first, last)
  BY <1>1 DEF Edge
<1>3. \A w : Ascending(CutPoints(w))' = Ascending(CutPoints(w))
  BY <1>1
<1>. QED BY <1>2, <1>3 DEF BuildEdges

\* The edges of a way whose cut points have ids are rows of `edges`.
LEMMA EdgesTyped ==
  ASSUME ctx \in Contexts, NEW w \in DOMAIN ctx.refs, Resolves(w), Numbered(w),
         nodeIds \in [Vertices -> Nat]
  PROVE  BuildEdges(w) \in Seq(EdgeRow)
<1>. DEFINE cut == Cut(w)
            m == Len(cut) - 1
<1>1. /\ Len(cut) \in Nat /\ Len(cut) >= 2 /\ cut \in [1..Len(cut) -> 1..Len(Line(w))]
      /\ \A i \in 1..Len(cut) : cut[i] \in CutPoints(w)
  BY CutFacts
<1>2. BuildEdges(w) = [i \in 1..m |-> Edge(w, i - 1, cut[i], cut[i + 1])]
  BY DEF BuildEdges, Cut
<1>3. \A p \in CutPoints(w) : nodeIds[Line(w)[p]] \in Nat
  BY DEF Numbered
<1>4. ASSUME NEW i \in 1..m PROVE Edge(w, i - 1, cut[i], cut[i + 1]) \in EdgeRow
  <2>. HIDE DEF cut
  <2>1. i \in 1..Len(cut) /\ i + 1 \in 1..Len(cut) /\ i - 1 \in Nat
    BY <1>1
  <2>2. nodeIds[Line(w)[cut[i]]] \in Nat /\ nodeIds[Line(w)[cut[i + 1]]] \in Nat
    BY <1>1, <1>3, <2>1
  <2>3. SubSeq(Line(w), cut[i], cut[i + 1]) \in Seq(Int)
    <3>1. BuildEdges(w)[i].nodes = SubSeq(Line(w), cut[i], cut[i + 1])
      BY <1>2 DEF Edge
    <3>2. BuildEdges(w)[i].nodes \in Seq(Int)
      BY EdgeFacts DEF m, cut
    <3>. QED BY <3>1, <3>2
  <2>. QED BY <2>1, <2>2, <2>3 DEF Edge, EdgeRow
<1>5. m \in Nat
  BY <1>1
<1>. HIDE DEF cut, m
<1>6. BuildEdges(w) \in [1..m -> EdgeRow]
  BY <1>2, <1>4
<1>. QED BY <1>5, <1>6, SeqDef

\* The invariant holds of the initial states.
LEMMA MInit == MaterializeInit => MIInv
<1>. SUFFICES ASSUME MaterializeInit PROVE MIInv
  OBVIOUS
<1>1. MTypes
  BY EmptySeq DEF MaterializeInit, MTypes
<1>2. InStage /\ IdsAreRows /\ NoWorkerPanics
  BY DEF MaterializeInit, InStage, IdsAreRows, NoWorkerPanics
<1>3. EdgesAreBlocks
  <2>1. Len(edges) = 0 /\ Kept \ todo = {}
    BY EmptySeq DEF MaterializeInit
  <2>. QED BY <2>1 DEF EdgesAreBlocks
<1>4. GeometryIsRouted
  <2>1. \A t \in WayGeom : GeomIds(t) = <<>>
    BY DEF MaterializeInit, GeomIds
  <2>2. \A t \in WayGeom : IsInjective(GeomIds(t)) /\ Range(GeomIds(t)) = {}
    BY <2>1 DEF IsInjective, Range
  <2>3. \A t : Wanted(t, Kept \ todo) = {}
    BY DEF MaterializeInit, Wanted
  <2>4. todo = {ctx.keptWays[i] : i \in (0 + 1)..Len(ctx.keptWays)} /\ 0 \in 0..Len(ctx.keptWays)
    <3>1. ctx \in Contexts /\ todo = Kept
      BY DEF MaterializeInit
    <3>2. /\ Kept = {ctx.keptWays[i] : i \in DOMAIN ctx.keptWays}
          /\ DOMAIN ctx.keptWays = 1..Len(ctx.keptWays) /\ Len(ctx.keptWays) \in Nat
      BY <3>1, ContextFacts, LenProperties
    <3>. QED BY <3>1, <3>2
  <2>5. \A t \in WayGeom : GeomIds(t) = ItemsAt(ctx.keptWays, WantedAt(t, 0))
    <3>1. \A t : WantedAt(t, 0) = {}
      BY DEF WantedAt
    <3>2. ItemsAt(ctx.keptWays, {}) = <<>>
      BY FS_EmptySet DEF ItemsAt
    <3>. QED BY <2>1, <3>1, <3>2
  <2>. QED BY <2>2, <2>3, <2>4, <2>5 DEF GeometryIsRouted
<1>. QED BY <1>1, <1>2, <1>3, <1>4 DEF MIInv

\* Assigning the ids keeps it.
LEMMA MAssign == ASSUME MIInv, AssignIds PROVE MIInv'
<1>1. /\ ctx' = ctx /\ todo' = todo /\ crashed' = crashed /\ edges' = edges /\ wayGeom' = wayGeom
      /\ stage = "assign" /\ stage' = "ways"
  BY DEF AssignIds, outputs
<1>2. ctx \in Contexts
  BY DEF MIInv, MTypes
<1>3. todo = Kept /\ ~crashed /\ edges = <<>>
  BY <1>1 DEF MIInv, InStage
<1>4. MTypes'
  BY <1>1, SameContext DEF MIInv, MTypes
<1>5. InStage' /\ NoWorkerPanics'
  BY <1>1, <1>3 DEF InStage, NoWorkerPanics
<1>6. IdsAreRows'
  <2>. SUFFICES ASSUME ctx.graph
                PROVE  /\ nodeIds' \in [Vertices -> Nat] /\ DOMAIN nodeRows' \subseteq Nat
                       /\ \A n \in Vertices : /\ nodeIds'[n] \in DOMAIN nodeRows'
                                              /\ nodeRows'[nodeIds'[n]] = <<nodeIds'[n], n>>
                       /\ \A i \in DOMAIN nodeRows' : \E n \in Vertices :
                            nodeIds'[n] = i /\ nodeRows'[i] = <<i, n>>
    BY <1>1, SameContext DEF IdsAreRows
  <2>1. PICK order \in SetToSeqs(Vertices) :
          /\ nodeRows' = [i \in DOMAIN order |-> <<i, order[i]>>]
          /\ nodeIds' = [n \in Vertices |-> CHOOSE i \in DOMAIN order : order[i] = n]
    BY DEF AssignIds
  <2>. DEFINE D == 1..Cardinality(Vertices)
  <2>2. order \in [D -> Vertices] /\ \A i, j \in D : i # j => order[i] # order[j]
    BY <2>1 DEF SetToSeqs
  <2>3. IsFiniteSet(Vertices)
    <3>1. Vertices \in SUBSET ctx.present
      BY DEF Vertices, Located
    <3>2. IsFiniteSet(ctx.present)
      BY <1>2, ContextFacts
    <3>. QED BY <3>1, <3>2, FS_Subset
  <2>4. Cardinality(Vertices) \in Nat
    BY <2>3, FS_CardinalityType
  <2>5. \A n \in Vertices : \E i \in D : order[i] = n
    <3>1. IsFiniteSet(D) /\ Cardinality(D) = Cardinality(Vertices)
      BY <2>4, FS_Interval
    <3>. HIDE DEF D
    <3>2. order \in Injection(D, Vertices)
      BY <2>2 DEF Injection, IsInjective
    <3>3. order \in Surjection(D, Vertices)
      BY <2>3, <3>1, <3>2, FS_Injection
    <3>. QED BY <3>3 DEF Surjection
  <2>6. D \subseteq Nat
    BY <2>4
  <2>. HIDE DEF D
  <2>7. DOMAIN order = D /\ DOMAIN nodeRows' = D /\ \A i \in D : nodeRows'[i] = <<i, order[i]>>
    BY <2>1, <2>2
  <2>8. \A n \in Vertices : nodeIds'[n] \in D /\ order[nodeIds'[n]] = n
    BY <2>1, <2>5, <2>7
  <2>9. nodeIds' \in [Vertices -> Nat]
    <3>1. DOMAIN nodeIds' = Vertices /\ nodeIds' = [n \in Vertices |-> nodeIds'[n]]
      BY <2>1
    <3>. QED BY <2>6, <2>8, <3>1
  <2>10. \A i \in D : \E n \in Vertices : nodeIds'[n] = i /\ nodeRows'[i] = <<i, n>>
    <3>. SUFFICES ASSUME NEW i \in D PROVE nodeIds'[order[i]] = i /\ order[i] \in Vertices
      BY <2>7
    <3>1. order[i] \in Vertices
      BY <2>2
    <3>2. nodeIds'[order[i]] \in D /\ order[nodeIds'[order[i]]] = order[i]
      BY <2>8, <3>1
    <3>. QED BY <2>2, <3>1, <3>2
  <2>11. \A n \in Vertices : nodeIds'[n] \in D /\ nodeRows'[nodeIds'[n]] = <<nodeIds'[n], n>>
    BY <2>7, <2>8
  <2>. QED BY <2>6, <2>7, <2>9, <2>10, <2>11
<1>7. EdgesAreBlocks'
  <2>1. Len(edges) = 0 /\ Kept \ todo = {}
    BY <1>3, EmptySeq
  <2>2. Len(edges') = 0 /\ Kept' \ todo' = {}
    BY <1>1, <2>1, SameContext
  <2>. QED BY <2>2 DEF EdgesAreBlocks
<1>8. GeometryIsRouted'
  <2>1. \A t : GeomIds(t)' = GeomIds(t)
    BY <1>1 DEF GeomIds
  <2>. QED BY <1>1, <2>1, SameContext DEF MIInv, GeometryIsRouted
<1>. QED BY <1>4, <1>5, <1>6, <1>7, <1>8 DEF MIInv

\* A step that leaves the ways, the edges and the ids alone keeps it, if it ends the ways
\* only when they are all routed.
LEMMA MOther ==
  ASSUME MIInv, UNCHANGED <<ctx, nodeIds, nodeRows, todo, crashed, edges, wayGeom>>,
         \/ stage' = stage
         \/ stage # "assign" /\ stage' = "panicked"
         \/ stage # "assign" /\ stage' \in {"relations", "done"} /\ todo = {} /\ ~crashed
  PROVE  MIInv'
<1>1. MTypes' /\ InStage'
  <2>1. MTypes /\ InStage
    BY DEF MIInv
  <2>2. MTypes'
    BY <2>1, SameContext DEF MTypes
  <2>3. InStage'
    BY <2>1, SameContext DEF InStage
  <2>. QED BY <2>2, <2>3
<1>2. IdsAreRows'
  <2>1. stage' # "assign" => stage # "assign"
    OBVIOUS
  <2>. QED BY <2>1, SameContext DEF MIInv, IdsAreRows
<1>3. EdgesAreBlocks'
  <2>1. \A w : BuildEdges(w)' = BuildEdges(w)
    BY SameEdges
  <2>2. \A w, b : BlockAt(w, b)' = BlockAt(w, b)
    BY <2>1 DEF BlockAt
  <2>3. \A w : Placed(w)' = Placed(w)
    BY <2>2 DEF Placed
  <2>. QED BY <2>3, SameContext DEF MIInv, EdgesAreBlocks
<1>4. GeometryIsRouted'
  <2>1. \A t : GeomIds(t)' = GeomIds(t)
    BY DEF GeomIds
  <2>. QED BY <2>1, SameContext DEF MIInv, GeometryIsRouted
<1>5. NoWorkerPanics'
  BY SameContext DEF MIInv, NoWorkerPanics
<1>. QED BY <1>1, <1>2, <1>3, <1>4, <1>5 DEF MIInv

\* The edges of a way that is routed are a new block.
LEMMA RoutedBlocks ==
  ASSUME MIInv, NEW w \in todo, ctx' = ctx, nodeIds' = nodeIds, todo' = todo \ {w},
         ctx.graph, Resolves(w), BuildEdges(w) \in Seq(EdgeRow),
         edges' = edges \o BuildEdges(w), crashed' = crashed
  PROVE  EdgesAreBlocks'
<1>. DEFINE n == Len(edges)
            B == BuildEdges(w)
<1>1. /\ edges \in Seq(EdgeRow) /\ todo \subseteq Kept /\ ctx \in Contexts /\ EdgesAreBlocks
  BY DEF MIInv, MTypes
<1>2. /\ n \in Nat /\ Len(B) \in Nat /\ Len(edges') = n + Len(B)
      /\ \A k \in 1..n : edges'[k] = edges[k] /\ k \in 1..Len(edges')
      /\ \A k \in 1..Len(edges') : k \notin 1..n => k - n \in 1..Len(B) /\ edges'[k] = B[k - n]
      /\ \A i \in 1..Len(B) : edges'[n + i] = B[i]
  BY <1>1, ConcatProperties, LenProperties
<1>3. w \in DOMAIN ctx.refs /\ w \in Kept
  BY <1>1, ContextFacts
<1>4. \A i \in 1..Len(B) : B[i].of = w
  BY <1>1, <1>3, EdgeFacts
<1>5. \A k \in 1..n : edges[k].of # w
  BY <1>1 DEF EdgesAreBlocks
<1>6. \A v : BuildEdges(v)' = BuildEdges(v) /\ Resolves(v)' = Resolves(v)
  BY SameEdges, SameContext
<1>. HIDE DEF n, B
<1>7. Placed(w)'
  <2>1. \A k \in 1..Len(edges') : edges'[k].of = w => k \in (n + 1)..(n + Len(B))
    <3>. SUFFICES ASSUME NEW k \in 1..Len(edges'), k \notin (n + 1)..(n + Len(B))
                  PROVE  edges'[k].of # w
      OBVIOUS
    <3>1. k \in 1..n
      BY <1>2
    <3>. QED BY <1>2, <1>5, <3>1
  <2>2. n + Len(B) <= Len(edges')
    BY <1>2
  <2>3. BuildEdges(w)' = B
    BY <1>6 DEF B
  <2>. QED BY <1>2, <2>1, <2>2, <2>3 DEF Placed, BlockAt
<1>8. ASSUME NEW v \in Kept, v # w, Resolves(v), Placed(v) PROVE Placed(v)'
  <2>. DEFINE V == BuildEdges(v)
  <2>1. PICK b \in Nat : BlockAt(v, b)
    BY <1>8 DEF Placed
  <2>2. /\ b + Len(V) <= n /\ \A i \in 1..Len(V) : edges[b + i] = V[i]
        /\ \A k \in 1..n : edges[k].of = v => k \in (b + 1)..(b + Len(V))
    BY <2>1 DEF BlockAt, n
  <2>3. Len(V) \in Nat \/ Len(V) \notin Nat
    OBVIOUS
  <2>4. \A k \in 1..Len(edges') : edges'[k].of = v => k \in (b + 1)..(b + Len(V))
    <3>. SUFFICES ASSUME NEW k \in 1..Len(edges'), edges'[k].of = v PROVE k \in (b + 1)..(b + Len(V))
      OBVIOUS
    <3>1. CASE k \in 1..n
      BY <1>2, <2>2, <3>1
    <3>2. CASE k \notin 1..n
      <4>1. k - n \in 1..Len(B) /\ edges'[k] = B[k - n]
        BY <1>2, <3>2
      <4>2. edges'[k].of = w
        BY <1>4, <4>1
      <4>. QED BY <1>8, <4>2
    <3>. QED BY <3>1, <3>2
  <2>5. b + Len(V) <= Len(edges') /\ \A i \in 1..Len(V) : edges'[b + i] = V[i]
    <3>1. V = BuildEdges(v)
      OBVIOUS
    <3>2. Len(V) \in Nat
      <4>1. v \in DOMAIN ctx.refs
        BY <1>1, ContextFacts
      <4>2. Len(V) = Len(Cut(v)) - 1
        BY <1>1, <1>8, <4>1, EdgeFacts
      <4>3. Len(Cut(v)) \in Nat /\ Len(Cut(v)) >= 2
        BY <1>1, <1>8, <4>1, CutFacts
      <4>. HIDE DEF V
      <4>. QED BY <4>2, <4>3
    <3>. HIDE DEF V
    <3>3. \A i \in 1..Len(V) : b + i \in 1..n
      BY <1>2, <2>2, <3>2
    <3>4. b + Len(V) <= Len(edges')
      BY <1>2, <2>2, <3>2
    <3>. QED BY <1>2, <2>2, <3>3, <3>4
  <2>6. BuildEdges(v)' = V
    BY <1>6
  <2>. HIDE DEF V
  <2>. QED BY <2>4, <2>5, <2>6 DEF Placed, BlockAt
<1>9. ASSUME NEW k \in 1..Len(edges')
      PROVE  \E v \in Kept' \ todo' : edges'[k].of = v /\ ctx'.graph /\ Resolves(v)' /\ Placed(v)'
  <2>1. Kept' = Kept
    BY SameContext
  <2>2. CASE k \in 1..n
    <3>1. PICK v \in Kept \ todo : edges[k].of = v /\ Resolves(v) /\ Placed(v)
      BY <1>1, <2>2 DEF EdgesAreBlocks, n
    <3>2. edges'[k].of = v /\ v # w
      BY <1>2, <2>2, <3>1
    <3>3. Placed(v)'
      BY <1>8, <3>1, <3>2
    <3>4. Resolves(v)'
      BY <1>6, <3>1
    <3>. QED BY <2>1, <3>1, <3>2, <3>3, <3>4
  <2>3. CASE k \notin 1..n
    <3>1. k - n \in 1..Len(B) /\ edges'[k] = B[k - n]
      BY <1>2, <2>3
    <3>2. edges'[k].of = w
      BY <1>4, <3>1
    <3>3. Resolves(w)'
      BY <1>6
    <3>. QED BY <1>3, <1>7, <2>1, <3>2, <3>3
  <2>. QED BY <2>2, <2>3
<1>10. ASSUME NEW v \in Kept' \ todo', ctx'.graph, Resolves(v)' PROVE crashed' \/ Placed(v)'
  <2>1. v \in Kept /\ (v \in todo => v = w) /\ Resolves(v)
    BY <1>6, <1>10, SameContext
  <2>2. CASE v = w
    BY <1>7, <2>2
  <2>3. CASE v # w
    <3>1. crashed \/ Placed(v)
      BY <1>1, <2>1, <2>3 DEF EdgesAreBlocks
    <3>. QED BY <1>8, <2>1, <2>3, <3>1
  <2>. QED BY <2>2, <2>3
<1>. QED BY <1>9, <1>10 DEF EdgesAreBlocks

\* A way's shape goes to its topics, at the end of their geometry.
LEMMA RoutedGeometry ==
  ASSUME MIInv, NEW w \in todo, Turn(w), ctx' = ctx, todo' = todo \ {w}, ~crashed,
         ~Resolves(w) => wayGeom' = wayGeom,
         Resolves(w) => wayGeom' = [t \in WayGeom |->
           IF t \in ctx.mask[w] THEN Append(wayGeom[t], <<w, Line(w)>>) ELSE wayGeom[t]]
  PROVE  GeometryIsRouted'
<1>1. /\ ctx \in Contexts /\ todo \subseteq Kept /\ GeometryIsRouted
      /\ wayGeom \in [WayGeom -> Seq(WayRow)]
  BY DEF MIInv, MTypes
<1>2. w \in DOMAIN ctx.refs /\ w \in Kept
  BY <1>1, ContextFacts
<1>3. ASSUME NEW t \in WayGeom, w \notin Wanted(t, {w})
      PROVE  wayGeom'[t] = wayGeom[t]
  BY <1>1, <1>3 DEF Wanted
<1>4. ASSUME NEW t \in WayGeom, w \in Wanted(t, {w})
      PROVE  wayGeom'[t] = Append(wayGeom[t], <<w, Line(w)>>)
  BY <1>4 DEF Wanted
<1>5. ASSUME NEW t \in WayGeom
      PROVE  /\ GeomIds(t) \in Seq(DOMAIN ctx.refs)
             /\ w \notin Wanted(t, {w}) => GeomIds(t)' = GeomIds(t)
             /\ w \in Wanted(t, {w}) => GeomIds(t)' = Append(GeomIds(t), w)
  <2>. DEFINE g == wayGeom[t]
              n == Len(g)
  <2>1. g \in Seq(WayRow) /\ n \in Nat /\ DOMAIN g = 1..n /\ \A i \in 1..n : g[i] \in WayRow
    BY <1>1, LenProperties, ElementOfSeq
  <2>2. GeomIds(t) = [i \in 1..n |-> g[i][1]]
    BY <2>1 DEF GeomIds
  <2>3. GeomIds(t) \in Seq(DOMAIN ctx.refs)
    <3>1. \A i \in 1..n : g[i][1] \in DOMAIN ctx.refs
      BY <2>1 DEF WayRow
    <3>. HIDE DEF g, n
    <3>2. GeomIds(t) \in [1..n -> DOMAIN ctx.refs]
      BY <2>2, <3>1
    <3>. QED BY <2>1, <3>2, SeqDef
  <2>4. w \notin Wanted(t, {w}) => GeomIds(t)' = GeomIds(t)
    BY <1>3 DEF GeomIds
  <2>5. ASSUME w \in Wanted(t, {w}) PROVE GeomIds(t)' = Append(GeomIds(t), w)
    <3>. DEFINE row == <<w, Line(w)>>
                h == Append(g, row)
    <3>1. row \in WayRow /\ row[1] = w
      BY <1>1, <1>2, LineFacts DEF WayRow
    <3>2. wayGeom'[t] = h
      BY <1>4, <2>5
    <3>3. h \in Seq(WayRow) /\ Len(h) = n + 1 /\ h[n + 1] = row /\ \A i \in 1..n : h[i] = g[i]
      <4>. HIDE DEF row, g
      <4>. QED BY <2>1, <3>1, AppendProperties
    <3>4. DOMAIN h = 1..(n + 1)
      BY <3>3, LenProperties
    <3>5. GeomIds(t)' = [i \in 1..(n + 1) |-> h[i][1]]
      BY <3>2, <3>4 DEF GeomIds
    <3>6. Len(GeomIds(t)) = n
      <4>. HIDE DEF g, n
      <4>. QED BY <2>1, <2>2, <2>3, LenProperties
    <3>. HIDE DEF g, n, h, row
    <3>7. /\ DOMAIN Append(GeomIds(t), w) = 1..(n + 1)
          /\ Append(GeomIds(t), w) \in Seq(DOMAIN ctx.refs)
          /\ \A i \in 1..n : Append(GeomIds(t), w)[i] = GeomIds(t)[i]
          /\ Append(GeomIds(t), w)[n + 1] = w
      <4>1. /\ Append(GeomIds(t), w) \in Seq(DOMAIN ctx.refs)
            /\ Len(Append(GeomIds(t), w)) = n + 1
            /\ \A i \in 1..n : Append(GeomIds(t), w)[i] = GeomIds(t)[i]
            /\ Append(GeomIds(t), w)[n + 1] = w
        BY <1>2, <2>3, <3>6, AppendProperties
      <4>. QED BY <4>1, LenProperties
    <3>8. \A i \in 1..(n + 1) : h[i][1] = Append(GeomIds(t), w)[i]
      <4>. SUFFICES ASSUME NEW i \in 1..(n + 1) PROVE h[i][1] = Append(GeomIds(t), w)[i]
        OBVIOUS
      <4>1. i \in 1..n \/ i = n + 1
        BY <2>1
      <4>. QED BY <2>2, <3>1, <3>3, <3>7, <4>1
    <3>9. Append(GeomIds(t), w) = [i \in 1..(n + 1) |-> Append(GeomIds(t), w)[i]]
      <4>1. Append(GeomIds(t), w) \in [1..Len(Append(GeomIds(t), w)) -> DOMAIN ctx.refs]
        BY <3>7, LenProperties, ElementOfSeq
      <4>. QED BY <3>7, <4>1
    <3>. QED BY <3>5, <3>8, <3>9
  <2>. QED BY <2>3, <2>4, <2>5
<1>6. ASSUME NEW t \in WayGeom
      PROVE  IsInjective(GeomIds(t)') /\ Range(GeomIds(t)') = Wanted(t, Kept \ (todo \ {w}))
  <2>. DEFINE f == GeomIds(t)
  <2>1. /\ \A a, b \in DOMAIN f : f[a] = f[b] => a = b
        /\ \A x : (\E i \in DOMAIN f : f[i] = x) <=> x \in Wanted(t, Kept \ todo)
    <3>1. IsInjective(f) /\ Range(f) = Wanted(t, Kept \ todo)
      BY <1>1 DEF GeometryIsRouted
    <3>. HIDE DEF f
    <3>. QED BY <3>1 DEF IsInjective, Range
  <2>2. CASE w \notin Wanted(t, {w})
    <3>1. GeomIds(t)' = f
      BY <1>5, <2>2
    <3>2. Wanted(t, Kept \ (todo \ {w})) = Wanted(t, Kept \ todo)
      BY <2>2 DEF Wanted
    <3>. HIDE DEF f
    <3>. QED BY <2>1, <3>1, <3>2 DEF IsInjective, Range
  <2>3. CASE w \in Wanted(t, {w})
    <3>1. GeomIds(t)' = Append(f, w) /\ f \in Seq(DOMAIN ctx.refs)
      BY <1>5, <2>3
    <3>2. Wanted(t, Kept \ (todo \ {w})) = Wanted(t, Kept \ todo) \cup {w}
      BY <1>2, <2>3 DEF Wanted
    <3>3. w \notin Wanted(t, Kept \ todo)
      BY DEF Wanted
    <3>. DEFINE h == Append(f, w)
    <3>. HIDE DEF f
    <3>4. /\ Len(f) \in Nat /\ DOMAIN f = 1..Len(f) /\ DOMAIN h = 1..(Len(f) + 1)
          /\ h[Len(f) + 1] = w /\ \A i \in 1..Len(f) : h[i] = f[i]
      <4>1. h \in Seq(DOMAIN ctx.refs) /\ Len(h) = Len(f) + 1
        BY <1>2, <3>1, AppendProperties
      <4>. QED BY <1>2, <3>1, <4>1, AppendProperties, LenProperties
    <3>. HIDE DEF h
    <3>5. \A i \in DOMAIN h : i \in DOMAIN f \/ i = Len(f) + 1
      BY <3>4
    <3>6. \A i \in DOMAIN f : i \in DOMAIN h /\ h[i] = f[i] /\ f[i] # w
      BY <2>1, <3>3, <3>4
    <3>7. Len(f) + 1 \in DOMAIN h
      BY <3>4
    <3>8. \A a, b \in DOMAIN h : h[a] = h[b] => a = b
      BY <2>1, <3>4, <3>5, <3>6
    <3>9. \A x : (\E i \in DOMAIN h : h[i] = x) <=> x \in Wanted(t, Kept \ todo) \cup {w}
      BY <2>1, <3>4, <3>5, <3>6, <3>7
    <3>10. IsInjective(h) /\ Range(h) = Wanted(t, Kept \ todo) \cup {w}
      BY <3>8, <3>9 DEF IsInjective, Range
    <3>. QED BY <3>1, <3>2, <3>10 DEF h
  <2>. QED BY <2>2, <2>3
<1>7. ASSUME ctx.ordered
      PROVE  \E k \in 0..Len(ctx.keptWays) :
               /\ todo \ {w} = {ctx.keptWays[i] : i \in (k + 1)..Len(ctx.keptWays)}
               /\ \A t \in WayGeom : GeomIds(t)' = ItemsAt(ctx.keptWays, WantedAt(t, k))
  <2>. DEFINE s == ctx.keptWays
              N == Len(ctx.keptWays)
  <2>1. /\ s \in Seq(DOMAIN ctx.refs) /\ N \in Nat /\ DOMAIN s = 1..N
        /\ \A i, j \in 1..N : s[i] = s[j] => i = j
    BY <1>1, ContextFacts, LenProperties
  <2>2. PICK k \in 0..N : /\ todo = {s[i] : i \in (k + 1)..N}
                          /\ \A t \in WayGeom : GeomIds(t) = ItemsAt(s, WantedAt(t, k))
    BY <1>1, <1>7 DEF GeometryIsRouted
  <2>3. PICK i \in DOMAIN s : s[i] = w /\ \A j \in 1..(i - 1) : s[j] \notin todo
    BY <1>7 DEF Turn, ComesFirst
  <2>. HIDE DEF s, N
  <2>4. i \in 1..N /\ k \in Nat
    BY <2>1, <2>3
  <2>5. PICK m \in (k + 1)..N : s[m] = w
    BY <2>2
  <2>6. m = i
    <3>1. m \in 1..N
      BY <2>1, <2>4, <2>5
    <3>. QED BY <2>1, <2>3, <2>4, <2>5, <3>1
  <2>7. i = k + 1
    <3>. SUFFICES ASSUME i # k + 1 PROVE FALSE
      OBVIOUS
    <3>1. k + 1 \in (k + 1)..N /\ k + 1 \in 1..(i - 1)
      BY <2>1, <2>4, <2>5, <2>6
    <3>2. s[k + 1] \in todo
      BY <2>2, <3>1
    <3>. QED BY <2>3, <3>1, <3>2
  <2>8. todo \ {w} = {s[j] : j \in (k + 1 + 1)..N}
    <3>1. \A j \in (k + 1)..N : j = i \/ j \in (k + 1 + 1)..N
      BY <2>1, <2>4, <2>7
    <3>2. \A j \in (k + 1 + 1)..N : j \in (k + 1)..N /\ j # i /\ j \in 1..N
      BY <2>1, <2>4, <2>7
    <3>3. \A j \in (k + 1 + 1)..N : s[j] # w
      BY <2>1, <2>3, <2>4, <3>2
    <3>. QED BY <2>2, <2>3, <3>1, <3>2, <3>3
  <2>9. ASSUME NEW t \in WayGeom PROVE GeomIds(t)' = ItemsAt(s, WantedAt(t, k + 1))
    <3>1. \A j \in 1..(k + 1) : j \in 1..k \/ j = i
      BY <2>4, <2>7
    <3>2. i \in 1..(k + 1) /\ i \notin 1..k /\ \A j \in 1..k : j \in 1..(k + 1) /\ j < i
      BY <2>4, <2>7
    <3>3. CASE w \notin Wanted(t, {w})
      <4>1. WantedAt(t, k + 1) = WantedAt(t, k)
        BY <2>3, <3>1, <3>2, <3>3 DEF WantedAt, Wanted, s
      <4>. QED BY <1>5, <2>2, <3>3, <4>1
    <3>4. CASE w \in Wanted(t, {w})
      <4>1. WantedAt(t, k + 1) = WantedAt(t, k) \cup {i}
        BY <2>3, <3>1, <3>2, <3>4 DEF WantedAt, Wanted, s
      <4>2. WantedAt(t, k) \in SUBSET (DOMAIN s)
        <5>1. 1..k \subseteq DOMAIN s
          BY <2>1, <2>4, <2>7
        <5>. QED BY <5>1 DEF WantedAt
      <4>3. \A j \in WantedAt(t, k) : j < i
        BY <3>2 DEF WantedAt
      <4>4. ItemsAt(s, WantedAt(t, k) \cup {i}) = Append(ItemsAt(s, WantedAt(t, k)), s[i])
        BY <2>1, <2>3, <4>2, <4>3, ItemsAtOneMore
      <4>. QED BY <1>5, <2>2, <2>3, <3>4, <4>1, <4>4
    <3>. QED BY <3>3, <3>4
  <2>10. k + 1 \in 0..N
    BY <2>1, <2>4, <2>7
  <2>. QED BY <2>8, <2>9, <2>10 DEF s, N
<1>8. /\ ctx' = ctx /\ Kept' = Kept /\ todo' = todo \ {w}
      /\ \A v : Resolves(v)' = Resolves(v)
      /\ \A t, k : WantedAt(t, k)' = WantedAt(t, k)
  BY SameContext
<1>9. \A t \in WayGeom :
        /\ IsInjective(GeomIds(t))'
        /\ Range(GeomIds(t))' = {v \in Kept' \ todo' : t \in ctx'.mask[v] /\ Resolves(v)'}
  BY <1>6, <1>8 DEF Wanted
<1>10. ctx'.ordered => \E k \in 0..Len(ctx'.keptWays) :
         /\ todo' = {ctx'.keptWays[i] : i \in (k + 1)..Len(ctx'.keptWays)}
         /\ \A t \in WayGeom : GeomIds(t)' = ItemsAt(ctx'.keptWays, WantedAt(t, k)')
  BY <1>7, <1>8
<1>. QED BY <1>9, <1>10 DEF GeometryIsRouted, Wanted

\* Under a file that has the ends of the kept ways, no worker meets a cut point with no id.
LEMMA CutPointsHaveIds ==
  ASSUME MIInv, stage # "assign", ctx.graph, EndsInFile, NEW w \in Kept, Resolves(w)
  PROVE  Numbered(w)
<1>1. ctx \in Contexts /\ DOMAIN nodeIds = Vertices
  BY DEF MIInv, MTypes, IdsAreRows
<1>. QED BY <1>1, CutPointsAreVertices DEF Numbered

\* Routing a way keeps the invariant.
LEMMA MRoute == ASSUME MIInv, NEW w \in DOMAIN ctx.refs, RouteWay(w) PROVE MIInv'
<1>1. /\ ctx' = ctx /\ stage' = stage /\ nodeIds' = nodeIds /\ nodeRows' = nodeRows
      /\ stage = "ways" /\ w \in todo /\ Turn(w) /\ todo' = todo \ {w}
  BY DEF RouteWay
<1>2. /\ ctx \in Contexts /\ todo \subseteq Kept /\ crashed \in BOOLEAN /\ edges \in Seq(EdgeRow)
      /\ wayGeom \in [WayGeom -> Seq(WayRow)] /\ w \in Kept /\ ctx.graph \in BOOLEAN
  BY <1>1, ContextFacts DEF MIInv, MTypes
<1>3. InStage' /\ IdsAreRows'
  <2>1. InStage'
    BY <1>1 DEF InStage
  <2>2. IdsAreRows'
    BY <1>1, SameContext DEF MIInv, IdsAreRows
  <2>. QED BY <2>1, <2>2
<1>4. ASSUME edges' = edges, ~Resolves(w) \/ ~ctx.graph \/ crashed', crashed => crashed'
      PROVE  EdgesAreBlocks'
  <2>1. \A v, b : BlockAt(v, b)' = BlockAt(v, b)
    <3>1. \A v : BuildEdges(v)' = BuildEdges(v)
      BY <1>1, SameEdges
    <3>. QED BY <1>4, <3>1 DEF BlockAt
  <2>2. \A v : Placed(v)' = Placed(v)
    BY <2>1 DEF Placed
  <2>3. \A v : Resolves(v)' = Resolves(v)
    BY <1>1, SameContext
  <2>4. Kept' = Kept /\ EdgesAreBlocks
    BY <1>1, SameContext DEF MIInv
  <2>. QED BY <1>1, <1>4, <2>2, <2>3, <2>4 DEF EdgesAreBlocks
<1>5. CASE Resolves(w) /\ ctx.graph /\ ~Numbered(w)
  <2>1. crashed' = TRUE /\ edges' = edges /\ wayGeom' = wayGeom
    BY <1>5 DEF RouteWay, outputs
  <2>2. MTypes'
    BY <1>1, <1>2, <2>1, SameContext DEF MIInv, MTypes
  <2>3. EdgesAreBlocks'
    BY <1>4, <2>1
  <2>4. ~EndsInFile
    BY <1>1, <1>2, <1>5, CutPointsHaveIds
  <2>5. NoWorkerPanics' /\ GeometryIsRouted'
    BY <1>1, <2>1, <2>4, SameContext DEF NoWorkerPanics, GeometryIsRouted
  <2>. QED BY <1>3, <2>2, <2>3, <2>5 DEF MIInv
<1>6. CASE ~(Resolves(w) /\ ctx.graph /\ ~Numbered(w))
  <2>1. /\ crashed' = crashed
        /\ ~Resolves(w) => edges' = edges /\ wayGeom' = wayGeom
        /\ Resolves(w) => /\ edges' = IF ctx.graph THEN edges \o BuildEdges(w) ELSE edges
                          /\ wayGeom' = [t \in WayGeom |->
                               IF t \in ctx.mask[w] THEN Append(wayGeom[t], <<w, Line(w)>>)
                                                    ELSE wayGeom[t]]
    BY <1>6 DEF RouteWay, outputs
  <2>2. ASSUME Resolves(w), ctx.graph
        PROVE  BuildEdges(w) \in Seq(EdgeRow) /\ edges' = edges \o BuildEdges(w)
    <3>1. nodeIds \in [Vertices -> Nat]
      BY <1>1, <2>2 DEF MIInv, IdsAreRows
    <3>2. Numbered(w)
      BY <1>6, <2>2
    <3>. QED BY <1>2, <2>1, <2>2, <3>1, <3>2, EdgesTyped
  <2>3. edges' \in Seq(EdgeRow)
    <3>1. CASE Resolves(w) /\ ctx.graph
      <4>1. BuildEdges(w) \in Seq(EdgeRow) /\ edges' = edges \o BuildEdges(w)
        BY <2>2, <3>1
      <4>. QED BY <1>2, <4>1, ConcatProperties
    <3>2. CASE ~(Resolves(w) /\ ctx.graph)
      <4>1. edges' = edges
        BY <2>1, <3>2
      <4>. QED BY <1>2, <4>1
    <3>. QED BY <3>1, <3>2
  <2>4. wayGeom' \in [WayGeom -> Seq(WayRow)]
    <3>1. <<w, Line(w)>> \in WayRow
      BY <1>2, LineFacts DEF WayRow
    <3>2. \A t \in WayGeom : Append(wayGeom[t], <<w, Line(w)>>) \in Seq(WayRow)
      BY <1>2, <3>1, AppendProperties
    <3>. QED BY <1>2, <2>1, <3>2
  <2>5. MTypes'
    BY <1>1, <1>2, <2>1, <2>3, <2>4, SameContext DEF MTypes
  <2>6. EdgesAreBlocks'
    <3>1. CASE Resolves(w) /\ ctx.graph
      BY <1>1, <2>1, <2>2, <3>1, RoutedBlocks
    <3>2. CASE ~(Resolves(w) /\ ctx.graph)
      BY <1>4, <2>1, <3>2
    <3>. QED BY <3>1, <3>2
  <2>7. GeometryIsRouted'
    <3>1. CASE crashed
      BY <2>1, <3>1 DEF GeometryIsRouted
    <3>2. CASE ~crashed
      BY <1>1, <2>1, <3>2, RoutedGeometry
    <3>. QED BY <3>1, <3>2
  <2>8. NoWorkerPanics'
    BY <1>1, <2>1, SameContext DEF MIInv, NoWorkerPanics
  <2>. QED BY <1>3, <2>5, <2>6, <2>7, <2>8 DEF MIInv
<1>. QED BY <1>5, <1>6

\* Every step keeps the invariant.
LEMMA MStep == MIInv /\ [MaterializeNext]_materializeVars => MIInv'
<1>. SUFFICES ASSUME MIInv, [MaterializeNext]_materializeVars PROVE MIInv'
  OBVIOUS
<1>1. CASE AssignIds
  BY <1>1, MAssign
<1>2. CASE EndOfKeptWays
  <2>1. todo = {} \/ crashed
    BY <1>2 DEF EndOfKeptWays
  <2>2. stage # "assign" /\ (stage' = "panicked" \/ (stage' = "relations" /\ ~crashed))
    BY <1>2 DEF EndOfKeptWays
  <2>3. UNCHANGED <<ctx, nodeIds, nodeRows, todo, crashed, edges, wayGeom>>
    BY <1>2 DEF EndOfKeptWays, outputs
  <2>. QED BY <2>1, <2>2, <2>3, MOther
<1>3. CASE Finish
  <2>1. stage = "relations" /\ stage' = "done" /\ todo = {} /\ ~crashed
    BY <1>3 DEF Finish, MIInv, InStage
  <2>2. UNCHANGED <<ctx, nodeIds, nodeRows, todo, crashed, edges, wayGeom>>
    BY <1>3 DEF Finish, outputs
  <2>. QED BY <2>1, <2>2, MOther
<1>4. ASSUME NEW w \in DOMAIN ctx.refs, RouteWay(w) PROVE MIInv'
  BY <1>4, MRoute
<1>5. ASSUME NEW r \in DOMAIN ctx.members, BuildRelation(r) PROVE MIInv'
  <2>1. stage' = stage /\ UNCHANGED <<ctx, nodeIds, nodeRows, todo, crashed, edges, wayGeom>>
    BY <1>5 DEF BuildRelation, outputs
  <2>. QED BY <2>1, MOther
<1>6. CASE Stopped \/ UNCHANGED materializeVars
  <2>1. stage' = stage /\ UNCHANGED <<ctx, nodeIds, nodeRows, todo, crashed, edges, wayGeom>>
    BY <1>6 DEF Stopped, materializeVars, outputs
  <2>. QED BY <2>1, MOther
<1>. QED BY <1>1, <1>2, <1>3, <1>4, <1>5, <1>6 DEF MaterializeNext

\* In every reachable state the edges of each routed way are one block of `edges`, numbered
\* by its vertices, and the shapes of the ways routed so far are where their topics look.
THEOREM MaterializeInvariant == MaterializeSpec => []MIInv
<1>1. MaterializeInit => MIInv
  BY MInit
<1>2. MIInv /\ [MaterializeNext]_materializeVars => MIInv'
  BY MStep
<1>. QED BY <1>1, <1>2, PTL DEF MaterializeSpec

-----------------------------------------------------------------------------
(* What it gives.                                                          *)

\* No worker panics on a cut point without an id, when the file has the ends of the kept
\* ways (builders.rs:21-23).
THEOREM EveryCutPointIsNumbered == MaterializeSpec => [](EndsInFile => CutPointsAreNumbered)
<1>1. MIInv => (EndsInFile => CutPointsAreNumbered)
  BY DEF MIInv, NoWorkerPanics, CutPointsAreNumbered
<1>. QED BY <1>1, MaterializeInvariant, PTL

\* Way geometry follows the tag rows: each topic's kept ways that have a geometry, once, and
\* in kept order when the run is ordered.
LEMMA RoutedMeansFollows == MIInv => GeometryFollowsTags
<1>. SUFFICES ASSUME MIInv, stage \in {"relations", "done"}, NEW t \in WayGeom
              PROVE  LET ids == GeomIds(t)
                         want == ItemsAt(ctx.keptWays, WantedAt(t, Len(ctx.keptWays)))
                     IN  /\ IsInjective(ids) /\ Range(ids) = Range(want)
                         /\ ctx.ordered => ids = want
  <2>1. MIInv => \A t : WantedAt(t, Len(ctx.keptWays)) =
          {i \in DOMAIN ctx.keptWays : t \in ctx.mask[ctx.keptWays[i]] /\ Resolves(ctx.keptWays[i])}
    <3>1. MIInv => DOMAIN ctx.keptWays = 1..Len(ctx.keptWays)
      BY ContextFacts, LenProperties DEF MIInv, MTypes
    <3>. QED BY <3>1 DEF WantedAt
  <2>. QED BY <2>1 DEF GeometryFollowsTags, GeomIds
<1>. DEFINE s == ctx.keptWays
            N == Len(ctx.keptWays)
            I == WantedAt(t, N)
            want == ItemsAt(s, I)
<1>1. ctx \in Contexts /\ todo = {} /\ ~crashed /\ GeometryIsRouted
  BY DEF MIInv, MTypes, InStage
<1>2. /\ s \in Seq(DOMAIN ctx.refs) /\ N \in Nat /\ DOMAIN s = 1..N
      /\ Kept = {s[i] : i \in 1..N} /\ \A i, j \in 1..N : s[i] = s[j] => i = j
  BY <1>1, ContextFacts, LenProperties
<1>3. IsInjective(GeomIds(t)) /\ Range(GeomIds(t)) = Wanted(t, Kept)
  <2>1. Kept \ todo = Kept
    BY <1>1
  <2>. QED BY <1>1, <2>1 DEF GeometryIsRouted
<1>4. Range(want) = Wanted(t, Kept)
  <2>1. I \in SUBSET (DOMAIN s)
    BY <1>2 DEF WantedAt
  <2>. HIDE DEF I, s, N
  <2>2. /\ IsFiniteSet(I) /\ I \subseteq Int /\ Len(want) = Cardinality(I) /\ want \in Seq(DOMAIN ctx.refs)
        /\ \A k \in 1..Cardinality(I) : want[k] = s[Ascending(I)[k]]
    BY <1>2, <2>1, ItemsAtFacts
  <2>3. /\ \A k \in 1..Cardinality(I) : Ascending(I)[k] \in I
        /\ \A i \in I : \E k \in 1..Cardinality(I) : Ascending(I)[k] = i
    BY <2>2, AscendingFacts
  <2>4. DOMAIN want = 1..Cardinality(I)
    BY <2>2, LenProperties
  <2>5. \A x : (\E k \in DOMAIN want : want[k] = x) <=> \E i \in I : s[i] = x
    <3>1. \A k \in 1..Cardinality(I) : Ascending(I)[k] \in I /\ want[k] = s[Ascending(I)[k]]
      BY <2>2, <2>3
    <3>. HIDE DEF want
    <3>2. ASSUME NEW i \in I PROVE \E k \in 1..Cardinality(I) : want[k] = s[i]
      BY <2>3, <3>1
    <3>. QED BY <2>4, <3>1, <3>2
  <2>6. \A x : x \in Wanted(t, Kept) <=> \E i \in I : s[i] = x
    BY <1>2 DEF I, WantedAt, Wanted, s
  <2>. HIDE DEF want
  <2>. QED BY <2>5, <2>6 DEF Range
<1>5. ASSUME ctx.ordered PROVE GeomIds(t) = want
  <2>1. PICK k \in 0..N : /\ todo = {s[i] : i \in (k + 1)..N}
                          /\ GeomIds(t) = ItemsAt(s, WantedAt(t, k))
    BY <1>1, <1>5 DEF GeometryIsRouted
  <2>2. k = N
    <3>. SUFFICES ASSUME k # N PROVE FALSE
      OBVIOUS
    <3>1. k + 1 \in (k + 1)..N
      BY <1>2
    <3>. QED BY <1>1, <2>1, <3>1
  <2>. QED BY <2>1, <2>2
<1>. QED BY <1>3, <1>4, <1>5 DEF want, I, s, N

THEOREM WayGeometryFollowsTags == MaterializeSpec => []GeometryFollowsTags
BY RoutedMeansFollows, MaterializeInvariant, PTL

\* Each row of `edges` is an edge of a routed way, in that way's block.
LEMMA EdgeInBlock ==
  ASSUME MIInv, NEW k \in 1..Len(edges)
  PROVE  \E w \in Kept, b \in Nat :
           /\ w \in DOMAIN ctx.refs /\ edges[k].of = w /\ ctx.graph /\ Resolves(w) /\ BlockAt(w, b)
           /\ k - b \in 1..Len(BuildEdges(w)) /\ edges[k] = BuildEdges(w)[k - b]
<1>1. ctx \in Contexts /\ EdgesAreBlocks
  BY DEF MIInv, MTypes
<1>2. PICK w \in Kept \ todo : edges[k].of = w /\ ctx.graph /\ Resolves(w) /\ Placed(w)
  BY <1>1 DEF EdgesAreBlocks
<1>3. PICK b \in Nat : BlockAt(w, b)
  BY <1>2 DEF Placed
<1>4. w \in DOMAIN ctx.refs
  BY <1>1, <1>2, ContextFacts
<1>. DEFINE m == Len(BuildEdges(w))
<1>5. m \in Nat
  <2>1. m = Len(Cut(w)) - 1
    BY <1>1, <1>2, <1>4, EdgeFacts
  <2>2. Len(Cut(w)) \in Nat /\ Len(Cut(w)) >= 2
    BY <1>1, <1>2, <1>4, CutFacts
  <2>. HIDE DEF m
  <2>. QED BY <2>1, <2>2
<1>6. /\ \A i \in 1..m : edges[b + i] = BuildEdges(w)[i]
      /\ k \in (b + 1)..(b + m)
  BY <1>2, <1>3 DEF BlockAt
<1>. HIDE DEF m
<1>7. k - b \in 1..m /\ b + (k - b) = k
  BY <1>5, <1>6
<1>8. edges[k] = BuildEdges(w)[k - b]
  BY <1>6, <1>7
<1>. QED BY <1>2, <1>3, <1>4, <1>7, <1>8 DEF m

\* A node inside an edge is at one place of the whole graph.
LEMMA InnerNodeIsAlone ==
  ASSUME ctx \in Contexts, ctx.graph, NEW w \in Kept, NEW v \in Kept,
         NEW p \in 1..Len(Line(w)), p \notin CutPoints(w), NEW q \in 1..Len(Line(v)),
         Line(w)[p] = Line(v)[q]
  PROVE  w = v /\ p = q
<1>1. w \in DOMAIN ctx.refs /\ v \in DOMAIN ctx.refs
  BY ContextFacts
<1>2. /\ DOMAIN Line(w) = 1..Len(Line(w))
      /\ At(w)[p] \in DOMAIN ctx.refs[w] /\ Line(w)[p] = ctx.refs[w][At(w)[p]]
      /\ At(v)[q] \in DOMAIN ctx.refs[v] /\ Line(v)[q] = ctx.refs[v][At(v)[q]]
      /\ \A a, b \in 1..Len(Line(w)) : At(w)[a] = At(w)[b] => a = b
  BY <1>1, LineFacts
<1>3. ~Shared(Line(w)[p])
  BY <1>2 DEF CutPoints
<1>. DEFINE n == Line(w)[p]
<1>a. \A x \in Kept : \A i \in DOMAIN ctx.refs[x] : <<x, i>> \in Uses(ctx.refs[x][i])
  BY DEF Uses
<1>4. <<w, At(w)[p]>> \in Uses(n)
  BY <1>2, <1>a
<1>5. <<v, At(v)[q]>> \in Uses(n)
  BY <1>2, <1>a
<1>6. \A a, b \in Uses(n) : a = b
  BY <1>3 DEF Shared
<1>. HIDE DEF n
<1>7. <<w, At(w)[p]>> = <<v, At(v)[q]>>
  BY <1>4, <1>5, <1>6
<1>8. w = v /\ At(w)[p] = At(v)[q]
  BY <1>7
<1>. QED BY <1>2, <1>8

LEMMA BlocksMeetAtVertices == MIInv => MeetAtVertices
<1>. SUFFICES ASSUME MIInv, NEW k \in DOMAIN edges, NEW l \in DOMAIN edges,
                     NEW i \in 2..(Len(edges[k].nodes) - 1), NEW j \in DOMAIN edges[l].nodes,
                     edges[k].nodes[i] = edges[l].nodes[j]
              PROVE  k = l /\ i = j
  BY DEF MeetAtVertices
<1>1. ctx \in Contexts /\ k \in 1..Len(edges) /\ l \in 1..Len(edges) /\ Len(edges) \in Nat
  BY LenProperties DEF MIInv, MTypes
<1>2. PICK w \in Kept, b \in Nat :
        /\ w \in DOMAIN ctx.refs /\ edges[k].of = w /\ ctx.graph /\ Resolves(w) /\ BlockAt(w, b)
        /\ k - b \in 1..Len(BuildEdges(w)) /\ edges[k] = BuildEdges(w)[k - b]
  BY <1>1, EdgeInBlock
<1>3. PICK v \in Kept, d \in Nat :
        /\ v \in DOMAIN ctx.refs /\ edges[l].of = v /\ Resolves(v)
        /\ l - d \in 1..Len(BuildEdges(v)) /\ edges[l] = BuildEdges(v)[l - d]
  BY <1>1, EdgeInBlock
<1>. DEFINE cw == Cut(w)
            cv == Cut(v)
            s == k - b
            r == l - d
            p == cw[s] + i - 1
            q == cv[r] + j - 1
<1>a. \A x \in 1..(Len(cw) - 1) :
        /\ BuildEdges(w)[x].seg = x - 1
        /\ Len(BuildEdges(w)[x].nodes) = cw[x + 1] - cw[x] + 1 /\ BuildEdges(w)[x].nodes \in Seq(Int)
        /\ \A y \in 1..Len(BuildEdges(w)[x].nodes) :
             BuildEdges(w)[x].nodes[y] = Line(w)[cw[x] + y - 1] /\ cw[x] + y - 1 \in 1..Len(Line(w))
  <2>1. ctx \in Contexts /\ w \in DOMAIN ctx.refs /\ Resolves(w)
    BY <1>1, <1>2
  <2>. QED BY ONLY <2>1, EdgeFacts
<1>b. Len(BuildEdges(w)) = Len(cw) - 1
  BY <1>1, <1>2, EdgeFacts
<1>c. \A x \in 1..(Len(cv) - 1) :
        /\ BuildEdges(v)[x].seg = x - 1
        /\ Len(BuildEdges(v)[x].nodes) = cv[x + 1] - cv[x] + 1 /\ BuildEdges(v)[x].nodes \in Seq(Int)
        /\ \A y \in 1..Len(BuildEdges(v)[x].nodes) :
             BuildEdges(v)[x].nodes[y] = Line(v)[cv[x] + y - 1] /\ cv[x] + y - 1 \in 1..Len(Line(v))
  <2>1. ctx \in Contexts /\ v \in DOMAIN ctx.refs /\ Resolves(v)
    BY <1>1, <1>3
  <2>. QED BY ONLY <2>1, EdgeFacts
<1>d. Len(BuildEdges(v)) = Len(cv) - 1
  BY <1>1, <1>3, EdgeFacts
<1>. HIDE DEF cw, cv, s, r
<1>e. s \in 1..Len(BuildEdges(w)) /\ edges[k] = BuildEdges(w)[s]
  BY <1>2 DEF s
<1>f. r \in 1..Len(BuildEdges(v)) /\ edges[l] = BuildEdges(v)[r]
  BY <1>3 DEF r
<1>4. /\ s \in 1..(Len(cw) - 1) /\ edges[k].seg = s - 1
      /\ Len(edges[k].nodes) = cw[s + 1] - cw[s] + 1 /\ edges[k].nodes \in Seq(Int)
      /\ \A x \in 1..Len(edges[k].nodes) : /\ edges[k].nodes[x] = Line(w)[cw[s] + x - 1]
                                           /\ cw[s] + x - 1 \in 1..Len(Line(w))
  <2>1. s \in 1..(Len(cw) - 1)
    BY <1>b, <1>e
  <2>. QED BY ONLY <1>a, <2>1, <1>e
<1>5. /\ r \in 1..(Len(cv) - 1) /\ edges[l].seg = r - 1
      /\ Len(edges[l].nodes) = cv[r + 1] - cv[r] + 1 /\ edges[l].nodes \in Seq(Int)
      /\ \A x \in 1..Len(edges[l].nodes) : /\ edges[l].nodes[x] = Line(v)[cv[r] + x - 1]
                                           /\ cv[r] + x - 1 \in 1..Len(Line(v))
  BY <1>c, <1>d, <1>f
<1>6. /\ Len(cw) \in Nat /\ cw \in [1..Len(cw) -> 1..Len(Line(w))]
      /\ \A x, y \in 1..Len(cw) : x < y => cw[x] < cw[y]
      /\ \A x \in 1..(Len(cw) - 1) : \A y \in CutPoints(w) : ~(cw[x] < y /\ y < cw[x + 1])
  BY <1>1, <1>2, CutFacts DEF cw
<1>6a. Len(cv) \in Nat /\ cv \in [1..Len(cv) -> 1..Len(Line(v))]
  BY <1>1, <1>3, CutFacts DEF cv
<1>7. Len(Line(w)) \in Nat /\ Len(Line(v)) \in Nat
  BY <1>1, <1>2, <1>3, LineFacts
<1>8. j \in 1..Len(edges[l].nodes)
  BY <1>5, LenProperties
<1>9. /\ s \in 1..Len(cw) /\ s + 1 \in 1..Len(cw) /\ cw[s] \in Int /\ cw[s + 1] \in Int
      /\ r \in 1..Len(cv) /\ r + 1 \in 1..Len(cv) /\ cv[r] \in Int /\ cv[r + 1] \in Int
  <2>1. s \in 1..Len(cw) /\ s + 1 \in 1..Len(cw) /\ r \in 1..Len(cv) /\ r + 1 \in 1..Len(cv)
    BY <1>4, <1>5, <1>6, <1>6a
  <2>2. /\ cw[s] \in 1..Len(Line(w)) /\ cw[s + 1] \in 1..Len(Line(w))
        /\ cv[r] \in 1..Len(Line(v)) /\ cv[r + 1] \in 1..Len(Line(v))
    BY <1>6, <1>6a, <2>1
  <2>. QED BY <1>7, <2>1, <2>2
<1>10. i \in 1..Len(edges[k].nodes) /\ i \in Int /\ j \in Int
  <2>1. /\ Len(edges[k].nodes) = cw[s + 1] - cw[s] + 1 /\ Len(edges[l].nodes) = cv[r + 1] - cv[r] + 1
    BY <1>4, <1>5
  <2>a. cw[s] \in Int /\ cw[s + 1] \in Int
    BY ONLY <1>9
  <2>b. cw[s + 1] - cw[s] + 1 \in Int
    BY ONLY <2>a
  <2>c. cv[r] \in Int /\ cv[r + 1] \in Int
    BY ONLY <1>9
  <2>d. cv[r + 1] - cv[r] + 1 \in Int
    BY ONLY <2>c
  <2>2. Len(edges[k].nodes) \in Int /\ Len(edges[l].nodes) \in Int
    BY ONLY <2>1, <2>b, <2>d
  <2>3. i \in 2..(Len(edges[k].nodes) - 1)
    OBVIOUS
  <2>. QED BY ONLY <2>2, <2>3, <1>8
<1>11. /\ p \in 1..Len(Line(w)) /\ edges[k].nodes[i] = Line(w)[p]
       /\ q \in 1..Len(Line(v)) /\ edges[l].nodes[j] = Line(v)[q]
  BY <1>4, <1>5, <1>8, <1>10
<1>12. cw[s] < p /\ p < cw[s + 1]
  <2>1. Len(edges[k].nodes) = cw[s + 1] - cw[s] + 1 /\ i \in 2..(Len(edges[k].nodes) - 1)
    BY <1>4
  <2>. QED BY ONLY <2>1, <1>9
<1>13. p \notin CutPoints(w)
  <2>. HIDE DEF p
  <2>. QED BY <1>4, <1>6, <1>12
<1>14. w = v /\ p = q
  <2>. HIDE DEF p, q
  <2>. QED BY <1>1, <1>2, <1>11, <1>13, InnerNodeIsAlone
<1>15. cw[r] <= p /\ p <= cw[r + 1] /\ r \in 1..Len(cw) /\ r + 1 \in 1..Len(cw)
  <2>1. cv = cw
    BY <1>14 DEF cw, cv
  <2>2. cv[r] <= q /\ q <= cv[r + 1]
    <3>1. Len(edges[l].nodes) = cv[r + 1] - cv[r] + 1
      BY <1>5
    <3>. QED BY ONLY <3>1, <1>8, <1>9
  <2>. HIDE DEF p, q
  <2>. QED BY <1>9, <1>14, <2>1, <2>2
<1>16. r = s
  <2>. HIDE DEF p, q
  <2>0. r \in Int /\ s \in Int /\ p \in Int /\ cw[r] \in Int /\ cw[r + 1] \in Int
    <3>1. cw[r] \in 1..Len(Line(w)) /\ cw[r + 1] \in 1..Len(Line(w))
      BY <1>6, <1>15
    <3>2. r \in 1..Len(cw) /\ s \in 1..Len(cw) /\ Len(cw) \in Nat
      BY <1>6, <1>9, <1>15
    <3>. QED BY ONLY <1>7, <1>11, <3>1, <3>2
  <2>1. ASSUME r < s PROVE FALSE
    <3>1. PICK m \in 1..Len(cw) : m = r + 1
      BY <1>15
    <3>2. m = s \/ m < s
      BY <2>0, <2>1, <3>1
    <3>3. cw[m] <= cw[s]
      BY <1>6, <1>9, <2>0, <3>1, <3>2
    <3>. QED BY <1>9, <1>12, <1>15, <2>0, <3>1, <3>3
  <2>2. ASSUME s < r PROVE FALSE
    <3>1. PICK m \in 1..Len(cw) : m = s + 1
      BY <1>9
    <3>2. m = r \/ m < r
      BY <2>0, <2>2, <3>1
    <3>3. cw[m] <= cw[r]
      BY <1>6, <1>9, <1>15, <2>0, <3>1, <3>2
    <3>. QED BY <1>9, <1>12, <1>15, <2>0, <3>1, <3>3
  <2>. QED BY <2>0, <2>1, <2>2
<1>17. i = j
  <2>1. cv = cw
    BY <1>14 DEF cw, cv
  <2>. QED BY <1>9, <1>10, <1>14, <1>16, <2>1
<1>18. l - b = s
  <2>1. Len(BuildEdges(w)) = Len(cw) - 1
    BY <1>b
  <2>2. /\ \A x \in 1..Len(BuildEdges(w)) : edges[b + x] = BuildEdges(w)[x]
        /\ l \in (b + 1)..(b + Len(BuildEdges(w)))
    BY <1>1, <1>2, <1>3, <1>14 DEF BlockAt
  <2>3. l - b \in 1..(Len(cw) - 1) /\ b + (l - b) = l
    BY <1>6, <2>1, <2>2
  <2>4. edges[l] = BuildEdges(w)[l - b]
    BY <2>1, <2>2, <2>3
  <2>5. edges[l].seg = (l - b) - 1
    BY <1>a, <2>3, <2>4
  <2>. QED BY <1>1, <1>4, <1>5, <1>9, <1>16, <2>3, <2>5
<1>. QED BY <1>1, <1>17, <1>18 DEF s

\* Two ways, or two passages of one way, that meet at a node meet at a vertex: the graph can
\* be routed on.
THEOREM WaysMeetAtVertices == MaterializeSpec => []MeetAtVertices
BY BlocksMeetAtVertices, MaterializeInvariant, PTL

LEMMA BlocksTileWays == MIInv => EdgesTileWays
<1>. SUFFICES ASSUME MIInv, NEW w \in Kept
              PROVE  LET own == ItemsAt(edges, {k \in DOMAIN edges : edges[k].of = w})
                     IN  IF w \in todo \/ ~Resolves(w) \/ ~ctx.graph \/ crashed THEN own = <<>> \/ crashed
                         ELSE /\ \A i \in DOMAIN own : own[i].seg = i - 1 /\ Len(own[i].nodes) >= 2
                              /\ \E cut \in [1..(Len(own) + 1) -> DOMAIN Line(w)] :
                                   /\ cut[1] = 1 /\ cut[Len(own) + 1] = Len(Line(w))
                                   /\ \A i \in DOMAIN own :
                                        own[i].nodes = SubSeq(Line(w), cut[i], cut[i + 1])
  BY DEF EdgesTileWays
<1>. DEFINE I == {k \in DOMAIN edges : edges[k].of = w}
            own == ItemsAt(edges, I)
<1>1. /\ ctx \in Contexts /\ w \in DOMAIN ctx.refs /\ EdgesAreBlocks
      /\ Len(edges) \in Nat /\ DOMAIN edges = 1..Len(edges)
  BY ContextFacts, LenProperties DEF MIInv, MTypes
<1>2. CASE w \in todo \/ ~Resolves(w) \/ ~ctx.graph \/ crashed
  <2>1. CASE crashed
    BY <1>2, <2>1
  <2>2. CASE w \in todo \/ ~Resolves(w) \/ ~ctx.graph
    <3>1. I = {}
      BY <1>1, <2>2 DEF EdgesAreBlocks
    <3>2. own = <<>>
      <4>1. ItemsAt(edges, {}) = <<>>
        BY FS_EmptySet DEF ItemsAt
      <4>. HIDE DEF I
      <4>. QED BY <3>1, <4>1
    <3>. QED BY <1>2, <3>2
  <2>. QED BY <1>2, <2>1, <2>2
<1>3. CASE ~(w \in todo \/ ~Resolves(w) \/ ~ctx.graph \/ crashed)
  <2>. DEFINE m == Len(BuildEdges(w))
              cut == Cut(w)
  <2>1. PICK b \in Nat : BlockAt(w, b)
    BY <1>1, <1>3 DEF EdgesAreBlocks, Placed
  <2>2. /\ m = Len(cut) - 1
        /\ \A i \in 1..m : /\ BuildEdges(w)[i].of = w /\ BuildEdges(w)[i].seg = i - 1
                           /\ BuildEdges(w)[i].nodes = SubSeq(Line(w), cut[i], cut[i + 1])
                           /\ Len(BuildEdges(w)[i].nodes) >= 2
    BY <1>1, <1>3, EdgeFacts
  <2>3. /\ Len(cut) \in Nat /\ Len(cut) >= 2 /\ cut \in [1..Len(cut) -> 1..Len(Line(w))]
        /\ cut[1] = 1 /\ cut[Len(cut)] = Len(Line(w)) /\ DOMAIN Line(w) = 1..Len(Line(w))
    BY <1>1, <1>3, CutFacts, LineFacts
  <2>4. m \in Nat /\ m + 1 = Len(cut)
    <3>. HIDE DEF m, cut
    <3>. QED BY <2>2, <2>3
  <2>5. /\ b + m <= Len(edges) /\ \A i \in 1..m : edges[b + i] = BuildEdges(w)[i]
        /\ \A k \in 1..Len(edges) : edges[k].of = w => k \in (b + 1)..(b + m)
    BY <2>1 DEF BlockAt
  <2>. HIDE DEF m, cut
  <2>6. I = (b + 1)..(b + m)
    <3>1. ASSUME NEW k \in (b + 1)..(b + m) PROVE k \in 1..Len(edges) /\ edges[k].of = w
      <4>1. k - b \in 1..m /\ b + (k - b) = k /\ k \in 1..Len(edges)
        BY <1>1, <2>4, <2>5
      <4>2. edges[k] = BuildEdges(w)[k - b]
        BY <2>5, <4>1
      <4>. QED BY <2>2, <4>1, <4>2
    <3>. QED BY <1>1, <2>5, <3>1
  <2>. HIDE DEF I
  <2>7. DOMAIN own = 1..m /\ Len(own) = m /\ \A i \in 1..m : own[i] = edges[b + i]
    <3>1. m \in Nat /\ b \in Nat
      BY <2>4
    <3>. QED BY <2>6, <3>1, ItemsAtInterval
  <2>8. DOMAIN own = 1..m /\ Len(own) = m /\ \A i \in 1..m : own[i] = BuildEdges(w)[i]
    BY <2>5, <2>7
  <2>. HIDE DEF own
  <2>9. /\ cut \in [1..(Len(own) + 1) -> DOMAIN Line(w)]
        /\ cut[1] = 1 /\ cut[Len(own) + 1] = Len(Line(w))
        /\ \A i \in DOMAIN own : own[i].nodes = SubSeq(Line(w), cut[i], cut[i + 1])
    BY <2>2, <2>3, <2>4, <2>8
  <2>10. \A i \in DOMAIN own : own[i].seg = i - 1 /\ Len(own[i].nodes) >= 2
    BY <2>2, <2>8
  <2>. QED BY <1>3, <2>9, <2>10 DEF own, I
<1>. QED BY <1>2, <1>3

\* The edges of a routed way, in segment order, are its geometry, cut at shared nodes.
THEOREM EdgesTileTheirWays == MaterializeSpec => []EdgesTileWays
BY BlocksTileWays, MaterializeInvariant, PTL

\* Every vertex is a cut point of a way with a geometry, or the end of a way without one.
LEMMA VertexIsUsed ==
  ASSUME ctx \in Contexts, EndsInFile, NEW n \in Vertices
  PROVE  \E w \in Kept :
           \/ Resolves(w) /\ \E p \in CutPoints(w) : Line(w)[p] = n
           \/ ~Resolves(w) /\ ctx.refs[w] # <<>> /\ n = Head(ctx.refs[w])
<1>1. n \in Located /\ (Shared(n) \/ n \in Endpoints \/ n \in ctx.selected)
  BY DEF Vertices
<1>2. \A w \in Kept : /\ w \in DOMAIN ctx.refs /\ ctx.refs[w] \in Seq(Int) /\ Len(ctx.refs[w]) \in Nat
                      /\ DOMAIN ctx.refs[w] = 1..Len(ctx.refs[w])
  BY ContextFacts, LenProperties
\* A way without a geometry whose refs have a located node starts with that node.
<1>3. ASSUME NEW w \in Kept, ~Resolves(w), NEW j \in DOMAIN ctx.refs[w], ctx.refs[w][j] = n
      PROVE  ctx.refs[w] # <<>> /\ n = Head(ctx.refs[w])
  <2>. DEFINE R == ctx.refs[w]
  <2>1. j \in 1..Len(R) /\ Len(R) \in Nat /\ R \in Seq(Int) /\ DOMAIN R = 1..Len(R)
    BY <1>2
  <2>2. R # <<>> /\ 1 \in 1..Len(R)
    BY <2>1, EmptySeq
  <2>3. Head(R) = R[1]
    BY <2>1, <2>2, HeadTailProperties
  <2>4. j \in LocatedAt(w)
    BY <1>1, <1>3 DEF LocatedAt
  <2>5. 1 \in LocatedAt(w)
    <3>1. R[1] \in ctx.present
      BY <2>2, <2>3 DEF EndsInFile
    <3>2. R[1] \in Range(R)
      BY <2>1, <2>2 DEF Range
    <3>3. R[1] \in Located
      BY <1>2, <3>1, <3>2 DEF Located
    <3>. QED BY <2>1, <2>2, <3>3 DEF LocatedAt
  <2>6. /\ Len(Line(w)) \in Nat /\ \A i \in LocatedAt(w) : \E p \in 1..Len(Line(w)) : At(w)[p] = i
    BY <1>2, LineFacts
  <2>7. Len(Line(w)) < 2
    BY <1>2, <1>3, <2>6 DEF Resolves
  <2>8. \A p, q \in 1..Len(Line(w)) : p = q
    BY <2>6, <2>7
  <2>9. j = 1
    BY <2>4, <2>5, <2>6, <2>8
  <2>. QED BY <1>3, <2>2, <2>3, <2>9
\* A way with a geometry has the node at a position of it.
<1>4. ASSUME NEW w \in Kept, Resolves(w), NEW j \in DOMAIN ctx.refs[w], ctx.refs[w][j] = n
      PROVE  \E p \in DOMAIN Line(w) : Line(w)[p] = n
  <2>1. j \in LocatedAt(w)
    BY <1>1, <1>4 DEF LocatedAt
  <2>2. PICK p \in 1..Len(Line(w)) : At(w)[p] = j
    BY <1>2, <2>1, LineFacts
  <2>3. DOMAIN Line(w) = 1..Len(Line(w)) /\ Line(w)[p] = ctx.refs[w][At(w)[p]]
    BY <1>2, <2>2, LineFacts
  <2>. QED BY <1>4, <2>2, <2>3
<1>5. CASE Shared(n) \/ n \in ctx.selected
  <2>1. PICK w \in Kept : \E j \in DOMAIN ctx.refs[w] : ctx.refs[w][j] = n
    <3>1. CASE Shared(n)
      <4>1. PICK a \in Uses(n) : TRUE
        BY <3>1 DEF Shared
      <4>. QED BY <4>1 DEF Uses
    <3>2. CASE n \in ctx.selected
      BY <3>2, ContextFacts DEF Range
    <3>. QED BY <1>5, <3>1, <3>2
  <2>2. PICK j \in DOMAIN ctx.refs[w] : ctx.refs[w][j] = n
    BY <2>1
  <2>3. CASE Resolves(w)
    <3>1. PICK p \in DOMAIN Line(w) : Line(w)[p] = n
      BY <1>4, <2>2, <2>3
    <3>2. p \in CutPoints(w)
      BY <1>5, <3>1 DEF CutPoints
    <3>. QED BY <2>3, <3>1, <3>2
  <2>4. CASE ~Resolves(w)
    <3>1. ctx.refs[w] # <<>> /\ n = Head(ctx.refs[w])
      BY <1>3, <2>2, <2>4
    <3>. QED BY <2>4, <3>1
  <2>. QED BY <2>3, <2>4
<1>6. CASE n \in Endpoints
  <2>1. PICK w \in Kept : ctx.refs[w] # <<>> /\ (n = Head(ctx.refs[w]) \/ n = Last(ctx.refs[w]))
    BY <1>6 DEF Endpoints
  <2>. DEFINE R == ctx.refs[w]
  <2>2. /\ R \in Seq(Int) /\ Len(R) \in Nat /\ DOMAIN R = 1..Len(R)
        /\ 1 \in 1..Len(R) /\ Len(R) \in 1..Len(R) /\ Head(R) = R[1] /\ Last(R) = R[Len(R)]
    <3>1. R \in Seq(Int) /\ Len(R) \in Nat /\ DOMAIN R = 1..Len(R) /\ R # <<>>
      BY <1>2, <2>1
    <3>. HIDE DEF R
    <3>2. 1 \in 1..Len(R) /\ Len(R) \in 1..Len(R) /\ Head(R) = R[1] /\ Last(R) = R[Len(R)]
      BY <3>1, EmptySeq, HeadTailProperties DEF Last
    <3>. QED BY <3>1, <3>2
  <2>3. CASE Resolves(w)
    <3>1. Line(w)[1] = Head(R) /\ Line(w)[Len(Line(w))] = Last(R)
      BY <2>3, LineEnds
    <3>2. /\ Len(Line(w)) \in Nat /\ Len(Line(w)) >= 2 /\ DOMAIN Line(w) = 1..Len(Line(w))
      BY <1>2, <2>3, LineFacts DEF Resolves
    <3>3. 1 \in CutPoints(w) /\ Len(Line(w)) \in CutPoints(w)
      BY <3>2 DEF CutPoints
    <3>. QED BY <2>1, <2>3, <3>1, <3>3
  <2>4. CASE ~Resolves(w)
    <3>1. PICK j \in DOMAIN R : R[j] = n
      BY <2>1, <2>2
    <3>2. ctx.refs[w] # <<>> /\ n = Head(ctx.refs[w])
      BY <1>3, <2>4, <3>1
    <3>. QED BY <2>4, <3>2
  <2>. QED BY <2>3, <2>4
<1>. QED BY <1>1, <1>5, <1>6

LEMMA NodesAreEnds == MIInv /\ EndsInFile => NodesMatchEdges
<1>. DEFINE NodeOf(id) == {row[2] : row \in {x \in Range(nodeRows) : x[1] = id}}
            Short == {w \in Kept : ~Resolves(w) /\ ctx.refs[w] # <<>>}
<1>. SUFFICES ASSUME MIInv, EndsInFile, stage = "done", ctx.graph
              PROVE  /\ \A e \in Range(edges) :
                          NodeOf(e.start) = {Head(e.nodes)} /\ NodeOf(e.end) = {Last(e.nodes)}
                     /\ \A row \in Range(nodeRows) :
                          \/ \E e \in Range(edges) : row[1] \in {e.start, e.end}
                          \/ \E w \in Short : row[2] \in {Head(ctx.refs[w]), Last(ctx.refs[w])}
  BY DEF NodesMatchEdges
<1>1. /\ ctx \in Contexts /\ todo = {} /\ ~crashed /\ EdgesAreBlocks
      /\ Len(edges) \in Nat /\ DOMAIN edges = 1..Len(edges)
  BY LenProperties DEF MIInv, MTypes, InStage
<1>2. /\ \A n \in Vertices : nodeIds[n] \in DOMAIN nodeRows /\ nodeRows[nodeIds[n]] = <<nodeIds[n], n>>
      /\ \A i \in DOMAIN nodeRows : \E n \in Vertices : nodeIds[n] = i /\ nodeRows[i] = <<i, n>>
  BY DEF MIInv, IdsAreRows
<1>3. ASSUME NEW n \in Vertices PROVE NodeOf(nodeIds[n]) = {n}
  <2>1. <<nodeIds[n], n>> \in Range(nodeRows)
    BY <1>2 DEF Range
  <2>2. ASSUME NEW x \in Range(nodeRows), x[1] = nodeIds[n] PROVE x[2] = n
    <3>1. PICK i \in DOMAIN nodeRows : x = nodeRows[i]
      BY DEF Range
    <3>2. x[1] = i
      BY <1>2, <3>1
    <3>. QED BY <1>2, <2>2, <3>1, <3>2
  <2>3. <<nodeIds[n], n>>[1] = nodeIds[n] /\ <<nodeIds[n], n>>[2] = n
    OBVIOUS
  <2>. QED BY <2>1, <2>2, <2>3
<1>4. ASSUME NEW w \in Kept, Resolves(w), NEW i \in 1..(Len(Cut(w)) - 1)
      PROVE  LET e == BuildEdges(w)[i]
             IN  /\ NodeOf(e.start) = {Head(e.nodes)} /\ NodeOf(e.end) = {Last(e.nodes)}
  <2>. DEFINE cut == Cut(w)
              ns == BuildEdges(w)[i].nodes
  <2>1. w \in DOMAIN ctx.refs
    BY <1>1, ContextFacts
  <2>2. /\ BuildEdges(w)[i].start = nodeIds[Line(w)[cut[i]]]
        /\ BuildEdges(w)[i].end = nodeIds[Line(w)[cut[i + 1]]]
        /\ ns \in Seq(Int) /\ Len(ns) = cut[i + 1] - cut[i] + 1 /\ Len(ns) >= 2
        /\ \A j \in 1..Len(ns) : ns[j] = Line(w)[cut[i] + j - 1]
    <3>1. ctx \in Contexts /\ w \in DOMAIN ctx.refs /\ Resolves(w) /\ i \in 1..(Len(Cut(w)) - 1)
      BY <1>1, <1>4, <2>1
    <3>. QED BY ONLY <3>1, EdgeFacts
  <2>3. /\ Len(cut) \in Nat /\ cut \in [1..Len(cut) -> 1..Len(Line(w))]
        /\ \A j \in 1..Len(cut) : cut[j] \in CutPoints(w)
    BY <1>1, <1>4, <2>1, CutFacts
  <2>. HIDE DEF cut, ns
  <2>4. i \in 1..Len(cut) /\ i + 1 \in 1..Len(cut)
    BY <2>3 DEF cut
  <2>5. cut[i] \in Int /\ cut[i + 1] \in Int
    BY <2>3, <2>4
  <2>6. Line(w)[cut[i]] \in Vertices /\ Line(w)[cut[i + 1]] \in Vertices
    BY <1>1, <1>4, <2>3, <2>4, CutPointsAreVertices
  <2>7. Head(ns) = Line(w)[cut[i]]
    <3>1. Head(ns) = ns[1] /\ 1 \in 1..Len(ns)
      BY <2>2, <2>5, EmptySeq, HeadTailProperties
    <3>2. cut[i] + 1 - 1 = cut[i]
      BY <2>5
    <3>. QED BY <2>2, <3>1, <3>2
  <2>8. Last(ns) = Line(w)[cut[i + 1]]
    <3>1. Last(ns) = ns[Len(ns)] /\ Len(ns) \in 1..Len(ns)
      BY <2>2, <2>5 DEF Last
    <3>2. cut[i] + Len(ns) - 1 = cut[i + 1]
      BY <2>2, <2>5
    <3>. QED BY <2>2, <3>1, <3>2
  <2>9. /\ NodeOf(nodeIds[Line(w)[cut[i]]]) = {Head(ns)}
        /\ NodeOf(nodeIds[Line(w)[cut[i + 1]]]) = {Last(ns)}
    <3>. HIDE DEF NodeOf
    <3>. QED BY <1>3, <2>6, <2>7, <2>8
  <2>. HIDE DEF NodeOf
  <2>. QED BY <2>2, <2>9 DEF ns
<1>5. ASSUME NEW e \in Range(edges)
      PROVE  NodeOf(e.start) = {Head(e.nodes)} /\ NodeOf(e.end) = {Last(e.nodes)}
  <2>1. PICK k \in 1..Len(edges) : e = edges[k]
    BY <1>1 DEF Range
  <2>2. PICK w \in Kept, b \in Nat :
          /\ w \in DOMAIN ctx.refs /\ Resolves(w)
          /\ k - b \in 1..Len(BuildEdges(w)) /\ edges[k] = BuildEdges(w)[k - b]
    BY EdgeInBlock
  <2>3. Len(BuildEdges(w)) = Len(Cut(w)) - 1
    BY <1>1, <2>2, EdgeFacts
  <2>4. k - b \in 1..(Len(Cut(w)) - 1)
    BY <2>2, <2>3
  <2>. HIDE DEF NodeOf
  <2>. QED BY <1>4, <2>1, <2>2, <2>4
<1>6. ASSUME NEW row \in Range(nodeRows)
      PROVE  \/ \E e \in Range(edges) : row[1] \in {e.start, e.end}
             \/ \E w \in Short : row[2] \in {Head(ctx.refs[w]), Last(ctx.refs[w])}
  <2>1. PICK i \in DOMAIN nodeRows : row = nodeRows[i]
    BY DEF Range
  <2>2. PICK n \in Vertices : nodeIds[n] = i /\ row = <<i, n>>
    BY <1>2, <2>1
  <2>3. PICK w \in Kept : \/ Resolves(w) /\ \E p \in CutPoints(w) : Line(w)[p] = n
                          \/ ~Resolves(w) /\ ctx.refs[w] # <<>> /\ n = Head(ctx.refs[w])
    BY <1>1, VertexIsUsed
  <2>4. CASE ~Resolves(w) /\ ctx.refs[w] # <<>> /\ n = Head(ctx.refs[w])
    BY <2>2, <2>4
  <2>5. CASE Resolves(w) /\ \E p \in CutPoints(w) : Line(w)[p] = n
    <3>1. PICK p \in CutPoints(w) : Line(w)[p] = n
      BY <2>5
    <3>. DEFINE m == Len(Cut(w)) - 1
    <3>2. w \in DOMAIN ctx.refs
      BY <1>1, ContextFacts
    <3>3. /\ Len(Cut(w)) \in Nat /\ Len(Cut(w)) >= 2
          /\ \E c \in 1..Len(Cut(w)) : Cut(w)[c] = p
      BY <1>1, <2>5, <3>1, <3>2, CutFacts
    <3>4. PICK c \in 1..(m + 1) : Cut(w)[c] = p
      BY <3>3
    <3>5. /\ Len(BuildEdges(w)) = m
          /\ \A j \in 1..m : /\ BuildEdges(w)[j].start = nodeIds[Line(w)[Cut(w)[j]]]
                             /\ BuildEdges(w)[j].end = nodeIds[Line(w)[Cut(w)[j + 1]]]
      <4>1. ctx \in Contexts /\ w \in DOMAIN ctx.refs /\ Resolves(w)
        BY <1>1, <2>5, <3>2
      <4>. QED BY ONLY <4>1, EdgeFacts
    <3>6. PICK b \in Nat : BlockAt(w, b)
      BY <1>1, <2>5 DEF EdgesAreBlocks, Placed
    <3>7. m \in Nat /\ m >= 1
      BY <3>3
    <3>. HIDE DEF m
    <3>8. \A j \in 1..m : BuildEdges(w)[j] \in Range(edges)
      <4>. SUFFICES ASSUME NEW j \in 1..m PROVE BuildEdges(w)[j] \in Range(edges)
        OBVIOUS
      <4>1. b + m <= Len(edges) /\ edges[b + j] = BuildEdges(w)[j]
        BY <3>5, <3>6 DEF BlockAt
      <4>2. b + j \in 1..Len(edges)
        BY <1>1, <3>7, <4>1
      <4>. QED BY <1>1, <4>1, <4>2 DEF Range
    <3>9. CASE c \in 1..m
      <4>1. BuildEdges(w)[c].start = i
        BY <2>2, <3>1, <3>4, <3>5, <3>9
      <4>2. row[1] \in {BuildEdges(w)[c].start, BuildEdges(w)[c].end}
        BY <2>2, <4>1
      <4>. QED BY <3>8, <3>9, <4>2
    <3>10. CASE c = m + 1
      <4>1. m \in 1..m
        BY <3>7
      <4>2. BuildEdges(w)[m].end = i
        BY <2>2, <3>1, <3>4, <3>5, <3>10, <4>1
      <4>3. row[1] \in {BuildEdges(w)[m].start, BuildEdges(w)[m].end}
        BY <2>2, <4>2
      <4>. QED BY <3>8, <4>1, <4>3
    <3>. QED BY <3>4, <3>7, <3>9, <3>10
  <2>. QED BY <2>3, <2>4, <2>5
<1>. QED BY <1>5, <1>6

\* `nodes` has the ends of the edges and, but for ways too short to have a geometry, no other
\* vertices, when the file has the ends of the kept ways.
THEOREM NodesAreTheEndsOfEdges == MaterializeSpec => [](EndsInFile => NodesMatchEdges)
BY NodesAreEnds, MaterializeInvariant, PTL

-----------------------------------------------------------------------------
(* A relation's line: the assembly takes every step of the members as often *)
(* as they do.                                                              *)

\* A one-to-one function onto T says that T has as many members as S.
LEMMA SameSize ==
  ASSUME NEW S, IsFiniteSet(S), NEW T, NEW f \in [S -> T],
         \A x, y \in S : f[x] = f[y] => x = y, \A z \in T : \E x \in S : f[x] = z
  PROVE  IsFiniteSet(T) /\ Cardinality(T) = Cardinality(S) /\ Cardinality(T) \in Nat
<1>1. f \in Surjection(S, T) /\ f \in Injection(S, T)
  BY DEF Surjection, Injection, IsInjective
<1>. QED BY <1>1, FS_Surjection, FS_CardinalityType

\* Where a line takes a step, and the lines a ring can be made of.
TakenBy(line, step) == {j \in 1..(Len(line) - 1) : {line[j], line[j + 1]} = step}

Often(line, step) == Cardinality(TakenBy(line, step))

Times(lines, step) == Cardinality(Taken(lines, step))

Segments == {l \in Seq(Int) : Len(l) >= 2}

LEMMA OftenIsFinite ==
  ASSUME NEW l \in Seq(Int), NEW step
  PROVE  IsFiniteSet(TakenBy(l, step)) /\ Often(l, step) \in Nat
<1>1. IsFiniteSet(1..(Len(l) - 1))
  BY FS_Interval
<1>2. TakenBy(l, step) \in SUBSET (1..(Len(l) - 1))
  BY DEF TakenBy
<1>. QED BY <1>1, <1>2, FS_Subset, FS_CardinalityType DEF Often

\* A line turned round takes the same steps.
LEMMA OftenReversed ==
  ASSUME NEW l \in Seq(Int), NEW step
  PROVE  /\ Reverse(l) \in Seq(Int) /\ Len(Reverse(l)) = Len(l)
         /\ \A i \in 1..Len(l) : Reverse(l)[i] = l[Len(l) - i + 1]
         /\ Often(Reverse(l), step) = Often(l, step)
<1>. DEFINE n == Len(l)
            r == Reverse(l)
            f == [j \in TakenBy(l, step) |-> n - j]
<1>1. n \in Nat /\ \A i \in 1..n : l[i] \in Int
  OBVIOUS
<1>2. r = [i \in 1..n |-> l[n - i + 1]]
  BY <1>1 DEF Reverse
<1>3. \A i \in 1..n : n - i + 1 \in 1..n
  BY <1>1
<1>4. r \in Seq(Int) /\ Len(r) = n /\ \A i \in 1..n : r[i] = l[n - i + 1]
  <2>1. r \in [1..n -> Int]
    BY <1>1, <1>2, <1>3
  <2>. QED BY <1>1, <1>2, <2>1
<1>. HIDE DEF r, n
<1>5. \A j \in 1..(n - 1) : /\ n - j \in 1..(n - 1)
                            /\ {r[n - j], r[(n - j) + 1]} = {l[j], l[j + 1]}
  <2>. SUFFICES ASSUME NEW j \in 1..(n - 1)
                PROVE  /\ n - j \in 1..(n - 1)
                       /\ {r[n - j], r[(n - j) + 1]} = {l[j], l[j + 1]}
    OBVIOUS
  <2>1. n - j \in 1..(n - 1) /\ n - j \in 1..n /\ (n - j) + 1 \in 1..n
    BY <1>1
  <2>2. n - (n - j) + 1 = j + 1 /\ n - ((n - j) + 1) + 1 = j
    BY <1>1
  <2>3. r[n - j] = l[j + 1] /\ r[(n - j) + 1] = l[j]
    BY <1>4, <2>1, <2>2
  <2>. QED BY <2>1, <2>3
<1>6. f \in [TakenBy(l, step) -> TakenBy(r, step)]
  BY <1>4, <1>5 DEF TakenBy, n
<1>7. \A x, y \in TakenBy(l, step) : f[x] = f[y] => x = y
  BY <1>1 DEF TakenBy, n
<1>8. ASSUME NEW z \in TakenBy(r, step) PROVE \E x \in TakenBy(l, step) : f[x] = z
  <2>1. z \in 1..(n - 1) /\ {r[z], r[z + 1]} = step
    BY <1>4 DEF TakenBy
  <2>2. n - z \in 1..(n - 1) /\ n - (n - z) = z
    BY <1>1, <2>1
  <2>3. {l[n - z], l[(n - z) + 1]} = step
    BY <1>5, <2>1, <2>2
  <2>4. n - z \in TakenBy(l, step)
    BY <2>2, <2>3 DEF TakenBy, n
  <2>. QED BY <2>2, <2>4
<1>. HIDE DEF f
<1>9. Often(r, step) = Often(l, step)
  BY <1>6, <1>7, <1>8, SameSize, OftenIsFinite DEF Often
<1>. QED BY <1>4, <1>9 DEF n, r

\* A line that goes on where another ends takes the steps of both.
LEMMA OftenJoined ==
  ASSUME NEW a \in Segments, NEW b \in Segments, Head(b) = Last(a), NEW step
  PROVE  /\ a \o Tail(b) \in Segments
         /\ Often(a \o Tail(b), step) = Often(a, step) + Often(b, step)
<1>. DEFINE m == Len(a)
            n == Len(b)
            c == a \o Tail(b)
            A == TakenBy(a, step)
            B == TakenBy(b, step)
            Z == {(m - 1) + j : j \in B}
            f == [j \in B |-> (m - 1) + j]
<1>1. /\ a \in Seq(Int) /\ b \in Seq(Int) /\ m \in Nat /\ n \in Nat /\ m >= 2 /\ n >= 2
      /\ b # <<>> /\ a[m] = b[1]
  <2>1. a \in Seq(Int) /\ b \in Seq(Int) /\ m \in Nat /\ n \in Nat /\ m >= 2 /\ n >= 2
    BY DEF Segments
  <2>2. b # <<>> /\ Head(b) = b[1] /\ Last(a) = a[m]
    BY <2>1 DEF Last
  <2>. QED BY <2>1, <2>2
<1>2. Tail(b) \in Seq(Int) /\ Len(Tail(b)) = n - 1 /\ \A i \in 1..(n - 1) : Tail(b)[i] = b[i + 1]
  BY <1>1, HeadTailProperties
<1>3. /\ c \in Seq(Int) /\ Len(c) = m + n - 1
      /\ \A i \in 1..(m + n - 1) : c[i] = IF i <= m THEN a[i] ELSE Tail(b)[i - m]
  <2>1. m + Len(Tail(b)) = m + n - 1
    BY <1>1, <1>2
  <2>. QED BY <1>1, <1>2, <2>1, ConcatProperties
<1>. HIDE DEF c, m, n
<1>4. \A i \in 1..m : c[i] = a[i]
  BY <1>1, <1>3
<1>5. \A j \in 1..n : c[(m - 1) + j] = b[j]
  <2>. SUFFICES ASSUME NEW j \in 1..n PROVE c[(m - 1) + j] = b[j]
    OBVIOUS
  <2>1. CASE j = 1
    BY <1>1, <1>4, <2>1
  <2>2. CASE j # 1
    <3>1. (m - 1) + j \in 1..(m + n - 1) /\ ~((m - 1) + j <= m) /\ ((m - 1) + j) - m = j - 1
      BY <1>1, <2>2
    <3>2. j - 1 \in 1..(n - 1) /\ (j - 1) + 1 = j
      BY <1>1, <2>2
    <3>. QED BY <1>2, <1>3, <3>1, <3>2
  <2>. QED BY <2>1, <2>2
<1>6. c \in Segments
  BY <1>1, <1>3 DEF Segments
<1>7. TakenBy(c, step) = A \cup Z
  <2>1. ASSUME NEW i \in TakenBy(c, step) PROVE i \in A \cup Z
    <3>1. i \in 1..(m + n - 2) /\ {c[i], c[i + 1]} = step
      BY <1>1, <1>3 DEF TakenBy
    <3>2. CASE i <= m - 1
      <4>1. i \in 1..m /\ i + 1 \in 1..m /\ i \in 1..(m - 1)
        BY <1>1, <3>1, <3>2
      <4>. QED BY <1>4, <3>1, <4>1 DEF TakenBy, m
    <3>3. CASE ~(i <= m - 1)
      <4>. DEFINE j == i - (m - 1)
      <4>1. j \in 1..(n - 1) /\ j \in 1..n /\ j + 1 \in 1..n /\ (m - 1) + j = i /\ (m - 1) + (j + 1) = i + 1
        BY <1>1, <3>1, <3>3
      <4>2. b[j] = c[i] /\ b[j + 1] = c[i + 1]
        BY <1>5, <4>1
      <4>3. j \in B
        BY <3>1, <4>1, <4>2 DEF TakenBy, n
      <4>. QED BY <4>1, <4>3
    <3>. QED BY <3>2, <3>3
  <2>2. ASSUME NEW i \in A PROVE i \in TakenBy(c, step)
    <3>1. i \in 1..(m - 1) /\ {a[i], a[i + 1]} = step
      BY DEF TakenBy, m
    <3>2. i \in 1..m /\ i + 1 \in 1..m /\ i \in 1..(Len(c) - 1)
      BY <1>1, <1>3, <3>1
    <3>. QED BY <1>4, <3>1, <3>2 DEF TakenBy
  <2>3. ASSUME NEW j \in B PROVE (m - 1) + j \in TakenBy(c, step)
    <3>1. j \in 1..(n - 1) /\ {b[j], b[j + 1]} = step
      BY DEF TakenBy, n
    <3>2. /\ j \in 1..n /\ j + 1 \in 1..n /\ (m - 1) + j \in 1..(Len(c) - 1)
          /\ (m - 1) + (j + 1) = ((m - 1) + j) + 1
      BY <1>1, <1>3, <3>1
    <3>3. c[(m - 1) + j] = b[j] /\ c[((m - 1) + j) + 1] = b[j + 1]
      BY <1>5, <3>2
    <3>. QED BY <3>1, <3>2, <3>3 DEF TakenBy
  <2>. HIDE DEF A, B
  <2>. QED BY <2>1, <2>2, <2>3
<1>8. IsFiniteSet(A) /\ IsFiniteSet(B) /\ Cardinality(A) \in Nat /\ Cardinality(B) \in Nat
  BY <1>1, OftenIsFinite DEF Often
<1>9. A \cap Z = {}
  <2>1. \A i \in A : i \in Int /\ i <= m - 1
    BY <1>1 DEF TakenBy, m
  <2>2. \A j \in B : j \in Int /\ j >= 1
    BY <1>1 DEF TakenBy, n
  <2>. HIDE DEF A, B
  <2>. QED BY <1>1, <2>1, <2>2
<1>10. \A j \in B : j \in Int
  BY DEF TakenBy
<1>. HIDE DEF A, B
<1>11. IsFiniteSet(Z) /\ Cardinality(Z) = Cardinality(B)
  <2>1. f \in [B -> Z] /\ \A z \in Z : \E j \in B : f[j] = z
    OBVIOUS
  <2>2. \A i, j \in B : f[i] = f[j] => i = j
    BY <1>1, <1>10
  <2>. HIDE DEF f, Z
  <2>. QED BY <1>8, <2>1, <2>2, SameSize
<1>. HIDE DEF Z
<1>12. Cardinality(A \cup Z) = Cardinality(A) + Cardinality(B)
  BY <1>8, <1>9, <1>11, FS_Union, FS_EmptySet
<1>. QED BY <1>6, <1>7, <1>12 DEF Often, A, B, c

\* The places of a step, line by line.
LEMMA TakenFacts ==
  ASSUME NEW lines \in Seq(Seq(Int)), NEW step
  PROVE  /\ IsFiniteSet(Taken(lines, step)) /\ Times(lines, step) \in Nat
         /\ Taken(lines, step) = UNION {{i} \X TakenBy(lines[i], step) : i \in 1..Len(lines)}
<1>. DEFINE each == {{i} \X TakenBy(lines[i], step) : i \in 1..Len(lines)}
            g == [i \in 1..Len(lines) |-> {i} \X TakenBy(lines[i], step)]
<1>1. DOMAIN lines = 1..Len(lines) /\ Len(lines) \in Nat /\ \A i \in 1..Len(lines) : lines[i] \in Seq(Int)
  OBVIOUS
<1>2. Taken(lines, step) = UNION each
  BY <1>1 DEF Taken, TakenBy
<1>3. \A i \in 1..Len(lines) : IsFiniteSet({i} \X TakenBy(lines[i], step))
  <2>. SUFFICES ASSUME NEW i \in 1..Len(lines) PROVE IsFiniteSet({i} \X TakenBy(lines[i], step))
    OBVIOUS
  <2>1. IsFiniteSet(TakenBy(lines[i], step)) /\ IsFiniteSet({i})
    BY <1>1, OftenIsFinite, FS_Singleton
  <2>. QED BY <2>1, FS_Product
<1>4. IsFiniteSet(each)
  <2>1. IsFiniteSet(1..Len(lines))
    BY <1>1, FS_Interval
  <2>2. g \in Surjection(1..Len(lines), each)
    BY DEF Surjection
  <2>. HIDE DEF g, each
  <2>. QED BY <2>1, <2>2, FS_Surjection
<1>5. \A x \in each : IsFiniteSet(x)
  BY <1>3
<1>6. IsFiniteSet(UNION each)
  <2>. HIDE DEF each
  <2>. QED BY <1>4, <1>5, FS_UNION
<1>. QED BY <1>2, <1>6, FS_CardinalityType DEF Times

\* Two lists of lines take a step as often as the two together.
LEMMA TimesAdd ==
  ASSUME NEW s \in Seq(Seq(Int)), NEW t \in Seq(Seq(Int)), NEW step
  PROVE  Times(s \o t, step) = Times(s, step) + Times(t, step)
<1>. DEFINE m == Len(s)
            n == Len(t)
            c == s \o t
            S == Taken(s, step)
            T == Taken(t, step)
            f == [p \in T |-> <<m + p[1], p[2]>>]
            Z == {<<m + p[1], p[2]>> : p \in T}
<1>1. m \in Nat /\ n \in Nat
  OBVIOUS
<1>2. /\ c \in Seq(Seq(Int)) /\ Len(c) = m + n
      /\ \A i \in 1..(m + n) : c[i] = IF i <= m THEN s[i] ELSE t[i - m]
  <2>. PICK SS : SS = Seq(Int)
    OBVIOUS
  <2>1. s \in Seq(SS) /\ t \in Seq(SS)
    OBVIOUS
  <2>2. /\ s \o t \in Seq(SS) /\ Len(s \o t) = Len(s) + Len(t)
        /\ \A i \in 1 .. Len(s) + Len(t) : (s \o t)[i] = IF i <= Len(s) THEN s[i] ELSE t[i - Len(s)]
    BY <2>1, ConcatProperties
  <2>. QED BY <2>2
<1>3. /\ S = UNION {{i} \X TakenBy(s[i], step) : i \in 1..m}
      /\ T = UNION {{i} \X TakenBy(t[i], step) : i \in 1..n}
      /\ IsFiniteSet(S) /\ IsFiniteSet(T) /\ Cardinality(S) \in Nat /\ Cardinality(T) \in Nat
  BY TakenFacts DEF Times
<1>4. Taken(c, step) = UNION {{i} \X TakenBy(c[i], step) : i \in 1..(m + n)}
  BY <1>2, TakenFacts
<1>. HIDE DEF c, m, n, S, T
<1>5. \A i \in 1..m : i \in 1..(m + n) /\ c[i] = s[i]
  BY <1>1, <1>2
<1>6. \A i \in 1..n : m + i \in 1..(m + n) /\ c[m + i] = t[i]
  <2>. SUFFICES ASSUME NEW i \in 1..n PROVE m + i \in 1..(m + n) /\ c[m + i] = t[i]
    OBVIOUS
  <2>1. m + i \in 1..(m + n) /\ ~(m + i <= m) /\ (m + i) - m = i
    BY <1>1
  <2>. QED BY <1>2, <2>1
<1>7. \A i, j : /\ <<i, j>> \in S <=> i \in 1..m /\ j \in TakenBy(s[i], step)
                /\ <<i, j>> \in T <=> i \in 1..n /\ j \in TakenBy(t[i], step)
                /\ <<i, j>> \in Taken(c, step) <=> i \in 1..(m + n) /\ j \in TakenBy(c[i], step)
  BY <1>3, <1>4
<1>8. /\ \A p \in S : p = <<p[1], p[2]>> /\ p[1] \in 1..m
      /\ \A p \in T : p = <<p[1], p[2]>> /\ p[1] \in 1..n
      /\ \A p \in Taken(c, step) : p = <<p[1], p[2]>> /\ p[1] \in 1..(m + n)
  BY <1>3, <1>4
<1>9. Taken(c, step) = S \cup Z
  <2>1. ASSUME NEW p \in Taken(c, step) PROVE p \in S \cup Z
    <3>1. /\ p = <<p[1], p[2]>> /\ p[1] \in 1..(m + n) /\ p[2] \in TakenBy(c[p[1]], step)
      BY <1>7, <1>8
    <3>2. CASE p[1] <= m
      <4>1. p[1] \in 1..m
        BY <1>1, <3>1, <3>2
      <4>2. p[2] \in TakenBy(s[p[1]], step)
        BY <1>5, <3>1, <4>1
      <4>. QED BY <1>7, <3>1, <4>1, <4>2
    <3>3. CASE ~(p[1] <= m)
      <4>1. p[1] - m \in 1..n /\ m + (p[1] - m) = p[1]
        BY <1>1, <3>1, <3>3
      <4>2. p[2] \in TakenBy(t[p[1] - m], step)
        BY <1>6, <3>1, <4>1
      <4>3. <<p[1] - m, p[2]>> \in T
        BY <1>7, <4>1, <4>2
      <4>4. p = <<m + <<p[1] - m, p[2]>>[1], <<p[1] - m, p[2]>>[2]>>
        BY <3>1, <4>1
      <4>. QED BY <4>3, <4>4
    <3>. QED BY <3>2, <3>3
  <2>2. ASSUME NEW p \in S PROVE p \in Taken(c, step)
    <3>1. p = <<p[1], p[2]>> /\ p[1] \in 1..m /\ p[2] \in TakenBy(s[p[1]], step)
      BY <1>7, <1>8
    <3>. QED BY <1>5, <1>7, <3>1
  <2>3. ASSUME NEW p \in T PROVE <<m + p[1], p[2]>> \in Taken(c, step)
    <3>1. p = <<p[1], p[2]>> /\ p[1] \in 1..n /\ p[2] \in TakenBy(t[p[1]], step)
      BY <1>7, <1>8
    <3>. QED BY <1>6, <1>7, <3>1
  <2>. QED BY <2>1, <2>2, <2>3
<1>10. S \cap Z = {}
  <2>. SUFFICES ASSUME NEW p \in S, NEW q \in T, p = <<m + q[1], q[2]>> PROVE FALSE
    OBVIOUS
  <2>1. p[1] = m + q[1] /\ p[1] \in 1..m /\ q[1] \in 1..n
    BY <1>8
  <2>. QED BY <1>1, <2>1
<1>11. IsFiniteSet(Z) /\ Cardinality(Z) = Cardinality(T)
  <2>1. f \in [T -> Z] /\ \A z \in Z : \E p \in T : f[p] = z
    OBVIOUS
  <2>2. ASSUME NEW p \in T, NEW q \in T, f[p] = f[q] PROVE p = q
    <3>1. m + p[1] = m + q[1] /\ p[2] = q[2]
      BY <2>2
    <3>2. p[1] = q[1]
      BY <1>1, <1>8, <3>1
    <3>. QED BY <1>8, <3>1, <3>2
  <2>3. IsFiniteSet(T) /\ \A p, q \in T : f[p] = f[q] => p = q
    BY <1>3, <2>2
  <2>. HIDE DEF f, Z
  <2>. QED BY <2>1, <2>3, SameSize
<1>. HIDE DEF Z
<1>12. Cardinality(S \cup Z) = Cardinality(S) + Cardinality(T)
  <2>1. IsFiniteSet(S) /\ IsFiniteSet(T) /\ Cardinality(S) \in Nat /\ Cardinality(T) \in Nat
    BY <1>3
  <2>. HIDE DEF f
  <2>2. Cardinality(S \cup Z) = Cardinality(S) + Cardinality(Z) - Cardinality(S \cap Z)
    BY <1>11, <2>1, FS_Union
  <2>3. Cardinality(S \cap Z) = 0
    BY <1>10, FS_EmptySet
  <2>. QED BY <1>11, <2>1, <2>2, <2>3
<1>. QED BY <1>9, <1>12 DEF Times, S, T, c

\* One line, and none.
LEMMA TimesOne ==
  ASSUME NEW line \in Seq(Int), NEW step
  PROVE  Times(<<line>>, step) = Often(line, step) /\ Times(<<>>, step) = 0
<1>1. <<line>> \in Seq(Seq(Int)) /\ Len(<<line>>) = 1 /\ <<line>>[1] = line
  OBVIOUS
<1>2. Taken(<<line>>, step) = {1} \X TakenBy(line, step)
  <2>1. Taken(<<line>>, step) = UNION {{i} \X TakenBy(<<line>>[i], step) : i \in 1..Len(<<line>>)}
    BY <1>1, TakenFacts
  <2>2. 1..Len(<<line>>) = {1}
    BY <1>1
  <2>3. {{i} \X TakenBy(<<line>>[i], step) : i \in 1..Len(<<line>>)} = {{1} \X TakenBy(line, step)}
    BY <1>1, <2>2
  <2>. QED BY <2>1, <2>3
<1>3. IsFiniteSet(TakenBy(line, step)) /\ Often(line, step) \in Nat
  BY OftenIsFinite
<1>4. Times(<<line>>, step) = Often(line, step)
  <2>1. Cardinality({1} \X TakenBy(line, step)) = Cardinality({1}) * Cardinality(TakenBy(line, step))
    BY <1>3, FS_Singleton, FS_Product
  <2>2. Cardinality({1}) = 1
    BY FS_Singleton
  <2>3. Cardinality({1}) * Cardinality(TakenBy(line, step)) = Often(line, step)
    BY <1>3, <2>2 DEF Often
  <2>. QED BY <1>2, <2>1, <2>3 DEF Times
<1>5. Taken(<<>>, step) = {}
  BY DEF Taken
<1>. QED BY <1>4, <1>5, FS_EmptySet DEF Times

\* A list of segments is one of lines.
LEMMA SegmentsAreLines ==
  /\ \A l \in Segments : l \in Seq(Int) /\ l # <<>> /\ Len(l) >= 2
  /\ \A s \in Seq(Segments) : s \in Seq(Seq(Int))
<1>1. Segments \subseteq Seq(Int)
  BY DEF Segments
<1>2. \A s \in Seq(Segments) : s \in Seq(Seq(Int))
  <2>. PICK A, B : A = Segments /\ B = Seq(Int)
    OBVIOUS
  <2>1. \A s \in Seq(A) : s \in Seq(B)
    BY <1>1, SeqMonotonic
  <2>. QED BY <2>1
<1>3. \A l \in Segments : l \in Seq(Int) /\ l # <<>> /\ Len(l) >= 2
  BY DEF Segments
<1>. QED BY <1>2, <1>3

\* Lists of segments put together.
LEMMA ConcatSegments ==
  ASSUME NEW s \in Seq(Segments), NEW t \in Seq(Segments)
  PROVE  /\ s \o t \in Seq(Segments) /\ Len(s \o t) = Len(s) + Len(t)
         /\ \A step : Times(s \o t, step) = Times(s, step) + Times(t, step)
<1>1. s \o t \in Seq(Segments) /\ Len(s \o t) = Len(s) + Len(t)
  <2>. PICK A : A = Segments
    OBVIOUS
  <2>1. s \in Seq(A) /\ t \in Seq(A)
    OBVIOUS
  <2>2. s \o t \in Seq(A) /\ Len(s \o t) = Len(s) + Len(t)
    BY <2>1, ConcatProperties
  <2>. QED BY <2>2
<1>. QED BY <1>1, SegmentsAreLines, TimesAdd

\* Taking a segment out takes out its steps.
LEMMA TakeOut ==
  ASSUME NEW s \in Seq(Segments), NEW i \in 1..Len(s)
  PROVE  /\ RemoveAt(s, i) \in Seq(Segments) /\ Len(RemoveAt(s, i)) = Len(s) - 1
         /\ s[i] \in Segments
         /\ \A step : Times(s, step) = Times(RemoveAt(s, i), step) + Often(s[i], step)
<1>. PICK A : A = Segments
  OBVIOUS
<1>. DEFINE n == Len(s)
            u == SubSeq(s, 1, i - 1)
            v == SubSeq(s, i + 1, n)
<1>1. n \in Nat /\ i \in 1..n /\ \A j \in 1..n : s[j] \in A
  OBVIOUS
<1>2. u \in Seq(A) /\ Len(u) = i - 1 /\ \A j \in 1..(i - 1) : u[j] = s[j]
  <2>1. \A j \in 1..(i - 1) : s[j] \in A
    BY <1>1
  <2>2. 1 \in Int /\ i - 1 \in Int /\ (i - 1) - 1 + 1 = i - 1 /\ \A j \in Int : 1 + j - 1 = j
    BY <1>1
  <2>. QED BY <1>1, <2>1, <2>2, SubSeqProperties
<1>3. v \in Seq(A) /\ Len(v) = n - i /\ \A j \in 1..(n - i) : v[j] = s[i + j]
  <2>1. \A j \in (i + 1)..n : s[j] \in A
    BY <1>1
  <2>2. i + 1 \in Int /\ n \in Int
    BY <1>1
  <2>3. /\ v \in Seq(A) /\ Len(v) = (IF i + 1 <= n THEN n - (i + 1) + 1 ELSE 0)
        /\ \A j \in 1..(n - (i + 1) + 1) : v[j] = s[(i + 1) + j - 1]
    BY <2>1, <2>2, SubSeqProperties
  <2>4. Len(v) = n - i /\ n - (i + 1) + 1 = n - i
    BY <1>1, <2>3
  <2>5. ASSUME NEW j \in 1..(n - i) PROVE v[j] = s[i + j]
    <3>1. v[j] = s[(i + 1) + j - 1]
      BY <2>3, <2>4
    <3>2. (i + 1) + j - 1 = i + j
      BY <1>1
    <3>. QED BY <3>1, <3>2
  <2>. QED BY <2>3, <2>4, <2>5
<1>. HIDE DEF u, v, n
<1>4. s[i] \in A /\ <<s[i]>> \in Seq(A) /\ Len(<<s[i]>>) = 1 /\ <<s[i]>>[1] = s[i]
  BY <1>1
<1>. DEFINE w == u \o <<s[i]>>
<1>5. /\ w \in Seq(A) /\ Len(w) = i
      /\ \A j \in 1..i : w[j] = IF j <= i - 1 THEN u[j] ELSE <<s[i]>>[j - (i - 1)]
  <2>1. (i - 1) + 1 = i
    BY <1>1
  <2>. QED BY <1>2, <1>4, <2>1, ConcatProperties
<1>6. \A j \in 1..i : w[j] = s[j]
  <2>. SUFFICES ASSUME NEW j \in 1..i PROVE w[j] = s[j]
    OBVIOUS
  <2>1. CASE j = i
    <3>1. ~(j <= i - 1) /\ j - (i - 1) = 1
      BY <1>1, <2>1
    <3>. QED BY <1>4, <1>5, <2>1, <3>1
  <2>2. CASE j # i
    <3>1. j \in 1..(i - 1) /\ j <= i - 1
      BY <1>1, <2>2
    <3>. QED BY <1>2, <1>5, <3>1
  <2>. QED BY <2>1, <2>2
<1>. HIDE DEF w
<1>7. w \o v = s
  <2>1. /\ w \o v \in Seq(A) /\ Len(w \o v) = i + (n - i)
        /\ \A j \in 1..(i + (n - i)) : (w \o v)[j] = IF j <= i THEN w[j] ELSE v[j - i]
    <3>1. /\ w \o v \in Seq(A) /\ Len(w \o v) = Len(w) + Len(v)
          /\ \A j \in 1..(Len(w) + Len(v)) : (w \o v)[j] = IF j <= Len(w) THEN w[j] ELSE v[j - Len(w)]
      BY <1>3, <1>5, ConcatProperties
    <3>. QED BY <1>3, <1>5, <3>1
  <2>2. i + (n - i) = n
    BY <1>1
  <2>3. ASSUME NEW j \in 1..n PROVE (w \o v)[j] = s[j]
    <3>1. CASE j <= i
      <4>1. j \in 1..i
        BY <1>1, <3>1
      <4>. QED BY <1>6, <2>1, <2>2, <3>1, <4>1
    <3>2. CASE ~(j <= i)
      <4>1. j - i \in 1..(n - i) /\ i + (j - i) = j
        BY <1>1, <3>2
      <4>. QED BY <1>3, <2>1, <2>2, <3>2, <4>1
    <3>. QED BY <3>1, <3>2
  <2>4. s \in Seq(A) /\ Len(w \o v) = Len(s) /\ Len(s) = n
    BY <2>1, <2>2 DEF n
  <2>5. \A j \in 1..Len(w \o v) : (w \o v)[j] = s[j]
    BY <2>3, <2>4
  <2>. QED BY <2>1, <2>4, <2>5, SeqEqual
<1>8. u \in Seq(Segments) /\ v \in Seq(Segments) /\ <<s[i]>> \in Seq(Segments) /\ s[i] \in Segments
  BY <1>2, <1>3, <1>4
<1>9. RemoveAt(s, i) = u \o v
  BY DEF RemoveAt, u, v, n
<1>10. /\ u \o v \in Seq(Segments) /\ Len(u \o v) = (i - 1) + (n - i)
       /\ \A step : Times(u \o v, step) = Times(u, step) + Times(v, step)
  <2>1. /\ u \o v \in Seq(Segments) /\ Len(u \o v) = Len(u) + Len(v)
        /\ \A step : Times(u \o v, step) = Times(u, step) + Times(v, step)
    BY <1>8, ConcatSegments
  <2>. QED BY <1>2, <1>3, <2>1
<1>11. /\ w \in Seq(Segments)
       /\ \A step : Times(w, step) = Times(u, step) + Times(<<s[i]>>, step)
  BY <1>8, ConcatSegments DEF w
<1>12. \A step : Times(s, step) = Times(w, step) + Times(v, step)
  <2>1. \A step : Times(w \o v, step) = Times(w, step) + Times(v, step)
    BY <1>8, <1>11, ConcatSegments
  <2>. QED BY <1>7, <2>1
<1>13. \A step : Times(<<s[i]>>, step) = Often(s[i], step) /\ Often(s[i], step) \in Nat
  BY <1>8, SegmentsAreLines, TimesOne, OftenIsFinite
<1>14. \A step : Times(u, step) \in Nat /\ Times(v, step) \in Nat
  BY <1>8, SegmentsAreLines, TakenFacts
<1>15. ASSUME NEW step
       PROVE  Times(s, step) = Times(u \o v, step) + Often(s[i], step)
  <2>1. /\ Times(s, step) = Times(w, step) + Times(v, step)
        /\ Times(w, step) = Times(u, step) + Often(s[i], step)
        /\ Times(u \o v, step) = Times(u, step) + Times(v, step)
        /\ Times(u, step) \in Nat /\ Times(v, step) \in Nat /\ Often(s[i], step) \in Nat
    BY <1>10, <1>11, <1>12, <1>13, <1>14
  <2>. QED BY <2>1
<1>16. (i - 1) + (n - i) = n - 1
  BY <1>1
<1>. QED BY <1>8, <1>9, <1>10, <1>15, <1>16 DEF n

\* So does taking the last one off.
LEMMA TakeLast ==
  ASSUME NEW s \in Seq(Segments), s # <<>>
  PROVE  /\ Front(s) \in Seq(Segments) /\ Len(Front(s)) = Len(s) - 1
         /\ Last(s) \in Segments
         /\ \A step : Times(s, step) = Times(Front(s), step) + Often(Last(s), step)
<1>. DEFINE n == Len(s)
<1>1. n \in 1..Len(s)
  OBVIOUS
<1>2. Front(s) \in Seq(Segments)
  <2>. PICK A : A = Segments
    OBVIOUS
  <2>1. \A j \in 1..(n - 1) : s[j] \in A
    OBVIOUS
  <2>2. SubSeq(s, 1, n - 1) \in Seq(A)
    BY <1>1, <2>1, SubSeqProperties
  <2>. QED BY <2>2 DEF Front
<1>3. RemoveAt(s, n) = Front(s)
  <2>. PICK A : A = Segments
    OBVIOUS
  <2>1. SubSeq(s, n + 1, n) = <<>>
    BY <1>1, SubSeqEmpty
  <2>2. Front(s) \in Seq(A)
    BY <1>2
  <2>3. Front(s) \o <<>> = Front(s)
    BY <2>2, ConcatEmptySeq
  <2>. QED BY <2>1, <2>3 DEF RemoveAt, Front
<1>4. Last(s) = s[n]
  BY DEF Last
<1>. QED BY <1>1, <1>3, <1>4, TakeOut

\* A round that goes on with a segment takes the steps of the ring and of the segment.
LEMMA OftenExtended ==
  ASSUME NEW ring \in Segments, NEW s \in Segments, Head(s) = Last(ring) \/ Last(s) = Last(ring)
  PROVE  /\ Extend(ring, s) \in Segments
         /\ \A step : Often(Extend(ring, s), step) = Often(ring, step) + Often(s, step)
<1>1. CASE Head(s) = Last(ring)
  <2>1. Extend(ring, s) = ring \o Tail(s)
    BY <1>1 DEF Extend
  <2>2. /\ ring \o Tail(s) \in Segments
        /\ \A step : Often(ring \o Tail(s), step) = Often(ring, step) + Often(s, step)
    BY <1>1, OftenJoined
  <2>. QED BY <2>1, <2>2
<1>2. CASE Head(s) # Last(ring)
  <2>. DEFINE r == Reverse(s)
  <2>1. Extend(ring, s) = ring \o Tail(r)
    BY <1>2 DEF Extend
  <2>2. s \in Seq(Int) /\ Len(s) >= 2 /\ Len(s) \in Nat
    BY DEF Segments
  <2>3. /\ r \in Seq(Int) /\ Len(r) = Len(s) /\ r[1] = s[Len(s) - 1 + 1]
        /\ \A step : Often(r, step) = Often(s, step)
    BY <2>2, OftenReversed
  <2>. HIDE DEF r
  <2>4. r \in Segments
    BY <2>2, <2>3 DEF Segments
  <2>5. Head(r) = Last(ring)
    <3>1. Head(r) = r[1] /\ Len(s) - 1 + 1 = Len(s)
      BY <2>2, <2>3
    <3>. QED BY <1>2, <2>3, <3>1 DEF Last
  <2>6. /\ ring \o Tail(r) \in Segments
        /\ \A step : Often(ring \o Tail(r), step) = Often(ring, step) + Often(r, step)
    BY <2>4, <2>5, OftenJoined
  <2>. QED BY <2>1, <2>3, <2>6
<1>. QED BY <1>1, <1>2

\* After k rounds over the segments: no step is lost or added, and the work left, which is to
\* pop or append every segment and to finish every ring, fits the rounds left.
Rounds(a, segments, k) ==
  /\ a \in [ring : Segments \cup {<<>>}, rings : Seq(Segments), left : Seq(Segments)]
  /\ \A step : Times(a.rings, step) + Often(a.ring, step) + Times(a.left, step) = Times(segments, step)
  /\ 2 * Len(a.left) + (IF a.ring = <<>> THEN 0 ELSE 1) <= 2 * Len(segments) - k

LEMMA OftenOfNone == \A step : Often(<<>>, step) = 0
<1>1. \A step : TakenBy(<<>>, step) = {}
  BY DEF TakenBy
<1>. QED BY <1>1, FS_EmptySet DEF Often

LEMMA RoundKeeps ==
  ASSUME NEW segments \in Seq(Segments), NEW k \in 0..(2 * Len(segments) - 1), NEW a,
         Rounds(a, segments, k)
  PROVE  Rounds(AssembleStep(a), segments, k + 1)
<1>. DEFINE b == AssembleStep(a)
            n == Len(segments)
<1>1. /\ a \in [ring : Segments \cup {<<>>}, rings : Seq(Segments), left : Seq(Segments)]
      /\ a.ring \in Segments \cup {<<>>} /\ a.rings \in Seq(Segments) /\ a.left \in Seq(Segments)
      /\ 2 * Len(a.left) + (IF a.ring = <<>> THEN 0 ELSE 1) <= 2 * n - k
      /\ n \in Nat /\ k \in Int /\ k < 2 * n /\ Len(a.left) \in Nat
  BY DEF Rounds
<1>2. \A step : /\ Times(a.rings, step) \in Nat /\ Times(a.left, step) \in Nat
                /\ Often(a.ring, step) \in Nat
                /\ Times(a.rings, step) + Often(a.ring, step) + Times(a.left, step) = Times(segments, step)
  <2>. SUFFICES ASSUME NEW step
                PROVE  /\ Times(a.rings, step) \in Nat /\ Times(a.left, step) \in Nat
                       /\ Often(a.ring, step) \in Nat
                       /\ Times(a.rings, step) + Often(a.ring, step) + Times(a.left, step)
                            = Times(segments, step)
    OBVIOUS
  <2>1. a.rings \in Seq(Seq(Int)) /\ a.left \in Seq(Seq(Int))
    BY <1>1, SegmentsAreLines
  <2>2. Times(a.rings, step) \in Nat /\ Times(a.left, step) \in Nat
    BY <2>1, TakenFacts
  <2>3. Often(a.ring, step) \in Nat
    <3>1. CASE a.ring = <<>>
      BY <3>1, OftenOfNone
    <3>2. CASE a.ring \in Segments
      BY <3>2, SegmentsAreLines, OftenIsFinite
    <3>. QED BY <1>1, <3>1, <3>2
  <2>4. Times(a.rings, step) + Often(a.ring, step) + Times(a.left, step) = Times(segments, step)
    BY DEF Rounds
  <2>. QED BY <2>2, <2>3, <2>4
<1>3. <<>> \notin Segments
  BY SegmentsAreLines
<1>. SUFFICES /\ b.ring \in Segments \cup {<<>>} /\ b.rings \in Seq(Segments) /\ b.left \in Seq(Segments)
              /\ b = [ring |-> b.ring, rings |-> b.rings, left |-> b.left]
              /\ \A step : Times(b.rings, step) + Often(b.ring, step) + Times(b.left, step) = Times(segments, step)
              /\ 2 * Len(b.left) + (IF b.ring = <<>> THEN 0 ELSE 1) <= 2 * n - (k + 1)
  BY DEF Rounds
<1>7. CASE a.ring = <<>> /\ a.left = <<>>
  <2>1. b = a
    BY <1>7 DEF AssembleStep
  <2>. HIDE DEF b
  <2>2. 2 * Len(a.left) + (IF a.ring = <<>> THEN 0 ELSE 1) = 0
    BY <1>7
  <2>. QED BY <1>1, <1>2, <2>1, <2>2
<1>4. CASE a.ring = <<>> /\ a.left # <<>>
  <2>1. a.left # <<>>
    BY <1>4
  <2>2. /\ b.ring = Last(a.left) /\ b.rings = a.rings /\ b.left = Front(a.left)
        /\ b = [ring |-> b.ring, rings |-> b.rings, left |-> b.left]
    BY <1>1, <1>4, <2>1 DEF AssembleStep
  <2>. HIDE DEF b
  <2>3. /\ b.ring \in Segments /\ b.left \in Seq(Segments) /\ Len(b.left) = Len(a.left) - 1
        /\ \A step : Times(a.left, step) = Times(b.left, step) + Often(b.ring, step)
    BY <1>1, <2>1, <2>2, TakeLast
  <2>4. \A step : Times(b.left, step) \in Nat /\ Often(b.ring, step) \in Nat /\ Often(a.ring, step) = 0
    BY <1>4, <2>3, SegmentsAreLines, TakenFacts, OftenIsFinite, OftenOfNone
  <2>5. ASSUME NEW step
        PROVE  Times(b.rings, step) + Often(b.ring, step) + Times(b.left, step) = Times(segments, step)
    <3>1. /\ Times(a.rings, step) \in Nat /\ Times(b.left, step) \in Nat /\ Often(b.ring, step) \in Nat
          /\ Times(a.rings, step) + 0 + (Times(b.left, step) + Often(b.ring, step)) = Times(segments, step)
          /\ Times(b.rings, step) = Times(a.rings, step)
      BY <1>2, <2>2, <2>3, <2>4
    <3>. QED BY <3>1
  <2>6. 2 * Len(b.left) + (IF b.ring = <<>> THEN 0 ELSE 1) <= 2 * n - (k + 1)
    <3>1. b.ring # <<>>
      BY <1>3, <2>3
    <3>. QED BY <1>1, <1>4, <2>3, <3>1
  <2>. QED BY <1>1, <2>2, <2>3, <2>5, <2>6
<1>5. CASE a.ring # <<>> /\ (Closed(a.ring) \/ Continuations(a.ring, a.left) = {})
  <2>1. /\ b.ring = <<>> /\ b.rings = Append(a.rings, a.ring) /\ b.left = a.left
        /\ b = [ring |-> b.ring, rings |-> b.rings, left |-> b.left]
    BY <1>1, <1>5 DEF AssembleStep
  <2>. HIDE DEF b
  <2>2. a.ring \in Segments
    BY <1>1, <1>5
  <2>3. b.rings = a.rings \o <<a.ring>> /\ <<a.ring>> \in Seq(Segments)
    <3>. PICK A : A = Segments
      OBVIOUS
    <3>1. a.rings \in Seq(A) /\ a.ring \in A
      BY <1>1, <2>2
    <3>. QED BY <2>1, <3>1
  <2>4. /\ b.rings \in Seq(Segments)
        /\ \A step : Times(b.rings, step) = Times(a.rings, step) + Times(<<a.ring>>, step)
    <3>. PICK t : t = <<a.ring>>
      OBVIOUS
    <3>1. t \in Seq(Segments) /\ a.rings \in Seq(Segments)
      BY <1>1, <2>3
    <3>2. /\ a.rings \o t \in Seq(Segments)
          /\ \A step : Times(a.rings \o t, step) = Times(a.rings, step) + Times(t, step)
      BY <3>1, ConcatSegments
    <3>. QED BY <2>3, <3>2
  <2>5. \A step : Times(<<a.ring>>, step) = Often(a.ring, step) /\ Often(b.ring, step) = 0
    BY <2>1, <2>2, SegmentsAreLines, TimesOne, OftenOfNone
  <2>6. ASSUME NEW step
        PROVE  Times(b.rings, step) + Often(b.ring, step) + Times(b.left, step) = Times(segments, step)
    <3>1. /\ Times(a.rings, step) \in Nat /\ Times(a.left, step) \in Nat /\ Often(a.ring, step) \in Nat
          /\ Times(a.rings, step) + Often(a.ring, step) + Times(a.left, step) = Times(segments, step)
          /\ Times(b.rings, step) = Times(a.rings, step) + Often(a.ring, step)
          /\ Often(b.ring, step) = 0 /\ Times(b.left, step) = Times(a.left, step)
      BY <1>2, <2>1, <2>4, <2>5
    <3>. QED BY <3>1
  <2>7. 2 * Len(b.left) + (IF b.ring = <<>> THEN 0 ELSE 1) <= 2 * n - (k + 1)
    <3>1. 2 * Len(a.left) + 1 <= 2 * n - k
      BY <1>1, <1>5
    <3>2. (IF b.ring = <<>> THEN 0 ELSE 1) = 0 /\ Len(b.left) = Len(a.left)
      BY <2>1
    <3>. QED BY <1>1, <3>1, <3>2
  <2>. QED BY <1>1, <2>1, <2>4, <2>6, <2>7
<1>6. CASE a.ring # <<>> /\ ~Closed(a.ring) /\ Continuations(a.ring, a.left) # {}
  <2>. DEFINE C == Continuations(a.ring, a.left)
              i == Min(C)
  <2>1. i \in C
    <3>1. C \subseteq Nat
      BY <1>1 DEF Continuations
    <3>2. \E x \in C : \A y \in C : x <= y
      BY <1>6, <3>1, LeastNatural
    <3>. QED BY <3>2 DEF Min
  <2>2. /\ i \in 1..Len(a.left)
        /\ Head(a.left[i]) = Last(a.ring) \/ Last(a.left[i]) = Last(a.ring)
    BY <1>1, <2>1 DEF Continuations
  <2>3. /\ b.ring = Extend(a.ring, a.left[i]) /\ b.rings = a.rings /\ b.left = RemoveAt(a.left, i)
        /\ b = [ring |-> b.ring, rings |-> b.rings, left |-> b.left]
    BY <1>1, <1>6 DEF AssembleStep
  <2>. HIDE DEF b, i
  <2>4. /\ b.left \in Seq(Segments) /\ Len(b.left) = Len(a.left) - 1 /\ a.left[i] \in Segments
        /\ \A step : Times(a.left, step) = Times(b.left, step) + Often(a.left[i], step)
    BY <1>1, <2>2, <2>3, TakeOut
  <2>5. a.ring \in Segments
    BY <1>1, <1>6
  <2>6. /\ b.ring \in Segments
        /\ \A step : Often(b.ring, step) = Often(a.ring, step) + Often(a.left[i], step)
    BY <2>2, <2>3, <2>4, <2>5, OftenExtended
  <2>7. \A step : Times(b.left, step) \in Nat /\ Often(a.left[i], step) \in Nat
    BY <2>4, SegmentsAreLines, TakenFacts, OftenIsFinite
  <2>8. ASSUME NEW step
        PROVE  Times(b.rings, step) + Often(b.ring, step) + Times(b.left, step) = Times(segments, step)
    <3>1. /\ Times(a.rings, step) \in Nat /\ Often(a.ring, step) \in Nat
          /\ Times(b.left, step) \in Nat /\ Often(a.left[i], step) \in Nat
          /\ Times(a.rings, step) + Often(a.ring, step) + Times(a.left, step) = Times(segments, step)
          /\ Times(a.left, step) = Times(b.left, step) + Often(a.left[i], step)
          /\ Often(b.ring, step) = Often(a.ring, step) + Often(a.left[i], step)
          /\ Times(b.rings, step) = Times(a.rings, step)
      BY <1>2, <2>3, <2>4, <2>6, <2>7
    <3>. QED BY <3>1
  <2>9. 2 * Len(b.left) + (IF b.ring = <<>> THEN 0 ELSE 1) <= 2 * n - (k + 1)
    <3>1. b.ring # <<>>
      BY <1>3, <2>6
    <3>2. 2 * Len(a.left) + 1 <= 2 * n - k
      BY <1>1, <1>6
    <3>3. (IF b.ring = <<>> THEN 0 ELSE 1) = 1 /\ Len(b.left) = Len(a.left) - 1
      BY <2>4, <3>1
    <3>. QED BY <1>1, <3>2, <3>3
  <2>. QED BY <1>1, <2>3, <2>4, <2>6, <2>8, <2>9
<1>. QED BY <1>4, <1>5, <1>6, <1>7

\* The rounds of an assembly, up to the n-th.
Assembles(f, segments, n) ==
  f = [k \in 0..n |-> IF k = 0 THEN [ring |-> <<>>, rings |-> <<>>, left |-> segments]
                      ELSE AssembleStep(f[k - 1])]

LEMMA AssemblesExists == ASSUME NEW segments PROVE \A n \in Nat : \E f : Assembles(f, segments, n)
<1>. DEFINE T == {n \in Nat : \E f : Assembles(f, segments, n)}
            base == [ring |-> <<>>, rings |-> <<>>, left |-> segments]
<1>1. 0 \in T
  <2>. DEFINE f == [k \in 0..0 |-> base]
  <2>1. f = [k \in 0..0 |-> IF k = 0 THEN base ELSE AssembleStep(f[k - 1])]
    OBVIOUS
  <2>. QED BY <2>1 DEF Assembles
<1>2. ASSUME NEW n \in Nat, n \in T PROVE n + 1 \in T
  <2>1. PICK f : Assembles(f, segments, n)
    BY <1>2
  <2>. DEFINE next == AssembleStep(f[n])
              g == [k \in 0..(n + 1) |-> IF k <= n THEN f[k] ELSE next]
  <2>2. ASSUME NEW k \in 0..(n + 1)
        PROVE  g[k] = IF k = 0 THEN base ELSE AssembleStep(g[k - 1])
    <3>1. CASE k <= n
      <4>1. k \in 0..n /\ (k # 0 => k - 1 \in 0..n /\ k - 1 <= n /\ k - 1 \in 0..(n + 1))
        BY <3>1
      <4>2. f[k] = IF k = 0 THEN base ELSE AssembleStep(f[k - 1])
        BY <2>1, <4>1 DEF Assembles
      <4>3. g[k] = f[k] /\ (k # 0 => g[k - 1] = f[k - 1])
        BY <3>1, <4>1
      <4>. QED BY <4>2, <4>3
    <3>2. CASE k = n + 1
      <4>1. g[k] = next /\ k # 0 /\ k - 1 = n /\ g[n] = f[n]
        BY <3>2
      <4>. QED BY <4>1
    <3>. QED BY <3>1, <3>2
  <2>3. Assembles(g, segments, n + 1)
    <3>. DEFINE h == [k \in 0..(n + 1) |-> IF k = 0 THEN base ELSE AssembleStep(g[k - 1])]
    <3>1. g = h
      BY <2>2
    <3>. QED BY <3>1 DEF Assembles
  <2>. QED BY <2>3
<1>3. \A n \in Nat : n \in T
  <2>. HIDE DEF T
  <2>. QED BY <1>1, <1>2, Induction
<1>. QED BY <1>3

\* No rounds left is no work left.
LEMMA NothingLeft ==
  ASSUME NEW n \in Nat, NEW x \in Nat, NEW y \in {0, 1}, 2 * x + y <= n - n
  PROVE  x = 0 /\ y = 0
OBVIOUS

\* The rings of a list of segments take every step as often as the segments.
LEMMA RingsAreTheSegments ==
  ASSUME NEW segments \in Seq(Segments)
  PROVE  /\ AssembleRings(segments) \in Seq(Segments)
         /\ \A step : Times(AssembleRings(segments), step) = Times(segments, step)
<1>. DEFINE n == 2 * Len(segments)
            base == [ring |-> <<>>, rings |-> <<>>, left |-> segments]
            f == CHOOSE f : f = [k \in 0..n |-> IF k = 0 THEN base ELSE AssembleStep(f[k - 1])]
<1>1. n \in Nat
  OBVIOUS
<1>2. f = [k \in 0..n |-> IF k = 0 THEN base ELSE AssembleStep(f[k - 1])]
  BY <1>1, AssemblesExists DEF Assembles
<1>3. AssembleRings(segments) = f[n].rings
  BY DEF AssembleRings
<1>. HIDE DEF f
<1>4. f[0] = base /\ \A k \in 0..(n - 1) : f[k + 1] = AssembleStep(f[k])
  <2>1. f[0] = base
    BY <1>1, <1>2
  <2>2. ASSUME NEW k \in 0..(n - 1) PROVE f[k + 1] = AssembleStep(f[k])
    <3>1. k + 1 \in 0..n /\ k + 1 # 0 /\ (k + 1) - 1 = k
      BY <1>1
    <3>. QED BY <1>2, <3>1
  <2>. QED BY <2>1, <2>2
<1>5. Rounds(f[0], segments, 0)
  <2>1. <<>> \in Seq(Segments)
    <3>. PICK A : A = Segments
      OBVIOUS
    <3>1. <<>> \in Seq(A)
      BY EmptySeq
    <3>. QED BY <3>1
  <2>2. base \in [ring : Segments \cup {<<>>}, rings : Seq(Segments), left : Seq(Segments)]
    BY <2>1
  <2>3. \A step : Times(<<>>, step) = 0 /\ Often(<<>>, step) = 0
    <3>1. <<>> \in Seq(Int)
      OBVIOUS
    <3>. QED BY <3>1, TimesOne, OftenOfNone
  <2>4. \A step : Times(segments, step) \in Nat
    BY SegmentsAreLines, TakenFacts
  <2>. HIDE DEF base
  <2>5. base.ring = <<>> /\ base.rings = <<>> /\ base.left = segments
    BY DEF base
  <2>6. \A step : Times(base.rings, step) + Often(base.ring, step) + Times(base.left, step) = Times(segments, step)
    BY <2>3, <2>4, <2>5
  <2>7. 2 * Len(base.left) + (IF base.ring = <<>> THEN 0 ELSE 1) <= 2 * Len(segments) - 0
    BY <2>5
  <2>. QED BY <1>4, <2>2, <2>6, <2>7 DEF Rounds
<1>. DEFINE T == {k \in Nat : k <= n => Rounds(f[k], segments, k)}
<1>6. 0 \in T
  BY <1>5
<1>7. ASSUME NEW k \in Nat, k \in T PROVE k + 1 \in T
  <2>. SUFFICES ASSUME k + 1 <= n PROVE Rounds(f[k + 1], segments, k + 1)
    OBVIOUS
  <2>1. k \in 0..(n - 1) /\ k <= n
    BY <1>1
  <2>2. Rounds(f[k], segments, k) /\ f[k + 1] = AssembleStep(f[k])
    BY <1>4, <1>7, <2>1
  <2>. QED BY <2>1, <2>2, RoundKeeps
<1>8. n \in T
  <2>. HIDE DEF T, n
  <2>. QED BY <1>1, <1>6, <1>7, Induction
<1>9. PICK a : a = f[n]
  OBVIOUS
<1>10. Rounds(a, segments, n)
  BY <1>1, <1>8, <1>9
<1>11. a.rings \in Seq(Segments) /\ a.ring = <<>> /\ a.left = <<>>
  <2>1. /\ a.rings \in Seq(Segments) /\ a.left \in Seq(Segments)
        /\ 2 * Len(a.left) + (IF a.ring = <<>> THEN 0 ELSE 1) <= n - n
    BY <1>10 DEF Rounds
  <2>2. Len(a.left) \in Nat
    BY <2>1
  <2>. HIDE DEF n
  <2>3. (IF a.ring = <<>> THEN 0 ELSE 1) \in {0, 1}
    OBVIOUS
  <2>4. Len(a.left) = 0 /\ (IF a.ring = <<>> THEN 0 ELSE 1) = 0
    BY <1>1, <2>1, <2>2, <2>3, NothingLeft
  <2>5. a.ring = <<>> /\ Len(a.left) = 0
    BY <2>4
  <2>. QED BY <2>1, <2>5
<1>12. ASSUME NEW step PROVE Times(a.rings, step) = Times(segments, step)
  <2>1. Times(a.rings, step) + Often(a.ring, step) + Times(a.left, step) = Times(segments, step)
    BY <1>10 DEF Rounds
  <2>2. Often(a.ring, step) = 0 /\ Times(a.left, step) = 0
    <3>1. <<>> \in Seq(Int)
      OBVIOUS
    <3>. QED BY <1>11, <3>1, TimesOne, OftenOfNone
  <2>3. Times(a.rings, step) \in Nat
    BY <1>11, SegmentsAreLines, TakenFacts
  <2>. QED BY <2>1, <2>2, <2>3
<1>. QED BY <1>3, <1>9, <1>11, <1>12

\* The geometry of a relation's members is a list of segments.
LEMMA MembersAreSegments ==
  ASSUME ctx \in Contexts, NEW r \in DOMAIN ctx.members
  PROVE  MemberLines(r, LAMBDA role : TRUE) \in Seq(Segments)
<1>. DEFINE list == ctx.members[r]
            I == {i \in DOMAIN list : TRUE /\ Resolves(list[i][1])}
            chosen == ItemsAt(list, I)
            lines == [i \in DOMAIN chosen |-> Line(chosen[i][1])]
<1>1. list \in Seq(Range(list))
  BY MaterializeAssumption
<1>2. /\ I \in SUBSET (DOMAIN list) /\ chosen \in Seq(Range(list)) /\ Cardinality(I) \in Nat
      /\ IsFiniteSet(I) /\ I \subseteq Int
      /\ Len(chosen) = Cardinality(I) /\ DOMAIN chosen = 1..Cardinality(I)
      /\ \A k \in 1..Cardinality(I) : chosen[k] = list[Ascending(I)[k]]
  <2>1. I \in SUBSET (DOMAIN list)
    OBVIOUS
  <2>. HIDE DEF I, list
  <2>2. /\ IsFiniteSet(I) /\ I \subseteq Int /\ Cardinality(I) \in Nat
        /\ ItemsAt(list, I) \in Seq(Range(list)) /\ Len(ItemsAt(list, I)) = Cardinality(I)
        /\ \A k \in 1..Cardinality(I) : ItemsAt(list, I)[k] = list[Ascending(I)[k]]
    <3>. PICK R : R = Range(list)
      OBVIOUS
    <3>1. list \in Seq(R)
      BY <1>1
    <3>. QED BY <2>1, <3>1, ItemsAtFacts
  <2>3. DOMAIN ItemsAt(list, I) = 1..Cardinality(I)
    BY DEF ItemsAt
  <2>. QED BY <2>1, <2>2, <2>3
<1>3. \A k \in 1..Cardinality(I) : Ascending(I)[k] \in I
  <2>. HIDE DEF I
  <2>. QED BY <1>2, AscendingFacts
<1>4. ASSUME NEW k \in 1..Cardinality(I) PROVE lines[k] \in Segments
  <2>1. Resolves(chosen[k][1]) /\ lines[k] = Line(chosen[k][1])
    BY <1>2, <1>3
  <2>. PICK w : w = chosen[k][1]
    OBVIOUS
  <2>2. w \in DOMAIN ctx.refs /\ Len(Line(w)) >= 2
    BY <2>1 DEF Resolves
  <2>3. Line(w) \in Seq(Int)
    BY <2>2, LineFacts
  <2>. QED BY <2>1, <2>2, <2>3 DEF Segments
<1>5. lines \in Seq(Segments)
  <2>1. lines = [i \in 1..Cardinality(I) |-> lines[i]]
    BY <1>2
  <2>. HIDE DEF lines
  <2>. PICK A, m : A = Segments /\ m = Cardinality(I)
    OBVIOUS
  <2>2. m \in Nat /\ \A k \in 1..m : lines[k] \in A
    BY <1>2, <1>4
  <2>3. lines = [i \in 1..m |-> lines[i]]
    BY <2>1
  <2>. HIDE DEF I
  <2>4. lines \in Seq(A)
    BY <2>2, <2>3
  <2>. QED BY <2>4
<1>6. MemberLines(r, LAMBDA role : TRUE) = lines
  BY DEF MemberLines
<1>. QED BY <1>5, <1>6

\* The rows a topic's relation geometry may have.
RowsOf(t) ==
  {RelationRow(r, RelationShape[t])[1] :
     r \in {x \in DOMAIN ctx.members : RelationRow(x, RelationShape[t]) # <<>>}}

RelationRows ==
  /\ ctx \in Contexts /\ requests \subseteq DOMAIN ctx.members
  /\ DOMAIN relGeom = DOMAIN RelationShape
  /\ \A t \in DOMAIN RelationShape : relGeom[t] \in Seq(RowsOf(t))

LEMMA RowIsAtMostOne ==
  ASSUME NEW r, NEW shape
  PROVE  RelationRow(r, shape) = <<>> \/ RelationRow(r, shape) = <<RelationRow(r, shape)[1]>>
<1>1. \E row : RelationRow(r, shape) = <<>> \/ RelationRow(r, shape) = <<row>>
  BY DEF RelationRow
<1>. QED BY <1>1

LEMMA RowIsRowOf ==
  ASSUME NEW t, NEW r \in DOMAIN ctx.members
  PROVE  RelationRow(r, RelationShape[t]) \in Seq(RowsOf(t))
<1>. DEFINE rows == RelationRow(r, RelationShape[t])
<1>. PICK A : A = RowsOf(t)
  OBVIOUS
<1>1. rows = <<>> \/ rows = <<rows[1]>>
  BY RowIsAtMostOne
<1>2. rows # <<>> => rows[1] \in A
  BY DEF RowsOf
<1>. HIDE DEF rows
<1>3. rows \in Seq(A)
  <2>1. CASE rows = <<>>
    BY <2>1, EmptySeq
  <2>2. CASE rows # <<>>
    <3>. PICK x : x = rows[1]
      OBVIOUS
    <3>1. x \in A /\ rows = <<x>>
      BY <1>1, <1>2, <2>2
    <3>. QED BY <3>1
  <2>. QED BY <2>1, <2>2
<1>. QED BY <1>3 DEF rows

\* The rows read the context only.
LEMMA SameRows ==
  ASSUME ctx' = ctx
  PROVE  \A t : RowsOf(t)' = RowsOf(t)
<1>1. \A w : Line(w)' = Line(w) /\ Resolves(w)' = Resolves(w)
  BY SameContext
<1>2. \A r : MemberLines(r, LAMBDA role : TRUE)' = MemberLines(r, LAMBDA role : TRUE)
  BY <1>1 DEF MemberLines
<1>3. \A r : MemberLines(r, LAMBDA role : role # "inner")' = MemberLines(r, LAMBDA role : role # "inner")
  BY <1>1 DEF MemberLines
<1>4. \A r : MemberLines(r, LAMBDA role : role = "inner")' = MemberLines(r, LAMBDA role : role = "inner")
  BY <1>1 DEF MemberLines
<1>5. \A r, shape : RelationRow(r, shape)' = RelationRow(r, shape)
  BY <1>2, <1>3, <1>4 DEF RelationRow
<1>. QED BY <1>5 DEF RowsOf

LEMMA RowsStart == MaterializeInit => RelationRows
<1>. SUFFICES ASSUME MaterializeInit PROVE RelationRows
  OBVIOUS
<1>1. \A t \in DOMAIN RelationShape : relGeom[t] = <<>> /\ <<>> \in Seq(RowsOf(t))
  BY EmptySeq DEF MaterializeInit
<1>. QED BY <1>1 DEF MaterializeInit, RelationRows

LEMMA RowsStay == RelationRows /\ [MaterializeNext]_materializeVars => RelationRows'
<1>. SUFFICES ASSUME RelationRows, [MaterializeNext]_materializeVars PROVE RelationRows'
  OBVIOUS
<1>1. ASSUME UNCHANGED <<ctx, requests, relGeom>> PROVE RelationRows'
  BY <1>1, SameRows DEF RelationRows
<1>2. ASSUME NEW r \in DOMAIN ctx.members, BuildRelation(r) PROVE RelationRows'
  <2>1. ctx' = ctx /\ requests' \subseteq requests
    BY <1>2 DEF BuildRelation
  <2>2. DOMAIN relGeom' = DOMAIN RelationShape
    BY <1>2 DEF BuildRelation
  <2>3. ASSUME NEW t \in DOMAIN RelationShape PROVE relGeom'[t] \in Seq(RowsOf(t))
    <3>. PICK A : A = RowsOf(t)
      OBVIOUS
    <3>1. relGeom[t] \in Seq(A) /\ RelationRow(r, RelationShape[t]) \in Seq(A)
      BY RowIsRowOf DEF RelationRows
    <3>2. relGeom[t] \o RelationRow(r, RelationShape[t]) \in Seq(A)
      BY <3>1, ConcatProperties
    <3>3. relGeom'[t] = IF t \in ctx.topics[r] THEN relGeom[t] \o RelationRow(r, RelationShape[t]) ELSE relGeom[t]
      BY <1>2 DEF BuildRelation
    <3>. QED BY <3>1, <3>2, <3>3
  <2>. QED BY <2>1, <2>2, <2>3, SameRows DEF RelationRows
<1>3. CASE AssignIds
  BY <1>1, <1>3 DEF AssignIds
<1>4. CASE EndOfKeptWays
  BY <1>1, <1>4 DEF EndOfKeptWays
<1>5. CASE Finish
  BY <1>1, <1>5 DEF Finish
<1>6. CASE UNCHANGED materializeVars
  BY <1>1, <1>6 DEF materializeVars
<1>7. ASSUME NEW w \in DOMAIN ctx.refs, RouteWay(w) PROVE RelationRows'
  BY <1>1, <1>7 DEF RouteWay
<1>8. CASE Stopped
  BY <1>6, <1>8 DEF Stopped
<1>. QED BY <1>2, <1>3, <1>4, <1>5, <1>6, <1>7, <1>8 DEF MaterializeNext

\* A row of a line is the assembly of the members.
LEMMA RowsAreMembers == RelationRows => RelationLinesAreMembers
<1>. SUFFICES ASSUME RelationRows, NEW t \in DOMAIN relGeom, NEW k \in DOMAIN relGeom[t],
                     relGeom[t][k].shape = "line"
              PROVE  \A step : Cardinality(Taken(relGeom[t][k].lines, step))
                               = Cardinality(Taken(MemberLines(relGeom[t][k].of, LAMBDA role : TRUE), step))
  BY DEF RelationLinesAreMembers
<1>1. t \in DOMAIN RelationShape /\ relGeom[t] \in Seq(RowsOf(t)) /\ ctx \in Contexts
  BY DEF RelationRows
<1>2. relGeom[t][k] \in RowsOf(t)
  BY <1>1
<1>. PICK row : row = relGeom[t][k]
  OBVIOUS
<1>3. PICK r \in DOMAIN ctx.members :
        RelationRow(r, RelationShape[t]) # <<>> /\ row = RelationRow(r, RelationShape[t])[1]
  BY <1>2 DEF RowsOf
<1>. PICK lines : lines = MemberLines(r, LAMBDA role : TRUE)
  OBVIOUS
<1>4. row.of = r /\ row.lines = AssembleRings(lines)
  <2>. PICK shape : shape = RelationShape[t]
    OBVIOUS
  <2>1. shape \in {"line", "point", "polygon"} /\ row.shape = "line"
    BY <1>1, MaterializeAssumption
  <2>2. shape = "line"
    BY <1>3, <2>1 DEF RelationRow
  <2>. QED BY <1>3, <2>2 DEF RelationRow
<1>5. lines \in Seq(Segments)
  BY <1>1, MembersAreSegments
<1>6. \A step : Times(AssembleRings(lines), step) = Times(lines, step)
  BY <1>5, RingsAreTheSegments
<1>. QED BY <1>4, <1>6 DEF Times

\* A relation's line takes every step of its members' geometries, as often as they do, and no
\* other: the greedy assembly loses no member, uses none twice and adds no chord.
THEOREM RelationLinesKeepTheirMembers == MaterializeSpec => []RelationLinesAreMembers
<1>1. MaterializeSpec => []RelationRows
  BY RowsStart, RowsStay, PTL DEF MaterializeSpec
<1>. QED BY <1>1, RowsAreMembers, PTL

=============================================================================

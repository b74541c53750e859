--------------------------- MODULE OrderedExport ---------------------------
(***************************************************************************)
(* The geojson, geojsonseq and parquet backends of one topic table: tag    *)
(* rows staged through Shard with one writer (sinks.rs, main.rs `ordered`), *)
(* then joined with the staged geometry by src/src/output/geojson.rs       *)
(* `for_each_feature` over the forward cursors of src/src/output/cursor.rs. *)
(*                                                                         *)
(* Elements are ways, numbered in kept order, the order both phases of the *)
(* engine route them in; the rows of another kind, and its cursor, are the *)
(* case of an empty `edges`.  The one producer is the sequential fold of   *)
(* an ordered run; its i-th call carries one row per entry of Calls[i]: a  *)
(* whole chunk of blobs (reader/sorted.rs:291-306), so a call may well be  *)
(* as large as a batch.  An element a side-split topic emitted twice has   *)
(* two rows in a row.  A row's geometry is asked of the topic's own table  *)
(* (OrderedGeomCursor, at most one record per element) and then, if that   *)
(* gave none, of the shared edges.bin (EdgeCursor, any number of segments  *)
(* per way).  A file that does not exist reads like an empty one.          *)
(***************************************************************************)
EXTENDS Shard, SequencesExt, Positions

CONSTANTS
  Calls,     \* Calls[i][j]: element of the j-th row of the fold's i-th call
  Foreign,   \* ways of other topics that share edges.bin
  Fold       \* the producer

\* An ordered run folds sequentially into one writer, and visits elements in kept order.
ASSUME OrderedAssumption ==
  /\ Producers = {Fold} /\ W = 1
  /\ Calls \in Seq(Seq(Int)) /\ Foreign \in SUBSET Int /\ IsFiniteSet(Foreign)
  /\ Sizes = [p \in Producers |-> [i \in DOMAIN Calls |-> Len(Calls[i])]]
  /\ \A i, m \in DOMAIN Calls : \A j \in DOMAIN Calls[i], n \in DOMAIN Calls[m] :
       i < m \/ (i = m /\ j <= n) => Calls[i][j] <= Calls[m][n]

VARIABLES
  table,     \* the records of {table}_way_geom.bin, in file order
  edges,     \* the records of edges.bin, in file order
  pos,       \* records of `table` the cursor has read
  pending,   \* OrderedGeomCursor::pending, as a sequence of at most one record
  last,      \* OrderedGeomCursor::last
  edgePos,   \* EdgeCursor::pos
  edgeLast,  \* EdgeCursor::last
  features   \* what the join emitted for each tag row, in row order

join == <<table, edges, pos, pending, last, edgePos, edgeLast, features>>
all  == <<vars, join>>

-----------------------------------------------------------------------------
Own      == UNION {Range(Calls[i]) : i \in DOMAIN Calls}
Elements == Own \cup Foreign

ElementOf(row) == Calls[row[2]][row[3]]

TagRows == written[0]

\* A geometry record: its element, its segment index, and whether its shape is empty
\* (a way none of whose nodes could be resolved).
Record(e, seg, empty) == [of |-> e, seg |-> seg, empty |-> empty]

\* What materialize may have written for one element.
TableRecords(e) == {<<>>, <<Record(e, 0, TRUE)>>, <<Record(e, 0, FALSE)>>}
EdgeRecords(e) ==
  {<<>>, <<Record(e, 0, FALSE)>>, <<Record(e, 0, FALSE), Record(e, 1, FALSE)>>}

\* A file in kept order, given each element's records.
InKeptOrder(records) ==
  LET order == Ascending(DOMAIN records)
  IN  FlattenSeq([i \in DOMAIN order |-> records[order[i]]])

\* By random access: the records of an element that have a shape.
ShapesOf(file, e) == ItemsAt(file, {k \in DOMAIN file : ~file[k].empty /\ file[k].of = e})

TableOf(e) == ShapesOf(table, e)
EdgesOf(e) == ShapesOf(edges, e)

\* The reference: the element's own geometry, its segments if it has none.
Lookup(e) == IF TableOf(e) # <<>> THEN TableOf(e) ELSE EdgesOf(e)

-----------------------------------------------------------------------------
JoinInit ==
  /\ table \in {InKeptOrder(f) : f \in {g \in [Own -> UNION {TableRecords(e) : e \in Own}] :
                                          \A e \in Own : g[e] \in TableRecords(e)}}
  /\ edges \in {InKeptOrder(f) : f \in {g \in [Elements -> UNION {EdgeRecords(e) : e \in Elements}] :
                                          \A e \in Elements : g[e] \in EdgeRecords(e)}}
  /\ pos = 0 /\ pending = <<>> /\ last = <<>>
  /\ edgePos = 0 /\ edgeLast = <<>>
  /\ features = <<>>

\* Seeded fault: a record that does not match the row is dropped, not held back.
ReadOneWithoutPending ==
  LET ahead == {k \in (pos + 1)..Len(table) : ~table[k].empty}
  IN  IF ahead = {} THEN [record |-> <<>>, upto |-> Len(table)]
      ELSE [record |-> <<table[Min(ahead)]>>, upto |-> Min(ahead)]

\* `read_one`, called when nothing is pending: the next record with a shape, if any.
ReadOne ==
  LET ahead == {k \in (pos + 1)..Len(table) : ~table[k].empty}
  IN  IF pending # <<>> THEN [record |-> pending, upto |-> pos]
      ELSE IF ahead = {} THEN [record |-> <<>>, upto |-> Len(table)]
      ELSE [record |-> <<table[Min(ahead)]>>, upto |-> Min(ahead)]

\* `OrderedGeomCursor::get`: the answer, and the cursor after it.
Get(e) ==
  LET read == ReadOne
      hit  == read.record # <<>> /\ read.record[1].of = e
  IN  IF last # <<>> /\ last[1].of = e
      THEN [answer |-> last, pos |-> pos, pending |-> pending, last |-> last]
      ELSE [answer  |-> IF hit THEN read.record ELSE <<>>,
            pos     |-> read.upto,
            pending |-> IF hit THEN <<>> ELSE read.record,
            last    |-> IF hit THEN read.record ELSE last]

\* The place after the run of e's segments at the cursor.
RunEnd(e) ==
  CHOOSE k \in edgePos..Len(edges) :
    /\ \A m \in (edgePos + 1)..k : edges[m].of = e
    /\ k = Len(edges) \/ edges[k + 1].of # e

\* `EdgeCursor::get_all`: the run of e's segments at the cursor; nothing moves when the
\* cursor is at another way's.
GetAll(e) ==
  LET run == SubSeq(edges, edgePos + 1, RunEnd(e))
  IN  IF edgeLast # <<>> /\ edgeLast[1].of = e
      THEN [answer |-> edgeLast, pos |-> edgePos, last |-> edgeLast]
      ELSE [answer |-> run, pos |-> RunEnd(e), last |-> IF run = <<>> THEN edgeLast ELSE run]

\* One round of `for_each_feature`, after both tables have finished: the topic's own
\* geometry, and only where it gave none the segments.
JoinRow ==
  /\ stage = "ok" /\ Len(features) < Len(TagRows)
  /\ LET row      == TagRows[Len(features) + 1]
         own      == Get(ElementOf(row))
         segments == GetAll(ElementOf(row))
         fallback == own.answer = <<>>
     IN  /\ pos' = own.pos /\ pending' = own.pending /\ last' = own.last
         /\ edgePos' = IF fallback THEN segments.pos ELSE edgePos
         /\ edgeLast' = IF fallback THEN segments.last ELSE edgeLast
         /\ features' = Append(features, <<row, IF fallback THEN segments.answer ELSE own.answer>>)
  /\ UNCHANGED <<vars, table, edges>>

-----------------------------------------------------------------------------
OrderedInit == Init /\ JoinInit

OrderedNext == (Next /\ UNCHANGED join) \/ JoinRow

OrderedSpec == OrderedInit /\ [][OrderedNext]_all

-----------------------------------------------------------------------------
(***************************************************************************)
(* Properties                                                              *)
(***************************************************************************)

Before(r, s) == r[2] < s[2] \/ (r[2] = s[2] /\ r[3] < s[3])

Direct(row) == Len(Calls[row[2]]) >= SendBatch

\* Whatever the fold's calls are, the only row that may be staged ahead of one routed
\* before it is a row of a batch-sized call, sent past the buffer (sinks.rs:93), and the
\* only row it may overtake is one of a smaller call, still in that buffer.
OnlyOvertaken ==
  \A i, j \in DOMAIN TagRows : i < j =>
    \/ Before(TagRows[i], TagRows[j])
    \/ Direct(TagRows[i]) /\ ~Direct(TagRows[j])

\* The rows staged before the i-th, and before any of those, are the ones routed before.
InStep(i) ==
  \A m \in 1..i : \A r \in Rows :
    Before(r, TagRows[m]) <=> \E j \in 1..(m - 1) : TagRows[j] = r

\* The segments of an earlier way that no row of the table asks for: the cursor waits
\* there for the rest of the run.
Blocked(e) ==
  \E k \in DOMAIN edges :
    edges[k].of < e /\ (edges[k].of \notin Own \/ TableOf(edges[k].of) # <<>>)

\* Whatever the order of the tag rows and whatever the two files hold, a row is given its
\* element's own record, all of its element's segments in order, or nothing: never another
\* element's geometry or a part of its own.  As long as the rows come in the order they were
\* routed in, a row gets the record if there is one, and else the segments, unless a way
\* nobody asks for comes before them in the file (cursor.rs `get`, `get_all`).
JoinIsExact ==
  \A i \in DOMAIN features :
    LET e == ElementOf(features[i][1])
    IN  /\ features[i][2] \in {<<>>, TableOf(e), EdgesOf(e)}
        /\ InStep(i) => features[i][2] = IF TableOf(e) = <<>> /\ Blocked(e) THEN <<>> ELSE Lookup(e)

\* What the export's documentation says of the staged table: its rows are in the order the
\* fold routed them (geojson.rs:11-16).
RoutedOrder == \A i, j \in DOMAIN TagRows : i < j => Before(TagRows[i], TagRows[j])

\* What it says of the join: the forward cursors give every tag row exactly the geometry a
\* random-access lookup of its element would (geojson.rs:11-22).
JoinIsLookup == \A i \in DOMAIN features : features[i][2] = Lookup(ElementOf(features[i][1]))

=============================================================================

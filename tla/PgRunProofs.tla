---------------------------- MODULE PgRunProofs ----------------------------
(***************************************************************************)
(* Theorems about PgRun for every set of tables, every assignment of rows  *)
(* to them, every number of writers per table, every channel capacity and  *)
(* every number of runs.                                                   *)
(***************************************************************************)
EXTENDS PgRun, FiniteSetTheorems, SequenceTheorems, TLAPS

-----------------------------------------------------------------------------
(* The layout of the tables.                                               *)

\* A concatenation lists the members of both sequences.
LEMMA SetOfConcat ==
  ASSUME NEW S, NEW a \in Seq(S), NEW b \in Seq(S)
  PROVE  SetOf(a \o b) = SetOf(a) \cup SetOf(b)
<1>1. /\ DOMAIN a = 1..Len(a) /\ DOMAIN b = 1..Len(b)
      /\ DOMAIN (a \o b) = 1..(Len(a) + Len(b))
      /\ Len(a) \in Nat /\ Len(b) \in Nat
      /\ \A i \in 1..(Len(a) + Len(b)) :
           (a \o b)[i] = IF i <= Len(a) THEN a[i] ELSE b[i - Len(a)]
  BY ConcatProperties, LenProperties
<1>2. ASSUME NEW x \in SetOf(a \o b) PROVE x \in SetOf(a) \cup SetOf(b)
  <2>1. PICK i \in 1..(Len(a) + Len(b)) : x = (a \o b)[i]
    BY <1>1 DEF SetOf
  <2>. QED BY <1>1, <2>1 DEF SetOf
<1>3. SetOf(a) \subseteq SetOf(a \o b)
  <2>1. \A i \in 1..Len(a) : i \in 1..(Len(a) + Len(b)) /\ (a \o b)[i] = a[i]
    BY <1>1
  <2>. QED BY <1>1, <2>1 DEF SetOf
<1>4. SetOf(b) \subseteq SetOf(a \o b)
  <2>1. \A i \in 1..Len(b) : i + Len(a) \in 1..(Len(a) + Len(b)) /\ (a \o b)[i + Len(a)] = b[i]
    BY <1>1
  <2>. QED BY <1>1, <2>1 DEF SetOf
<1>. QED BY <1>2, <1>3, <1>4

\* The names of the shared tables form sequences of their own.
LEMMA TableLists ==
  /\ Tags \in Seq(TableName) /\ NodeGeom \in Seq(TableName)
  /\ WayGeom \in Seq(TableName) /\ RelGeom \in Seq(TableName)
  /\ <<Members>> \in Seq(TableName) /\ Len(<<Members>>) = 1
  /\ GraphTables \in Seq(TableName)
<1>1. Members \in TableName /\ Edges \in TableName /\ Nodes \in TableName
  BY PgRunAssumption
<1>2. <<Members>> \in Seq(TableName) /\ Len(<<Members>>) = 1
  BY <1>1
<1>3. GraphTables \in Seq(TableName)
  BY <1>1 DEF GraphTables
<1>. QED BY <1>2, <1>3, PgRunAssumption

\* What joining two lists of tables gives.
LEMMA JoinedLists ==
  ASSUME NEW a \in Seq(TableName), NEW b \in Seq(TableName), NEW c, c = a \o b
  PROVE  /\ c \in Seq(TableName)
         /\ Len(c) = Len(a) + Len(b)
         /\ Len(a) \in Nat /\ Len(b) \in Nat
         /\ SetOf(c) = SetOf(a) \cup SetOf(b)
         /\ \A i \in 1..Len(a) : c[i] = a[i]
<1>1. SetOf(a \o b) = SetOf(a) \cup SetOf(b)
  BY SetOfConcat
<1>2. /\ a \o b \in Seq(TableName)
      /\ Len(a \o b) = Len(a) + Len(b)
      /\ \A i \in 1..(Len(a) + Len(b)) :
           (a \o b)[i] = IF i <= Len(a) THEN a[i] ELSE b[i - Len(a)]
  BY ConcatProperties
<1>3. Len(a) \in Nat /\ Len(b) \in Nat
  OBVIOUS
<1>4. \A i \in 1..Len(a) : i \in 1..(Len(a) + Len(b)) /\ i <= Len(a)
  BY <1>3
<1>. QED BY <1>1, <1>2, <1>3, <1>4

\* The streamed tables come first, the selection's before the geometry's, and the schema
\* steps visit exactly the tables of the run.
LEMMA Layout ==
  /\ SelectTables \in Seq(TableName) /\ Sharded \in Seq(TableName) /\ Tables \in Seq(TableName)
  /\ SchemaOrder \in Seq(TableName)
  /\ Len(SelectTables) \in Nat \ {0}
  /\ Len(Sharded) \in Nat /\ Len(Tables) \in Nat
  /\ Len(SelectTables) <= Len(Sharded) /\ Len(Sharded) <= Len(Tables)
  /\ Len(Sharded) = Len(Tags) + ExtraTables
  /\ \A i \in 1..Len(Sharded) : Tables[i] = Sharded[i]
  /\ SetOf(SchemaOrder) = SetOf(Tables)
  /\ SetOf(Tags) \cup SetOf(GraphTables) \subseteq SetOf(Tables)
<1> DEFINE a1 == Tags \o <<Members>>
           a2 == SelectTables \o GraphTables
           b1 == Tags \o GraphTables
           b2 == b1 \o <<Members>>
           b3 == b2 \o NodeGeom
           b4 == b3 \o WayGeom
           m == <<Members>>
<1>1. SelectTables = a1 \o NodeGeom /\ Sharded = a2 \o WayGeom
      /\ Tables = Sharded \o RelGeom /\ SchemaOrder = b4 \o RelGeom
  BY DEF SelectTables, Sharded, Tables, SchemaOrder
<1>2. /\ a1 = Tags \o m /\ a2 = SelectTables \o GraphTables
      /\ b1 = Tags \o GraphTables /\ b2 = b1 \o m
      /\ b3 = b2 \o NodeGeom /\ b4 = b3 \o WayGeom
  OBVIOUS
<1>m. m \in Seq(TableName) /\ Len(m) = 1
  BY TableLists
<1>s. Tags \in Seq(TableName)
  BY TableLists
<1>n. NodeGeom \in Seq(TableName)
  BY TableLists
<1>w. WayGeom \in Seq(TableName)
  BY TableLists
<1>r. RelGeom \in Seq(TableName)
  BY TableLists
<1>g. GraphTables \in Seq(TableName)
  BY TableLists
<1> HIDE DEF a1, a2, b1, b2, b3, b4, m
<1>3. /\ a1 \in Seq(TableName) /\ Len(a1) = Len(Tags) + Len(m)
      /\ SetOf(a1) = SetOf(Tags) \cup SetOf(m)
      /\ Len(Tags) \in Nat
  BY <1>2, <1>s, <1>m, JoinedLists
<1>4. /\ SelectTables \in Seq(TableName) /\ Len(SelectTables) = Len(a1) + Len(NodeGeom)
      /\ SetOf(SelectTables) = SetOf(a1) \cup SetOf(NodeGeom)
      /\ Len(NodeGeom) \in Nat
  BY <1>1, <1>3, <1>n, JoinedLists
<1>5. /\ a2 \in Seq(TableName) /\ Len(a2) = Len(SelectTables) + Len(GraphTables)
      /\ SetOf(a2) = SetOf(SelectTables) \cup SetOf(GraphTables)
      /\ Len(GraphTables) \in Nat
  BY <1>2, <1>4, <1>g, JoinedLists
<1>6. /\ Sharded \in Seq(TableName) /\ Len(Sharded) = Len(a2) + Len(WayGeom)
      /\ SetOf(Sharded) = SetOf(a2) \cup SetOf(WayGeom)
      /\ Len(WayGeom) \in Nat
  BY <1>1, <1>5, <1>w, JoinedLists
<1>7. /\ Tables \in Seq(TableName) /\ Len(Tables) = Len(Sharded) + Len(RelGeom)
      /\ SetOf(Tables) = SetOf(Sharded) \cup SetOf(RelGeom)
      /\ Len(RelGeom) \in Nat
      /\ \A i \in 1..Len(Sharded) : Tables[i] = Sharded[i]
  <2>1. Tables = Sharded \o RelGeom /\ Sharded \in Seq(TableName)
    BY <1>1, <1>6
  <2>. QED BY <2>1, <1>r, JoinedLists
<1>8. b1 \in Seq(TableName) /\ SetOf(b1) = SetOf(Tags) \cup SetOf(GraphTables)
  BY <1>2, <1>s, <1>g, JoinedLists
<1>9. b2 \in Seq(TableName) /\ SetOf(b2) = SetOf(b1) \cup SetOf(m)
  BY <1>2, <1>8, <1>m, JoinedLists
<1>10. b3 \in Seq(TableName) /\ SetOf(b3) = SetOf(b2) \cup SetOf(NodeGeom)
  <2>1. b3 = b2 \o NodeGeom /\ b2 \in Seq(TableName)
    BY <1>2, <1>9
  <2>. QED BY <2>1, <1>n, JoinedLists
<1>11. b4 \in Seq(TableName) /\ SetOf(b4) = SetOf(b3) \cup SetOf(WayGeom)
  BY <1>2, <1>10, <1>w, JoinedLists
<1>12. SchemaOrder \in Seq(TableName) /\ SetOf(SchemaOrder) = SetOf(b4) \cup SetOf(RelGeom)
  BY <1>1, <1>11, <1>r, JoinedLists
<1>13. SetOf(SchemaOrder) = SetOf(Tables)
  BY <1>3, <1>4, <1>5, <1>6, <1>7, <1>8, <1>9, <1>10, <1>11, <1>12
<1>14. Len(Sharded) = Len(Tags) + ExtraTables
  BY <1>3, <1>4, <1>5, <1>6, <1>m DEF ExtraTables
<1>15. Len(SelectTables) \in Nat \ {0} /\ Len(Sharded) \in Nat /\ Len(Tables) \in Nat
  BY <1>3, <1>4, <1>5, <1>6, <1>7, <1>m
<1>16. Len(SelectTables) <= Len(Sharded) /\ Len(Sharded) <= Len(Tables)
  BY <1>4, <1>5, <1>6, <1>7, <1>15
<1>17. SetOf(Tags) \cup SetOf(GraphTables) \subseteq SetOf(Tables)
  BY <1>3, <1>4, <1>5, <1>6, <1>7
<1>. QED BY <1>4, <1>6, <1>7, <1>12, <1>13, <1>14, <1>15, <1>16, <1>17

\* The streamed tables are among the tables, each at one place of the list.
LEMMA Places ==
  /\ SetOf(Sharded) \subseteq SetOf(Tables)
  /\ \A t \in SetOf(Sharded) : \E i \in 1..Len(Sharded) : Sharded[i] = t
  /\ \A i \in 1..Len(Sharded) : Sharded[i] \in SetOf(Sharded)
  /\ \A t \in SetOf(Tables) : \E i \in 1..Len(Tables) : Tables[i] = t
  /\ \A i \in 1..Len(Tables) : Tables[i] \in SetOf(Tables)
  /\ \A i, j \in 1..Len(Tables) : Tables[i] = Tables[j] => i = j
<1>1. DOMAIN Sharded = 1..Len(Sharded) /\ DOMAIN Tables = 1..Len(Tables)
  BY Layout, LenProperties
<1>2. \A i \in 1..Len(Sharded) : i \in 1..Len(Tables) /\ Tables[i] = Sharded[i]
  BY Layout
<1>. QED BY <1>1, <1>2, PgRunAssumption DEF SetOf

\* A topic that wants the graph has a tag table, and then the edge table exists.
LEMMA GraphTablesExist ==
  ASSUME NEW g \in SetOf(GraphTopics)
  PROVE  g \in SetOf(Tables) /\ Edges \in SetOf(Tables)
<1>1. g \in SetOf(Tags) /\ GraphTopics # <<>>
  BY PgRunAssumption DEF SetOf
<1>2. GraphTables = <<Edges, Nodes>>
  BY <1>1 DEF GraphTables, AnyWayGraph
<1>3. Edges \in SetOf(GraphTables)
  BY <1>2 DEF SetOf
<1>. QED BY <1>1, <1>3, Layout

-----------------------------------------------------------------------------
(* The connection pool.                                                    *)

\* There are at most as many writers as tables times writers per table.
LEMMA WritersAreFew ==
  /\ IsFiniteSet(Slots)
  /\ Cardinality(Slots) \in Nat
  /\ Cardinality(Slots) <= Len(Sharded) * K
<1> DEFINE n == Len(Sharded)
           g == [i \in 1..n |-> Sharded[i]]
<1>1. n \in Nat /\ K \in Nat \ {0}
  BY Layout, PgRunAssumption
<1>2. IsFiniteSet(1..n) /\ Cardinality(1..n) = n
  <2>. DEFINE m == n
  <2>1. m \in Nat /\ m = n
    BY <1>1
  <2>. HIDE DEF m
  <2>2. IsFiniteSet(1..m) /\ Cardinality(1..m) = m
    <3>1. 1 \in Int /\ m \in Int /\ (IF 1 > m THEN 0 ELSE m - 1 + 1) = m
      BY ONLY <2>1
    <3>. QED BY ONLY <3>1, FS_Interval
  <2>. QED BY ONLY <2>1, <2>2
<1>3. g \in Surjection(1..n, SetOf(Sharded))
  BY Places DEF Surjection
<1>4. /\ IsFiniteSet(SetOf(Sharded))
      /\ Cardinality(SetOf(Sharded)) <= n
  BY <1>2, <1>3, FS_Surjection
<1>5. IsFiniteSet(1..K) /\ Cardinality(1..K) = K
  BY <1>1, FS_Interval
<1>6. /\ IsFiniteSet(Slots)
      /\ Cardinality(Slots) = Cardinality(SetOf(Sharded)) * K
  BY <1>4, <1>5, FS_Product DEF Slots
<1>7. Cardinality(SetOf(Sharded)) \in Nat
  BY <1>4, FS_CardinalityType
<1>8. \A a, b, c \in Nat : a <= b => a * c <= b * c /\ a * c \in Nat
  OBVIOUS
<1>. QED BY <1>1, <1>4, <1>6, <1>7, <1>8

\* Whatever the number of tables and of writers per table, the pool has a connection for
\* every writer that waits for one: no run can hang on the writers of its own tables.
THEOREM PoolSuffices == Spec => []ConnectionForEveryWriter
<1>1. ConnectionForEveryWriter
  <2> SUFFICES ASSUME NEW x \in Slots, writer[x] = "wait"
               PROVE  Free > 0
    BY DEF ConnectionForEveryWriter
  <2>1. Holding \subseteq Slots
    BY DEF Holding
  <2>2. /\ Cardinality(Holding) <= Cardinality(Slots)
        /\ IsFiniteSet(Holding)
    BY <2>1, WritersAreFew, FS_Subset
  <2>3. Cardinality(Holding) \in Nat
    BY <2>2, FS_CardinalityType
  <2>4. PoolSize = Len(Sharded) * K + 2
    BY Layout DEF PoolSize
  <2>5. Len(Sharded) * K \in Nat
    BY Layout, PgRunAssumption
  <2>. QED BY <2>2, <2>3, <2>4, <2>5, WritersAreFew DEF Free
<1>. QED BY <1>1, PTL

-----------------------------------------------------------------------------
(* The inductive invariant.                                                *)

\* What was sent to the writers of a table, and what of it is committed.
SentTo(t) == UNION {got[x] : x \in SlotsOf(t)}
DoneOf(t) == UNION {got[x] : x \in {y \in SlotsOf(t) : writer[y] = "done"}}

\* Where the loops of the main task are.
PosInv ==
  /\ phase = "drop" => pos \in 1..(Len(SchemaOrder) + 1)
  /\ phase = "select" => pos = 1
  /\ phase = "finish_select" => pos \in 1..Len(SelectTables)
  /\ phase = "materialize" => pos = Len(SelectTables) + 1
  /\ phase = "finish_materialize" => pos \in (Len(SelectTables) + 1)..Len(Sharded)
  /\ phase = "relations" => pos \in (Len(Sharded) + 1)..(Len(Tables) + 1)
  /\ phase = "finalize" => pos = 1
  /\ phase = "edges" => pos \in 1..(Len(GraphTopics) + 1)

\* Outside the streaming phases no writer exists yet, or none any more.
QuietInv == phase \in {"setup", "drop", "ok", "failed"} => got = [x \in Slots |-> {}]

\* A phase is left only when all of its batches are routed.
RoutedInv ==
  /\ phase \in {"finish_select", "materialize", "finish_materialize"} =>
       Routed(1, Len(SelectTables))
  /\ phase = "finish_materialize" => Routed(Len(SelectTables) + 1, Len(Sharded))

\* Every batch routed to a table none of whose writers has failed is with one of its
\* writers; a writer commits only when nothing more is routed to its table; and the tables
\* behind the main task are complete.
WriterInv ==
  Streaming =>
    /\ \A t \in SetOf(Sharded) : pending[t] \subseteq Ids[t]
    /\ \A t \in SetOf(Sharded) :
         (\A x \in SlotsOf(t) : writer[x] # "failed") => SentTo(t) = Ids[t] \ pending[t]
    /\ \A x \in Slots : writer[x] = "done" => pending[x[1]] = {}
    /\ \A i \in 1..Len(Sharded) : i < pos =>
         \A x \in SlotsOf(Sharded[i]) : writer[x] = "done"

\* What the tables hold at each phase: this run's committed batches and nothing else.
RowsInv ==
  /\ phase = "drop" => \A t \in SetOf(Tables) : rows[t] = {}
  /\ Streaming => \A t \in SetOf(Sharded) : rows[t] = {run} \X DoneOf(t)
  /\ Streaming => \A t \in SetOf(Tables) \ SetOf(Sharded) : rows[t] = {}
  /\ phase = "relations" =>
       \A i \in 1..Len(Tables) :
         rows[Tables[i]] = IF i < pos THEN {run} \X Ids[Tables[i]] ELSE {}
  /\ phase \in {"finalize", "edges", "ok"} =>
       \A t \in SetOf(Tables) : rows[t] = {run} \X Ids[t]

IndexInv ==
  /\ phase = "drop" => \A j \in 1..Len(SchemaOrder) : j < pos => SchemaOrder[j] \notin index
  /\ Streaming \/ phase = "relations" => index = {}
  /\ phase = "finalize" /\ ~indexing => index = {}
  /\ phase \in {"edges", "ok"} => index = IF indexing THEN SetOf(Tables) ELSE {}

CurrentEdges(t) == {<<<<run, i>>, <<run, i>>>> : i \in Ids[Edges] \cap Costed[t]}

EdgeInv ==
  /\ phase = "edges" =>
       \A j \in 1..Len(GraphTopics) : j < pos =>
         edgeRows[GraphTopics[j]] = CurrentEdges(GraphTopics[j])
  /\ phase = "ok" => \A t \in SetOf(GraphTopics) : edgeRows[t] = CurrentEdges(t)

IInv == TypeOK /\ PosInv /\ QuietInv /\ RoutedInv /\ WriterInv /\ RowsInv /\ IndexInv /\ EdgeInv

-----------------------------------------------------------------------------
(* Type correctness and the positions of the main task.                    *)

\* Rows committed by any set of writers are rows.
LEMMA CommittedType ==
  ASSUME TypeOK, NEW d \in SUBSET Slots
  PROVE  Committed(d) \in [SetOf(Tables) -> SUBSET (Nat \X Nat)]
<1>1. run \in Nat
  BY PgRunAssumption DEF TypeOK
<1>2. ASSUME NEW t \in SetOf(Tables)
      PROVE  rows[t] \cup {<<run, i>> : i \in UNION {got[x] : x \in {y \in d : y[1] = t}}}
               \in SUBSET (Nat \X Nat)
  <2>1. \A x \in d : got[x] \in SUBSET Nat
    BY DEF TypeOK
  <2>2. UNION {got[x] : x \in {y \in d : y[1] = t}} \in SUBSET Nat
    BY <2>1
  <2>3. rows[t] \in SUBSET (Nat \X Nat)
    BY DEF TypeOK
  <2>. QED BY <1>1, <2>2, <2>3
<1>. QED BY <1>2 DEF Committed

\* Every step preserves the types.
LEMMA TypeStep ==
  ASSUME TypeOK, [Next]_vars
  PROVE  TypeOK'
<1>. USE PgRunAssumption
<1>1. CASE StartAgain \/ Truncate \/ DropIndexes \/ Spawn
  BY <1>1 DEF TypeOK, StartAgain, Truncate, DropIndexes, Spawn, memory, database, Ended
<1>2. ASSUME NEW x \in Slots, Connect(x) \/ WriterFails(x)
      PROVE  TypeOK'
  BY <1>2 DEF TypeOK, Connect, WriterFails, database
<1>3. ASSUME NEW x \in Slots, Commit(x)
      PROVE  TypeOK'
  <2>1. rows' \in [SetOf(Tables) -> SUBSET (Nat \X Nat)]
    BY <1>3, CommittedType DEF Commit
  <2>. QED BY <1>3, <2>1 DEF TypeOK, Commit
<1>4. ASSUME NEW t \in SetOf(Sharded), NEW i \in pending[t], Route(t, i)
      PROVE  TypeOK'
  <2>1. t \in SetOf(Tables) /\ i \in Nat
    BY Places DEF TypeOK
  <2>2. pending' \in [SetOf(Tables) -> SUBSET Nat]
    BY <1>4, <2>1 DEF TypeOK, Route
  <2>3. got' \in [Slots -> SUBSET Nat]
    BY <1>4, <2>1 DEF TypeOK, Route
  <2>. QED BY <1>4, <2>2, <2>3 DEF TypeOK, Route, database
<1>5. CASE BeginFinishSelect \/ BeginFinishMaterialize \/ FinishTable
  BY <1>5 DEF TypeOK, BeginFinishSelect, BeginFinishMaterialize, FinishTable, AfterTable,
              memory, database
<1>6. CASE FinishFails
  <2>1. rows' \in [SetOf(Tables) -> SUBSET (Nat \X Nat)]
    BY <1>6, CommittedType DEF FinishFails, Holding
  <2>. QED BY <1>6, <2>1 DEF TypeOK, FinishFails, Idle
<1>7. CASE WriteRelations
  <2>1. pos \in 1..Len(Tables) /\ Tables[pos] \in SetOf(Tables)
    BY <1>7, Layout, Places DEF WriteRelations, TypeOK
  <2>2. {<<run, i>> : i \in Ids[Tables[pos]]} \in SUBSET (Nat \X Nat)
    BY <2>1 DEF TypeOK
  <2>. QED BY <1>7, <2>1, <2>2 DEF TypeOK, WriteRelations, memory
<1>8. CASE BeginFinalize \/ BeginEdges
  <2>1. phase' \in {"finalize", "edges"} /\ pos' \in Nat \ {0}
    BY <1>8 DEF TypeOK, BeginFinalize, BeginEdges
  <2>. QED BY <1>8, <2>1 DEF TypeOK, BeginFinalize, BeginEdges, memory, database
<1>9. ASSUME NEW t \in SetOf(Tables), BuildIndexes(t)
      PROVE  TypeOK'
  BY <1>9 DEF TypeOK, BuildIndexes, memory
<1>10. CASE MaterializeEdges
  <2> DEFINE g == GraphTopics[pos]
  <2>1. g \in SetOf(GraphTopics)
    BY <1>10 DEF MaterializeEdges, TypeOK, SetOf
  <2>2. Joined(g) \in SUBSET ((Nat \X Nat) \X (Nat \X Nat))
    <3>1. g \in SetOf(Tables) /\ Edges \in SetOf(Tables)
      BY <2>1, GraphTablesExist
    <3>. QED BY <3>1 DEF Joined, TypeOK
  <2>. QED BY <1>10, <2>1, <2>2 DEF TypeOK, MaterializeEdges, memory
<1>11. CASE Succeed \/ Die
  BY <1>11 DEF TypeOK, Succeed, Die, Idle, database
<1>12. CASE UNCHANGED vars
  BY <1>12 DEF TypeOK, vars
<1>. QED
  BY <1>1, <1>2, <1>3, <1>4, <1>5, <1>6, <1>7, <1>8, <1>9, <1>10, <1>11, <1>12
     DEF Next, Work, Main, Stopped

\* Every step keeps the main task's loops within their lists.
LEMMA PosStep ==
  ASSUME TypeOK, PosInv, [Next]_vars
  PROVE  PosInv'
<1>1. /\ Len(SelectTables) \in Nat \ {0} /\ Len(Sharded) \in Nat /\ Len(Tables) \in Nat
      /\ Len(SelectTables) <= Len(Sharded) /\ Len(Sharded) <= Len(Tables)
      /\ Len(SchemaOrder) \in Nat /\ Len(GraphTopics) \in Nat
      /\ pos \in Nat \ {0}
  BY Layout, PgRunAssumption DEF TypeOK
<1>2. CASE StartAgain \/ Truncate \/ DropIndexes \/ Spawn
  BY <1>1, <1>2 DEF PosInv, StartAgain, Truncate, DropIndexes, Spawn
<1>3. ASSUME NEW x \in Slots, Connect(x) \/ WriterFails(x) \/ Commit(x)
      PROVE  PosInv'
  BY <1>3 DEF PosInv, Connect, WriterFails, Commit
<1>4. ASSUME NEW t \in SetOf(Sharded), NEW i \in pending[t], Route(t, i)
      PROVE  PosInv'
  BY <1>4 DEF PosInv, Route
<1>5. CASE BeginFinishSelect \/ BeginFinishMaterialize
  BY <1>1, <1>5 DEF PosInv, BeginFinishSelect, BeginFinishMaterialize
<1>6. CASE FinishTable
  BY <1>1, <1>6 DEF PosInv, FinishTable, AfterTable
<1>7. CASE FinishFails \/ Die \/ Succeed
  BY <1>7 DEF PosInv, FinishFails, Die, Succeed
<1>8. CASE WriteRelations \/ BeginFinalize \/ BeginEdges \/ MaterializeEdges
  BY <1>1, <1>8 DEF PosInv, WriteRelations, BeginFinalize, BeginEdges, MaterializeEdges
<1>9. ASSUME NEW t \in SetOf(Tables), BuildIndexes(t)
      PROVE  PosInv'
  BY <1>9 DEF PosInv, BuildIndexes
<1>10. CASE UNCHANGED vars
  BY <1>10 DEF PosInv, vars
<1>. QED
  BY <1>2, <1>3, <1>4, <1>5, <1>6, <1>7, <1>8, <1>9, <1>10
     DEF Next, Work, Main, Stopped

\* Writers exist in the streaming phases only.
LEMMA QuietStep ==
  ASSUME TypeOK, QuietInv, [Next]_vars
  PROVE  QuietInv'
<1>1. CASE StartAgain \/ Truncate \/ DropIndexes \/ Spawn
  BY <1>1 DEF QuietInv, StartAgain, Truncate, DropIndexes, Spawn, Ended, memory
<1>2. ASSUME NEW x \in Slots, Connect(x) \/ WriterFails(x) \/ Commit(x)
      PROVE  QuietInv'
  BY <1>2 DEF QuietInv, Connect, WriterFails, Commit
<1>3. ASSUME NEW t \in SetOf(Sharded), NEW i \in pending[t], Route(t, i)
      PROVE  QuietInv'
  BY <1>3 DEF QuietInv, Route
<1>4. CASE BeginFinishSelect \/ BeginFinishMaterialize \/ FinishTable
  BY <1>4 DEF QuietInv, BeginFinishSelect, BeginFinishMaterialize, FinishTable, AfterTable,
              TypeOK, memory
<1>5. CASE FinishFails \/ Die \/ Succeed
  BY <1>5 DEF QuietInv, FinishFails, Die, Succeed, Idle
<1>6. CASE WriteRelations \/ BeginFinalize \/ BeginEdges \/ MaterializeEdges
  BY <1>6 DEF QuietInv, WriteRelations, BeginFinalize, BeginEdges, MaterializeEdges, memory
<1>7. ASSUME NEW t \in SetOf(Tables), BuildIndexes(t)
      PROVE  QuietInv'
  BY <1>7 DEF QuietInv, BuildIndexes, memory
<1>8. CASE UNCHANGED vars
  BY <1>8 DEF QuietInv, vars
<1>. QED
  BY <1>1, <1>2, <1>3, <1>4, <1>5, <1>6, <1>7, <1>8 DEF Next, Work, Main, Stopped

\* Nothing is routed once a phase has been left.
LEMMA RoutedStep ==
  ASSUME TypeOK, PosInv, RoutedInv, [Next]_vars
  PROVE  RoutedInv'
<1>1. /\ Len(SelectTables) \in Nat \ {0} /\ Len(Sharded) \in Nat
      /\ Len(SelectTables) <= Len(Sharded)
  BY Layout
<1>2. CASE StartAgain \/ Truncate \/ DropIndexes \/ Spawn
  BY <1>2 DEF RoutedInv, StartAgain, Truncate, DropIndexes, Spawn
<1>3. ASSUME NEW x \in Slots, Connect(x) \/ WriterFails(x) \/ Commit(x)
      PROVE  RoutedInv'
  BY <1>3 DEF RoutedInv, Routed, Connect, WriterFails, Commit
<1>4. ASSUME NEW t \in SetOf(Sharded), NEW i \in pending[t], Route(t, i)
      PROVE  RoutedInv'
  <2>1. phase' = phase /\ phase \notin {"finish_select", "finish_materialize"}
    BY <1>4 DEF Route
  <2>2. pending' = [pending EXCEPT ![t] = @ \ {i}]
    BY <1>4 DEF Route
  <2>3. ASSUME Routed(1, Len(SelectTables)) PROVE Routed(1, Len(SelectTables))'
    <3>1. SUFFICES ASSUME NEW j \in 1..Len(SelectTables) PROVE pending'[Tables[j]] = {}
      BY DEF Routed
    <3>2. pending[Tables[j]] = {}
      BY <2>3, <3>1 DEF Routed
    <3>. QED BY <2>2, <3>2 DEF TypeOK
  <2>. QED BY <2>1, <2>3 DEF RoutedInv
<1>5. CASE BeginFinishSelect \/ BeginFinishMaterialize
  BY <1>5 DEF RoutedInv, Routed, BeginFinishSelect, BeginFinishMaterialize, memory
<1>6. CASE FinishTable
  <2>1. phase' \in {phase, "materialize", "relations"} /\ pending' = pending
    BY <1>6 DEF FinishTable, AfterTable, memory
  <2>2. phase \in {"finish_select", "finish_materialize"}
    BY <1>6 DEF FinishTable
  <2>. QED BY <2>1, <2>2 DEF RoutedInv, Routed
<1>7. CASE FinishFails \/ Die \/ Succeed
  BY <1>7 DEF RoutedInv, FinishFails, Die, Succeed
<1>8. CASE WriteRelations \/ BeginFinalize \/ BeginEdges \/ MaterializeEdges
  BY <1>8 DEF RoutedInv, WriteRelations, BeginFinalize, BeginEdges, MaterializeEdges
<1>9. ASSUME NEW t \in SetOf(Tables), BuildIndexes(t)
      PROVE  RoutedInv'
  BY <1>9 DEF RoutedInv, BuildIndexes
<1>10. CASE UNCHANGED vars
  BY <1>10 DEF RoutedInv, Routed, vars
<1>. QED
  BY <1>2, <1>3, <1>4, <1>5, <1>6, <1>7, <1>8, <1>9, <1>10
     DEF Next, Work, Main, Stopped

-----------------------------------------------------------------------------
(* What the writers hold.                                                  *)

\* A table whose senders are dropped has had all of its batches routed.
LEMMA ClosedIsRouted ==
  ASSUME PosInv, RoutedInv, Streaming, NEW t \in SetOf(Sharded), Closed(t)
  PROVE  pending[t] = {}
<1>1. /\ Len(SelectTables) \in Nat \ {0} /\ Len(Sharded) \in Nat
      /\ DOMAIN Sharded = 1..Len(Sharded)
      /\ \A i \in 1..Len(Sharded) : Tables[i] = Sharded[i]
  BY Layout, LenProperties
<1>2. PICK i \in 1..Len(Sharded) :
        /\ Sharded[i] = t
        /\ i < pos \/ (i = pos /\ phase \in {"finish_select", "finish_materialize"})
  BY <1>1 DEF Closed
<1>3. CASE i <= Len(SelectTables)
  <2>1. phase # "select"
    BY <1>1, <1>2 DEF PosInv
  <2>2. Routed(1, Len(SelectTables))
    BY <2>1 DEF RoutedInv, Streaming
  <2>. QED BY <1>1, <1>2, <1>3, <2>2 DEF Routed
<1>4. CASE i > Len(SelectTables)
  <2>1. phase = "finish_materialize"
    BY <1>1, <1>2, <1>4 DEF PosInv, Streaming
  <2>2. Routed(Len(SelectTables) + 1, Len(Sharded))
    BY <2>1 DEF RoutedInv
  <2>. QED BY <1>1, <1>2, <1>4, <2>2 DEF Routed
<1>. QED BY <1>1, <1>3, <1>4

\* The shard picked for a batch exists.
LEMMA PickedShard ==
  ASSUME TypeOK, NEW t \in SetOf(Sharded)
  PROVE  <<t, (Cardinality(Ids[t] \ pending[t]) % K) + 1>> \in SlotsOf(t)
<1>1. t \in SetOf(Tables) /\ IsFiniteSet(Ids[t])
  BY Places, PgRunAssumption
<1>2. IsFiniteSet(Ids[t] \ pending[t])
  BY <1>1, FS_Subset
<1>3. Cardinality(Ids[t] \ pending[t]) \in Nat
  BY <1>2, FS_CardinalityType
<1>4. \A n \in Nat : (n % K) + 1 \in 1..K
  BY PgRunAssumption
<1>. QED BY <1>3, <1>4 DEF SlotsOf

\* Every step keeps the batches accounted for.
LEMMA WriterStep ==
  ASSUME TypeOK, PosInv, QuietInv, RoutedInv, WriterInv, [Next]_vars
  PROVE  WriterInv'
<1>1. CASE StartAgain \/ Truncate \/ DropIndexes
  BY <1>1 DEF WriterInv, StartAgain, Truncate, DropIndexes, Streaming
<1>2. CASE Spawn
  <2>1. /\ pending' = Ids /\ pos' = 1 /\ phase' = "select"
        /\ got' = [x \in Slots |-> {}] /\ writer' = [x \in Slots |-> "wait"]
    BY <1>2 DEF Spawn, QuietInv
  <2>2. ASSUME NEW t \in SetOf(Sharded) PROVE SlotsOf(t) \subseteq Slots /\ SentTo(t)' = {}
    <3>1. SlotsOf(t) \subseteq Slots
      BY DEF Slots, SlotsOf
    <3>. QED BY <2>1, <3>1 DEF SentTo
  <2>3. \A x \in Slots : writer'[x] # "done"
    BY <2>1
  <2>4. \A i \in 1..Len(Sharded) : ~(i < pos')
    BY <2>1
  <2>. QED BY <2>1, <2>2, <2>3, <2>4 DEF WriterInv
<1>3. ASSUME NEW x \in Slots, Connect(x) \/ WriterFails(x) \/ Commit(x)
      PROVE  WriterInv'
  <2>1. /\ Streaming /\ Streaming' /\ pos' = pos /\ pending' = pending /\ got' = got
    BY <1>3 DEF Connect, WriterFails, Commit, Streaming
  <2>2. /\ writer[x] \in {"wait", "copy"}
        /\ writer' \in {[writer EXCEPT ![x] = w] : w \in {"copy", "failed", "done"}}
    BY <1>3 DEF Connect, WriterFails, Commit
  <2>3. \A y \in Slots : writer[y] \in {"done", "failed"} => writer'[y] = writer[y]
    BY <2>2 DEF TypeOK
  <2>4. ASSUME NEW t \in SetOf(Sharded), \A y \in SlotsOf(t) : writer'[y] # "failed"
        PROVE  SentTo(t)' = Ids[t] \ pending'[t]
    <3>1. \A y \in SlotsOf(t) : y \in Slots
      BY DEF Slots, SlotsOf
    <3>2. \A y \in SlotsOf(t) : writer[y] # "failed"
      BY <2>3, <2>4, <3>1
    <3>. QED BY <2>1, <3>2 DEF WriterInv, SentTo
  <2>5. ASSUME NEW y \in Slots, writer'[y] = "done" PROVE pending'[y[1]] = {}
    <3>1. CASE writer[y] = "done"
      BY <2>1, <3>1 DEF WriterInv
    <3>2. CASE writer[y] # "done"
      <4>1. y = x /\ Commit(x)
        BY <1>3, <2>5, <3>2 DEF TypeOK, Connect, WriterFails, Commit
      <4>2. x[1] \in SetOf(Sharded) /\ Closed(x[1])
        BY <4>1 DEF Commit, Slots
      <4>. QED BY <2>1, <4>1, <4>2, ClosedIsRouted
    <3>. QED BY <3>1, <3>2
  <2>6. ASSUME NEW i \in 1..Len(Sharded), i < pos, NEW y \in SlotsOf(Sharded[i])
        PROVE  writer'[y] = "done"
    <3>1. y \in Slots
      BY Places DEF Slots, SlotsOf
    <3>. QED BY <2>1, <2>3, <2>6, <3>1 DEF WriterInv
  <2>. QED BY <2>1, <2>4, <2>5, <2>6 DEF WriterInv
<1>4. ASSUME NEW t \in SetOf(Sharded), NEW i \in pending[t], Route(t, i)
      PROVE  WriterInv'
  <2> DEFINE x == <<t, (Cardinality(Ids[t] \ pending[t]) % K) + 1>>
  <2>1. x \in SlotsOf(t) /\ x \in Slots
    BY PickedShard DEF Slots, SlotsOf
  <2>2. /\ Streaming /\ Streaming' /\ pos' = pos /\ writer' = writer
        /\ pending' = [pending EXCEPT ![t] = @ \ {i}]
        /\ got' = IF writer[x] = "failed" THEN got ELSE [got EXCEPT ![x] = @ \cup {i}]
    BY <1>4 DEF Route, Streaming
  <2> HIDE DEF x
  <2>3. t \in SetOf(Tables) /\ pending[t] \subseteq Ids[t]
    BY <2>2, Places DEF WriterInv
  <2>4. ASSUME NEW u \in SetOf(Sharded), \A y \in SlotsOf(u) : writer[y] # "failed"
        PROVE  SentTo(u)' = Ids[u] \ pending'[u]
    <3>1. SentTo(u) = Ids[u] \ pending[u]
      BY <2>2, <2>4 DEF WriterInv
    <3>2. CASE u = t
      <4>1. got' = [got EXCEPT ![x] = @ \cup {i}]
        BY <2>1, <2>2, <2>4, <3>2
      <4>2. SlotsOf(t) \subseteq Slots
        BY DEF Slots, SlotsOf
      <4>3. SentTo(t)' = SentTo(t) \cup {i}
        <5>1. \A y \in SlotsOf(t) : got'[y] = IF y = x THEN got[y] \cup {i} ELSE got[y]
          BY <4>1, <4>2 DEF TypeOK
        <5>. QED BY <2>1, <5>1 DEF SentTo
      <4>4. pending'[t] = pending[t] \ {i}
        BY <2>2, <2>3 DEF TypeOK
      <4>. QED BY <2>3, <3>1, <3>2, <4>3, <4>4
    <3>3. CASE u # t
      <4>1. \A y \in SlotsOf(u) : y \in Slots /\ y # x
        BY <2>1, <3>3 DEF Slots, SlotsOf
      <4>2. \A y \in SlotsOf(u) : got'[y] = got[y]
        BY <2>2, <4>1 DEF TypeOK
      <4>3. pending'[u] = pending[u]
        BY <2>2, <2>3, <3>3, Places DEF TypeOK
      <4>. QED BY <3>1, <4>2, <4>3 DEF SentTo
    <3>. QED BY <3>2, <3>3
  <2>5. \A u \in SetOf(Sharded) : pending'[u] \subseteq pending[u]
    BY <2>2, <2>3, Places DEF TypeOK
  <2>6. ASSUME NEW y \in Slots, writer[y] = "done" PROVE pending'[y[1]] = {}
    <3>1. y[1] \in SetOf(Sharded) /\ pending[y[1]] = {}
      BY <2>2, <2>6 DEF WriterInv, Slots
    <3>. QED BY <2>5, <3>1
  <2>. QED BY <2>2, <2>4, <2>5, <2>6 DEF WriterInv
<1>5. CASE BeginFinishSelect \/ BeginFinishMaterialize
  <2>1. Streaming /\ pos' = pos /\ pending' = pending /\ writer' = writer /\ got' = got
    BY <1>5 DEF BeginFinishSelect, BeginFinishMaterialize, Streaming, memory
  <2>. QED BY <2>1 DEF WriterInv, SentTo
<1>6. CASE FinishTable
  <2>1. /\ Streaming /\ pos' = pos + 1 /\ pending' = pending /\ writer' = writer /\ got' = got
        /\ \A x \in SlotsOf(Sharded[pos]) : writer[x] = "done"
        /\ pos \in Nat
    BY <1>6 DEF FinishTable, Streaming, memory, TypeOK
  <2>2. \A i \in 1..Len(Sharded) : i < pos' => i < pos \/ i = pos
    BY <2>1
  <2>. QED BY <2>1, <2>2 DEF WriterInv, SentTo
<1>7. CASE FinishFails \/ Die \/ Succeed
  BY <1>7 DEF WriterInv, Streaming, FinishFails, Die, Succeed
<1>8. CASE WriteRelations \/ BeginFinalize \/ BeginEdges \/ MaterializeEdges
  BY <1>8 DEF WriterInv, Streaming, WriteRelations, BeginFinalize, BeginEdges, MaterializeEdges
<1>9. ASSUME NEW t \in SetOf(Tables), BuildIndexes(t)
      PROVE  WriterInv'
  BY <1>9 DEF WriterInv, Streaming, BuildIndexes
<1>10. CASE UNCHANGED vars
  BY <1>10 DEF WriterInv, SentTo, Streaming, vars
<1>. QED
  BY <1>1, <1>2, <1>3, <1>4, <1>5, <1>6, <1>7, <1>8, <1>9, <1>10
     DEF Next, Work, Main, Stopped

-----------------------------------------------------------------------------
(* What the tables hold.                                                   *)

\* When every writer of every streamed table is done, the tables hold the whole run.
LEMMA AllDone ==
  ASSUME TypeOK, WriterInv, RowsInv, Streaming,
         \A i \in 1..Len(Sharded) : \A x \in SlotsOf(Sharded[i]) : writer[x] = "done"
  PROVE  \A t \in SetOf(Tables) :
           rows[t] = IF t \in SetOf(Sharded) THEN {run} \X Ids[t] ELSE {}
<1>1. SUFFICES ASSUME NEW t \in SetOf(Sharded) PROVE rows[t] = {run} \X Ids[t]
  BY DEF RowsInv
<1>2. \A x \in SlotsOf(t) : writer[x] = "done" /\ x \in Slots
  BY Places DEF SlotsOf, Slots
<1>3. <<t, 1>> \in SlotsOf(t)
  BY PgRunAssumption DEF SlotsOf
<1>4. pending[t] = {}
  BY <1>2, <1>3 DEF WriterInv
<1>5. SentTo(t) = Ids[t]
  BY <1>2, <1>4 DEF WriterInv
<1>6. DoneOf(t) = SentTo(t)
  BY <1>2 DEF DoneOf, SentTo
<1>. QED BY <1>5, <1>6 DEF RowsInv

\* Leaving the streamed tables behind, only the relation tables are still empty.
LEMMA RelationsBegin ==
  ASSUME TypeOK, PosInv, WriterInv, RowsInv, Streaming, rows' = rows, run' = run,
         phase' = "relations", pos' = Len(Sharded) + 1,
         \A i \in 1..Len(Sharded) : \A x \in SlotsOf(Sharded[i]) : writer[x] = "done"
  PROVE  RowsInv'
<1>1. \A t \in SetOf(Tables) :
        rows[t] = IF t \in SetOf(Sharded) THEN {run} \X Ids[t] ELSE {}
  BY AllDone
<1>2. ASSUME NEW i \in 1..Len(Tables)
      PROVE  Tables[i] \in SetOf(Sharded) <=> i < Len(Sharded) + 1
  <2>1. Tables[i] \in SetOf(Tables) /\ Len(Sharded) \in Nat /\ Len(Tables) \in Nat
    BY Places, Layout
  <2>2. CASE i <= Len(Sharded)
    BY <2>1, <2>2, Layout, Places
  <2>3. CASE i > Len(Sharded)
    <3>1. ASSUME Tables[i] \in SetOf(Sharded) PROVE FALSE
      <4>1. PICK j \in 1..Len(Sharded) : Sharded[j] = Tables[i]
        BY <3>1, Places
      <4>2. Tables[j] = Tables[i]
        BY <4>1, Layout
      <4>3. j \in 1..Len(Tables) /\ j # i
        BY <2>1, <2>3, Layout
      <4>. QED BY <4>2, <4>3, Places
    <3>. QED BY <2>1, <2>3, <3>1
  <2>. QED BY <2>1, <2>2, <2>3
<1>. QED BY <1>1, <1>2, Places DEF RowsInv, Streaming

\* Every step keeps the tables at this run's committed batches.
LEMMA RowsStep ==
  ASSUME TypeOK, PosInv, WriterInv, RowsInv, [Next]_vars
  PROVE  RowsInv'
<1>0. /\ Len(Sharded) \in Nat /\ Len(Tables) \in Nat /\ Len(SelectTables) \in Nat \ {0}
      /\ Len(SelectTables) <= Len(Sharded) /\ Len(Sharded) <= Len(Tables)
      /\ pos \in Nat
  BY Layout DEF TypeOK
<1>1. CASE StartAgain \/ Truncate \/ DropIndexes
  BY <1>1 DEF RowsInv, StartAgain, Truncate, DropIndexes, Streaming
<1>2. CASE Spawn
  <2>1. /\ phase = "drop" /\ phase' = "select" /\ rows' = rows /\ run' = run
        /\ writer' = [x \in Slots |-> "wait"]
    BY <1>2 DEF Spawn, database
  <2>2. \A t \in SetOf(Tables) : rows[t] = {}
    BY <2>1 DEF RowsInv
  <2>3. ASSUME NEW t \in SetOf(Sharded) PROVE DoneOf(t)' = {}
    <3>1. \A x \in SlotsOf(t) : writer'[x] # "done"
      BY <2>1 DEF Slots, SlotsOf
    <3>. QED BY <3>1 DEF DoneOf
  <2>4. \A t \in SetOf(Sharded) : t \in SetOf(Tables)
    BY Places
  <2>. QED BY <2>1, <2>2, <2>3, <2>4 DEF RowsInv, Streaming
<1>3. ASSUME NEW x \in Slots, Connect(x) \/ WriterFails(x)
      PROVE  RowsInv'
  <2>1. /\ Streaming /\ phase' = phase /\ rows' = rows /\ run' = run /\ got' = got
        /\ writer[x] # "done" /\ writer'[x] # "done"
        /\ \A y \in Slots \ {x} : writer'[y] = writer[y]
    BY <1>3 DEF Connect, WriterFails, database, TypeOK
  <2>2. ASSUME NEW t \in SetOf(Sharded) PROVE DoneOf(t)' = DoneOf(t)
    <3>1. \A y \in SlotsOf(t) : writer'[y] = "done" <=> writer[y] = "done"
      BY <2>1 DEF Slots, SlotsOf
    <3>. QED BY <2>1, <3>1 DEF DoneOf
  <2>. QED BY <2>1, <2>2 DEF RowsInv, Streaming
<1>4. ASSUME NEW x \in Slots, Commit(x)
      PROVE  RowsInv'
  <2>1. /\ Streaming /\ phase' = phase /\ run' = run /\ got' = got
        /\ writer' = [writer EXCEPT ![x] = "done"]
        /\ rows' = Committed({x})
    BY <1>4 DEF Commit
  <2>2. ASSUME NEW t \in SetOf(Tables)
        PROVE  rows'[t] = rows[t] \cup {<<run, i>> : i \in UNION {got[y] : y \in {z \in {x} : z[1] = t}}}
    BY <2>1 DEF Committed
  <2>3. ASSUME NEW t \in SetOf(Sharded) PROVE rows'[t] = {run} \X DoneOf(t)'
    <3>1. t \in SetOf(Tables) /\ rows[t] = {run} \X DoneOf(t)
      BY <2>1, Places DEF RowsInv
    <3>2. CASE x[1] = t
      <4>1. x \in SlotsOf(t)
        BY <3>2 DEF Slots, SlotsOf
      <4>2. \A y \in SlotsOf(t) : writer'[y] = "done" <=> (writer[y] = "done" \/ y = x)
        BY <2>1, <4>1 DEF TypeOK, Slots, SlotsOf
      <4>3. DoneOf(t)' = DoneOf(t) \cup got[x]
        BY <2>1, <4>1, <4>2 DEF DoneOf
      <4>4. rows'[t] = rows[t] \cup {<<run, i>> : i \in got[x]}
        BY <2>2, <3>1, <3>2
      <4>. QED BY <3>1, <4>3, <4>4
    <3>3. CASE x[1] # t
      <4>1. x \notin SlotsOf(t)
        BY <3>3 DEF SlotsOf
      <4>2. \A y \in SlotsOf(t) : writer'[y] = "done" <=> writer[y] = "done"
        BY <2>1, <4>1 DEF TypeOK, Slots, SlotsOf
      <4>3. DoneOf(t)' = DoneOf(t)
        BY <2>1, <4>2 DEF DoneOf
      <4>4. rows'[t] = rows[t]
        BY <2>2, <3>1, <3>3
      <4>. QED BY <3>1, <4>3, <4>4
    <3>. QED BY <3>2, <3>3
  <2>4. ASSUME NEW t \in SetOf(Tables) \ SetOf(Sharded) PROVE rows'[t] = {}
    <3>1. x[1] # t
      BY <2>4 DEF Slots
    <3>2. rows[t] = {}
      BY <2>1 DEF RowsInv
    <3>. QED BY <2>2, <3>1, <3>2
  <2>. QED BY <2>1, <2>3, <2>4 DEF RowsInv, Streaming
<1>5. ASSUME NEW t \in SetOf(Sharded), NEW i \in pending[t], Route(t, i)
      PROVE  RowsInv'
  <2> DEFINE x == <<t, (Cardinality(Ids[t] \ pending[t]) % K) + 1>>
  <2>1. x \in Slots /\ x[1] = t
    BY PickedShard DEF Slots, SlotsOf
  <2>2. /\ Streaming /\ phase' = phase /\ writer' = writer /\ rows' = rows /\ run' = run
        /\ got' = IF writer[x] = "failed" THEN got ELSE [got EXCEPT ![x] = @ \cup {i}]
    BY <1>5 DEF Route, Streaming, database
  <2> HIDE DEF x
  <2>3. writer[x] # "done"
    BY <2>1, <2>2 DEF WriterInv
  <2>4. ASSUME NEW u \in SetOf(Sharded) PROVE DoneOf(u)' = DoneOf(u)
    <3>1. \A y \in SlotsOf(u) : writer[y] = "done" => got'[y] = got[y]
      BY <2>1, <2>2, <2>3 DEF TypeOK, Slots, SlotsOf
    <3>. QED BY <2>2, <3>1 DEF DoneOf
  <2>. QED BY <2>2, <2>4 DEF RowsInv, Streaming
<1>6. CASE BeginFinishSelect
  <2>1. /\ Streaming /\ phase' = "finish_select" /\ rows' = rows /\ run' = run
        /\ writer' = writer /\ got' = got
    BY <1>6 DEF BeginFinishSelect, Streaming, memory, database
  <2>. QED BY <2>1 DEF RowsInv, Streaming, DoneOf
<1>7. CASE BeginFinishMaterialize
  <2>1. /\ Streaming /\ phase = "materialize" /\ rows' = rows /\ run' = run
        /\ writer' = writer /\ got' = got /\ pos' = pos
    BY <1>7 DEF BeginFinishMaterialize, Streaming, memory, database
  <2>2. CASE phase' = "finish_materialize"
    BY <2>1, <2>2 DEF RowsInv, Streaming, DoneOf
  <2>3. CASE phase' = "relations"
    <3>1. Len(Sharded) = Len(SelectTables)
      BY <1>7, <2>3 DEF BeginFinishMaterialize
    <3>2. pos = Len(Sharded) + 1
      BY <2>1, <3>1 DEF PosInv
    <3>3. \A j \in 1..Len(Sharded) : j < pos
      BY <1>0, <3>2
    <3>4. \A j \in 1..Len(Sharded) : \A x \in SlotsOf(Sharded[j]) : writer[x] = "done"
      BY <2>1, <3>3 DEF WriterInv
    <3>. QED BY <2>1, <2>3, <3>2, <3>4, RelationsBegin
  <2>. QED BY <1>7, <2>2, <2>3 DEF BeginFinishMaterialize
<1>8. CASE FinishTable
  <2>1. /\ Streaming /\ rows' = rows /\ run' = run /\ writer' = writer /\ got' = got
        /\ phase' = AfterTable(pos) /\ pos' = pos + 1
        /\ \A x \in SlotsOf(Sharded[pos]) : writer[x] = "done"
    BY <1>8 DEF FinishTable, Streaming, memory, database
  <2>2. CASE phase' \in {"finish_select", "materialize", "finish_materialize"}
    BY <2>1, <2>2 DEF RowsInv, Streaming, DoneOf
  <2>3. CASE phase' = "relations"
    <3>1. pos = Len(Sharded)
      BY <1>8, <2>1, <2>3 DEF AfterTable, FinishTable
    <3>2. \A j \in 1..Len(Sharded) : j < pos \/ j = pos
      BY <1>0, <3>1
    <3>3. \A j \in 1..Len(Sharded) : \A x \in SlotsOf(Sharded[j]) : writer[x] = "done"
      BY <2>1, <3>2 DEF WriterInv
    <3>. QED BY <2>1, <2>3, <3>1, <3>3, RelationsBegin
  <2>. QED BY <1>8, <2>1, <2>2, <2>3 DEF AfterTable, FinishTable
<1>9. CASE FinishFails \/ Die
  BY <1>9 DEF RowsInv, Streaming, FinishFails, Die
<1>10. CASE Succeed
  <2>1. phase = "edges" /\ phase' = "ok" /\ rows' = rows /\ run' = run
    BY <1>10 DEF Succeed, database
  <2>. QED BY <2>1 DEF RowsInv, Streaming
<1>11. CASE WriteRelations
  <2>1. /\ phase = "relations" /\ phase' = phase /\ run' = run /\ pos' = pos + 1
        /\ pos \in 1..Len(Tables)
        /\ rows' = [rows EXCEPT ![Tables[pos]] = @ \cup {<<run, i>> : i \in Ids[Tables[pos]]}]
    BY <1>0, <1>11 DEF WriteRelations, TypeOK
  <2>2. ASSUME NEW j \in 1..Len(Tables)
        PROVE  rows'[Tables[j]] = IF j < pos' THEN {run} \X Ids[Tables[j]] ELSE {}
    <3>1. rows[Tables[j]] = IF j < pos THEN {run} \X Ids[Tables[j]] ELSE {}
      BY <2>1 DEF RowsInv
    <3>2. CASE j = pos
      <4>1. rows'[Tables[j]] = rows[Tables[j]] \cup {<<run, i>> : i \in Ids[Tables[j]]}
        BY <2>1, <3>2, Places DEF TypeOK
      <4>2. rows[Tables[j]] = {}
        BY <1>0, <3>1, <3>2
      <4>3. {<<run, i>> : i \in Ids[Tables[j]]} = {run} \X Ids[Tables[j]]
        OBVIOUS
      <4>4. j < pos'
        BY <1>0, <2>1, <3>2
      <4>. QED BY <4>1, <4>2, <4>3, <4>4
    <3>3. CASE j # pos
      <4>1. Tables[j] # Tables[pos]
        BY <2>1, <3>3, Places
      <4>2. rows'[Tables[j]] = rows[Tables[j]]
        BY <2>1, <4>1, Places DEF TypeOK
      <4>3. j < pos' <=> j < pos
        BY <1>0, <2>1, <3>3
      <4>. QED BY <3>1, <4>2, <4>3
    <3>. QED BY <3>2, <3>3
  <2>. QED BY <2>1, <2>2 DEF RowsInv, Streaming
<1>12. CASE BeginFinalize
  <2>1. /\ phase = "relations" /\ pos > Len(Tables) /\ rows' = rows /\ run' = run
        /\ phase' = "finalize"
    BY <1>12 DEF BeginFinalize, database
  <2>2. ASSUME NEW t \in SetOf(Tables) PROVE rows[t] = {run} \X Ids[t]
    <3>1. PICK i \in 1..Len(Tables) : Tables[i] = t
      BY Places
    <3>2. i < pos
      BY <1>0, <2>1
    <3>3. rows[Tables[i]] = IF i < pos THEN {run} \X Ids[Tables[i]] ELSE {}
      BY <2>1 DEF RowsInv
    <3>. QED BY <3>1, <3>2, <3>3
  <2>. QED BY <2>1, <2>2 DEF RowsInv, Streaming
<1>13. CASE BeginEdges \/ MaterializeEdges
  <2>1. /\ phase \in {"finalize", "edges"} /\ phase' = "edges" /\ rows' = rows /\ run' = run
    BY <1>13 DEF BeginEdges, MaterializeEdges, database
  <2>. QED BY <2>1 DEF RowsInv, Streaming
<1>14. ASSUME NEW t \in SetOf(Tables), BuildIndexes(t)
       PROVE  RowsInv'
  BY <1>14 DEF RowsInv, Streaming, BuildIndexes
<1>15. CASE UNCHANGED vars
  <2>1. /\ phase' = phase /\ pos' = pos /\ rows' = rows /\ run' = run
        /\ writer' = writer /\ got' = got
    BY <1>15 DEF vars
  <2>2. ASSUME NEW t \in SetOf(Sharded) PROVE DoneOf(t)' = DoneOf(t)
    BY <2>1 DEF DoneOf
  <2>. QED BY <2>1, <2>2 DEF RowsInv, Streaming
<1>. QED
  BY <1>1, <1>2, <1>3, <1>4, <1>5, <1>6, <1>7, <1>8, <1>9, <1>10, <1>11, <1>12, <1>13,
     <1>14, <1>15 DEF Next, Work, Main, Stopped

\* Every step keeps the indexes where the phase wants them.
LEMMA IndexStep ==
  ASSUME TypeOK, PosInv, IndexInv, [Next]_vars
  PROVE  IndexInv'
<1>0. Len(SchemaOrder) \in Nat /\ pos \in Nat
  BY Layout DEF TypeOK
<1>1. CASE StartAgain \/ Truncate
  BY <1>1 DEF IndexInv, StartAgain, Truncate, Streaming, TypeOK
<1>2. CASE DropIndexes
  <2>1. /\ phase = "drop" /\ phase' = "drop" /\ pos' = pos + 1
        /\ index' = index \ {SchemaOrder[pos]}
    BY <1>2 DEF DropIndexes
  <2>2. ASSUME NEW j \in 1..Len(SchemaOrder), j < pos' PROVE SchemaOrder[j] \notin index'
    <3>1. j < pos \/ j = pos
      BY <1>0, <2>1, <2>2
    <3>2. j < pos => SchemaOrder[j] \notin index
      BY <2>1 DEF IndexInv
    <3>. QED BY <2>1, <3>1, <3>2
  <2>. QED BY <2>1, <2>2 DEF IndexInv, Streaming
<1>3. CASE Spawn
  <2>1. /\ phase = "drop" /\ phase' = "select" /\ index' = index /\ pos > Len(SchemaOrder)
    BY <1>3 DEF Spawn, database
  <2>2. ASSUME NEW t \in SetOf(Tables) PROVE t \notin index
    <3>1. t \in SetOf(SchemaOrder) /\ DOMAIN SchemaOrder = 1..Len(SchemaOrder)
      BY Layout, LenProperties
    <3>2. PICK j \in 1..Len(SchemaOrder) : SchemaOrder[j] = t
      BY <3>1 DEF SetOf
    <3>3. j < pos
      BY <1>0, <2>1
    <3>. QED BY <2>1, <3>2, <3>3 DEF IndexInv
  <2>3. index = {}
    BY <2>2 DEF TypeOK
  <2>. QED BY <2>1, <2>3 DEF IndexInv, Streaming
<1>4. ASSUME NEW x \in Slots, Connect(x) \/ WriterFails(x) \/ Commit(x)
      PROVE  IndexInv'
  BY <1>4 DEF IndexInv, Connect, WriterFails, Commit, Streaming, database
<1>5. ASSUME NEW t \in SetOf(Sharded), NEW i \in pending[t], Route(t, i)
      PROVE  IndexInv'
  BY <1>5 DEF IndexInv, Route, Streaming, database
<1>6. CASE BeginFinishSelect \/ BeginFinishMaterialize \/ FinishTable
  <2>1. /\ Streaming /\ index' = index
        /\ phase' \in {"finish_select", "materialize", "finish_materialize", "relations"}
    BY <1>6 DEF BeginFinishSelect, BeginFinishMaterialize, FinishTable, AfterTable, Streaming,
                database
  <2>. QED BY <2>1 DEF IndexInv
<1>7. CASE FinishFails \/ Die
  BY <1>7 DEF IndexInv, FinishFails, Die, Streaming
<1>8. CASE WriteRelations \/ BeginFinalize
  BY <1>8 DEF IndexInv, WriteRelations, BeginFinalize, Streaming, database
<1>9. ASSUME NEW t \in SetOf(Tables), BuildIndexes(t)
      PROVE  IndexInv'
  BY <1>9 DEF IndexInv, BuildIndexes, Streaming
<1>10. CASE BeginEdges
  BY <1>10 DEF IndexInv, BeginEdges, Streaming, database
<1>11. CASE MaterializeEdges \/ Succeed
  <2>1. /\ phase = "edges" /\ phase' \in {"edges", "ok"}
        /\ index' = index /\ indexing' = indexing
    BY <1>11 DEF MaterializeEdges, Succeed, database
  <2>. QED BY <2>1 DEF IndexInv, Streaming
<1>12. CASE UNCHANGED vars
  BY <1>12 DEF IndexInv, Streaming, vars
<1>. QED
  BY <1>1, <1>2, <1>3, <1>4, <1>5, <1>6, <1>7, <1>8, <1>9, <1>10, <1>11, <1>12
     DEF Next, Work, Main, Stopped

\* Every step keeps the topic edge tables written so far at this run's edges.
LEMMA EdgeStep ==
  ASSUME TypeOK, PosInv, RowsInv, EdgeInv, [Next]_vars
  PROVE  EdgeInv'
<1>0. Len(GraphTopics) \in Nat /\ DOMAIN GraphTopics = 1..Len(GraphTopics) /\ pos \in Nat \ {0}
  BY PgRunAssumption DEF TypeOK
<1>1. CASE StartAgain \/ Truncate \/ DropIndexes \/ Spawn
  BY <1>1 DEF EdgeInv, StartAgain, Truncate, DropIndexes, Spawn
<1>2. ASSUME NEW x \in Slots, Connect(x) \/ WriterFails(x) \/ Commit(x)
      PROVE  EdgeInv'
  BY <1>2 DEF EdgeInv, Connect, WriterFails, Commit, Streaming
<1>3. ASSUME NEW t \in SetOf(Sharded), NEW i \in pending[t], Route(t, i)
      PROVE  EdgeInv'
  BY <1>3 DEF EdgeInv, Route
<1>4. CASE BeginFinishSelect \/ BeginFinishMaterialize \/ FinishTable
  BY <1>4 DEF EdgeInv, BeginFinishSelect, BeginFinishMaterialize, FinishTable, AfterTable
<1>5. CASE FinishFails \/ Die \/ WriteRelations \/ BeginFinalize
  BY <1>5 DEF EdgeInv, FinishFails, Die, WriteRelations, BeginFinalize
<1>6. ASSUME NEW t \in SetOf(Tables), BuildIndexes(t)
      PROVE  EdgeInv'
  BY <1>6 DEF EdgeInv, BuildIndexes
<1>7. CASE BeginEdges
  <2>1. phase = "finalize" /\ phase' = "edges" /\ pos' = pos
    BY <1>7 DEF BeginEdges
  <2>2. \A j \in 1..Len(GraphTopics) : ~(j < pos')
    BY <1>0, <2>1 DEF PosInv
  <2>. QED BY <2>1, <2>2 DEF EdgeInv
<1>8. CASE MaterializeEdges
  <2> DEFINE g == GraphTopics[pos]
  <2>1. /\ phase = "edges" /\ phase' = phase /\ pos' = pos + 1 /\ run' = run
        /\ pos \in 1..Len(GraphTopics)
        /\ edgeRows' = [edgeRows EXCEPT ![g] = Joined(g)]
    BY <1>0, <1>8 DEF MaterializeEdges
  <2>2. g \in SetOf(GraphTopics)
    BY <1>0, <2>1 DEF SetOf
  <2>3. rows[Edges] = {run} \X Ids[Edges] /\ rows[g] = {run} \X Ids[g]
    BY <2>1, <2>2, GraphTablesExist DEF RowsInv
  <2>4. Joined(g) = CurrentEdges(g)
    <3>0. Costed[g] \subseteq Ids[g]
      BY <2>2, PgRunAssumption
    <3>1. Joined(g) = {p \in ({run} \X Ids[Edges]) \X ({run} \X Ids[g]) :
                         p[1][2] = p[2][2] /\ p[2][2] \in Costed[g]}
      BY <2>3 DEF Joined
    <3>2. ASSUME NEW p \in Joined(g) PROVE p \in CurrentEdges(g)
      <4>1. PICK i \in Ids[Edges], j \in Ids[g] :
                 p = <<<<run, i>>, <<run, j>>>> /\ i = j /\ j \in Costed[g]
        BY <3>1, <3>2
      <4>. QED BY <4>1 DEF CurrentEdges
    <3>3. ASSUME NEW p \in CurrentEdges(g) PROVE p \in Joined(g)
      <4>1. PICK i \in Ids[Edges] \cap Costed[g] : p = <<<<run, i>>, <<run, i>>>>
        BY <3>3 DEF CurrentEdges
      <4>. QED BY <3>0, <3>1, <4>1
    <3>. QED BY <3>2, <3>3
  <2> HIDE DEF g
  <2>5. ASSUME NEW j \in 1..Len(GraphTopics), j < pos'
        PROVE  edgeRows'[GraphTopics[j]] = CurrentEdges(GraphTopics[j])
    <3>1. GraphTopics[j] \in SetOf(GraphTopics)
      BY <1>0 DEF SetOf
    <3>2. CASE GraphTopics[j] = g
      BY <2>1, <2>4, <3>1, <3>2 DEF TypeOK
    <3>3. CASE GraphTopics[j] # g
      <4>1. j < pos
        <5>1. j # pos
          BY <3>3 DEF g
        <5>. QED BY <1>0, <2>1, <2>5, <5>1
      <4>2. edgeRows'[GraphTopics[j]] = edgeRows[GraphTopics[j]]
        BY <2>1, <3>1, <3>3 DEF TypeOK
      <4>. QED BY <2>1, <4>1, <4>2 DEF EdgeInv
    <3>. QED BY <3>2, <3>3
  <2>6. \A t : CurrentEdges(t)' = CurrentEdges(t)
    BY <2>1 DEF CurrentEdges
  <2>. QED BY <2>1, <2>5, <2>6 DEF EdgeInv
<1>9. CASE Succeed
  <2>1. /\ phase = "edges" /\ phase' = "ok" /\ pos > Len(GraphTopics)
        /\ edgeRows' = edgeRows /\ run' = run
    BY <1>9 DEF Succeed, database
  <2>2. ASSUME NEW t \in SetOf(GraphTopics) PROVE edgeRows[t] = CurrentEdges(t)
    <3>1. PICK j \in 1..Len(GraphTopics) : GraphTopics[j] = t
      BY <1>0 DEF SetOf
    <3>2. j < pos
      BY <1>0, <2>1
    <3>. QED BY <2>1, <3>1, <3>2 DEF EdgeInv
  <2>3. \A t : CurrentEdges(t)' = CurrentEdges(t)
    BY <2>1 DEF CurrentEdges
  <2>. QED BY <2>1, <2>2, <2>3 DEF EdgeInv
<1>10. CASE UNCHANGED vars
  BY <1>10 DEF EdgeInv, CurrentEdges, vars
<1>. QED
  BY <1>1, <1>2, <1>3, <1>4, <1>5, <1>6, <1>7, <1>8, <1>9, <1>10
     DEF Next, Work, Main, Stopped

-----------------------------------------------------------------------------
(* The theorems.                                                           *)

\* The invariant holds in every state of every behaviour.
LEMMA Invariance == Spec => []IInv
<1>1. Init => IInv
  <2> SUFFICES ASSUME Init PROVE IInv
    OBVIOUS
  <2>1. TypeOK
    BY PgRunAssumption DEF Init, TypeOK
  <2>. QED BY <2>1 DEF Init, IInv, PosInv, QuietInv, RoutedInv, WriterInv, RowsInv, IndexInv,
                       EdgeInv, Streaming
<1>2. IInv /\ [Next]_vars => IInv'
  <2> SUFFICES ASSUME IInv, [Next]_vars PROVE IInv'
    OBVIOUS
  <2>1. TypeOK' /\ PosInv' /\ QuietInv' /\ RoutedInv'
    BY TypeStep, PosStep, QuietStep, RoutedStep DEF IInv
  <2>2. WriterInv' /\ RowsInv' /\ IndexInv' /\ EdgeInv'
    BY WriterStep, RowsStep, IndexStep, EdgeStep DEF IInv
  <2>. QED BY <2>1, <2>2 DEF IInv
<1>. QED BY <1>1, <1>2, PTL DEF Spec

\* Types are preserved, whatever fails and however often the program is started.
THEOREM TypeCorrect == Spec => []TypeOK
<1>1. IInv => TypeOK
  BY DEF IInv
<1>. QED BY <1>1, Invariance, PTL

\* A run that reports success leaves exactly its own rows in every table, whatever the
\* runs before it committed before they died.
THEOREM RerunIsExact == Spec => []OnlyThisRun
<1>1. IInv => OnlyThisRun
  BY DEF IInv, RowsInv, OnlyThisRun
<1>. QED BY <1>1, Invariance, PTL

\* It leaves every `{table}_edge` with this run's edges joined to this run's tags.
THEOREM EdgesAreCurrent == Spec => []EdgeTablesAreCurrent
<1>1. IInv => EdgeTablesAreCurrent
  BY DEF IInv, EdgeInv, EdgeTablesAreCurrent, CurrentEdges
<1>. QED BY <1>1, Invariance, PTL

\* Rows are always copied into unindexed tables, and the indexes asked for are complete.
THEOREM IndexesAreRight == Spec => []IndexesFollowTheRows
<1>1. IInv => IndexesFollowTheRows
  BY DEF IInv, IndexInv, IndexesFollowTheRows
<1>. QED BY <1>1, Invariance, PTL

=============================================================================

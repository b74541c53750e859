------------------------------- MODULE PgRun -------------------------------
(***************************************************************************)
(* One Postgres import after another: src/src/main.rs, its table writers   *)
(* (src/src/output/sinks.rs, writers.rs) and the schema steps around them  *)
(* (src/src/db/backend.rs, schema.rs, topic_edges.rs).                     *)
(*                                                                         *)
(* A run creates and truncates its tables, drops their indexes, sizes the  *)
(* connection pool, spawns k COPY writers per table, streams the selection *)
(* and then the geometry into them, writes the relation geometry, builds   *)
(* the indexes and materializes `{table}_edge`.  Nothing spans two         *)
(* statements: every COPY commits by itself and every DDL statement takes  *)
(* effect at once, so a run that dies leaves the database wherever it was. *)
(* The user then runs the program again.                                   *)
(*                                                                         *)
(* Shard models one table's channels and batches in full; here a table     *)
(* receives batches with identities, and what its channels hold counts as  *)
(* received by the writer once the writer reads at all.                    *)
(***************************************************************************)
EXTENDS Integers, Sequences, FiniteSets

CONSTANTS
  Tags,         \* the topics' tag tables, in topic order
  NodeGeom,     \* tables of `plan.node_geom_topics`
  WayGeom,      \* tables of `plan.way_geom_topics`
  RelGeom,      \* tables of `plan.relation_geom_topics`
  GraphTopics,  \* the tag tables whose topic wants the way graph, in topic order
  Ids,          \* Ids[t]: the batches a run routes to table t
  Costed,       \* Costed[t]: those of them whose tag rows produced a `cost`, t a graph topic
  K,            \* --db-writers, at least 1
  ChanCap,      \* WRITER_CHAN_CAP, in batches
  MaxRuns       \* bound: how often the program is started

Members == "relation_members"
Edges   == "edges"
Nodes   == "nodes"

AnyWayGraph == GraphTopics # <<>>
GraphTables == IF AnyWayGraph THEN <<Edges, Nodes>> ELSE <<>>

\* The streamed tables in the order `finish_select` and `finish_materialize` await them,
\* then the relation tables `write_rows_once` fills.
SelectTables == Tags \o <<Members>> \o NodeGeom
Sharded      == SelectTables \o GraphTables \o WayGeom
Tables       == Sharded \o RelGeom

\* The order of the schema statements.
SchemaOrder == Tags \o GraphTables \o <<Members>> \o NodeGeom \o WayGeom \o RelGeom

SetOf(s) == {s[i] : i \in DOMAIN s}

TableName == STRING

ASSUME PgRunAssumption ==
  /\ {Members, Edges, Nodes} \subseteq TableName
  /\ Tags \in Seq(TableName) /\ NodeGeom \in Seq(TableName)
  /\ WayGeom \in Seq(TableName) /\ RelGeom \in Seq(TableName)
  /\ GraphTopics \in Seq(SetOf(Tags))
  /\ \A i, j \in DOMAIN Tables : i # j => Tables[i] # Tables[j]
  /\ Ids \in [SetOf(Tables) -> SUBSET Nat]
  /\ \A t \in SetOf(Tables) : IsFiniteSet(Ids[t])
  /\ \A t \in SetOf(GraphTopics) : Costed[t] \subseteq Ids[t]
  /\ K \in Nat \ {0}
  /\ ChanCap \in Nat \ {0}
  /\ MaxRuns \in Nat \ {0}

VARIABLES
  run,       \* number of the current run
  indexing,  \* --create-index of the current run
  phase,     \* where `main` is
  pos,       \* the table its loop is at, an index into SchemaOrder, Tables or GraphTopics
  writer,    \* writer[<<t, s>>]: "off", "wait" (for a connection), "copy", "done", "failed"
  got,       \* got[<<t, s>>]: batches sent to that writer
  pending,   \* pending[t]: batches not routed yet
  rows,      \* rows[t]: the committed rows <<run, id>>
  index,     \* tables whose indexes exist
  edgeRows   \* edgeRows[t]: the rows of `{t}_edge`, each a pair <<edge row, tag row>>

memory   == <<writer, got, pending>>
database == <<rows, index, edgeRows>>
vars     == <<run, indexing, phase, pos, writer, got, pending, rows, index, edgeRows>>

-----------------------------------------------------------------------------
Slots == SetOf(Sharded) \X (1..K)
SlotsOf(t) == {t} \X (1..K)

\* main.rs: tables besides the tag tables that stream for the whole run.
ExtraTables == 1 + Len(GraphTables) + Len(NodeGeom) + Len(WayGeom)

\* Seeded fault: the writers per table left out of the product.
PoolPerTable == Len(Tags) + ExtraTables + 2

PoolSize == (Len(Tags) + ExtraTables) * K + 2

Holding == {x \in Slots : writer[x] = "copy"}
Free    == PoolSize - Cardinality(Holding)

Streaming == phase \in {"select", "finish_select", "materialize", "finish_materialize"}
Ended     == phase \in {"ok", "failed"}

\* The batches of a phase have all been routed.
Routed(from, to) == \A i \in from..to : pending[Tables[i]] = {}

\* Seeded fault: a table's senders outlive the wait for its writers.
ClosedAfterAwait(t) == \E i \in DOMAIN Sharded : Sharded[i] = t /\ i < pos

\* A table's senders are dropped when its `finish` begins.
Closed(t) ==
  \E i \in DOMAIN Sharded :
     /\ Sharded[i] = t
     /\ i < pos \/ (i = pos /\ phase \in {"finish_select", "finish_materialize"})

Committed(done) ==
  [t \in SetOf(Tables) |->
     rows[t] \cup {<<run, i>> : i \in UNION {got[x] : x \in {y \in done : y[1] = t}}}]

Idle == /\ writer' = [x \in Slots |-> "off"]
        /\ got' = [x \in Slots |-> {}]
        /\ pending' = [t \in SetOf(Tables) |-> {}]

-----------------------------------------------------------------------------
\* A fresh database and the first start of the program.
Init ==
  /\ run = 1
  /\ indexing \in BOOLEAN
  /\ phase = "setup" /\ pos = 1
  /\ writer = [x \in Slots |-> "off"]
  /\ got = [x \in Slots |-> {}]
  /\ pending = [t \in SetOf(Tables) |-> {}]
  /\ rows = [t \in SetOf(Tables) |-> {}]
  /\ index = {}
  /\ edgeRows = [t \in SetOf(GraphTopics) |-> {}]

\* The program is started again, with or without --create-index.
StartAgain ==
  /\ Ended /\ run < MaxRuns
  /\ run' = run + 1
  /\ indexing' \in BOOLEAN
  /\ phase' = "setup" /\ pos' = 1
  /\ UNCHANGED <<memory, database>>

\* Seeded fault: the relation tables, which no streaming writer fills, left out of the list.
TruncateStreamed ==
  /\ phase = "setup"
  /\ rows' = [t \in SetOf(Tables) |-> IF t \in SetOf(Sharded) THEN {} ELSE rows[t]]
  /\ phase' = "drop" /\ pos' = 1
  /\ UNCHANGED <<run, indexing, memory, index, edgeRows>>

\* CREATE TABLE IF NOT EXISTS keeps what a table holds; one TRUNCATE then empties them all.
Truncate ==
  /\ phase = "setup"
  /\ rows' = [t \in SetOf(Tables) |-> {}]
  /\ phase' = "drop" /\ pos' = 1
  /\ UNCHANGED <<run, indexing, memory, index, edgeRows>>

\* Seeded fault: the last table of the list keeps its indexes.
DropIndexesButLast ==
  /\ phase = "drop" /\ pos <= Len(SchemaOrder)
  /\ index' = IF pos = Len(SchemaOrder) THEN index ELSE index \ {SchemaOrder[pos]}
  /\ pos' = pos + 1
  /\ UNCHANGED <<run, indexing, phase, memory, rows, edgeRows>>

\* One DROP INDEX batch per table.
DropIndexes ==
  /\ phase = "drop" /\ pos <= Len(SchemaOrder)
  /\ index' = index \ {SchemaOrder[pos]}
  /\ pos' = pos + 1
  /\ UNCHANGED <<run, indexing, phase, memory, rows, edgeRows>>

\* The pool is sized and `TableWriters::spawn` starts K writers per streamed table.
Spawn ==
  /\ phase = "drop" /\ pos > Len(SchemaOrder)
  /\ writer' = [x \in Slots |-> "wait"]
  /\ pending' = Ids
  /\ phase' = "select" /\ pos' = 1
  /\ UNCHANGED <<run, indexing, got, database>>

-----------------------------------------------------------------------------
(* The writer tasks.                                                       *)

\* `pool.get()`, kept until the COPY is finished.
Connect(x) ==
  /\ Streaming /\ writer[x] = "wait" /\ Free > 0
  /\ writer' = [writer EXCEPT ![x] = "copy"]
  /\ UNCHANGED <<run, indexing, phase, pos, got, pending, database>>

\* No connection, or a COPY the server rejects: nothing of that COPY is stored.  One
\* failing writer a run is enough, since the first error ends the run.
WriterFails(x) ==
  /\ Streaming /\ writer[x] \in {"wait", "copy"}
  /\ \A y \in Slots : writer[y] # "failed"
  /\ writer' = [writer EXCEPT ![x] = "failed"]
  /\ UNCHANGED <<run, indexing, phase, pos, got, pending, database>>

\* The channel is closed and drained: the COPY is finished and commits.
Commit(x) ==
  /\ Streaming /\ writer[x] = "copy" /\ Closed(x[1])
  /\ writer' = [writer EXCEPT ![x] = "done"]
  /\ rows' = Committed({x})
  /\ UNCHANGED <<run, indexing, phase, pos, got, pending, index, edgeRows>>

-----------------------------------------------------------------------------
(* The main task and its blocking threads.                                 *)

\* A `route_*` call: round-robin over the table's shards; the sender waits while the
\* channel is full, and drops the batch when its writer has failed.
Route(t, i) ==
  LET x == <<t, (Cardinality(Ids[t] \ pending[t]) % K) + 1>>
  IN  /\ \/ phase = "select" /\ t \in SetOf(SelectTables)
         \/ phase = "materialize" /\ t \in SetOf(GraphTables \o WayGeom)
      /\ i \in pending[t]
      /\ writer[x] = "wait" => Cardinality(got[x]) < ChanCap
      /\ pending' = [pending EXCEPT ![t] = @ \ {i}]
      /\ got' = IF writer[x] = "failed" THEN got ELSE [got EXCEPT ![x] = @ \cup {i}]
      /\ UNCHANGED <<run, indexing, phase, pos, writer, database>>

\* The select task has returned: `finish_select` begins.
BeginFinishSelect ==
  /\ phase = "select" /\ Routed(1, Len(SelectTables))
  /\ phase' = "finish_select"
  /\ UNCHANGED <<run, indexing, pos, memory, database>>

BeginFinishMaterialize ==
  /\ phase = "materialize" /\ Routed(Len(SelectTables) + 1, Len(Sharded))
  /\ phase' = IF Len(Sharded) = Len(SelectTables) THEN "relations" ELSE "finish_materialize"
  /\ UNCHANGED <<run, indexing, pos, memory, database>>

AfterTable(i) ==
  IF i = Len(SelectTables) THEN "materialize"
  ELSE IF i = Len(Sharded) THEN "relations" ELSE phase

\* Every handle of the table at hand has returned its count.
FinishTable ==
  /\ phase \in {"finish_select", "finish_materialize"}
  /\ \A x \in SlotsOf(Sharded[pos]) : writer[x] = "done"
  /\ phase' = AfterTable(pos) /\ pos' = pos + 1
  /\ UNCHANGED <<run, indexing, memory, database>>

\* The first error among the handles, in shard order, ends the run.  Every sender is
\* dropped on the way out, so the other writers commit what they were sent or are
\* cancelled with the runtime.
FinishFails ==
  /\ phase \in {"finish_select", "finish_materialize"}
  /\ \E s \in 1..K :
       /\ writer[<<Sharded[pos], s>>] = "failed"
       /\ \A r \in 1..(s - 1) : writer[<<Sharded[pos], r>>] = "done"
  /\ \E done \in SUBSET Holding : rows' = Committed(done)
  /\ phase' = "failed" /\ Idle
  /\ UNCHANGED <<run, indexing, pos, index, edgeRows>>

\* `write_rows_once` for one relation table: one connection, one COPY.
WriteRelations ==
  /\ phase = "relations" /\ pos <= Len(Tables) /\ Free > 0
  /\ rows' = [rows EXCEPT ![Tables[pos]] = @ \cup {<<run, i>> : i \in Ids[Tables[pos]]}]
  /\ pos' = pos + 1
  /\ UNCHANGED <<run, indexing, phase, memory, index, edgeRows>>

BeginFinalize ==
  /\ phase = "relations" /\ pos > Len(Tables)
  /\ phase' = "finalize" /\ pos' = 1
  /\ UNCHANGED <<run, indexing, memory, database>>

\* One unit of `create_indexes`; the units run concurrently, a connection each.
BuildIndexes(t) ==
  /\ phase = "finalize" /\ indexing /\ Free > 0
  /\ t \notin index
  /\ index' = index \cup {t}
  /\ UNCHANGED <<run, indexing, phase, pos, memory, rows, edgeRows>>

BeginEdges ==
  /\ phase = "finalize"
  /\ indexing => index = SetOf(Tables)
  /\ phase' = "edges"
  /\ UNCHANGED <<run, indexing, pos, memory, database>>

\* The join on `osm_id` alone, of the tag rows that produced a cost.
Joined(t) == {p \in rows[Edges] \X rows[t] : p[1][2] = p[2][2] /\ p[2][2] \in Costed[t]}

\* Seeded fault: CREATE TABLE IF NOT EXISTS instead of DROP and CREATE.
MaterializeOnce ==
  /\ phase = "edges" /\ pos <= Len(GraphTopics)
  /\ edgeRows' = [edgeRows EXCEPT ![GraphTopics[pos]] = IF @ = {} THEN Joined(GraphTopics[pos]) ELSE @]
  /\ pos' = pos + 1
  /\ UNCHANGED <<run, indexing, phase, memory, rows, index>>

\* `topic_edges::materialize`: DROP and CREATE TABLE AS, one transaction.
MaterializeEdges ==
  /\ phase = "edges" /\ pos <= Len(GraphTopics)
  /\ edgeRows' = [edgeRows EXCEPT ![GraphTopics[pos]] = Joined(GraphTopics[pos])]
  /\ pos' = pos + 1
  /\ UNCHANGED <<run, indexing, phase, memory, rows, index>>

Succeed ==
  /\ phase = "edges" /\ pos > Len(GraphTopics)
  /\ phase' = "ok" /\ Idle
  /\ UNCHANGED <<run, indexing, pos, database>>

\* A statement of the main task fails, or the process is killed: the server aborts the
\* COPYs that have not committed.
Die ==
  /\ ~Ended
  /\ phase' = "failed" /\ Idle
  /\ UNCHANGED <<run, indexing, pos, database>>

\* The last run is over.
Stopped == Ended /\ run = MaxRuns /\ UNCHANGED vars

Main ==
  \/ Truncate \/ DropIndexes \/ Spawn
  \/ \E t \in SetOf(Sharded) : \E i \in pending[t] : Route(t, i)
  \/ BeginFinishSelect \/ BeginFinishMaterialize \/ FinishTable \/ FinishFails
  \/ WriteRelations \/ BeginFinalize
  \/ \E t \in SetOf(Tables) : BuildIndexes(t)
  \/ BeginEdges \/ MaterializeEdges \/ Succeed

Work == Main \/ \E x \in Slots : Connect(x) \/ Commit(x)

Next ==
  \/ Work
  \/ \E x \in Slots : WriterFails(x)
  \/ Die \/ StartAgain \/ Stopped

Spec == Init /\ [][Next]_vars

\* The runtime keeps running whatever is runnable; neither a failure nor another start is
\* ever owed.  Every one of these steps happens finitely often in a run, so fairness to
\* them as a whole is enough.
Fairness == WF_vars(Work)

FairSpec == Spec /\ Fairness

-----------------------------------------------------------------------------
(***************************************************************************)
(* Properties                                                              *)
(***************************************************************************)

TypeOK ==
  /\ run \in 1..MaxRuns
  /\ indexing \in BOOLEAN
  /\ phase \in {"setup", "drop", "select", "finish_select", "materialize",
                "finish_materialize", "relations", "finalize", "edges", "ok", "failed"}
  /\ pos \in Nat \ {0}
  /\ writer \in [Slots -> {"off", "wait", "copy", "done", "failed"}]
  /\ got \in [Slots -> SUBSET Nat]
  /\ pending \in [SetOf(Tables) -> SUBSET Nat]
  /\ rows \in [SetOf(Tables) -> SUBSET (Nat \X Nat)]
  /\ index \subseteq SetOf(Tables)
  /\ edgeRows \in [SetOf(GraphTopics) -> SUBSET ((Nat \X Nat) \X (Nat \X Nat))]

\* The retry promise: a run that reports success leaves every table of the configuration
\* with exactly its own rows, whatever earlier runs committed before they died.
OnlyThisRun ==
  phase = "ok" => \A t \in SetOf(Tables) : rows[t] = {run} \X Ids[t]

\* `{table}_edge` pairs each edge of this run with the tag row of the same way, if that row
\* produced a cost to travel at, and with no row of a run before.
EdgeTablesAreCurrent ==
  phase = "ok" =>
    \A t \in SetOf(GraphTopics) :
      edgeRows[t] = {<<<<run, i>>, <<run, i>>>> : i \in Ids[Edges] \cap Costed[t]}

\* Rows are copied into tables without indexes, the reason they are dropped first, even
\* when an earlier run died between dropping and building them; and a run that was asked
\* for indexes ends with all of them.
IndexesFollowTheRows ==
  /\ Streaming \/ phase = "relations" => index = {}
  /\ phase = "ok" => index = IF indexing THEN SetOf(Tables) ELSE {}

\* No writer ever waits for a connection that another writer has to give back: the pool is
\* large enough for the writers of every table at once, with room to spare.
ConnectionForEveryWriter ==
  (\E x \in Slots : writer[x] = "wait") => Free > 0

\* Every run ends: no writer, channel or `finish` waits for something that cannot happen.
RunEnds == []<>Ended

=============================================================================

# OSMnexus in TLA+

A verification development for OSMnexus, the pipeline that classifies an OpenStreetMap
extract (PBF) by topic and writes tag rows, a routing graph and geometries to Postgres, CSV,
GeoJSON or Parquet. The modules model the engine's control: what is routed where, in which
order, by which thread, and what happens when something fails; how a topic's configuration is
loaded, and what rows it makes of an element. TLC checks them on small instances; TLAPS proves,
for every instance, the select phase with both its readers, the graph and way geometry of the
materialize phase, the output layer, the staged export and the Postgres import around it, the
identity of rows, the coordinate store, the expansion of macros, and the way from a list of
conditions to an object's category: their lowering, the order of the categories and the
discrimination net.

Paths below are relative to the repository (`src/` is its root here, so the engine is
`src/src/`, the language crate `src/crates/osmnexus-lang/`, the editor `src/editor/`).

## 1. Inventory

One run of the engine (`src/src/main.rs`) is:

```
 PBF ─► select phase ──SelectionContext──► materialize phase ──► relation rows ─► finalize/export
           │ tag rows, points, links            │ edges, way geometry, nodes
           ▼                                    ▼
        TableWriters: one Shard per table ─► w bounded channels ─► w writer tasks
```

| Component | Code | State it keeps | Operations | Hard behaviour |
|---|---|---|---|---|
| Sharded table writers | `output/sinks.rs`, `output/writers.rs` | per table: round-robin counter, per-shard mutex-guarded buffers, bounded channels, writer tasks | `spawn`, `send`, `finish`; `recv` loop | concurrent senders, swallowed send errors, back pressure, shutdown order, failing writers |
| Select phase | `osm/reader/{mod,sorted,fallback,blob_index,resolve}.rs`, `processing.rs` | region bounds, three passes' accumulators, `SelectionContext` | bisection, chunked parallel decode and sequential fold, three full scans | ordered against unordered routing, two implementations of the same passes, blob boundaries, pass order |
| Selection stores | `osm/reader/{way_refs,rel_members,memory_coords,store}.rs` | encoded refs, members, coordinates in hashed arenas | build, lookup, iterate, ordered and unordered routing | permutation in place with a bit in a second array, wrapping differences, empty and one-node ways |
| Inheritance | `topic/inherit.rs` | exported fields per topic and relation | `capture` (relations), `parents_for` (ways) | must be complete before the first way; the order of the parents |
| Materialize phase | `geom/{materialize,builders,relation,plan}.rs` | node ids, rows | id assignment, edge building, way routing, ring assembly | nodes missing from the file, cut points computed twice, greedy assembly, a worker that panics |
| Staged export | `output/{geojson,cursor,stage,parquet}.rs` | forward cursors: position, pending, last | `for_each_feature`, `get`, `get_all` | joins two files by order alone |
| Topic pipeline | `topic/pipeline.rs`, `csv_source.rs` | none (pure) | `process`, `build_topic_rows`, the untagged probe | sides, parents, exclusion, hash-map order, ids of several rows of one element |
| Decision tree | `osmnexus-lang/src/decision_tree` | the net being built: branches, leaves, candidates left | `build_tree` with lookahead, `resolve_first` | equivalence with first match, three-valued conditions, matches that are not final |
| Categorization, transforms, linter | `osmnexus-lang/src/categorize` | the order being built, compiled categories | `build_order`, `categorize`, transforms, lint | the answer must not depend on which topological order is taken |
| Expression language | `osmnexus-lang/src/lang` | none (pure) | filters, extracts, producers: parse, lower, evaluate | every condition exists twice, as a filter and as a lowered expression |
| Topic configuration | `osmnexus-lang/src/topic` | macro table and stack, categories by index | expand macros, merge scopes, resolve references, number and cascade categories, refuse | circles, scopes that shadow, passes that must not resolve twice |
| Postgres backend | `src/src/db/` | pool, tables, indexes, edge tables | setup, COPY, finalize | pool size, failure between statements, a run after a dead one |
| Live editor | `editor/lib/liveEditor.ts`, `editor/components/` | current config, topic, target, working directory; debounce timers | HTTP handlers that run the engine | concurrent requests on shared state, answers out of order |
| Code generation, tools | `crates/osmnexus-codegen`, `src/src/bin` | none | formatting | none |

What makes each modelled component correct:

* **Table writers**: no row is lost without the run failing, none is written twice, success
  means complete, memory is bounded, and the run ends.
* **Select**: each row of each kept element is routed exactly once and the context is a
  function of the file and the configuration, whatever the blob layout, chunking, interleaving
  and path; an ordered run keeps file order.
* **Materialize**: edges tile their ways and meet only at vertices, vertex rows and edge ends
  agree, each topic gets the geometry of what it kept in the order of its tag rows, relation
  lines consist of their members' steps.
* **Export**: no row gets another element's geometry or a part of its own; while rows come in the
  order they were routed in, a forward cursor returns what a random-access lookup would.
* **Decision tree**: the compiled net gives every object the answer of the walk over the whole list of
  lowered conditions, and of the list as it is written where lowering keeps what a condition means.
* **Postgres import**: after a run that reports success the database holds its rows and no
  others, whatever earlier runs left; writers never wait for each other's connections.
* **Stores**: what is read back is what was collected, bit by bit, at every width.
* **Topic rows**: rows of an element keep apart wherever the topic gives them the means to, side objects say what the most specific tag
  says, members inherit from their own relations, a skipped element had no row.
* **Topic load**: a topic is refused exactly when its files are at fault, and means what they say.
* **Categories**: an order exists exactly when the exclusions do not contradict each other, and
  among the categories an object matches the one that wins is the one nothing else beats.

`PROJECT.json` lists every component and every hazard with its line and the properties that
would catch it; hazards no property covers yet say why.

## 2. Modules

| Module | Models | State and actions against the code |
|---|---|---|
| `TablePromise` | the abstract table | `routed`, `stored`, `outcome`; `Route`, `Store`, `Succeed`, `Fail` |
| `Shard` | `Shard<T>` and its writer tasks | `rr`, `buf`, `chan` are the fields of `Shard`; `pc/target/held` a producer inside `send`; `Pick` is `fetch_add`, `Buffer` the critical section, `Send` the `blocking_send`; `Write/EndOfRows/Fail` the writer tasks; `BeginFinish/Flush/DropSenders/Await/Succeed` the owner in `finish` |
| `Positions` | `Ascending` and `ItemsAt` | no state: what a sorted list of ids, and a filtered list, are to `Select` and `Materialize` |
| `SequenceLemmas` | lemmas about `Positions` and concatenation | section 5 |
| `OrderedExport` | a staged table and its export | extends `Shard` with one ordered producer, whose calls are whole chunks, and one writer; `table` and `edges` are the two files, `pos/pending/last` and `edgePos/edgeLast` the cursors; `JoinRow` is a round of `for_each_feature`: the topic's own geometry (`Get`), and the segments (`GetAll`) if that gave none |
| `ExportProofs` | theorems about `Shard` and `OrderedExport` | section 5 |
| `Select` | `stream_osm` | `Classify(b)` is the parallel closure on one blob, `FoldRelations/FoldWays/FoldNodes` the sequential folds of a chunk, `NextPass` the hand-over; `ScanRelations/ScanWay/EndOfWays/ScanNode/EndOfNodes` the fallback |
| `SelectProofs` | theorems about `Select` | section 5 |
| `Materialize` | `geom::materialize::run` | `AssignIds`, `RouteWay`, `EndOfKeptWays`, `BuildRelation`, `Finish`; ring assembly as rounds of `AssembleStep` |
| `MaterializeProofs` | theorems about `Materialize` | section 5 |
| `Conditions` | filters and their lowering | no state: `Eval` is `lang::filter::eval`, `FilterToExpr`/`ToNNF` the lowering, `Kleene`/`Decide`/`Simplify` the folding of one fact, `EvalExpr` the evaluator of what is left; `case_insensitive` and every scope are there. These are recursive: `XBody` is what one call of `X` makes of the results for the parts, and the constant `X` is the function for which that equation holds |
| `DecisionTree` | the discrimination net | `todo` are the calls of `build_rec` still to make, `tree` the nodes made, named by the facts on the way to them; `BuildNode` is one call (leaf, greedy branch, two-ply lookahead), `Ask` a walk down the finished net (`candidates`, `resolve_first`); `Matching` and `MatchingLowered` are the two readings of the list, `Plain` says where they must agree |
| `CategoryOrder` | `build_order` | `indeg`, `ready`, `names` are its locals; `PopReady` is a turn of the loop, `Finish` what follows it |
| `Categorize` | both users of the net | `LoadFile`, `Sort`, `Compile` for a categories file (a match is final); `LoadMatch` for the rules of a `Producer::Match` (a match may produce nothing) |
| `Language` | the conditions of an instance | no state: all that the conditions consist of and are compiled to, closed under what the compiler does (section 5) |
| `CategorizeProofs` | theorems about `CategoryOrder`, `DecisionTree`, `Categorize` | section 5 |
| `PgRun` | one Postgres import after another | `phase`/`pos` are where `main` is, `writer/got/pending` the tasks and what they were sent, `rows/index/edgeRows` the database; `Truncate`, `DropIndexes`, `Spawn`; `Connect`, `Commit`, `WriterFails`; `Route`, `FinishTable`, `FinishFails`, `WriteRelations`, `BuildIndexes`, `MaterializeEdges` (the edges joined with the rows that produced a cost); `Die` at any point and `StartAgain` |
| `PgRunProofs` | theorems about `PgRun` | section 5 |
| `TopicRows` | a topic at work on its elements | `frames` are the object under transformation and the clone above it, `scan` the keys a step has still to visit, `clones/out/made` what `build_topic_rows` collects; one action per transform step (`ApplyRule`, `ApplyDirected`, `ApplyDrop`, `StartScan`/`VisitKey` for unnest and strip, `StartClone`/`KeepClone`), `Emit` a row, `Probe`/`FinishProbe` the untagged probe, `FinishElement` also the capture of a relation's fields |
| `TopicExamples` | nine topics and their inputs | what `Holds`, `Produce` and `Category` are for the instances |
| `TopicRowsProofs` | theorems about `TopicRows` | section 5 |
| `NodeStore` | `NodeCoords::build` and lookups | `records/shared/placed` are the arrays, `item/carry` the record and bit in hand; `Lift`, `Displace`, `Close`, `SkipPlaced` are the turns of the two loops, `ClaimedTwice` the assertions |
| `RefCodec` | zigzag, varints, arenas and offsets | no state: the encoders, and the iterators a step at a time (`NextRef`) |
| `Stores` | the stores together | extends the two above: `LayOut` builds the arenas, `Open`, `ReadRef`, `CloseWay` resolve a way's line through the coordinates |
| `MacroTable` | `resolve_macros` | `opened` is the stack of names with the place in each body, `expanded` what has been copied, `table` what is stored; `Begin`, `Copy`, `Enter`, `Leave`, `Store`, `Refuse` |
| `AlgorithmProofs` | theorems about `MacroTable` and `NodeStore` | section 5 |
| `TopicLoad` | `Topic::load` | extends `MacroTable`: `at` is the next part of the load and `loading` what has been loaded; an object inside a document is a leaf that holds it, so shared producers are followed to any depth; one action per file or check, each of which may refuse, and one `Cascade` per kind |
| `MCImport`, `MCTopicLife` | instances for TLC | three models side by side in one run each: section 3 |
| other `MC*` | instances for TLC | constants only |

Composition: `OrderedExport` builds on `Shard`; `Materialize` starts from any context the
select phase may leave (its assumption states what `Select`'s `ContextIsReference` and
`FileOrder` establish: masks, kept orders without repetition, forced nodes that exist and are
referenced). `Categorize` extends `CategoryOrder` and `DecisionTree`: the order of the names
becomes the list of conditions the net is built from. `TopicLoad` extends `MacroTable` and `Stores`
extends `NodeStore` and `RefCodec`. `PgRun` is `main` around the writers: what `Shard` shows of one
table (a closed channel is drained; a failed writer surfaces in `finish`) is a step there.
`TopicRows` gives the rows that `Select` routes as one unit: `Select` says when a relation's
fields are captured and in which order elements are shown, `TopicRows` what is made of them, with conditions and
categories as parameters that `Conditions` and `Categorize` describe. The recursive functions of
`Conditions` and `DecisionTree` are operators given as constants, each with its equation;
`MCCategorize` ties the knot, so that TLC evaluates the recursion, and `Language` assumes
the equation for the expressions of the instance. `TopicLoad` is recursive on documents and `RefCodec` on
bytes: these two are for TLC only.

Abstractions, all of data: tags are the set of topics that keep an element; a row is its
element, topic and parents; a coordinate is the node it belongs to (the engine compares
coordinates by equality only, so two nodes at the same place are not distinguished from one);
EWKB, projection, lengths and JSON are left out; a hash is any function
that separates what it was built for. A document is the sequence of its leaves; a key is the
sequence of its colon-separated words. Where an iteration follows a
hash table, the model takes an arbitrary order: the keys of a tag map, the macros of a table, the
kinds whose categories are numbered, and any of the equally good branches of
a node, which the code takes as they come out of a hash set. The category names have no
alphabet: any ready name may be popped, so a result covers every way of naming the categories.
The children of a node are built one after the other although a large node forks them; the
calls share nothing but their arguments. An atom about a value alone (`Contains`,
`StartsWith`, `EndsWith`, the numeric ones) is the set of values that satisfy it.

Each module keeps, beside some definitions, a variant of it marked *seeded fault*: a plausible
bug. The manifest's mutants replace the definition by the variant to show that the property
notices. No specification uses them.

## 3. Runs

| Run | Checks | Shows |
|---|---|---|
| `shard` | `TypeOK`, `Conserved`, `Bounded`, `LossIsReported`, `CountIsExact`, `ImplementsPromise`, `Finishes` | the table writers are correct, with one writer that may fail at any time |
| `ordered_export` | `OnlyOvertaken`, `JoinIsExact` | calls below and above a batch, own geometry and shared edges with a foreign way: what may be out of order, and what a row is given then |
| `import` | of `Select`: `RowsOnce`, `ContextIsReference`, `FileOrder` | both readers agree with one reference reading of the file, if a header that declares the order tells the truth (`HonestInit`) |
| | of `Stores`: `LookupsAreExact`, `PanicsIffDuplicate`, `LinesAreReadBack`, `ArenasAreReadBack` | what the select phase stored is what the materialize phase reads |
| | of `Materialize`: `EdgesTileWays`, `NodesMatchEdges`, `CutPointsAreNumbered`, `MeetAtVertices`, `GeometryFollowsTags`, `RelationLinesAreMembers` | graph and geometries are consistent when every kept way has its end nodes |
| `topic_life` | of `TopicLoad`: `RefusedIffBroken`, `DocumentsMeanWhatTheySay`, `RefusedIffFaulty`, `EachCategoryItsFields` | a configuration is refused exactly when it is at fault, and loaded as it is written |
| | of `Categorize`: `NetFollowsLowering`, `FoldsAreSound`, `WinnersComeFirst`, `RefusedIffContradictory`, `WinnerIsUnbeaten` | from a categories file or a rule list to the answer for one object |
| | of `TopicRows`: `OnlyKnownClashes`, `ProbeIsSound`, `MostSpecificWins`, `InheritedFromItsRelations` | what a topic makes of its elements, for every order of a hash map |
| `pg_run` | `OnlyThisRun`, `EdgeTablesAreCurrent`, `IndexesFollowTheRows`, `ConnectionForEveryWriter`, `RunEnds` | two starts of an import, each of which may lose a writer or die anywhere |
| `foreign_edges` | `JoinIsLookup` (violated) | one foreign way in `edges.bin` stops the edge cursor |
| `overtaken` | `RoutedOrder` (violated) | a call as large as a batch is staged ahead of the rows still buffered |
| `clipped_extract` | `CutPointsAreNumbered` (violated) | a missing end node panics the run |
| `lowered` | `TreeMatchesLinear` (violated) | conditions that lowering does not keep: the net answers otherwise than the list |
| `listed_twice` | `RowIdsAreUnique` (violated) | a relation that lists a way twice gives two rows one id |
| `no_id` | `RowIdsAreUnique` (violated) | a topic without an id column fans a way out into rows with one key |
| `null_beside_all` | `NullBesideAllIsRefused` (violated) | two ways of passing every tag through are loaded together |

The violated properties state what comments of the code promise; `findings` quotes each
comment with the line that departs from it. Section 6 lists smaller departures that have no run.
For five of them the passing runs check what the code does keep, on inputs that include the
violating ones: `OnlyOvertaken` for `RoutedOrder`, `JoinIsExact` for `JoinIsLookup`,
`NetFollowsLowering` for `TreeMatchesLinear`, `OnlyKnownClashes` for `RowIdsAreUnique`.

`import` and `topic_life` each check three models in one run. A behaviour is one of one of the three
(`phaseRun`, `partRun`), starts in that model's initial states and takes its steps; the variables of the
other two stay as they are before their first step, where their properties say nothing. The models
do not touch each other there, so the run shows what three runs would.

### Bounds

* `shard`: two producers with calls of 1 to 3 rows, `SendBatch` 2, two writers, channels of one
  batch. A call may be below, at or above a batch; both producers meet in one buffer; a buffer
  is swapped, flushed empty and flushed full; a channel fills; the failing writer fails before,
  between and after its batches. A third producer or writer adds no new kind of step: the
  theorems of section 5 cover any number.
  `Failing` is that writer; any other never fails.
* `ordered_export`: two calls below a batch that fill it together, the second with a side-split way, one that
  stays in the buffer, and one of a whole batch that overtakes it; four ways with a row, one without
  that only `edges.bin` has. Every combination of absent, empty and present geometry in the
  topic's own table with zero to two segments in `edges.bin`, so a way may have both. `foreign_edges` and `overtaken` are
  instances of the same module.
* `import`, select phase: three files. One has several blobs per region, chunks of two blobs that end inside
  and at the end of a region, an inherited way that one of its relations lists twice, a relation-only way, references to nodes and
  ways the file lacks; one has no kept relation; one interleaves kinds and takes the fallback.
  Modes: ordered or not, graph or not, inheritance or not, nodes or not, untagged nodes skipped or not.
  `HonestInit` takes the files that keep the order under every mode, the interleaved one only under
  the modes without the header (section 6 says what a header that lies would do).
* `import`, stores: ids of four bits and varints of two bits a byte, with the ids at both ends of the range, so
  differences wrap and take one byte or two. Up to four records with every hash, which gives
  permutations with cycles of every length up to four, and lists that repeat an id.
  Offsets have five bits and the arenas stay below their limit.
* `import`, materialize phase: ways that are open, closed, pass through their own middle, or have one node;
  every inner node present or missing; a forced cut or none; relations with repeated ends, an
  absent member, line and polygon shapes.
* `topic_life`, categories: two tags with three and two values, sides, a parent and a `_prefix`. Every list of
  three rules over a pool of seven conditions that covers each kind of filter and of branch key,
  with negations, a first-present list, a sanitizer that maps two values to one and drops a third;
  a list of five with nothing to split on; every list of two over six more, among them a case-blind
  test and, under `Parent`, a negation, a test of keys and one of empty tags. Every categories file over three categories
  and a macro from a grid with cycles of two and three, a self-exclusion and an unknown name. The
  thresholds are scaled down with the lists so that branches, leaves of several candidates,
  the depth limit and the lookahead are all reached: `LeafMax` 1, `LookaheadMin` 2, `MaxDepth` 2,
  `MatchTreeMin` 1. One question is put to each tree: an answer changes nothing.
* `pg_run`: a tag table of three rows, two of them with a cost and two with an edge, the shared edges and nodes, the
  member table and a relation table; two writers per table and channels of one batch: the third batch of the tag table
  goes to a writer whose channel is still full when that writer waits for a connection, and then blocks. Two
  starts, the second with or without indexes whatever the first had: what a dead run leaves
  behind is rows, indexes, edges or any mixture, and a third start finds nothing a second does not.
  `Die` is possible in every state, one writer may fail per run (the first error ends it).
* `topic_life`, rows: nine topics with every kind of transform step, each over every subset of the tags it
  reacts to; one to four elements, with two relations that share a member, one of which may
  export nothing or list a way twice. Three of the topics let rows clash: one that fans out without an id column, one
  that leaves the kind out of the ids of two kinds, one whose clones share a suffix. Every element is
  probed first.
* `topic_life`, load: one ordinary configuration (two kinds, a family of two variants, plain files, one stem in
  both kinds, two levels of macros and sanitizers, shared producers that extend each other and that stand inside
  another's keys, a transform pipeline) and others, 644 in all, with one or two parts changed: a macro that names
  itself, another or nothing, a name that shadows a shared one, an unknown reference in each place that may
  hold one, at the top and nested, `producers` as a map, `true` or `false`, each check of the loader provoked.

### Fairness

`shard` and `pg_run` check liveness. In `shard`, `FairSpec` gives each producer step, each writer's `recv` loop
and each step of the owner weak fairness: rayon and tokio run every runnable thread and task,
and a thread blocked on a channel or a mutex becomes runnable when there is room. The critical
section is one action, so no fairness of the mutex is needed. `Fail` has none: a writer need
not fail. In `pg_run` it is weak fairness of all work steps together: within a run each of them
happens finitely often (a batch is routed once, a table finished once), so none can starve another
for ever. Failing, dying and starting again get none: `RunEnds` says a run ends although nothing has to
fail, which is the absence of a hang between channels, connections and awaits. Writers are assumed to make progress on a connection or a file; a database that hangs
for ever hangs the run, in the model as in the code.

`CHECK_DEADLOCK` stays on in every passing run: finished states have an explicit stuttering action, also a
refused file, an answered question and a panic. The other modules state no liveness: they are sequential
computations whose loops shrink a finite set, and the deadlock check shows that they do not stop half-way.

## 4. What the properties say about the code

* `LossIsReported` is the reason `let _ = senders[k].blocking_send(..)` is sound: the only
  closed channel a sender can meet is one whose writer returned an error, and `finish` awaits
  it. `AwaitIgnoringErrors` shows the argument needs every handle's error.
* `ImplementsPromise` needs `BeginFinish` to wait for all producers: in the code that is
  `Arc::try_unwrap` after the phase's task has ended.
* `RowsOnce` compares four ways through the reader (sorted or fallback, ordered or not) with
  one set. `FoldWays` and `ScanWay` repeat the same decisions in different code.
* `FileOrder` asks of the kept orders more than of the rows: the export reads both forward and
  gives up what it has passed, so an element listed twice, or without a row, shifts all that follow.
* `MeetAtVertices` is what a router needs: it fails as soon as a cut index is computed over
  refs instead of resolved nodes (`CutPointsOfRefs`).
* `NetFollowsLowering`, also a theorem, compares two searches, and two implementations of every condition (`Eval` on the
  filter, folding and `EvalExpr` on its lowering) where they agree, which `Plain` says; `lowered` shows what the
  others do. `FoldsAreSound` says why it holds, at every node while the net is built. Denying the earlier conditions is what makes nets small,
  and is wrong for a `Match` (`CandidatesAlwaysFinal`); so is denying a value
  that was not enumerated (`DecideWildcardAll`).
* `WinnerIsUnbeaten` is stated under the promise the overlap lint makes to the author of a file: of
  two nodes an object matches, at least one a category, one excludes the other. Without it
  the answer depends on the alphabet.
* `OnlyThisRun` holds because TRUNCATE names every table of the configuration, also those no
  streaming writer fills (`TruncateStreamed` forgets them), and because success waits for every
  COPY. After a run that died nothing is promised, and nothing holds: rows of some
  tables, no indexes, edges of an earlier run.
* `ConnectionForEveryWriter` is what keeps `RunEnds` true: a writer of a late table that waited for a
  connection held by an early one would wait for ever, since the early one waits for its channel to close.
* `MostSpecificWins`, also a theorem, quantifies over the order in which tags come out of a hash map:
  bare, `both` and sided keys are unnested by three passes in that order, so a later pass must win
  whatever the order within one. It does not speak of names that rules, directed steps or companions (`source:`, `note:`)
  write, and not of the prefix where a key repeats it: with `cycleway` and
  `cycleway:cycleway` on one way the hash map's order decides which value is kept. A name that begins with
  a side comes only from a key with two sides.
* `ProbeIsSound` justifies not looking at untagged nodes at all. It fails as soon as the probe looks
  at the categories only (`FinishProbeByCategories`).
* `OnlyKnownClashes` holds of every topic the loader lets through and names what may make two rows of one table alike: ids
  without the kind over two kinds, no id column for an element of several rows, a suffix given to two clones,
  a way listed twice, which in public transport is common. The comments promise more, and `listed_twice` and
  `no_id` show two that they overlook.
* `RoutedOrder` is what a forward cursor relies on and `send` does not give: a row of a batch-sized call may
  overtake a buffered one, and no other may (`OnlyOvertaken`). `JoinIsExact` says what it costs: a row that comes too
  late, and those that waited for it, may be given nothing, but none is given another's geometry.
* `EachCategoryItsFields` holds for a node and a way category of one stem too: fields are found by a number
  that runs over all kinds, so that what `topic/model.rs:349-350` warns of does not happen.
* `PanicsIffDuplicate`: the two assertions of the permutation loop are the only check against an id
  collected twice, and they never fire otherwise.
* `DocumentsMeanWhatTheySay` compares the loader's several passes (macros first, sanitizers in
  place, shared producers inlined) with one recursive reading of a document in its scopes.
* `NodesMatchEdges` allows vertices without edges for ways too short to have a geometry: the
  code numbers their ends all the same.

## 5. Proofs

`ExportProofs.tla` on `Shard`, for every set of producers, every list of calls, every number of writers,
batch size and capacity (`ShardAssumption` only):

| Theorem | States |
|---|---|
| `TypeCorrect` | `Spec => []TypeOK` |
| `Invariance` | `Spec => []IInv` |
| `RowsAreConserved` | `Spec => []Conserved` |
| `MemoryIsBounded` | `Spec => []Bounded` |
| `LossSurfaces` | `Spec => []LossIsReported` |
| `EveryRowIsInOnePlace` | `Spec => [](Apart /\ Counted)` |
| `CountIsRows` | `Spec => []CountIsExact` |
| `StoredOnce` | no row is in two tables, nor twice in one |
| `Refinement` | `Spec => Promise!Spec` |

The argument. `Conserved` alone says nothing about where rows may be in a given stage, so it does
not imply that success is complete. `IInv` adds: a producer that is idle holds nothing (`Resting`);
past routing every producer has returned, and the owner's cursor has emptied the buffers it has
passed, all of them once the senders are dropped (`Owned`); a writer is done only with an empty
channel after closing, and the handles already awaited belong to writers that are done
(`Settled`); rows are lost only when some writer failed (`LossHasCause`). From these, in
`ok` every writer is done, so nothing is lost, held, buffered or queued, and `Conserved` leaves
only `Written`; that is the step `Succeed` of the refinement. The other steps map to `Route`
(`Pick`), `Store` (`Write`), `Fail` (an awaited error) or a stutter. TLC has checked `IInv` on the instance
of `shard` as well. The number of rows needs the other half, that nothing is there twice:
`Apart` says that the five kinds of place share no row and that none lists one twice, within a
sequence or across the sequences of a kind, and each step moves rows from one place to another.
What the owner has added up is then a cardinality (`Counted`), and by `Conserved` that of all rows.

`SelectProofs.tla`, for any files, blob layouts, modes and chunk size (`SelectAssumption`):

| Theorem | States |
|---|---|
| `SelectInvariant` | `HonestSpec => []SelectInv` |
| `ContextIsDetermined` | `HonestSpec => []ContextIsReference` |
| `RowsInvariant` | `HonestSpec => [](SelectInv /\ RowInv)` |
| `RowsAreRoutedOnce` | `HonestSpec => []RowsOnce` |
| `OrderIsTheFiles` | `HonestSpec => []FileOrder` |

The argument starts with the file. A bisection returns a place in its range, and when the blobs it
looks for are the last ones, the first of them (`BisectRange`); in an honest file the way and the
relation blobs are the last ones, so the three regions hold all blobs of their kind (`Layout`).
`SelectInv` says which blobs are done (`Control`: the folded ones lie before `at`, the classified
ones in the chunk) and that each part of the context is the reference restricted to them
(`Progress`). One pass must be complete before the next reads it: a way's parents are the
reference's because every relation has been folded, in the fallback every relation
scanned, and a node is shared or forced according to all ways. `RowInv` says of the rows that
they are those of the elements routed so far, and that no two of them, the earlier first, are a *bad
pair*: the same row twice, or in an ordered run the rows of two elements of one kind in the wrong
order. A concatenation has no bad pair when neither part has one and none lies across, so the
proof goes from the rows of an element to those of a blob, a chunk and all of them (`Fits` is the
condition across), with the same lemmas for the kept orders.

`MaterializeProofs.tla`, for any contexts the select phase may leave (`MaterializeAssumption`):

| Theorem | States |
|---|---|
| `MaterializeInvariant` | `MaterializeSpec => []MIInv` |
| `EveryCutPointIsNumbered` | `MaterializeSpec => [](EndsInFile => CutPointsAreNumbered)` |
| `WaysMeetAtVertices` | `MaterializeSpec => []MeetAtVertices` |
| `EdgesTileTheirWays` | `MaterializeSpec => []EdgesTileWays` |
| `NodesAreTheEndsOfEdges` | `MaterializeSpec => [](EndsInFile => NodesMatchEdges)` |
| `WayGeometryFollowsTags` | `MaterializeSpec => []GeometryFollowsTags` |
| `RelationLinesKeepTheirMembers` | `MaterializeSpec => []RelationLinesAreMembers` |

`EndsInFile` is a hypothesis on the context: the file has the first and the last node of each kept way.
`clipped_extract` shows that it is needed: in a clipped way the first *resolved* node is a cut
point, though it is neither shared nor an endpoint of the refs. The other theorems do without it. The
invariant says that the vertex ids and the rows of `nodes` are one bijection (`IdsAreRows`), that the edges of
each way routed so far are one block of `edges`, which is `BuildEdges` of it (`EdgesAreBlocks`), and that each
topic's geometry lists the ways routed so far that it kept, in an ordered run the kept order as far as it
has been walked (`GeometryIsRouted`). `MeetAtVertices` then is a fact about two blocks: a
node inside an edge is no cut point, so it is not shared, so no second position of any kept way refers to it.
`RelationLinesAreMembers` needs no more than that each row is a `RelationRow` (`RelationRows`); the work is in
`RingsAreTheSegments`, for any list of lines of two nodes or more. A round of the assembly keeps the number
of times a step is taken by the finished rings, the ring in hand and the segments left together
(`Rounds`): a list of lines takes a step as often as its two parts do (`TimesAdd`), a line turned round as often as it did
(`OftenReversed`), and a line that goes on where another ends as often as the two
(`OftenJoined`), which is where the code's `drain(1..)` and its choice to reverse matter. That nothing is left over is a
matter of counting: popping or appending a segment and finishing a ring use up work that is at most two per
segment at the start.

`ExportProofs.tla` on `OrderedExport`, for any calls, batch size, capacity, geometry file and `edges.bin`,
foreign ways included (the assumptions of `Shard` and `OrderedExport` only):

| Theorem | States |
|---|---|
| `OrderIsKept` | `OrderedSpec => []PipeInOrder` |
| `StagedInOrder` | `OrderedSpec => []OnlyOvertaken` |
| `SmallCallsKeepOrder` | if every call is below a batch, `OrderedSpec => []RoutedOrder` |
| `CursorsInStep` | `OrderedSpec => []JoinInv` |
| `ForwardJoinIsExact` | `OrderedSpec => []JoinIsExact` |

Nothing is assumed of the size of a call: the fold routes whole chunks, which are often batches. `PipeInOrder` orders
what is written, queued, buffered and held as it may be staged: the buffer before what is held,
except that a batch-sized call on its way to the channel goes first, and that the buffer holds rows of
smaller calls only. `JoinInv` has two parts. Whatever the order of the rows, what a cursor keeps for a twin is all the
geometry of one element, and the edge cursor stands between two ways (`Whole`): so no row is ever given
another's geometry or half of its own. As long as the rows come in routed order (`InStep`), each cursor has
passed exactly the records of the rows joined so far (`CursorsAt`). The edge cursor passes only what a row asks for:
the segments of a foreign way, or of a way that has a geometry of its own, hold it for the rest of the
run (`Blocked`), which is the case `foreign_edges` shows.

`SequenceLemmas.tla` holds what these proofs share: induction on the naturals as a statement about
sets of naturals, which the provers can instantiate; that recursive functions exist; what
`Ascending`, `ItemsAt` and `FlattenSeq` return.

`CategorizeProofs.tla` on `CategoryOrder`, for every set of categories files with finitely many names
(`FilesAssumption` only):

| Theorem | States |
|---|---|
| `OrderInvariance` | `OrderSpec => []IInv` |
| `OrderRespectsExcludes` | `OrderSpec => []WinnersComeFirst` |
| `RefusalIsExact` | `OrderSpec => []RefusedIffContradictory` |

The argument. A name is freed when its counter reaches zero, so the invariant must say what the
counters count: `indeg[n]` is the number of predecessors of `n` that are not in the order
(`CountersAreRight`), and what is ready is exactly what has none left and is not in the order.
For the refusal, `ContradictionsStayOut`: no name of a set in which each is beaten by another of
the set is ever ordered. Conversely, when nothing is ready the names left over
are such a set, each with a counter above zero and so with a predecessor among them. The lemma
`FullLength` connects the code's test, a comparison of lengths, with the order holding every
name. `RefusalIsExact` is therefore not about cycles of some length: any file is refused for a
contradiction or an unknown name, and for nothing else.

`CategorizeProofs.tla` on the net and on `Categorize`, for any language of conditions, objects, rule
lists, files, depth limit, leaf size and lookahead threshold:

| Theorem | States |
|---|---|
| `LoweringIsSound` | a plain filter, its lowered normal form and its lowered negation agree on every object |
| `FoldingIsSound` | simplifying by the fact of an edge keeps the meaning for the objects that take the edge |
| `CategorizeInvariance` | `Spec => []CatInv` |
| `FactsOnPathsAreSound` | `Spec => []FoldsAreSound` |
| `NetAnswersAsTheList` | `Spec => []NetFollowsLowering` |
| `TheWinnerIsUnbeaten` | `Spec => []WinnerIsUnbeaten` |

What is assumed. `Lang` names the filters of an instance, what they are lowered to and the normal
forms they are folded to. `LanguageAssumption` says that these sets are closed under the
compiler, that each member has finitely many parts of less depth, and that each recursive operator
satisfies its equation on them: expressions are finite trees. It excludes no filter a file can
spell, but for keys that themselves begin with `parent_` (section 6). Where the code's two readings of a
condition differ is a predicate on filters, `Plain`, and not an assumption: not plain are a test that ignores
case (`expr.rs:105`) and, under a `Parent` filter, a negation, a constant or empty conjunction that holds
without a parent, and a test of keys, of the context or of empty tags (`expr.rs:115`, `expr.rs:174-179`).
`LoweringIsSound` is about plain filters. `NetAnswersAsTheList` is about all: the net answers as the walk over the
lowered list, and where every condition is plain as the walk over the filters. TLC
evaluates the assumption on the full instance of `topic_life`. `ObjectsAssumption` says an object has
one side and at most one parent and prefix.

The argument. Structural induction is done without an operator parameter: a non-empty set of counterexamples
would have a member of least depth, whose parts are no counterexamples (`Shallowest`). That gives in turn:
what an edge decides of an atom is what the atom is for the objects that take the edge
(`DecideIsSound`: the wildcard edge may deny a value only if that value was enumerated);
hence `FoldingIsSound`; `to_nnf` of a negation negates (`DenialIsSound`); `LoweringIsSound`,
with `InheritedIsSound` for what is moved to the parent. A candidate's residual then says that its lowered rule matches
and, when a match is final, that no earlier one does (`StartIsSound`).

`NetFollowsLowering` speaks of a finished net, so the invariant (`NetInv`) speaks of every path reached
so far, built or still to be built: an object reaches a leaf or a call to come
(`EveryObjectArrives`); for the objects that take a call's path every candidate means what its rule does
and none that could win is missing (`CallsAreSound`), and the same holds of leaves
(`LeavesAreSound`). A branch hands this on because an edge exists for every object and its
fact is true of the objects that take it. Nothing is assumed of which branch is chosen: of the two-ply search and
its scores the proof needs only that a branch asks about something the conditions mention, so
correctness does not rest on the heuristic. `CatInv` joins `NetInv` to the order: nothing is
compiled before the sort is over, and the rules are the conditions in the order of the names. In that
order the first match has no winner before it, which is `TheWinnerIsUnbeaten`.

`PgRunProofs.tla`, for any topics and tables, rows, writers per table, channel size and number of
starts (`PgRunAssumption` only: table names are distinct, there is at least one writer per table):

| Theorem | States |
|---|---|
| `TypeCorrect` | `Spec => []TypeOK` |
| `PoolSuffices` | `Spec => []ConnectionForEveryWriter` |
| `RerunIsExact` | `Spec => []OnlyThisRun` |
| `EdgesAreCurrent` | `Spec => []EdgeTablesAreCurrent` |
| `IndexesAreRight` | `Spec => []IndexesFollowTheRows` |

The argument. `OnlyThisRun` speaks of the end only; the invariant says what every table holds in
every phase: nothing after `Truncate`, then exactly the batches of the writers that are done, so
that a finished table has what was sent to it, and every batch is either pending or with a writer that has not
failed. Tables behind `pos` are finished, tables before it have no commit. `EdgeInv` and the index part
follow the two loops of the final phases in the same way. The pool theorem counts: the writers are
`Len(Sharded) * K`, and `PoolSize`, computed from the configuration in another module, is two more.

`TopicRowsProofs.tla`: `RowsAreIdentified`, `RowsSpec => []OnlyKnownClashes`, for any tags, steps,
conditions and categories, under three named assumptions, which TLC evaluates on the instance:
elements differ (`DistinctElements`), a relation lists ways (`MembersAreWays`), as often as it likes, and a topic is
one the loader lets through (`TopicsAreLoaded`: an id type, pipelines, and an id column if a clone stamps a side). The
corollary `CarefulRowsAreUnique` is `RowIdsAreUnique` itself for what the loader does not ask: no way listed twice
(`MembersListedOnce`), suffixes of their own, an id column where an element has several rows, kinds in the ids of
several kinds (`TopicsKeepApart`). A clone may even be called `relation/5`, as a row of that parent is: the
theorem counts that among the clashes, the topics of the run have none. The invariant follows suffixes from where they are
made: the objects still to be emitted, the clones kept and the parent lists have no suffix twice but for what
`TakenTwice` names, an emitted suffix is never waiting again, and rows of earlier elements have another base.

`WaysInherit`, `RowsSpec => []InheritedFromItsRelations`, in the same module: a row that is a way's own was
evaluated against what the rows of its relations say, whichever of the two modes the topic has. To the three
assumptions above it adds that no clone's suffix is a relation's (`ClonesNameNoRelation`) and that relations are read before ways (`RelationsFirst`), which the reader's
passes establish and without which a way would inherit from some of its relations only. The property
speaks of rows, the code of a store filled by `capture`; the invariant joins them from both ends.
`HandInv`: a relation in the store has a row, and exports what the first of its rows hands down, so nothing
when that is no field. `SeenInv`: what an object or row of a way was given is what the store holds for that
way now. `OrderInv`: once a way is read no relation is left, so the store has its last value before the
first way is given anything. In between, a parent list names exactly the exporting relations in ascending
order, one as often as it lists the way, so that merging in list order is the highest id winning.

`SpecificKeysWin`, `RowsSpec => []MostSpecificWins`, in the same module: whatever order the tag map hands
its keys out in, a side's row holds what the most specific key of its way says. Assumed of the input:
elements differ, members are ways and keys are words (`InputsTagged`). Assumed of the topics:
`TopicsAreLoaded` as above, steps write keys and do not forge a clone's marks (`TopicsWriteKeys`), and a
clone with a prefix unnests bare, `both` and its side before anything else, with no rule that writes a
name beginning with a side, and no step after it in its pipeline but clones and drops
(`SidesAreUnnested`). The four side clones of the shipped `tilda/bikelanes/transforms.json` keep to
that, and TLC evaluates the assumptions on the instance.

The argument looks at one pass at a time. After `j` passes an undisputed name holds what the first `j` layers of
keys say (`Passed`), and in the middle of a pass what they say with the keys already
visited (`Passing`), whichever keys are left: a name is written by one key of a pass at most, which is
why the order within a pass does not matter, and by the key of a later pass last. The steps after the
passes write other names. The object of the way keeps its tags once a side is made of it (`Settled`), so
that what the side was told remains what its way says; `ToldInv` carries it through the clones kept,
the objects emitted and the rows.

`AlgorithmProofs.tla` on `NodeStore`, for any records, ids that may repeat and any hash (`LoadsAssumption`):

| Theorem | States |
|---|---|
| `BuildKeepsTrack` | `StoreSpec => []BuildInv` |
| `TableIsExact` | `StoreSpec => []LookupsAreExact` |
| `PanicIsExact` | `StoreSpec => []PanicsIffDuplicate` |

The argument follows each record from the slot it was collected in. The records of the placed slots and
of the slot the walk began at have been lifted; all but the one in hand are where their hash sends
them, each with its own bit, no two in one slot; every other slot is untouched. A claim on a placed
slot is then a claim by a second record with that hash, so by a repeated id, and a walk is no longer than the
placed slots, so the bound on its length never fires.

`AlgorithmProofs.tla` on `MacroTable`, for any table of macros and any order of expanding it (`TablesAssumption`):

| Theorem | States |
|---|---|
| `ExpansionKeepsTrack` | `MacroSpec => []MacroInv` |
| `RefusalOfMacrosIsExact` | `MacroSpec => []RefusedIffBroken` |
| `StackIsAPath` | `MacroSpec => []StackIsPath` |

The argument avoids induction over data. A set of macros is sound when it holds all that its members
name and no circle; the union of the sound sets is sound, and a macro that names nothing outside it
belongs to it. What the expansion has left behind is in that union, and the stack is a path of
calls without a repetition; a name found on the stack closes a circle, and a table all of whose
names are in the union has none.

Model-checked only: `Finishes` and `RunEnds` (liveness is out of the prover's reach);
`ProbeIsSound` of `TopicRows`, which is false for an arbitrary topic, where a probe in one order of a hash
map says nothing of an element in another; the codec of
`RefCodec` with the lines `Stores` reads through it, and the documents of `TopicLoad`, whose
operators recurse over data.

## 6. Not modelled, and why

* The live editor: a development tool in TypeScript beside the engine. Its server keeps one target,
  topic and working directory for all requests (`liveEditor.ts:647`); the hazard is listed.
* The overlap lint, an offline search over configurations: what it promises is the precondition of
  `WinnerIsUnbeaten`.
* Byte formats (stage framing, EWKB, GeoJSON text, Parquet columns), projection, logging, memory
  accounting, command line, the CSV source, the inference of column types, JSON parsing: no state
  that the properties tell apart.
* A `Parent` inside a `Parent`, a key that itself begins with `parent_` (which the lowered form reads from the
  parent, `runtime.rs:33`) and sanitizers with outputs that are
  not strings are not expressible in the model; `_infix` behaves as `_prefix`.
* `--tree-max-depth 0` (no net is compiled), duplicate category ids, tree statistics and the
  test-only optimal search. Ids of a family's variants are joined by `_` (`load.rs:306`), so a variant
  may get the id of another file; ids are sequences of words in the model.
* Shared producers that name one another in a circle: `inline_shared_producers` (`load.rs:411`) has
  no check for one and does not return. `TopicLoad` assumes none.
* Arenas past 4 GiB, whose offsets wrap (`store.rs:46`), and configurations of more than 32 topics,
  whose keep masks alias (`processing.rs:67`).
* A file that declares `Sort.Type_then_ID` and does not keep it. `HonestSpec` asks for what the
  declaration promises: kinds in order, one kind to a blob, no blob empty. The code tests the neighbours of the
  two boundaries it found and takes the fallback if they are wrong, which catches a file out of order near
  a boundary only. A blob of two kinds passes both tests and is decoded for the later kind only, so its
  nodes, or ways, are lost; an empty blob may send the search for the relations the wrong way and pass
  as well. No common writer produces either.
* The perfect hash, rayon, tokio channels, the connection pool, Postgres and `osmpbf` are external,
  modelled by their contracts: an injection, a parallel loop, a bounded FIFO that errors when its
  receiver is gone, a counter, statements that take effect at once, a list of blocks.

Departures of the code from its comments that were met on the way and have no run of their own:

| Code | Comment | What |
|---|---|---|
| `osm/reader/fallback.rs:127` | `output/geojson.rs:12-16` | the fallback's `kept_way_order` comes out of a hash map, not in the order its tag rows were routed |
| `osm/reader/sorted.rs:446` | `osm/reader/sorted.rs:365-367` | nodes of relation-only ways are collected before, and instead of, being classified |
| `geom/relation.rs:30` | `geom/builders.rs:123` | chaining grows a run at one end only, so a connected run may be split in two |
| `categorize/transform.rs:173-177` | `transform.rs:43-46` | `_infix` is stamped if tags were added, so an unnest that only overwrites does not count |
| `main.rs` (pool) | `config.rs:61` | the pool has `(topics + other tables) * k + 2` connections, not `(topics + 1) * k` |
| `db/topic_edges.rs:21` | `topic/spec.rs` | `--topic-edges all` selects `t.id`, which a topic with `id_type: none` does not have |
| `topic/model.rs:354` | `topic/model.rs:349-350` | a node and a way category of one stem do not collide: fields are found by a number over all kinds; `topic_life` has such a pair and `EachCategoryItsFields` holds |
| `topic/model.rs:413` | `db/schema.rs:165` | ids without the kind are not refused for a topic of several kinds, whose rows may then share one; `OnlyKnownClashes` names it |
| `topic/load.rs:155` | `topic/model.rs:220-223` | expanding macros leaves `sanitize` references as they are |
| `topic/model.rs:322-327` | its message | a tag listed twice in `passthrough_tags` is reported as being in both |

## 7. Plan

What the list of hazards and the theorems leave, in order of importance:

1. `TopicRows`: the conditions on a topic under which `ProbeIsSound` is a theorem.
2. `Pipeline`: select, materialize and export composed for one ordered topic of small calls, with the staged files as
   the interface, so that `FileOrder` and `GeometryFollowsTags` become the input of
   `ForwardJoinIsExact`; the relation fallback of the export.
3. The overlap lint against `DisjointFor`; the live editor's shared state.

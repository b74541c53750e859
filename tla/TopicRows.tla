----------------------------- MODULE TopicRows -----------------------------
(***************************************************************************)
(* What one topic makes of the elements it is shown: the transform         *)
(* pipeline (categorize/transform.rs), the rows built from what it leaves  *)
(* (src/src/topic/pipeline.rs), the fields kept relations hand down to     *)
(* their member ways (src/src/topic/inherit.rs) and the probe that lets    *)
(* the reader skip untagged nodes.                                         *)
(*                                                                         *)
(* A key is the sequence of its colon-separated words.  Tag maps are hash  *)
(* maps, so the steps that scan one meet its keys in any order: each key   *)
(* is a step of its own here.  An element is                               *)
(*   [kind, osm, tags, members], members being a relation's ways in order. *)
(* A topic is                                                              *)
(*   [idType, categorized, acceptAll, exclude, pipelines, producers,       *)
(*    passAll, inherit, mode].                                             *)
(* Optional things are sets with at most one element.  Conditions,         *)
(* producers and categories are parameters: the module Conditions models   *)
(* how conditions are evaluated, Categorize how a category is found.       *)
(* Companion annotations of a producer and a row's meta column are left    *)
(* out.                                                                    *)
(***************************************************************************)
EXTENDS Integers, Sequences, FiniteSets, SequencesExt

CONSTANTS
  Holds(_, _),        \* Holds(filter, ctx): `eval`
  Produce(_, _),      \* Produce(producer, ctx): `Producer::eval`, an optional value
  Category(_, _, _),  \* Category(topic, kind, ctx): `categorize`, an optional category
  Topics,             \* the topics a behaviour may load
  Inputs,             \* the element sequences a behaviour may read, relations before ways
  Words               \* the words keys are made of

Null == "null"
Uncategorized == "none"
Sides == {"left", "right", "both"}

ASSUME SidesAreWords == Sides \subseteq Words

VARIABLES
  topic,     \* the loaded topic
  skip,      \* kinds whose untagged elements the probe lets the reader skip
  probes,    \* kinds still to probe
  queue,     \* elements not read yet
  element,   \* the element being processed
  frames,    \* the objects under transformation: the element's own, and a clone's above it
  scan,      \* keys of the step at hand not visited yet, with the tags they are read from
  clones,    \* objects whose clone step kept them
  out,       \* objects still to be emitted
  made,      \* the element's rows so far
  rows,      \* the table
  members,   \* the member ways of each kept relation
  exported   \* InheritStore: the fields captured from each kept relation

input     == <<topic, queue, probes, skip>>
stores    == <<rows, members, exported>>
topicVars == <<input, element, frames, scan, clones, out, made, stores>>

-----------------------------------------------------------------------------
(* Tag maps.                                                               *)

Empty == [k \in {} |-> Null]

\* `over` written on top of `tags`.
Overlay(over, tags) ==
  [k \in DOMAIN over \cup DOMAIN tags |-> IF k \in DOMAIN over THEN over[k] ELSE tags[k]]

One(k, v) == [x \in {k} |-> v]
Without(tags, ks) == [k \in DOMAIN tags \ ks |-> tags[k]]

-----------------------------------------------------------------------------
(* Reading a step.                                                         *)

\* Seeded fault: a side's keys are taken for sub-keys of the bare prefix.
MatchesAnySuffix(tags, step) ==
  LET full == <<step.prefix>> \o step.infix
  IN  {k \in DOMAIN tags : IsPrefix(full, k)}

\* The keys under `{prefix}[:{infix}]`; the sub-keys of a bare prefix are not a side's.
Matches(tags, step) ==
  LET full == <<step.prefix>> \o step.infix
  IN  {k \in DOMAIN tags :
         /\ IsPrefix(full, k)
         /\ step.infix = <<>> /\ Len(k) > 1 => k[2] \notin Sides}

\* Where a matched key goes, under the name `exact` when nothing follows the prefix.
Suffix(k, step) == SubSeq(k, Len(step.infix) + 2, Len(k))
Dest(k, step)   == IF Suffix(k, step) = <<>> THEN <<step.prefix>> ELSE Suffix(k, step)

\* What a matched key writes: its own value and those of its `source:`/`note:` companions.
Unnested(source, k, step) ==
  LET present == {m \in step.meta : <<m>> \o k \in DOMAIN source}
      written == {<<Dest(k, step), source[k]>>}
                 \cup {<<<<m>> \o Suffix(k, step), source[<<m>> \o k]>> : m \in present}
  IN  [d \in {w[1] : w \in written} |-> (CHOOSE w \in written : w[1] = d)[2]]

\* `strip_prefix` for one key: re-keyed onto its base, with a marker.
Stripped(tags, k, step) ==
  LET base   == Tail(k)
      marker == IF base[1] \in step.nestedUnder /\ Len(base) > 1
                THEN base \o <<step.stampKey>> ELSE <<step.stampKey>>
  IN  Overlay(One(marker, step.stampValue), Overlay(One(base, tags[k]), Without(tags, {k})))

Side(ann) == IF "_side" \in DOMAIN ann THEN ann["_side"] ELSE "self"

\* `read_directed`: never over a key that is set, nothing without a side.
ReadDirected(tags, parents, ann, step) ==
  LET directed == [left |-> step.left, right |-> step.right]
      reads(t, ks) == {t[ks[i]] : i \in {j \in DOMAIN ks :
                         ks[j] \in DOMAIN t /\ \A h \in 1..(j - 1) : ks[h] \notin DOMAIN t}}
  IN  IF step.key \in DOMAIN tags \/ Side(ann) \notin {"left", "right"} THEN {}
      ELSE IF step.from = "obj" THEN reads(tags, <<directed[Side(ann)]>>)
      ELSE UNION {reads(t, <<step.key, directed[Side(ann)]>>) : t \in parents}

-----------------------------------------------------------------------------
(* The object at hand.                                                     *)

Top       == frames[Len(frames)]
InClone   == Len(frames) = 2
Parents   == IF InClone THEN {frames[1].tags} ELSE {}
Running   == frames # <<>> /\ Top.at <= Len(Top.steps)
Step      == Top.steps[Top.at]
Context   == [obj |-> Top.tags, parents |-> Parents, ann |-> Top.ann]
AllHold(fs) == \A f \in fs : Holds(f, Context)

Frame(tags, ann, steps, at) == [tags |-> tags, ann |-> ann, steps |-> steps, at |-> at]
Fresh(tags, ann, steps)     == Frame(tags, ann, steps, 1)

\* The frames once the top one holds these tags and annotations, its step done or not.
Replace(frame)     == IF InClone THEN <<frames[1], frame>> ELSE <<frame>>
Advance(tags, ann) == Replace(Frame(tags, ann, Top.steps, Top.at + 1))
Stay(tags, ann)    == Replace(Frame(tags, ann, Top.steps, Top.at))

\* The frames once the clone at hand has ended.
EndClone == <<Frame(frames[1].tags, frames[1].ann, frames[1].steps, frames[1].at + 1)>>

Handled(t)    == t.categorized \cup t.acceptAll
HasKind(k)    == k \in Handled(topic)
StampsSide(k) == \E i \in DOMAIN topic.pipelines[k] :
                   /\ topic.pipelines[k][i].do = "clone"
                   /\ "_side" \in DOMAIN topic.pipelines[k][i].annotate

Untagged(k) == [kind |-> k, osm |-> 0, tags |-> Empty, members |-> <<>>]
NoElement   == Untagged("none")
Idle        == element = NoElement
Probing     == element.osm = 0 /\ ~Idle

-----------------------------------------------------------------------------
RowsInit ==
  /\ topic \in Topics
  /\ queue \in Inputs
  /\ skip = {}
  /\ probes = Handled(topic)
  /\ element = NoElement
  /\ frames = <<>> /\ scan = {} /\ clones = <<>> /\ out = <<>> /\ made = <<>>
  /\ rows = <<>> /\ members = Empty /\ exported = Empty

\* `build_topic_rows` up to its pipeline, for a kind the topic handles: the exclusion reads
\* the raw tags.
Started(e) ==
  LET ctx == [obj |-> e.tags, parents |-> {}, ann |-> Empty]
      excluded == \E f \in topic.exclude : Holds(f, ctx)
      ann == IF StampsSide(e.kind) THEN One("_side", "self") ELSE Empty
  IN  IF ~HasKind(e.kind) \/ excluded THEN <<>>
      ELSE <<Fresh(e.tags, ann, topic.pipelines[e.kind])>>

\* `probe_skip_untagged`: the whole pipeline on an element without tags, for each kind.
Probe(k) ==
  /\ Idle
  /\ probes' = probes \ {k}
  /\ element' = Untagged(k) /\ frames' = Started(Untagged(k))
  /\ UNCHANGED <<topic, skip, queue, scan, clones, out, made, stores>>

Read ==
  /\ Idle /\ probes = {} /\ queue # <<>>
  /\ queue' = Tail(queue)
  /\ element' = Head(queue) /\ frames' = Started(Head(queue))
  /\ UNCHANGED <<topic, skip, probes, scan, clones, out, made, stores>>

-----------------------------------------------------------------------------
(* `InputTransform::apply`, one action per kind of step.                   *)

Transforming == Running /\ scan = {}

ApplyRule ==
  /\ Transforming /\ Step.do = "rule"
  /\ LET value == Produce(Step.source, Context)
         tags  == IF value = {} THEN Top.tags
                  ELSE IF value = {Null} THEN Without(Top.tags, {Step.output})
                  ELSE Overlay([k \in {Step.output} |-> CHOOSE v \in value : TRUE], Top.tags)
     IN  frames' = Advance(tags, Top.ann)
  /\ UNCHANGED <<input, element, scan, clones, out, made, stores>>

ApplyDirected ==
  /\ Transforming /\ Step.do = "directed"
  /\ LET raw  == ReadDirected(Top.tags, Parents, Top.ann, Step) \cap DOMAIN Step.chain
         tags == Overlay([k \in {Step.output : v \in raw} |-> Step.chain[CHOOSE v \in raw : TRUE]], Top.tags)
     IN  frames' = Advance(tags, Top.ann)
  /\ UNCHANGED <<input, element, scan, clones, out, made, stores>>

\* A `Drop` ends the clone, or the element with every clone it already had.
ApplyDrop ==
  /\ Transforming /\ Step.do = "drop"
  /\ IF ~Holds(Step.when, Context) THEN frames' = Advance(Top.tags, Top.ann) /\ clones' = clones
     ELSE IF InClone THEN frames' = EndClone /\ clones' = clones
     ELSE frames' = <<>> /\ clones' = <<>>
  /\ UNCHANGED <<input, element, scan, out, made, stores>>

\* Nothing to visit: the guard fails, or no key matches.
SkipScan ==
  /\ Transforming
  /\ \/ Step.do = "unnest" /\ (~AllHold(Step.guard)
                               \/ Matches(IF InClone THEN frames[1].tags ELSE Top.tags, Step) = {})
     \/ Step.do = "strip" /\ {k \in DOMAIN Top.tags : Len(k) > 1 /\ k[1] = Step.prefix} = {}
  /\ frames' = Advance(Top.tags, Top.ann)
  /\ UNCHANGED <<input, element, scan, clones, out, made, stores>>

\* A clone scans its parent's tags, any other object a snapshot of its own.
StartScan ==
  /\ Transforming
  /\ LET source == IF InClone /\ Step.do = "unnest" THEN frames[1].tags ELSE Top.tags
         keys   == IF Step.do = "unnest" THEN Matches(source, Step)
                   ELSE {k \in DOMAIN source : Len(k) > 1 /\ k[1] = Step.prefix}
     IN  /\ \/ Step.do = "unnest" /\ AllHold(Step.guard)
            \/ Step.do = "strip"
         /\ keys # {}
         /\ scan' = {[source |-> source, keys |-> keys, before |-> Cardinality(DOMAIN Top.tags)]}
  /\ UNCHANGED <<input, element, frames, clones, out, made, stores>>

\* The keys come in the map's order; after the last one `record_infix_as` is stamped if the
\* object has more tags than before.
VisitKey ==
  Running /\ \E s \in scan : \E k \in s.keys :
    LET tags  == IF Step.do = "strip" THEN Stripped(Top.tags, k, Step)
                 ELSE Overlay(Unnested(s.source, k, Step), Top.tags)
        last  == s.keys = {k}
        stamp == IF last /\ Step.do = "unnest" /\ Cardinality(DOMAIN tags) > s.before
                 THEN [a \in Step.record |-> IF Step.infix = <<>> THEN "" ELSE Step.infix[1]]
                 ELSE Empty
        ann   == Overlay(stamp, Top.ann)
    IN  /\ frames' = IF last THEN Advance(tags, ann) ELSE Stay(tags, ann)
        /\ scan' = IF last THEN {} ELSE {[s EXCEPT !.keys = @ \ {k}]}
        /\ UNCHANGED <<input, element, clones, out, made, stores>>

\* A clone starts with no tags, its literal annotations, and the object below as parent; its
\* own steps are never clones.
StartClone ==
  /\ Transforming /\ ~InClone /\ Step.do = "clone"
  /\ frames' = IF AllHold(Step.whenever) THEN <<Top, Fresh(Empty, Step.annotate, Step.steps)>>
               ELSE Advance(Top.tags, Top.ann)
  /\ UNCHANGED <<input, element, scan, clones, out, made, stores>>

KeepClone ==
  /\ InClone /\ ~Running
  /\ clones' = Append(clones, [tags |-> Top.tags, ann |-> Top.ann,
                               suffix |-> frames[1].steps[frames[1].at].suffix])
  /\ frames' = EndClone
  /\ UNCHANGED <<input, element, scan, out, made, stores>>

-----------------------------------------------------------------------------
(* The rows.                                                               *)

Positions == UNION {DOMAIN members[r] : r \in DOMAIN members}

\* A way's parents that exported something: a relation as often as it names the way, in the
\* order of their ids.
Mentions(w) ==
  {m \in (DOMAIN exported) \X Positions :
     m[2] \in DOMAIN members[m[1]] /\ members[m[1]][m[2]] = w}

Before(m, n) == m[1] < n[1] \/ (m[1] = n[1] /\ m[2] < n[2])

ParentLists(e) ==
  LET ms == IF e.kind = "way" THEN Mentions(e.osm) ELSE {}
  IN  {q \in [1..Cardinality(ms) -> ms] :
         \A i, j \in DOMAIN q : i < j => Before(q[i], q[j])}

\* Seeded fault: the first parent to set a field keeps it.
MergedFirstWins(q) ==
  [f \in UNION {DOMAIN exported[q[i][1]] : i \in DOMAIN q} |->
     LET first == CHOOSE i \in DOMAIN q : /\ f \in DOMAIN exported[q[i][1]]
                                          /\ \A j \in 1..(i - 1) : f \notin DOMAIN exported[q[j][1]]
     IN  exported[q[first][1]][f]]

\* `merge_parents`: one tag map, the later parent wins.
Merged(q) ==
  [f \in UNION {DOMAIN exported[q[i][1]] : i \in DOMAIN q} |->
     LET last == CHOOSE i \in DOMAIN q : /\ f \in DOMAIN exported[q[i][1]]
                                         /\ \A j \in (i + 1)..Len(q) : f \notin DOMAIN exported[q[j][1]]
     IN  exported[q[last][1]][f]]

Object(tags, parents, ann, suffix) == [obj |-> tags, parents |-> parents, ann |-> ann, suffix |-> suffix]

\* Seeded fault: the row of each parent keeps the element's own id.
BaseObjectsOneId(f, q) ==
  IF q # <<>> /\ topic.mode = "fan_out"
  THEN [i \in DOMAIN q |-> Object(f.tags, {exported[q[i][1]]}, f.ann, <<>>)]
  ELSE IF q # <<>> /\ topic.mode = "merge" THEN <<Object(f.tags, {Merged(q)}, f.ann, <<>>)>>
  ELSE <<Object(f.tags, {}, f.ann, <<>>)>>

\* The element's own object, once per parent relation when they fan out.
BaseObjects(f, q) ==
  IF q # <<>> /\ topic.mode = "fan_out"
  THEN [i \in DOMAIN q |-> Object(f.tags, {exported[q[i][1]]}, f.ann, <<"relation", q[i][1]>>)]
  ELSE IF q # <<>> /\ topic.mode = "merge" THEN <<Object(f.tags, {Merged(q)}, f.ann, <<>>)>>
  ELSE <<Object(f.tags, {}, f.ann, <<>>)>>

\* A clone's parent is the element's object as the whole pipeline left it.
CloneObjects(f) == [i \in DOMAIN clones |-> Object(clones[i].tags, {f.tags}, clones[i].ann, clones[i].suffix)]

EndPipeline ==
  /\ Len(frames) = 1 /\ ~Running
  /\ \E q \in ParentLists(element) : out' = BaseObjects(Top, q) \o CloneObjects(Top)
  /\ frames' = <<>> /\ clones' = <<>>
  /\ UNCHANGED <<input, element, scan, made, stores>>

\* The `id` column: the element's own id, then the suffix that tells its rows apart.
RowId(e, suffix) ==
  IF topic.idType = "none" THEN {}
  ELSE {[base   |-> IF topic.idType = "type_id" THEN <<e.kind, e.osm>> ELSE <<e.osm>>,
         suffix |-> suffix]}

Produced(o, ctx) ==
  LET producers == topic.producers
      fields == [f \in {g \in DOMAIN producers : Produce(producers[g], ctx) # {}} |->
                   CHOOSE v \in Produce(producers[f], ctx) : TRUE]
  IN  IF topic.passAll THEN Overlay(fields, o.obj) ELSE fields

\* The closure `emit`: no category, no row.
Emit ==
  /\ out # <<>>
  /\ LET o   == Head(out)
         ctx == [obj |-> o.obj, parents |-> o.parents, ann |-> o.ann]
         categories == IF element.kind \in topic.categorized THEN Category(topic, element.kind, ctx)
                       ELSE {Uncategorized}
     IN  made' = IF categories = {} THEN made
                 ELSE Append(made, [kind |-> element.kind, osm |-> element.osm, id |-> RowId(element, o.suffix),
                                    category |-> CHOOSE c \in categories : TRUE,
                                    produced |-> Produced(o, ctx), ann |-> o.ann,
                                    obj |-> o.obj, parents |-> o.parents, suffix |-> o.suffix])
  /\ out' = Tail(out)
  /\ UNCHANGED <<input, element, frames, scan, clones, stores>>

Done == ~Idle /\ frames = <<>> /\ out = <<>>

\* Seeded fault: a kind without categories is taken to make no row of untagged elements.
FinishProbeByCategories ==
  /\ Done /\ Probing
  /\ skip' = IF made = <<>> \/ element.kind \notin topic.categorized THEN skip \cup {element.kind} ELSE skip
  /\ element' = NoElement /\ made' = <<>>
  /\ UNCHANGED <<topic, queue, probes, frames, scan, clones, out, stores>>

\* A kind whose probe made no row is skipped when untagged.
FinishProbe ==
  /\ Done /\ Probing
  /\ skip' = IF made = <<>> THEN skip \cup {element.kind} ELSE skip
  /\ element' = NoElement /\ made' = <<>>
  /\ UNCHANGED <<topic, queue, probes, frames, scan, clones, out, stores>>

\* Seeded fault: the last row of a relation is captured.
CapturedLast(produced) ==
  LET source == made[Len(made)].produced
  IN  [f \in topic.inherit \cap DOMAIN source |-> source[f]]

\* `InheritStore::capture` reads the relation's first row.
Captured(produced) == [f \in topic.inherit \cap DOMAIN produced |-> produced[f]]

\* The rows are routed; a kept relation is remembered with its members and hands its fields on.
FinishElement ==
  /\ Done /\ ~Probing
  /\ rows' = rows \o made
  /\ LET relation == element.kind = "relation" /\ made # <<>>
         captured == IF relation THEN Captured(made[1].produced) ELSE Empty
     IN  /\ members' = IF relation THEN Overlay(One(element.osm, element.members), members) ELSE members
         /\ exported' = IF DOMAIN captured = {} THEN exported
                        ELSE Overlay(One(element.osm, captured), exported)
  /\ element' = NoElement /\ made' = <<>>
  /\ UNCHANGED <<input, frames, scan, clones, out>>

EndOfInput == Idle /\ probes = {} /\ queue = <<>> /\ UNCHANGED topicVars

Apply == ApplyRule \/ ApplyDirected \/ ApplyDrop \/ SkipScan \/ StartScan \/ VisitKey

RowsNext ==
  \/ \E k \in probes : Probe(k)
  \/ Read \/ Apply \/ StartClone \/ KeepClone
  \/ EndPipeline \/ Emit \/ FinishProbe \/ FinishElement \/ EndOfInput

RowsSpec == RowsInit /\ [][RowsNext]_topicVars

-----------------------------------------------------------------------------
(***************************************************************************)
(* Properties                                                              *)
(***************************************************************************)

(* What rows rest on, beyond the code at hand: facts of the input, what the *)
(* loader lets pass as a topic, and what a topic's author must see to.      *)

\* No two elements of an input have one kind and id, and no element has id 0.
DistinctElements ==
  \A in \in Inputs :
    /\ in \in Seq(Range(in))
    /\ \A i \in DOMAIN in : in[i].osm \in Int \ {0}
    /\ \A i, j \in DOMAIN in : i # j => <<in[i].kind, in[i].osm>> # <<in[j].kind, in[j].osm>>

\* No relation lists a way twice: files do not always keep to it.
ListedOnce(ms) == \A m, n \in DOMAIN ms : m # n => ms[m] # ms[n]

MembersListedOnce ==
  \A in \in Inputs : \A i \in DOMAIN in : ListedOnce(in[i].members)

\* What a relation lists are ways, as often as it likes.
MembersAreWays == \A in \in Inputs : \A i \in DOMAIN in : in[i].members \in Seq(Int)

IsClone(step) == step.do = "clone"

\* What the loader lets pass: a side has an id to be told by, no other clone need have one, and
\* an id may leave the kind out whatever kinds the topic has.
TopicsAreLoaded ==
  \A t \in Topics :
    /\ t.idType \in {"type_id", "id", "none"}
    /\ Handled(t) \subseteq {"node", "way", "relation"}
    /\ \A k \in Handled(t) : t.pipelines[k] \in Seq(Range(t.pipelines[k]))
    /\ \A k \in Handled(t) : \A s \in Range(t.pipelines[k]) :
         IsClone(s) => s.suffix # <<>> /\ (t.idType = "none" => "_side" \notin DOMAIN s.annotate)

\* No clone takes a suffix that rows of parent relations have.
ClonesNameNoRelation ==
  \A t \in Topics : \A k \in Handled(t) : \A s \in Range(t.pipelines[k]) :
    IsClone(s) => s.suffix[1] # "relation"

\* What the loader leaves to the author: clones of a kind have suffixes of their own, a topic
\* without an id column makes one row of an element, one without kinds in its ids has one kind.
TopicsKeepApart ==
  /\ ClonesNameNoRelation
  /\ \A t \in Topics :
       /\ \A k \in Handled(t) : \A n \in DOMAIN t.pipelines[k] :
            IsClone(t.pipelines[k][n]) =>
              /\ t.idType # "none"
              /\ \A m \in DOMAIN t.pipelines[k] :
                   m # n /\ IsClone(t.pipelines[k][m]) => t.pipelines[k][m].suffix # t.pipelines[k][n].suffix
       /\ t.idType = "none" => t.mode # "fan_out"
       /\ t.idType = "id" => \A k, l \in Handled(t) : k = l

\* Keys are words, and what steps write are keys; none of them forges a clone's marks.
Keys == Seq(Words) \ {<<>>}

InputsTagged == \A in \in Inputs : \A i \in DOMAIN in : DOMAIN in[i].tags \subseteq Keys

WritesKeys(s) ==
  /\ s.do \in {"rule", "directed"} => s.output \in Keys
  /\ s.do = "unnest" => /\ s.prefix \in Words /\ s.infix \in Seq(Words) /\ s.meta \subseteq Words
                        /\ s.record \cap {"_prefix", "_side"} = {}
  /\ s.do = "strip" => s.stampKey \in Words

TopicsWriteKeys ==
  \A t \in Topics : \A k \in Handled(t) : \A s \in Range(t.pipelines[k]) :
    /\ WritesKeys(s)
    /\ IsClone(s) => /\ s.steps \in Seq(Range(s.steps))
                     /\ \A x \in Range(s.steps) : ~IsClone(x) /\ WritesKeys(x)

\* A clone with a prefix is a side: it unnests bare, both and its side before anything else,
\* and the object below it is left as it is from there on.
IsSide(s) == IsClone(s) /\ "_prefix" \in DOMAIN s.annotate

UnnestsItsSide(s) ==
  LET side == Side(s.annotate) IN
  /\ side \in {"left", "right"}
  /\ s.annotate["_prefix"] \in Words \ Sides
  /\ Len(s.steps) >= 3
  /\ \A j \in 1..3 :
       /\ s.steps[j].do = "unnest" /\ s.steps[j].prefix = s.annotate["_prefix"]
       /\ s.steps[j].infix = <<<<>>, <<"both">>, <<side>>>>[j]
       /\ s.steps[j].guard = {} /\ s.steps[j].meta \cap Sides = {}
  /\ \A j \in 4..Len(s.steps) :
       /\ s.steps[j].do \in {"drop", "rule", "directed"}
       /\ s.steps[j].do # "drop" => s.steps[j].output[1] \notin Sides

SidesAreUnnested ==
  \A t \in Topics : \A k \in Handled(t) : \A n \in DOMAIN t.pipelines[k] :
    IsSide(t.pipelines[k][n]) =>
      /\ UnnestsItsSide(t.pipelines[k][n])
      /\ \A m \in DOMAIN t.pipelines[k] : m > n => t.pipelines[k][m].do \in {"clone", "drop"}

\* Relations are read before ways: the select phase's first pass is over them.
RelationsFirst ==
  \A in \in Inputs : \A i, j \in DOMAIN in :
    in[i].kind = "relation" /\ in[j].kind = "way" => i < j

RowKey(r) == IF r.id = {} THEN {<<r.kind, r.osm>>} ELSE r.id

\* Postgres can build the unique index of the tag table: no two rows have one id, nor one
\* (osm_type, osm_id) when the topic has no id column: db/schema.rs says of those that they are
\* "really" unique there.  A kept relation that lists a way twice breaks the first (the run
\* listed_twice), a way of two parents in a topic without ids the second (the run no_id).
RowIdsAreUnique ==
  \A i, j \in DOMAIN rows : i # j => RowKey(rows[i]) # RowKey(rows[j])

ClonesOf(k) == {n \in DOMAIN topic.pipelines[k] : IsClone(topic.pipelines[k][n])}
SuffixAt(k, n) == topic.pipelines[k][n].suffix
Relists(x, w) == \E m, n \in DOMAIN members[x] : m # n /\ members[x][m] = w /\ members[x][n] = w

\* An element's rows are one unless its pipeline clones or several parents fan it out.
SeveralRows(k, osm) ==
  \/ ClonesOf(k) # {}
  \/ k = "way" /\ topic.mode = "fan_out" /\ \E m, n \in Mentions(osm) : m # n

\* Two rows of an element have one suffix only if its parent lists it twice, or a clone's suffix
\* is another clone's or a parent's.
TakenTwice(k, osm, suffix) ==
  \/ k = "way" /\ topic.mode = "fan_out" /\ \E x \in DOMAIN members : suffix = <<"relation", x>> /\ Relists(x, osm)
  \/ \E n \in ClonesOf(k) :
       /\ SuffixAt(k, n) = suffix
       /\ \/ \E m \in ClonesOf(k) \ {n} : SuffixAt(k, m) = suffix
          \/ \E x \in DOMAIN members : suffix = <<"relation", x>>

\* Whatever topic the loader lets pass, the unique index of the tag table fails only where the
\* topic or a kept relation asks for it: ids without kinds over two kinds, no id column for an
\* element of several rows, a suffix given twice, a way listed twice.  No interleaving of clones,
\* drops, parents and kinds makes two rows alike otherwise.
OnlyKnownClashes ==
  \A i, j \in DOMAIN rows : i # j /\ RowKey(rows[i]) = RowKey(rows[j]) =>
    LET r == rows[i] IN
    IF r.kind # rows[j].kind THEN topic.idType = "id"
    ELSE IF topic.idType = "none" THEN SeveralRows(r.kind, r.osm)
    ELSE TakenTwice(r.kind, r.osm, r.suffix)

\* The reader may skip the untagged elements of a kind whose probe made no row: the pipeline
\* makes none of a real one either, for a kind with categories as for one that accepts all.
ProbeIsSound ==
  element.kind \in skip /\ element.tags = Empty => made = <<>>

\* The keys that may say what is at one side of a way, the most specific first.
Sources(p, side, s) ==
  <<<<p, side>> \o s, <<p, "both">> \o s>>
    \o (IF s # <<>> /\ s[1] \in Sides THEN <<>> ELSE <<<<p>> \o s>>)

\* What the clones of a kind write besides what they unnest: the outputs of their rules and
\* directed steps, and the companions of what they unnest.
SideSteps(k)  == UNION {Range(s.steps) : s \in {x \in Range(topic.pipelines[k]) : IsClone(x)}}
Outputs(k)    == {s.output : s \in {x \in SideSteps(k) : x.do \in {"rule", "directed"}}}
Companions(k) == UNION {s.meta : s \in {x \in SideSteps(k) : x.do = "unnest"}}

OnlyUnnested(k, name) == name[1] \notin Companions(k) /\ name \notin Outputs(k)

\* What follows a prefix in the keys of a way, its side left out or not.
NamesUnder(way, p) == {SubSeq(k, n, Len(k)) : k \in {x \in DOMAIN way : x[1] = p}, n \in {2, 3}}

\* What a way says under a name at one side of it, and what an object holds under it.
Says(way, p, side, s) ==
  LET ks    == Sources(p, side, s)
      given == {n \in DOMAIN ks : ks[n] \in DOMAIN way}
  IN  {way[ks[n]] : n \in {m \in given : \A h \in given : m <= h}}

Got(tags, name) == IF name \in DOMAIN tags THEN {tags[name]} ELSE {}

\* Unnested bare, both and then the side itself, a side object holds under each name what
\* the most specific key of its way says, in whatever order the keys came, and nothing
\* that is not its side's.  A name other steps write may hold what they say, and the
\* prefix itself is decided by the order if a key repeats it (`cycleway:cycleway`).
TellsItsSide(r, way) ==
  LET p     == r.ann["_prefix"]
      side  == Side(r.ann)
      names == {s \in NamesUnder(way, p) \ {<<>>, <<p>>} : s[1] \notin Sides /\ OnlyUnnested(r.kind, s)}
  IN  /\ <<p>> \notin NamesUnder(way, p) /\ OnlyUnnested(r.kind, <<p>>) =>
           Says(way, p, side, <<>>) = Got(r.obj, <<p>>)
      /\ \A s \in names : Says(way, p, side, s) = Got(r.obj, s)
      /\ \A k \in DOMAIN r.obj : k[1] \in Sides => \E x \in {"both", side} : <<p, x>> \o k \in DOMAIN way

MostSpecificWins ==
  \A i \in DOMAIN rows : \A way \in rows[i].parents :
    "_prefix" \in DOMAIN rows[i].ann => TellsItsSide(rows[i], way)

\* What a relation hands down: the fields of its first row, if it has any of them.
HandsDown(r) ==
  LET own == {i \in DOMAIN rows : rows[i].kind = "relation" /\ rows[i].osm = r}
      first == rows[CHOOSE i \in own : \A j \in own : i <= j]
  IN  IF own = {} THEN Empty ELSE [f \in topic.inherit \cap DOMAIN first.produced |-> first.produced[f]]

\* A way's own row, whose id has no clone's suffix, was evaluated against what its relations'
\* rows say: against each of them in a row of its own, or against all of them merged, the
\* higher id winning.
InheritedFromItsRelations ==
  \A i \in DOMAIN rows :
    LET r == rows[i]
        parents == {x \in DOMAIN members : r.osm \in Range(members[x]) /\ DOMAIN HandsDown(x) # {}}
        inherits == r.kind = "way" /\ (r.suffix = <<>> \/ r.suffix[1] = "relation")
    IN  /\ inherits /\ topic.mode = "fan_out" =>
              IF parents = {} THEN r.suffix = <<>> /\ r.parents = {}
              ELSE \E x \in parents : r.suffix = <<"relation", x>> /\ r.parents = {HandsDown(x)}
        /\ inherits /\ topic.mode = "merge" =>
              r.parents = IF parents = {} THEN {}
                          ELSE {[f \in UNION {DOMAIN HandsDown(x) : x \in parents} |->
                                  LET x == CHOOSE y \in parents :
                                             /\ f \in DOMAIN HandsDown(y)
                                             /\ \A z \in parents : z > y => f \notin DOMAIN HandsDown(z)
                                  IN  HandsDown(x)[f]]}

=============================================================================

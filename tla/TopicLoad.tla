----------------------------- MODULE TopicLoad -----------------------------
(***************************************************************************)
(* `Topic::load` (topic/model.rs, topic/load.rs, topic/spec.rs): a topic's *)
(* configuration files, and the shared ones beside them, made into what    *)
(* the run uses.  Every step may refuse the topic.                         *)
(*                                                                         *)
(* A document is the sequence of its leaves, as in MacroTable: "macro" and *)
(* "sanitize" leaves are references, a "chain" is a sanitizer chain, a     *)
(* "fault" is a reference that came to nothing.  An object is a function   *)
(* from keys to documents; one inside a document is a leaf "object" that   *)
(* holds it.  A condition made of two is their leaves in a row.  Optional  *)
(* things are sets with at most one element.  A configuration is           *)
(*   [shared, local, topic, library, dirs, steps]                          *)
(* with the config root's [macros, sanitizers, producers], the topic's own *)
(* [macros, sanitizers], topic.json, producers.json (name -> object), the  *)
(* category files (kind -> sequence of files, sorted by name; no entry for *)
(* a kind without a directory) and transforms.json (kind -> steps).        *)
(*                                                                         *)
(* topic.json's `producers` are [all, fields]: a bare true or false in     *)
(* `all`, or else a map from outputs to entries.                           *)
(*                                                                         *)
(* The shared producers name one another without a circle: the code does   *)
(* not look for one and would not return.                                  *)
(***************************************************************************)
EXTENDS MacroTable, FiniteSets, SequencesExt

CONSTANTS
    Confs,     \* the configurations a behaviour may load
    BuiltIns   \* the names of the built-in sanitizers

VARIABLES
    conf,     \* the configuration
    at,       \* the next part of the load, or "loaded", or "refused"
    loading,  \* what has been loaded
    left      \* the kinds whose categories have no fields yet

loadVars == <<macroVars, conf, at, loading, left>>

-----------------------------------------------------------------------------
(* References.                                                             *)

\* Seeded fault: the shared definitions are written over the topic's own.
MergeSharedWins(base, over) ==
    [k \in DOMAIN base \cup DOMAIN over |-> IF k \in DOMAIN base THEN base[k] ELSE over[k]]

\* More specific scope wins.
Merge(base, over) ==
    [k \in DOMAIN base \cup DOMAIN over |-> IF k \in DOMAIN over THEN over[k] ELSE base[k]]

Fault == [do |-> "fault", name |-> "fault"]
Faulty(doc) == \E i \in DOMAIN doc : doc[i].do = "fault"

\* Each leaf replaced by the leaves it stands for.
Replaced(doc, With(_)) == FlattenSeq([i \in DOMAIN doc |-> With(doc[i])])

\* The table's bodies name no macro any more.
InlineMacro(leaf, macros) ==
    IF leaf.do # "macro" THEN <<leaf>>
    ELSE IF leaf.name \in DOMAIN macros THEN macros[leaf.name] ELSE <<Fault>>

\* `sanitizers.json` first, then the built-in of that name.
ResolveNamedSanitizer(name, sanitizers) ==
    IF name \in DOMAIN sanitizers THEN [do |-> "chain", name |-> sanitizers[name].chain]
    ELSE IF name \in BuiltIns THEN [do |-> "chain", name |-> name] ELSE Fault

\* Only a name is accepted where a chain belongs: a chain written out, or
\* put in by an earlier pass, is refused.
InlineSanitize(leaf, sanitizers) ==
    CASE leaf.do = "sanitize" -> <<ResolveNamedSanitizer(leaf.name, sanitizers)>>
      [] leaf.do = "chain"    -> <<Fault>>
      [] OTHER                -> <<leaf>>

InlineSanitizeRefs(doc, sanitizers) ==
    LET With(leaf) == InlineSanitize(leaf, sanitizers) IN Replaced(doc, With)

\* Macros first: a macro's body may name a sanitizer.
ResolveRefs(doc, macros, sanitizers) ==
    LET With(leaf) == InlineMacro(leaf, macros)
    IN  InlineSanitizeRefs(Replaced(doc, With), sanitizers)

Resolve(doc) == ResolveRefs(doc, table, loading.sanitizers)

\* An object inside a document, once the references in it are gone: key by
\* key, what each one holds behind it.
InRow(obj) ==
    LET keys == SetToSeq(DOMAIN obj)
    IN  FlattenSeq([i \in DOMAIN keys |-> <<[do |-> "key", name |-> keys[i]]>> \o obj[keys[i]]])

Names(doc) == Len(doc) = 1 /\ doc[1].do = "tag"

\* An object that refers to a shared producer has the keys of that one under
\* those written beside the reference, and so on while there is a reference.
\* Where there is none its values are searched for objects, at any depth.
RECURSIVE InlineShared(_, _)
InlineShared(obj, shared) ==
    LET own        == [k \in DOMAIN obj \ {"shared"} |-> obj[k]]
        With(leaf) == IF leaf.do = "object" THEN InRow(InlineShared(leaf.keys, shared)) ELSE <<leaf>>
    IN  IF "shared" \notin DOMAIN obj THEN [k \in DOMAIN obj |-> Replaced(obj[k], With)]
        ELSE IF Names(obj["shared"]) /\ obj["shared"][1].name \in DOMAIN shared
             THEN InlineShared(Merge(shared[obj["shared"][1].name], own), shared)
             ELSE [k \in {"shared"} |-> <<Fault>>]

-----------------------------------------------------------------------------
(* Category files.                                                         *)

\* A file [stem, base, family, variants] holds one category, or one for each
\* variant; base and variants are [condition, excludes, defaults, producers],
\* a variant has a name too.  An id is the words of the stem and the name.
Variant(file, v) ==
    [id        |-> file.stem \o v.name,
     condition |-> {c1 \o c2 : c1 \in file.base.condition, c2 \in v.condition}
                     \cup (IF v.condition = {} THEN file.base.condition ELSE {})
                     \cup (IF file.base.condition = {} THEN v.condition ELSE {}),
     excludes  |-> file.base.excludes \cup v.excludes,
     defaults  |-> Merge(file.base.defaults, v.defaults),
     producers |-> Merge(file.base.producers, v.producers)]

Single(file) ==
    [id |-> file.stem, condition |-> file.base.condition, excludes |-> file.base.excludes,
     defaults |-> file.base.defaults, producers |-> file.base.producers]

ExpandFamily(file) ==
    IF file.family THEN [i \in DOMAIN file.variants |-> Variant(file, file.variants[i])]
    ELSE <<Single(file)>>

CategoriesIn(files) ==
    LET flat == FlattenSeq([f \in DOMAIN files |-> ExpandFamily(files[f])])
    IN  [i \in DOMAIN flat |->
           [flat[i] EXCEPT !.condition = {Resolve(c) : c \in @}]]

Usable(cats) ==
    \A i \in DOMAIN cats : cats[i].condition # {} /\ ~\E c \in cats[i].condition : Faulty(c)

\* What `build_order` refuses (the module CategoryOrder models how): an
\* unknown name, or categories each of which is beaten by another.
Orderable(cats) ==
    LET ids == {cats[i].id : i \in DOMAIN cats}
        beating(id) == UNION {cats[i].excludes : i \in {j \in DOMAIN cats : cats[j].id = id}}
    IN  /\ \A id \in ids : beating(id) \subseteq ids \cup {<<m>> : m \in DOMAIN table}
        /\ \A S \in SUBSET ids : S # {} => \E id \in S : beating(id) \cap S = {}

-----------------------------------------------------------------------------
(* Transform steps and fields.                                             *)

\* A step [keys, annotates, doc] is told by its keys; a clone by being alone.
StepShape(step) ==
    CASE step.keys = {"clone"}      -> "clone"
      [] "stamp_key" \in step.keys  -> "strip"
      [] "unnest" \in step.keys     -> "unnest"
      [] "drop" \in step.keys       -> "drop"
      [] "directed" \in step.keys   -> IF "output" \in step.keys THEN "directed" ELSE "fault"
      [] "output" \in step.keys     -> "rule"
      [] OTHER                      -> "fault"

IntoStep(step) ==
    [shape |-> StepShape(step), annotates |-> step.annotates, doc |-> Resolve(step.doc)]

Pipelines ==
    [k \in {kind \in DOMAIN conf.steps : conf.steps[kind] # <<>>} |->
        [i \in DOMAIN conf.steps[k] |-> IntoStep(conf.steps[k][i])]]

SplitsSides(steps) ==
    \E i \in DOMAIN steps : steps[i].shape = "clone" /\ "_side" \in steps[i].annotates

\* An entry [as, name] of a `producers` map as the source of an output.
ResolveProducerEntry(output, entry) ==
    CASE entry.as = "true" -> [do |-> "extract", name |-> output]
      [] entry.as = "named" /\ entry.name \in DOMAIN loading.library ->
           [do |-> "producer", name |-> entry.name]
      [] entry.as = "sanitizer" -> ResolveNamedSanitizer(entry.name, loading.sanitizers)
      [] OTHER -> Fault

ResolveProducers(producers) ==
    [o \in DOMAIN producers |-> <<ResolveProducerEntry(o, producers[o])>>]

\* A default comes after what its output has, or is all it has.
MergeDefaultFields(fields, defaults) ==
    [o \in DOMAIN fields \cup DOMAIN defaults |->
        (IF o \in DOMAIN fields THEN fields[o] ELSE <<>>)
          \o (IF o \in DOMAIN defaults THEN <<[do |-> "const", name |-> defaults[o]]>> ELSE <<>>)]

\* The fields of one level, and whether all its entries resolve.
FieldsOf(producers, defaults) == MergeDefaultFields(ResolveProducers(producers), defaults)
Resolvable(producers) == \A o \in DOMAIN producers : ~Faulty(ResolveProducers(producers)[o])

-----------------------------------------------------------------------------
(* The load.                                                               *)

RawMacros(c) == Merge(c.shared.macros, c.local.macros)

\* ProducersSpec: `true` asks for every tag, `false` is an empty map.
IsAll(spec) == spec.all = {TRUE}
IntoFieldsMap(spec) == IF spec.all = {} THEN spec.fields ELSE <<>>

Nothing ==
    [sanitizers |-> <<>>, exclude |-> <<>>, library |-> <<>>, categories |-> <<>>,
     accept_all |-> {}, pipelines |-> <<>>, pass_all |-> FALSE, passthrough |-> {},
     producers |-> <<>>, default_producers |-> <<>>, category_producers |-> <<>>,
     stamps_side |-> {}]

LoadInit ==
    /\ conf \in Confs
    /\ raw = RawMacros(conf)
    /\ MacroStart
    /\ at = "sanitizers"
    /\ loading = Nothing
    /\ left = {}

\* The part at hand is refused, or gives `got` and the load goes on.
Gives(refused, got, next) ==
    /\ at' = IF refused THEN "refused" ELSE next
    /\ loading' = IF refused THEN loading ELSE got
    /\ UNCHANGED conf

LoadSanitizers ==
    /\ at = "sanitizers"
    /\ Gives(\E t \in {conf.shared.sanitizers, conf.local.sanitizers} :
                \E n \in DOMAIN t : ~t[n].bijective,
             [loading EXCEPT !.sanitizers = Merge(conf.shared.sanitizers, conf.local.sanitizers)],
             "macros")
    /\ UNCHANGED <<macroVars, left>>

ResolveMacros ==
    /\ at = "macros"
    /\ MacroStep
    /\ UNCHANGED <<conf, at, loading, left>>

\* Seeded fault: the macros are not made into conditions here.
LoadMacrosUnread ==
    /\ at = "macros"
    /\ verdict # "resolving"
    /\ Gives(verdict = "refused", loading, "topic")
    /\ UNCHANGED <<macroVars, left>>

\* Every macro is made into a condition as well, whoever uses it.
LoadMacros ==
    /\ at = "macros"
    /\ verdict # "resolving"
    /\ Gives(verdict = "refused"
               \/ \E n \in DOMAIN table : Faulty(InlineSanitizeRefs(table[n], loading.sanitizers)),
             loading, "topic")
    /\ UNCHANGED <<macroVars, left>>

LoadTopicJson ==
    /\ at = "topic"
    /\ Gives(Faulty(Resolve(conf.topic.exclude)) \/ conf.topic.nodeShape \notin {"none", "point"},
             [loading EXCEPT !.exclude = Resolve(conf.topic.exclude)], "library")
    /\ UNCHANGED <<macroVars, left>>

\* The whole file is one object to the inlining, so that no producer of it
\* can be called "shared".
LoadLibrary ==
    /\ at = "library"
    /\ LET lib == [n \in DOMAIN conf.library |->
                     LET obj == InlineShared(conf.library[n], conf.shared.producers)
                     IN  [k \in DOMAIN obj |-> Resolve(obj[k])]]
       IN  Gives(\/ "shared" \in DOMAIN conf.library
                 \/ \E n \in DOMAIN lib : \E k \in DOMAIN lib[n] : Faulty(lib[n][k]),
                 [loading EXCEPT !.library = lib], "categories")
    /\ UNCHANGED <<macroVars, left>>

\* A kind has its category directory or accepts everything, never both.
LoadCategories ==
    /\ at = "categories"
    /\ LET cats == [k \in DOMAIN conf.dirs |-> CategoriesIn(conf.dirs[k])]
       IN  Gives(\/ \E k \in DOMAIN cats : ~Usable(cats[k]) \/ ~Orderable(cats[k])
                 \/ DOMAIN cats \cap conf.topic.accept_all # {},
                 [loading EXCEPT !.categories = cats, !.accept_all = conf.topic.accept_all],
                 "transforms")
    /\ UNCHANGED <<macroVars, left>>

LoadTransforms ==
    /\ at = "transforms"
    /\ Gives(\E k \in DOMAIN Pipelines : \E i \in DOMAIN Pipelines[k] :
                Pipelines[k][i].shape = "fault" \/ Faulty(Pipelines[k][i].doc),
             [loading EXCEPT !.pipelines = Pipelines], "producers")
    /\ UNCHANGED <<macroVars, left>>

\* The entries of topic.json, the passed through tags among them; a tag may
\* be named once, there or here.  A null among the tags says the same as
\* `producers: true`, and both may be said.
LoadTopicProducers ==
    /\ at = "producers"
    /\ LET passed == conf.topic.passthrough
           fields == IntoFieldsMap(conf.topic.producers)
           all    == Merge(fields, [t \in Range(passed) |-> [as |-> "true", name |-> "true"]])
       IN  /\ Gives(\/ ~IsInjective(passed)
                    \/ Range(passed) \cap DOMAIN fields # {}
                    \/ ~Resolvable(all),
                    [loading EXCEPT !.pass_all = IsAll(conf.topic.producers) \/ conf.topic.passNull,
                                  !.producers = all,
                                  !.passthrough = {o \in DOMAIN all : all[o].as = "true"},
                                  !.default_producers = FieldsOf(all, conf.topic.defaults)],
                    "cascade")
           /\ left' = DOMAIN loading.categories
    /\ UNCHANGED macroVars

\* Seeded fault: a kind's categories are numbered from the start again.
CascadeNumberedByKind ==
    /\ at = "cascade"
    /\ \E k \in left :
         LET cats   == loading.categories[k]
             raws   == [i \in DOMAIN cats |-> Merge(loading.producers, cats[i].producers)]
             fields == [i \in DOMAIN cats |->
                          FieldsOf(raws[i], Merge(conf.topic.defaults, cats[i].defaults))]
         IN  /\ Gives(\E i \in DOMAIN cats : ~Resolvable(raws[i]),
                      [loading EXCEPT
                         !.categories[k] = [i \in DOMAIN cats |-> cats[i] @@ [idx |-> i]],
                         !.category_producers = @ \o fields],
                      "cascade")
             /\ left' = left \ {k}
    /\ UNCHANGED macroVars

\* The categories of one kind: a hash map's kinds come in any order.
Cascade ==
    /\ at = "cascade"
    /\ \E k \in left :
         LET cats   == loading.categories[k]
             before == Len(loading.category_producers)
             raws   == [i \in DOMAIN cats |-> Merge(loading.producers, cats[i].producers)]
             fields == [i \in DOMAIN cats |->
                          FieldsOf(raws[i], Merge(conf.topic.defaults, cats[i].defaults))]
         IN  /\ Gives(\E i \in DOMAIN cats : ~Resolvable(raws[i]),
                      [loading EXCEPT
                         !.categories[k] = [i \in DOMAIN cats |-> cats[i] @@ [idx |-> before + i]],
                         !.category_producers = @ \o fields],
                      "cascade")
             /\ left' = left \ {k}
    /\ UNCHANGED macroVars

\* A topic that splits off sides needs the id column.
CheckIds ==
    /\ at = "cascade"
    /\ left = {}
    /\ LET sides == {k \in DOMAIN loading.pipelines : SplitsSides(loading.pipelines[k])}
       IN  Gives(conf.topic.idType = "none" /\ sides # {},
                 [loading EXCEPT !.stamps_side = sides], "loaded")
    /\ UNCHANGED <<macroVars, left>>

Terminated ==
    /\ at \in {"loaded", "refused"}
    /\ UNCHANGED loadVars

LoadNext ==
    \/ LoadSanitizers \/ ResolveMacros \/ LoadMacros \/ LoadTopicJson \/ LoadLibrary
    \/ LoadCategories \/ LoadTransforms \/ LoadTopicProducers \/ Cascade \/ CheckIds
    \/ Terminated

LoadSpec == LoadInit /\ [][LoadNext]_loadVars

(***************************************************************************)
(* Properties.  What a configuration means is said here of the files as    *)
(* they are written, without the passes and tables of the load.            *)
(***************************************************************************)
\* The first of some tables that has a name, as an optional value.
FirstOf(tables, name) ==
    LET having == {i \in DOMAIN tables : name \in DOMAIN tables[i]}
    IN  {tables[i][name] : i \in {j \in having : \A h \in having : j <= h}}

Scopes(part) ==
    IF part = "macros" THEN <<conf.local.macros, conf.shared.macros>>
    ELSE <<conf.local.sanitizers, conf.shared.sanitizers>>

\* A producer and the shared ones it builds on, nearest first.
RECURSIVE Bases(_)
Bases(obj) ==
    IF "shared" \notin DOMAIN obj THEN <<obj>>
    ELSE LET own  == [k \in DOMAIN obj \ {"shared"} |-> obj[k]]
             base == {n \in DOMAIN conf.shared.producers :
                        obj["shared"] = <<[do |-> "tag", name |-> n]>>}
         IN  <<own>> \o (IF base = {} THEN <<[k \in {"lost"} |-> <<Fault>>]>>
                         ELSE Bases(conf.shared.producers[CHOOSE n \in base : TRUE]))

\* A document with every reference followed where it stands; `inside` are
\* the macros being followed.  An object means its keys with what they mean,
\* its own before those of what it builds on.
RECURSIVE Meaning(_, _)
Meaning(doc, inside) ==
    LET Chain(name) ==
            {c.chain : c \in FirstOf(Scopes("sanitizers"), name)}
              \cup {b \in {name} \cap BuiltIns : FirstOf(Scopes("sanitizers"), name) = {}}
        With(leaf) ==
            CASE leaf.do = "macro" ->
                   IF leaf.name \in inside \/ FirstOf(Scopes("macros"), leaf.name) = {}
                   THEN <<Fault>>
                   ELSE Meaning(CHOOSE d \in FirstOf(Scopes("macros"), leaf.name) : TRUE,
                                inside \cup {leaf.name})
              [] leaf.do = "sanitize" ->
                   IF Chain(leaf.name) = {} THEN <<Fault>>
                   ELSE <<[do |-> "chain", name |-> CHOOSE c \in Chain(leaf.name) : TRUE]>>
              [] leaf.do = "chain" -> <<Fault>>
              [] leaf.do = "object" ->
                   LET bases == Bases(leaf.keys)
                   IN  InRow([k \in UNION {DOMAIN bases[i] : i \in DOMAIN bases} |->
                                Meaning(CHOOSE d \in FirstOf(bases, k) : TRUE, inside)])
              [] OTHER -> <<leaf>>
    IN  Replaced(doc, With)

Means(doc) == Meaning(doc, {})
Sound(doc) == ~Faulty(Means(doc))

\* The producer as a set of keys with what they mean.
BuiltFrom(obj) ==
    LET bases == Bases(obj)
    IN  [k \in UNION {DOMAIN bases[i] : i \in DOMAIN bases} |->
            Means(CHOOSE d \in FirstOf(bases, k) : TRUE)]

\* The categories written in a kind's files: an id and the levels that say
\* something of it, nearest first.
Written(k) ==
    UNION {LET file == conf.dirs[k][f]
           IN  IF ~file.family THEN {[id |-> file.stem, levels |-> <<file.base>>]}
               ELSE {[id |-> file.stem \o file.variants[v].name,
                      levels |-> <<file.variants[v], file.base>>] : v \in DOMAIN file.variants}
           : f \in DOMAIN conf.dirs[k]}

\* All the conditions of its levels, the family's first.
ConditionOf(w) ==
    FlattenSeq([i \in DOMAIN w.levels |->
        LET c == w.levels[Len(w.levels) + 1 - i].condition
        IN  IF c = {} THEN <<>> ELSE CHOOSE d \in c : TRUE])

ProducersOf(w) ==
    [i \in DOMAIN w.levels |-> w.levels[i].producers]
      \o <<conf.topic.producers.fields,
           [t \in Range(conf.topic.passthrough) |-> [as |-> "true", name |-> "true"]]>>
DefaultsOf(w) == [i \in DOMAIN w.levels |-> w.levels[i].defaults] \o <<conf.topic.defaults>>
ExcludesOf(w) == UNION {w.levels[i].excludes : i \in DOMAIN w.levels}

EntrySource(output, entry) ==
    CASE entry.as = "true"      -> [do |-> "extract", name |-> output]
      [] entry.as = "named"     -> [do |-> "producer", name |-> entry.name]
      [] entry.as = "sanitizer" -> Means(<<[do |-> "sanitize", name |-> entry.name]>>)[1]

SoundEntry(entry) ==
    \/ entry.as = "true"
    \/ entry.as = "named" /\ entry.name \in DOMAIN conf.library
    \/ entry.as = "sanitizer" /\ Sound(<<[do |-> "sanitize", name |-> entry.name]>>)

\* What a category's rows read for an output: its nearest entry, then its
\* nearest default.
SourcesOf(w, o) ==
    SetToSeq({EntrySource(o, e) : e \in FirstOf(ProducersOf(w), o)})
      \o SetToSeq({[do |-> "const", name |-> d] : d \in FirstOf(DefaultsOf(w), o)})

OutputsOf(w) ==
    LET levels == ProducersOf(w) \o DefaultsOf(w) IN UNION {DOMAIN levels[i] : i \in DOMAIN levels}

Loaded(k, w) == CHOOSE i \in DOMAIN loading.categories[k] : loading.categories[k][i].id = w.id

\* Every document of a loaded topic is what its file says with each
\* reference followed where it stands: the topic's own definition of a name
\* wins wherever the name is met, inside a shared macro too, and a sanitizer
\* named in a macro is resolved once.
DocumentsMeanWhatTheySay ==
    at = "loaded" =>
        /\ loading.exclude = Means(conf.topic.exclude)
        /\ DOMAIN loading.library = DOMAIN conf.library
        /\ \A n \in DOMAIN conf.library : loading.library[n] = BuiltFrom(conf.library[n])
        /\ \A k \in DOMAIN conf.dirs : \A w \in Written(k) :
             loading.categories[k][Loaded(k, w)].condition = {Means(ConditionOf(w))}
        /\ \A k \in DOMAIN loading.pipelines : \A i \in DOMAIN loading.pipelines[k] :
             loading.pipelines[k][i].doc = Means(conf.steps[k][i].doc)

\* A configuration nothing is wrong with, whichever part would be read first.
Sensible ==
    LET names   == DOMAIN conf.local.macros \cup DOMAIN conf.shared.macros
        written == UNION {Written(k) : k \in DOMAIN conf.dirs}
        chains  == {conf.local.sanitizers, conf.shared.sanitizers}
        noted   == DOMAIN conf.topic.producers.fields \cup Range(conf.topic.passthrough)
    IN  /\ \A m \in names : Sound(<<[do |-> "macro", name |-> m]>>)
        /\ \A t \in chains : \A n \in DOMAIN t : t[n].bijective
        /\ Sound(conf.topic.exclude)
        /\ "shared" \notin DOMAIN conf.library
        /\ \A n \in DOMAIN conf.library : \A k \in DOMAIN BuiltFrom(conf.library[n]) :
             ~Faulty(BuiltFrom(conf.library[n])[k])
        /\ \A w \in written :
             /\ \E i \in DOMAIN w.levels : w.levels[i].condition # {}
             /\ Sound(ConditionOf(w))
             /\ \A o \in OutputsOf(w) : \A e \in FirstOf(ProducersOf(w), o) : SoundEntry(e)
        /\ \A k \in DOMAIN conf.dirs :
             /\ k \notin conf.topic.accept_all
             /\ \A w \in Written(k) : \A y \in ExcludesOf(w) :
                  y \in {v.id : v \in Written(k)} \cup {<<m>> : m \in names}
             /\ \A S \in SUBSET Written(k) :
                  S # {} => \E w \in S : {v.id : v \in S} \cap ExcludesOf(w) = {}
        /\ Cardinality(noted)
             = Cardinality(DOMAIN conf.topic.producers.fields) + Len(conf.topic.passthrough)
        /\ \A o \in DOMAIN conf.topic.producers.fields : SoundEntry(conf.topic.producers.fields[o])
        /\ \A k \in DOMAIN conf.steps : \A i \in DOMAIN conf.steps[k] :
             StepShape(conf.steps[k][i]) # "fault" /\ Sound(conf.steps[k][i].doc)
        /\ conf.topic.nodeShape \in {"none", "point"}
        /\ conf.topic.idType = "none" =>
             \A k \in DOMAIN conf.steps : \A i \in DOMAIN conf.steps[k] :
               StepShape(conf.steps[k][i]) = "clone" => "_side" \notin conf.steps[k][i].annotates

\* A topic is refused exactly when something is wrong with its files, a
\* macro nobody uses included.  Nothing is wrong with a null among the passed
\* through tags beside `producers: true`: model.rs:312-314 says so, and
\* spec.rs:44-45 says that it is refused (NullBesideAllIsRefused, below).
RefusedIffFaulty ==
    /\ at = "refused" => ~Sensible
    /\ at = "loaded" => Sensible

\* Every category has fields of its own, whatever kind it is of: each
\* output reads the nearest of the variant's entry, the family's, the topic's
\* and the passed through tag, and after it the nearest default.  That holds
\* for a node and a way category of one stem as well, which the comment at
\* model.rs:349-350 says "would collide here": the fields of a category are
\* found by its number, never by its id.
EachCategoryItsFields ==
    at = "loaded" =>
        LET places == {<<k, w>> : k \in DOMAIN conf.dirs, w \in UNION {Written(j) : j \in DOMAIN conf.dirs}}
            real   == {p \in places : p[2] \in Written(p[1])}
            idx(p) == loading.categories[p[1]][Loaded(p[1], p[2])].idx
        IN  /\ \A p, q \in real : idx(p) = idx(q) => p = q
            /\ \A p \in real :
                 loading.category_producers[idx(p)]
                   = [o \in OutputsOf(p[2]) |-> SourcesOf(p[2], o)]

\* What spec.rs:44-45 says of a null among the passed through tags: that it is
\* "Redundant (and a load-time error) alongside `producers: true`".
NullBesideAllIsRefused ==
    at = "loaded" => ~(IsAll(conf.topic.producers) /\ conf.topic.passNull)
=============================================================================

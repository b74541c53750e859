---------------------------- MODULE MCTopicLoad ----------------------------
(***************************************************************************)
(* One ordinary configuration, and the ways to change one or two of its    *)
(* parts: what the macros of the config root and of the topic say of each  *)
(* other, the sanitizers, what each file refers to, the families, the kinds*)
(* with a directory, the entries and defaults of the levels.               *)
(***************************************************************************)
EXTENDS TopicLoad

MCName ==
    {"a", "b", "c", "s", "t", "parse_length", "x", "y", "lib", "base", "top", "deep",
     "strict", "loose", "lost", "nobody"}
MCBuiltIns == {"parse_length"}

Macro(n) == [do |-> "macro", name |-> n]
San(n) == [do |-> "sanitize", name |-> n]
Key(n) == [do |-> "tag", name |-> n]
Chained(n) == [do |-> "chain", name |-> n]
Of(k, v) == [x \in {k} |-> v]
None == [x \in {} |-> <<>>]
Chain(n) == [chain |-> n, bijective |-> TRUE]

Entry(as, name) == [as |-> as, name |-> name]
Level(condition, excludes, defaults, producers) ==
    [condition |-> condition, excludes |-> excludes, defaults |-> defaults, producers |-> producers]
Named(name, level) == level @@ [name |-> name]
File(stem, base) == [stem |-> stem, base |-> base, family |-> FALSE, variants |-> <<>>]
Family(stem, base, variants) == [stem |-> stem, base |-> base, family |-> TRUE, variants |-> variants]
All(b) == [all |-> {b}, fields |-> None]
Fields(map) == [all |-> {}, fields |-> map]
Obj(obj) == [do |-> "object", keys |-> obj]
StepOf(keys, annotates, doc) == [keys |-> keys, annotates |-> annotates, doc |-> doc]

Lane  == Named(<<"lane">>, Level({<<Key("x"), Macro("b")>>}, {<<"c">>}, Of("minzoom", "v"), Of("width", Entry("named", "lib"))))
Track == Named(<<"track">>, Level({}, {<<"bike", "lane">>}, None, None))
Bike  == Family(<<"bike">>,
           Level({<<Macro("a")>>}, {}, Of("minzoom", "f"), Of("surface", Entry("sanitizer", "s"))),
           <<Lane, Track>>)
Gate  == File(<<"gate">>, Level({<<Key("y")>>}, {}, Of("width", "g"), Of("width", Entry("true", "true"))))

\* A reference inside a document, with a key of its own beside it.
Overridden == Obj("shared" :> <<Key("top")>> @@ "match" :> <<Macro("a")>>)

Base ==
    [shared  |-> [macros     |-> ("a" :> <<Macro("c"), San("s")>> @@ "c" :> <<Key("x")>>),
                  sanitizers |-> ("s" :> Chain("loose")),
                  producers  |-> ("base" :> ("shared" :> <<Key("top")>> @@ "match" :> <<Macro("b")>>)
                                   @@ "top" :> ("match" :> <<Key("x")>> @@ "annotate" :> <<Key("y")>>)
                                   @@ "deep" :> ("match" :> <<Key("x"), Overridden>>))],
     local   |-> [macros     |-> ("b" :> <<Key("y"), San("s")>> @@ "c" :> <<Key("y")>>),
                  sanitizers |-> ("s" :> Chain("strict") @@ "t" :> Chain("loose"))],
     topic   |-> [exclude     |-> <<Macro("a"), Key("x"), San("parse_length")>>,
                  producers   |-> Fields(Of("name", Entry("true", "true"))),
                  passthrough |-> <<"width">>,
                  passNull    |-> FALSE,
                  defaults    |-> ("minzoom" :> "t" @@ "name" :> "n"),
                  accept_all  |-> {"relation"},
                  nodeShape   |-> "point",
                  idType      |-> "type_id"],
     library |-> Of("lib", "shared" :> <<Key("base")>> @@ "key" :> <<San("t")>>),
     dirs    |-> ("way" :> <<Bike, Gate>> @@ "node" :> <<Gate>>),
     steps   |-> ("way" :> <<StepOf({"clone"}, {"_side"}, <<Macro("a")>>), StepOf({"drop"}, {}, <<San("t")>>)>>
                   @@ "node" :> <<>>)]

\* A topic with a topic.json of the least size and no other file.
Bare ==
    [shared  |-> [macros |-> None, sanitizers |-> None, producers |-> None],
     local   |-> [macros |-> None, sanitizers |-> None],
     topic   |-> [exclude |-> <<>>, producers |-> Fields(None), passthrough |-> <<>>, passNull |-> FALSE,
                  defaults |-> None, accept_all |-> {}, nodeShape |-> "none", idType |-> "type_id"],
     library |-> None, dirs |-> None, steps |-> None]

Bodies == {<<Key("x")>>, <<Macro("a")>>, <<Macro("b")>>, <<Macro("c"), Macro("b")>>, <<San("t"), Macro("c")>>}

\* How the macros refer to each other, whether anything uses them or not.
MacroConfs ==
    {[Base EXCEPT !.shared.macros = ("a" :> a @@ "c" :> c),
                  !.local.macros = own @@ ("b" :> b)] :
        a \in Bodies, b \in Bodies, c \in Bodies \ {<<Macro("c"), Macro("b")>>},
        own \in {None, "c" :> <<Key("y"), Macro("a")>>, "a" :> <<Macro("lost")>>, "y" :> <<San("nobody")>>}}

SanitizerConfs ==
    {[Base EXCEPT !.shared.sanitizers = sh, !.local.sanitizers = lo, !.shared.macros["c"] = c] :
        sh \in {None, "s" :> Chain("loose"), "t" :> [chain |-> "loose", bijective |-> FALSE]},
        lo \in {None, "s" :> Chain("strict") @@ "t" :> Chain("loose"), "parse_length" :> Chain("strict") @@ "t" :> Chain("x")},
        c \in {<<Key("x")>>, <<San("parse_length")>>, <<Chained("x")>>}}

FileConfs ==
    {[Base EXCEPT !.dirs = d, !.topic.accept_all = all, !.topic.defaults = def] :
        d \in {None, "way" :> <<>>, "way" :> <<Gate>>, "way" :> <<Bike, Gate>> @@ "node" :> <<Gate>>,
               "way" :> <<Bike, Gate>> @@ "node" :> <<Bike>> @@ "relation" :> <<Gate>>,
               "way" :> <<[Bike EXCEPT !.base.condition = {}], Gate>>,
               "way" :> <<[Bike EXCEPT !.base.condition = {}, !.variants = <<Lane>>], Gate>>,
               "way" :> <<[Bike EXCEPT !.variants = <<>>], [Gate EXCEPT !.base.condition = {<<Chained("x")>>}]>>,
               "way" :> <<[Bike EXCEPT !.variants[1].excludes = {<<"bike", "track">>}]>>,
               "node" :> <<[Gate EXCEPT !.base.excludes = {<<"nobody">>}]>>,
               "node" :> <<[Gate EXCEPT !.base.excludes = {<<"gate">>}]>>,
               "node" :> <<[Gate EXCEPT !.base.producers = Of("width", Entry("named", "nobody"))]>>,
               "way" :> <<[Bike EXCEPT !.base.producers = Of("width", Entry("inline", "x"))]>>},
        all \in {{}, {"node"}},
        def \in {None, "minzoom" :> "t" @@ "name" :> "n"}}

TopicConfs ==
    {[Base EXCEPT !.topic.producers = Fields(p), !.topic.passthrough = pass, !.topic.exclude = e] :
        p \in {None, Of("name", Entry("true", "true")), Of("width", Entry("sanitizer", "parse_length")),
               Of("name", Entry("false", "false")), Of("name", Entry("sanitizer", "lib")),
               Of("surface", Entry("named", "lib"))},
        pass \in {<<>>, <<"width">>, <<"width", "name">>, <<"name", "name">>},
        e \in {<<>>, <<Macro("nobody")>>, <<San("t"), Macro("b")>>}}
    \cup {[Base EXCEPT !.topic.producers = p, !.topic.passthrough = pass, !.topic.passNull = null,
                        !.topic.nodeShape = shape] :
            p \in {All(TRUE), All(FALSE), Fields(None)}, pass \in {<<>>, <<"width">>, <<"name", "name">>},
            null \in BOOLEAN, shape \in {"none", "point", "line"}}

LibraryConfs ==
    {[Base EXCEPT !.library = lib] :
        lib \in {None, Of("lib", "match" :> <<Macro("b")>>), Of("lib", "shared" :> <<Key("nobody")>>),
                 Of("lib", "shared" :> <<Key("top")>> @@ "annotate" :> <<Macro("a")>>),
                 Of("lib", "shared" :> <<Key("base")>> @@ "match" :> <<San("nobody")>>),
                 Of("lib", "shared" :> <<Key("base")>> @@ "annotate" :> <<>>),
                 Of("shared", "match" :> <<Key("x")>>),
                 Of("lib", "match" :> <<Key("x"), Obj("key" :> <<San("t"), Obj("shared" :> <<Key("base")>>)>>)>>),
                 Of("lib", "shared" :> <<Key("deep")>> @@ "annotate" :> <<Obj("shared" :> <<Key("deep")>>)>>),
                 Of("lib", "match" :> <<Obj("shared" :> <<Key("nobody")>> @@ "match" :> <<Key("x")>>)>>),
                 Of("lib", "match" :> <<Obj("shared" :> <<Obj("key" :> <<Key("x")>>)>>)>>)}}

StepConfs ==
    {[Base EXCEPT !.steps["way"] = <<step>>, !.topic.idType = id] :
        step \in {StepOf({"clone"}, {"_side"}, <<Macro("c")>>), StepOf({"clone"}, {"_kind"}, <<Macro("b")>>),
                  StepOf({"clone", "drop"}, {"_side"}, <<Macro("b")>>), StepOf({"clone", "key"}, {"_side"}, <<>>),
                  StepOf({"stamp_key", "unnest"}, {}, <<>>), StepOf({"unnest"}, {}, <<San("nobody")>>),
                  StepOf({"directed"}, {}, <<San("t")>>), StepOf({"directed", "output"}, {}, <<San("t")>>),
                  StepOf({"output", "key"}, {}, <<San("s"), Macro("a")>>)},
        id \in {"type_id", "id", "none"}}

MCConfs ==
    {Base, Bare} \cup MacroConfs \cup SanitizerConfs \cup FileConfs \cup TopicConfs
      \cup LibraryConfs \cup StepConfs
MCTables == {RawMacros(c) : c \in MCConfs}
=============================================================================

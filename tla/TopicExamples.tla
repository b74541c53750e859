--------------------------- MODULE TopicExamples ---------------------------
(***************************************************************************)
(* Nine topics: one that splits off the sides of a way as the shipped      *)
(* bikelanes topic does, one that strips a prefix, two whose relations     *)
(* hand fields down (fanned out and merged), two over nodes, and three     *)
(* whose rows the loader lets clash: without an id column, without kinds   *)
(* in the ids and with a suffix given twice.                               *)
(***************************************************************************)
EXTENDS TopicRows

(* Conditions are conjunctions of atoms; a producer reads a key, or gives a *)
(* constant when a condition holds.                                         *)
AtomHolds(a, ctx) ==
  CASE a.on = "empty"  -> (DOMAIN ctx.obj = {}) = a.want
    [] a.on = "ann"    -> (a.key \in DOMAIN ctx.ann /\ ctx.ann[a.key] \in a.vals) = a.want
    [] a.on = "obj"    -> (a.key \in DOMAIN ctx.obj /\ ctx.obj[a.key] \in a.vals) = a.want
    [] a.on = "parent" -> (\E t \in ctx.parents : a.key \in DOMAIN t /\ t[a.key] \in a.vals) = a.want

MCHolds(f, ctx) == \A a \in f : AtomHolds(a, ctx)

MCProduce(p, ctx) ==
  IF ~MCHolds(p.when, ctx) THEN {}
  ELSE IF p.key = <<>> THEN {p.value}
  ELSE LET from == IF p.parent THEN ctx.parents ELSE {ctx.obj}
       IN  {t[p.key] : t \in {u \in from : p.key \in DOMAIN u}}

MCCategory(t, kind, ctx) ==
  LET matching == {i \in DOMAIN t.categories : MCHolds(t.categories[i].when, ctx)}
  IN  {t.categories[i].name : i \in {m \in matching : \A n \in matching : m <= n}}

On(on, key, vals, want) == {[on |-> on, key |-> key, vals |-> vals, want |-> want]}
TagIs(k, v)    == On("obj", k, {v}, TRUE)
ParentIs(k, v) == On("parent", k, {v}, TRUE)
NoTags == On("empty", <<>>, {}, TRUE)

ReadKey(k)       == [when |-> {}, key |-> k, value |-> Null, parent |-> FALSE]
ReadParent(k)    == [ReadKey(k) EXCEPT !.parent = TRUE]
ConstWhen(f, v)  == [when |-> f, key |-> <<>>, value |-> v, parent |-> FALSE]

CW == "cycleway"
HW == <<"highway">>
Lanes == <<"lanes">>
Identity == [v \in {"a", "b", "no", "cycleway"} |-> v]

Rule(output, source) == [do |-> "rule", output |-> output, source |-> source]
Drop(f) == [do |-> "drop", when |-> f]
Unnest(infix, record) ==
  [do |-> "unnest", prefix |-> CW, infix |-> infix, meta |-> {"source"}, guard |-> {}, record |-> record]
Directed ==
  [do |-> "directed", output |-> Lanes, key |-> Lanes, from |-> "parent", chain |-> Identity,
   left |-> Lanes \o <<"backward">>, right |-> Lanes \o <<"forward">>]

SideClone(side) ==
  [do |-> "clone", whenever |-> {On("obj", HW, {"cycleway"}, FALSE)},
   annotate |-> [k \in {"_side", "_prefix"} |-> IF k = "_side" THEN side ELSE CW],
   suffix |-> <<CW, side>>,
   steps |-> <<Unnest(<<>>, {"_infix"}), Unnest(<<"both">>, {"_infix"}), Unnest(<<side>>, {"_infix"}),
               Drop(NoTags),
               Drop(On("ann", "_infix", {""}, TRUE) \cup ParentIs(<<"oneway">>, "a")),
               Rule(HW, ConstWhen({}, "cycleway")), Directed>>]

NoSteps == [k \in {"node", "way", "relation"} |-> <<>>]

Ordinary ==
  [idType |-> "type_id", categorized |-> {"way"}, acceptAll |-> {}, exclude |-> {},
   pipelines |-> NoSteps, producers |-> Empty, passAll |-> FALSE, inherit |-> {}, mode |-> "none",
   categories |-> <<[name |-> "any", when |-> {}]>>]

SideTopic ==
  [Ordinary EXCEPT
     !.exclude = {TagIs(HW, "no")},
     !.pipelines["way"] = <<SideClone("left"), SideClone("right")>>,
     !.categories = <<[name |-> "lane", when |-> On("obj", <<CW>>, {"a", "b"}, TRUE)],
                      [name |-> "road", when |-> On("ann", "_side", {"self"}, TRUE)]>>]

\* Construction tags become plain ones; then the way unnests its own cycleway tags, guarded.
StripTopic ==
  [Ordinary EXCEPT
     !.idType = "id", !.passAll = TRUE,
     !.pipelines["way"] =
        <<Rule(<<"x">>, ConstWhen(TagIs(<<CW>>, "no"), Null)),
          [do |-> "strip", prefix |-> "construction", stampKey |-> "lifecycle", stampValue |-> "b",
           nestedUnder |-> {CW}],
          [Unnest(<<>>, {}) EXCEPT !.guard = {TagIs(HW, "a")}],
          Drop(TagIs(<<"width">>, "b")), SideClone("left")>>]

FanOutTopic ==
  [Ordinary EXCEPT
     !.categorized = {"relation"}, !.acceptAll = {"way"}, !.inherit = {<<"ref">>, <<"net">>}, !.mode = "fan_out",
     !.producers = [k \in {<<"ref">>, <<"net">>} |-> ReadKey(k)],
     !.pipelines["relation"] =
        <<[do |-> "clone", whenever |-> {}, annotate |-> Empty, suffix |-> <<"back">>,
           steps |-> <<Rule(<<"ref">>, ConstWhen({}, "no"))>>]>>,
     !.categories = <<[name |-> "route", when |-> On("obj", <<"ref">>, {"no"}, FALSE)],
                      [name |-> "back", when |-> {}]>>]

MergeTopic ==
  [FanOutTopic EXCEPT !.mode = "merge", !.idType = "none", !.categorized = {"relation", "way"},
     !.acceptAll = {}, !.pipelines = NoSteps,
     !.categories = <<[name |-> "member", when |-> ParentIs(<<"ref">>, "a")],
                      [name |-> "other", when |-> On("obj", HW, {"no"}, FALSE)]>>]

NodeTopic ==
  [Ordinary EXCEPT !.categorized = {"way"}, !.acceptAll = {"node"},
     !.exclude = {On("obj", HW, {"a"}, FALSE)}, !.passAll = TRUE]

AllNodes == [NodeTopic EXCEPT !.exclude = {}]

NoIds == [FanOutTopic EXCEPT !.idType = "none"]

TwoKinds == [AllNodes EXCEPT !.idType = "id"]

OneSuffix ==
  [FanOutTopic EXCEPT !.pipelines["way"] =
     <<Drop(TagIs(HW, "no")),
       [SideClone("left") EXCEPT !.suffix = <<"x">>, !.steps = <<>>, !.annotate = Empty],
       [SideClone("right") EXCEPT !.suffix = <<"x">>, !.steps = <<>>, !.annotate = Empty]>>]

MCTopics == {SideTopic, StripTopic, FanOutTopic, MergeTopic, NodeTopic, AllNodes, NoIds, TwoKinds, OneSuffix}

-----------------------------------------------------------------------------
El(kind, osm, tags, ms) == [kind |-> kind, osm |-> osm, tags |-> tags, members |-> ms]
Way(osm, tags) == El("way", osm, tags, <<>>)

\* The value of each key of a way of the vocabulary: a key always has the same one, so that
\* a value tells which key it came from.
SideKeys == {<<CW>>, <<CW, "both">>, <<CW, "left">>, <<CW, "left", "width">>, <<CW, "both", "width">>,
             <<CW, "width">>, <<"source", CW, "left">>, <<"oneway">>, Lanes \o <<"forward">>,
             <<CW, "both", "left">>, <<CW, CW>>}
SideValue(k) ==
  CASE k \in {<<CW>>, <<CW, "width">>, <<"oneway">>, <<"source", CW, "left">>} -> "a"
    [] k \in {<<CW, "left">>, <<CW, "left", "width">>} -> "b"
    [] OTHER -> "no"
WithValues(ks) == [k \in ks |-> SideValue(k)]

SideInputs == {<<Way(1, WithValues(ks))>> : ks \in SUBSET SideKeys}
              \cup {<<Way(1, One(HW, v)), Way(2, WithValues({<<CW>>}))>> : v \in {"no", "cycleway"}}

StripKeys == {<<"construction", "highway">>, <<"construction", CW, "left">>, <<CW, "width">>, <<CW>>}
StripValue(k) == IF k = <<CW>> THEN "no" ELSE IF k[1] = "construction" THEN "a" ELSE "b"
StripInputs == {<<Way(2, [k \in ks |-> StripValue(k)])>> : ks \in SUBSET StripKeys}

RelTags == {Empty, One(<<"ref">>, "a"), One(<<"ref">>, "no"), [k \in {<<"ref">>, <<"net">>} |-> "b"]}
RelInputs ==
  {<<El("relation", 5, s, ms), El("relation", 3, t, <<2>>), Way(1, One(HW, v)), Way(2, Empty)>> :
     s \in RelTags, t \in RelTags, v \in {"a", "no"}, ms \in {<<1, 2>>, <<2, 1, 2>>}}

NodeInputs ==
  {<<El("node", 1, t, <<>>), El("node", 2, One(HW, "a"), <<>>), Way(1, One(HW, "a"))>> :
     t \in {Empty, One(HW, "no"), One(HW, "a")}}

MCWords == {CW, "highway", "lanes", "width", "oneway", "source", "construction", "lifecycle", "ref", "net",
            "x", "forward", "backward"} \cup Sides

MCInputs == SideInputs \cup StripInputs \cup RelInputs \cup NodeInputs

=============================================================================

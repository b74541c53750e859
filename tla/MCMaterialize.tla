---------------------------- MODULE MCMaterialize ----------------------------
(* Instances of Materialize for model checking.  Topics: 1 and 2 keep ways, 2 and 3 keep *)
(* relations.  Ways 11 and 12 are kept, way 13 is decoded for the relations only.        *)
EXTENDS Materialize

MCWayGeom == {1, 2}
MCRelationShape == [t \in {2, 3} |-> IF t = 2 THEN "line" ELSE "polygon"]

Context(refs, present, selected, graph, ordered) ==
  [refs |-> refs, present |-> present, selected |-> selected, graph |-> graph, ordered |-> ordered,
   mask |-> [w \in DOMAIN refs |-> CASE w = 11 -> {1, 2} [] w = 12 -> {2} [] OTHER -> {}],
   keptWays |-> <<12, 11>>, keptRels |-> <<22, 21>>,
   members |-> [r \in {21, 22} |->
                  IF r = 21 THEN << <<13, "outer">>, <<11, "outer">>, <<12, "inner">>, <<14, "outer">> >>
                  ELSE << <<12, "outer">>, <<13, "outer">> >>],
   topics |-> [r \in {21, 22} |-> IF r = 21 THEN {2, 3} ELSE {2}]]

\* An open way, its reverse end, a closed one, a way through its own middle, a single node.
Refs11 == {<<1, 2, 3>>, <<1, 2, 3, 1>>, <<1, 2, 3, 2>>}
Refs12 == {<<3, 4>>, <<4, 2, 1>>, <<2, 3>>, <<4>>}
Refs13 == {<<1, 4>>, <<3, 5>>}

MCRefs == {[w \in {11, 12, 13} |-> CASE w = 11 -> a [] w = 12 -> b [] OTHER -> c] :
             a \in Refs11, b \in Refs12, c \in Refs13}

\* Files that have the ends of every kept way; inner nodes and relation-only ways' nodes may
\* be missing.
EndsPresent(refs, present) ==
  \A w \in {11, 12} : Head(refs[w]) \in present /\ Last(refs[w]) \in present

MCContexts ==
  {c \in {Context(refs, present, selected, graph, ordered) :
            refs \in MCRefs, present \in {1..5, {1, 3, 4}}, selected \in {{}, {2}},
            graph \in BOOLEAN, ordered \in BOOLEAN} :
     /\ EndsPresent(c.refs, c.present)
     /\ \A n \in c.selected : n \in c.present /\ n \in Range(c.refs[11]) \cup Range(c.refs[12])}

\* An extract that cut the first node of way 11 off.
ClippedContexts ==
  {Context([w \in {11, 12, 13} |-> CASE w = 11 -> <<1, 2, 3>> [] w = 12 -> <<3, 4>> [] OTHER -> <<3, 5>>],
           present, {}, TRUE, ordered) : present \in {2..5, 3..5}, ordered \in BOOLEAN}

=============================================================================

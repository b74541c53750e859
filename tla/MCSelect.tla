------------------------------ MODULE MCSelect ------------------------------
(* Instances of Select for model checking.  Topics: 1 keeps ways, and nodes that are graph *)
(* vertices; 2 keeps nodes; 3 keeps relations and wants their geometry.                    *)
EXTENDS Select

Node(id, tagged, topics) == [kind |-> "node", id |-> id, tagged |-> tagged, topics |-> topics]
Way(id, topics, viaParent, refs) ==
  [kind |-> "way", id |-> id, topics |-> topics, viaParent |-> viaParent, refs |-> refs]
Rel(id, topics, exports, members) ==
  [kind |-> "relation", id |-> id, topics |-> topics, exports |-> exports, members |-> members]

n1 == Node(1, TRUE, {1})        \* a crossing on ways 11 and 12
n2 == Node(2, FALSE, {})        \* shared by the three ways
n3 == Node(3, TRUE, {})         \* on the relation-only way 13
n4 == Node(4, TRUE, {2})        \* standalone

w11 == Way(11, {1}, {}, <<1, 2>>)
w12 == Way(12, {}, {1}, <<2, 5, 1, 2>>)   \* kept through its parent only; node 5 is not in the file
w13 == Way(13, {}, {}, <<3, 2>>)

r21 == Rel(21, {3}, {}, <<13, 11>>)
r22 == Rel(22, {1}, {1}, <<12>>)
r23 == Rel(23, {1, 3}, {1}, <<12, 14, 12>>)  \* way 14 is not in the file, 12 is listed twice
r24 == Rel(24, {}, {}, <<13>>)

SplitFile  == << <<n1, n2>>, <<n3>>, <<n4>>, <<w11>>, <<w12, w13>>, <<r21>>, <<r22, r23>>, <<r24>> >>
ShortFile  == << <<n1, n2, n3, n4>>, <<w13>>, <<w12>>, <<w11>>, <<r24>> >>
ShuffledFile == << <<w11, r23>>, <<n1, n2>>, <<w13, r21>>, <<n3, w12>> >>
MCFiles == {SplitFile, ShortFile, ShuffledFile}

Mode(sorted, ordered, needsGraph, inherit, hasNodes, skipUntagged) ==
  [sorted |-> sorted, ordered |-> ordered, needsGraph |-> needsGraph, inherit |-> inherit,
   hasNodes |-> hasNodes, skipUntagged |-> skipUntagged]

MCModes ==
  {Mode(FALSE, o, TRUE, TRUE, TRUE, s) : o \in BOOLEAN, s \in BOOLEAN} \cup
  {Mode(TRUE, o, g, i, h, TRUE) : o \in BOOLEAN, g \in BOOLEAN, i \in BOOLEAN, h \in BOOLEAN}

=============================================================================

---------------------------- MODULE Categorize ----------------------------
(***************************************************************************)
(* Both users of the discrimination net, from what is loaded to what an    *)
(* object gets.                                                            *)
(*   - A categories file: build_order sorts the categories, the conditions *)
(*     in that order are compiled with assume_match_is_final, and an object*)
(*     gets the category of the first node that matches, or none when that *)
(*     node is a macro (categorize/categories.rs).                         *)
(*   - The rules of a Producer::Match (lang/producer.rs): in the order they*)
(*     were written, compiled without that assumption, because a rule that *)
(*     matches may still produce nothing.                                  *)
(***************************************************************************)
EXTENDS CategoryOrder, DecisionTree

CONSTANTS
    RuleLists,     \* the rule lists of the Match producers
    MatchTreeMin,  \* MATCH_TREE_MIN_RULES: a list no longer than this gets no tree
    Condition      \* category or macro -> its condition

NoFile == [excludes |-> <<>>, macros |-> {}]

vars == <<orderVars, treeVars>>

\* A topic's category file is loaded.
LoadFile ==
    /\ OrderInit
    /\ rules = <<>> /\ final = TRUE /\ todo = <<>>

\* A Match producer's rules are compiled.
LoadMatch ==
    /\ file = NoFile /\ StartOrder(file)
    /\ rules \in {r \in RuleLists : Len(r) > MatchTreeMin} /\ final = FALSE
    /\ todo = StartTree(rules, FALSE)

Init ==
    /\ tree = <<>> /\ asked = {}
    /\ LoadFile \/ LoadMatch

Sort ==
    /\ final /\ OrderStep
    /\ UNCHANGED treeVars

\* The rest of build_order: collect the conditions in order, and build.
Compile ==
    /\ outcome = "ordered" /\ todo = <<>> /\ tree = <<>>
    /\ rules' = [i \in DOMAIN names |-> Condition[names[i]]]
    /\ todo' = StartTree(rules', TRUE)
    /\ UNCHANGED <<orderVars, final, tree, asked>>

Next ==
    \/ Sort
    \/ Compile
    \/ BuildNode /\ UNCHANGED orderVars
    \/ Ask /\ UNCHANGED orderVars

Spec == Init /\ [][Next]_vars

\* The nodes an object matches, as the lint and the tree both read them: lowered.
CoMatching(o) == {n \in Nodes : Compiled(Condition[n], o)}

Rivals(x, y) == x # y /\ {x, y} \cap Categories(file) # {}

\* The lint's promise about one object: of two nodes that it matches, at
\* least one a category, one excludes the other.
DisjointFor(o) ==
    \A x, y \in CoMatching(o) :
        Rivals(x, y) => x \in Pred(file, y) \/ y \in Pred(file, x)

\* What `excludes` means, whatever order the names happen to have: for an
\* object on which the file keeps that promise, the node that answers beats
\* every other matching node, and there is an answer whenever anything
\* matches.
WinnerIsUnbeaten ==
    \A q \in asked : (final /\ DisjointFor(q.obj)) =>
        IF q.got = 0 THEN CoMatching(q.obj) = {}
        ELSE /\ names[q.got] \in CoMatching(q.obj)
             /\ \A y \in CoMatching(q.obj) :
                  Rivals(y, names[q.got]) => names[q.got] \in Pred(file, y)
=============================================================================

--------------------------- MODULE CategoryOrder ---------------------------
(***************************************************************************)
(* `CategoriesFile::build_order` (categorize/categories.rs): the `excludes`*)
(* relation of a topic's categories, compiled into one priority order by   *)
(* Kahn's algorithm.  "X excludes Y" means that Y beats X, so Y comes      *)
(* first.  An excluded name that is no category is a macro: its node skips *)
(* the object.                                                             *)
(*                                                                         *)
(* The ready set is a BTreeSet, popped in alphabetical order.  Names are   *)
(* not ordered here: any ready node may be popped, which covers every way  *)
(* of naming the categories.                                               *)
(***************************************************************************)
EXTENDS Naturals, Sequences, FiniteSets

CONSTANT Files \* [excludes: category -> names, macros: the macro names that resolve]

ASSUME FilesAssumption ==
    \A f \in Files :
        /\ IsFiniteSet(DOMAIN f.excludes)
        /\ \A c \in DOMAIN f.excludes : IsFiniteSet(f.excludes[c])

VARIABLES
    file,     \* the categories file being compiled
    ready,    \* nodes whose predecessors are all in the order
    indeg,    \* node -> predecessors that are not in the order yet
    names,    \* the order so far
    outcome   \* "sorting", "ordered", or "refused" (the load fails)

orderVars == <<file, ready, indeg, names, outcome>>

Categories(f) == DOMAIN f.excludes
NodesOf(f)    == Categories(f) \cup UNION {f.excludes[c] : c \in Categories(f)}
Nodes         == NodesOf(file)
Succ(n)       == {c \in Categories(file) : n \in file.excludes[c]}
Pred(f, n)    == IF n \in Categories(f) THEN f.excludes[n] ELSE {}
Indegree(f, n) == Cardinality(Pred(f, n))

Ordered == {names[i] : i \in DOMAIN names}

StartOrder(f) ==
    /\ indeg = [n \in NodesOf(f) |-> Indegree(f, n)]
    /\ ready = {n \in NodesOf(f) : Indegree(f, n) = 0}
    /\ names = <<>>
    /\ outcome = "sorting"

\* Seeded fault: a node is ready as soon as one of its predecessors is in the order.
PopReadyEarly ==
    /\ outcome = "sorting"
    /\ \E n \in ready :
         /\ indeg' = [m \in Nodes |-> IF m \in Succ(n) THEN indeg[m] - 1 ELSE indeg[m]]
         /\ ready' = (ready \ {n}) \cup (Succ(n) \ Ordered)
         /\ names' = Append(names, n)
    /\ UNCHANGED <<file, outcome>>

\* One turn of the loop: append a ready node, and free its successors.
PopReady ==
    /\ outcome = "sorting"
    /\ \E n \in ready :
         /\ indeg' = [m \in Nodes |-> IF m \in Succ(n) THEN indeg[m] - 1 ELSE indeg[m]]
         /\ ready' = (ready \ {n}) \cup {m \in Succ(n) : indeg[m] = 1}
         /\ names' = Append(names, n)
    /\ UNCHANGED <<file, outcome>>

\* Seeded fault: the length of the order is not compared with the number of nodes.
FinishWithoutCount ==
    /\ outcome = "sorting"
    /\ ready = {}
    /\ outcome' = IF Nodes \subseteq Categories(file) \cup file.macros
                  THEN "ordered" ELSE "refused"
    /\ UNCHANGED <<file, ready, indeg, names>>

\* The loop is over: a node that was never freed is on, or behind, a cycle;
\* an excluded name must be a category or a macro.
Finish ==
    /\ outcome = "sorting"
    /\ ready = {}
    /\ outcome' = IF /\ Len(names) = Cardinality(Nodes)
                     /\ Nodes \subseteq Categories(file) \cup file.macros
                  THEN "ordered" ELSE "refused"
    /\ UNCHANGED <<file, ready, indeg, names>>

OrderStep == PopReady \/ Finish

\* The sort alone.
OrderInit == file \in Files /\ StartOrder(file)
OrderSpec == OrderInit /\ [][OrderStep]_orderVars

(***************************************************************************)
(* Properties.                                                             *)
(***************************************************************************)
\* The order holds no name twice, and whenever a category is in it, every
\* name it excludes is in it already, in an earlier place: the names that
\* beat it.
WinnersComeFirst ==
    /\ \A i, j \in DOMAIN names : names[i] = names[j] => i = j
    /\ \A i \in DOMAIN names : \A y \in Pred(file, names[i]) :
         \E j \in 1..(i - 1) : names[j] = y

\* A set of names in which each is beaten by another of the set.
Contradiction(S) == S # {} /\ \A n \in S : Pred(file, n) \cap S # {}

\* A file is refused exactly when its exclusions contradict each other or
\* name something unknown: what was never freed is such a contradiction, and
\* no file with one gets an order.
RefusedIffContradictory ==
    outcome # "sorting" =>
        (outcome = "refused" <=>
            \/ \E S \in SUBSET Nodes : Contradiction(S)
            \/ ~(Nodes \subseteq Categories(file) \cup file.macros))
=============================================================================

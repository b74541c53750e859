--------------------------- MODULE CategorizeProofs ---------------------------
(***************************************************************************)
(* Theorems about what Categorize does from a loaded file or a producer's  *)
(* rules to an object's answer: the priority order of the categories       *)
(* (CategoryOrder), the discrimination net compiled from a list of         *)
(* conditions (DecisionTree, over the language of module Language), and    *)
(* the composition of the two.                                             *)
(***************************************************************************)
EXTENDS Language, SequenceLemmas

-----------------------------------------------------------------------------
(***************************************************************************)
(* Theorems about CategoryOrder for every set of categories files, of any  *)
(* size: whatever order the ready nodes are popped in, every name comes    *)
(* after all the names that beat it, and a file is refused exactly when its*)
(* exclusions contradict each other or name something unknown.             *)
(***************************************************************************)
(* Facts about one file and about sequences.                               *)

\* A file has finitely many nodes, and a node finitely many predecessors,
\* all of them nodes.
LEMMA FileIsFinite ==
  ASSUME NEW f \in Files
  PROVE  /\ IsFiniteSet(NodesOf(f))
         /\ \A n \in NodesOf(f) : IsFiniteSet(Pred(f, n)) /\ Pred(f, n) \subseteq NodesOf(f)
<1> DEFINE Excluded == {f.excludes[c] : c \in Categories(f)}
           g == [c \in Categories(f) |-> f.excludes[c]]
<1>1. IsFiniteSet(Categories(f)) /\ \A c \in Categories(f) : IsFiniteSet(f.excludes[c])
  BY FilesAssumption DEF Categories
<1>2. g \in Surjection(Categories(f), Excluded)
  BY DEF Surjection
<1>3. IsFiniteSet(Excluded)
  BY <1>1, <1>2, FS_Surjection
<1>4. IsFiniteSet(UNION Excluded)
  BY <1>1, <1>3, FS_UNION
<1>5. IsFiniteSet(NodesOf(f))
  BY <1>1, <1>4, FS_Union DEF NodesOf
<1>6. ASSUME NEW n \in NodesOf(f)
      PROVE  IsFiniteSet(Pred(f, n)) /\ Pred(f, n) \subseteq NodesOf(f)
  <2>1. CASE n \in Categories(f)
    BY <1>1, <2>1 DEF Pred, NodesOf
  <2>2. CASE n \notin Categories(f)
    BY <2>2, FS_EmptySet DEF Pred
  <2>. QED BY <2>1, <2>2
<1>. QED BY <1>5, <1>6

\* Appending a name adds it to the set of ordered names.
LEMMA AppendName ==
  ASSUME NEW S, NEW s \in Seq(S), NEW n \in S
  PROVE  /\ Append(s, n) \in Seq(S)
         /\ DOMAIN Append(s, n) = DOMAIN s \cup {Len(s) + 1}
         /\ \A i \in DOMAIN s : Append(s, n)[i] = s[i] /\ i <= Len(s) /\ i \in Nat
         /\ Append(s, n)[Len(s) + 1] = n
         /\ {Append(s, n)[i] : i \in DOMAIN Append(s, n)} = {s[i] : i \in DOMAIN s} \cup {n}
<1>1. /\ Append(s, n) \in Seq(S)
      /\ DOMAIN s = 1..Len(s)
      /\ Len(s) \in Nat
      /\ DOMAIN Append(s, n) = 1..(Len(s) + 1)
      /\ \A i \in 1..Len(s) : Append(s, n)[i] = s[i]
      /\ Append(s, n)[Len(s) + 1] = n
  OBVIOUS
<1>2. 1..(Len(s) + 1) = (1..Len(s)) \cup {Len(s) + 1}
  BY <1>1
<1>. QED BY <1>1, <1>2

\* A sequence without repetitions is as long as its set is large only when it
\* holds the whole set.
LEMMA FullLength ==
  ASSUME NEW S, IsFiniteSet(S), NEW s \in Seq(S),
         \A i, j \in DOMAIN s : s[i] = s[j] => i = j
  PROVE  Len(s) = Cardinality(S) <=> {s[i] : i \in DOMAIN s} = S
<1>1. DOMAIN s = 1..Len(s) /\ Len(s) \in Nat /\ s \in [1..Len(s) -> S]
  BY LenProperties
<1>2. s \in Injection(1..Len(s), S)
  BY <1>1 DEF Injection, IsInjective
<1>3. Cardinality(1..Len(s)) = Len(s)
  BY <1>1, FS_Interval
<1>4. Len(s) = Cardinality(S) <=> s \in Surjection(1..Len(s), S)
  BY <1>2, <1>3, FS_Injection
<1>5. s \in Surjection(1..Len(s), S) <=> {s[i] : i \in DOMAIN s} = S
  BY <1>1 DEF Surjection
<1>. QED BY <1>4, <1>5

-----------------------------------------------------------------------------
(* The inductive invariant.                                                *)

\* What the counters and the ready set stand for: the predecessors of a node
\* that are still to come, and the nodes that have none.
CountersAreRight ==
  /\ indeg = [n \in Nodes |-> Cardinality(Pred(file, n) \ Ordered)]
  /\ ready = {n \in Nodes \ Ordered : Pred(file, n) \subseteq Ordered}

\* No name of a contradiction is ever ordered.
ContradictionsStayOut ==
  \A S \in SUBSET Nodes : Contradiction(S) => S \cap Ordered = {}

IInv ==
  /\ file \in Files
  /\ names \in Seq(Nodes)
  /\ CountersAreRight
  /\ WinnersComeFirst
  /\ ContradictionsStayOut
  /\ RefusedIffContradictory

\* At the start nothing is ordered.
LEMMA OrderStarts == OrderInit => IInv
<1> SUFFICES ASSUME OrderInit PROVE IInv
  OBVIOUS
<1>1. /\ file \in Files /\ names = <<>> /\ outcome = "sorting"
      /\ indeg = [n \in Nodes |-> Cardinality(Pred(file, n))]
      /\ ready = {n \in Nodes : Cardinality(Pred(file, n)) = 0}
  BY DEF OrderInit, StartOrder, Nodes, Indegree
<1>2. Ordered = {} /\ DOMAIN names = {} /\ names \in Seq(Nodes)
  BY <1>1 DEF Ordered
<1>3. \A n \in Nodes : Pred(file, n) \ Ordered = Pred(file, n)
  BY <1>2
<1>4. \A n \in Nodes : Cardinality(Pred(file, n)) = 0 <=> Pred(file, n) = {}
  BY <1>1, FileIsFinite, FS_EmptySet DEF Nodes
<1>5. CountersAreRight
  BY <1>1, <1>2, <1>3, <1>4 DEF CountersAreRight
<1>. QED
  BY <1>1, <1>2, <1>5 DEF IInv, WinnersComeFirst, ContradictionsStayOut, RefusedIffContradictory

\* A ready node may be popped: all that beat it are ordered.
LEMMA PopKeeps == IInv /\ PopReady => IInv'
<1> SUFFICES ASSUME IInv, PopReady PROVE IInv'
  OBVIOUS
<1>1. PICK n \in ready :
        /\ indeg' = [m \in Nodes |-> IF m \in Succ(n) THEN indeg[m] - 1 ELSE indeg[m]]
        /\ ready' = (ready \ {n}) \cup {m \in Succ(n) : indeg[m] = 1}
        /\ names' = Append(names, n)
  BY DEF PopReady
<1>2. /\ file' = file /\ outcome' = outcome /\ outcome = "sorting" /\ Nodes' = Nodes
      /\ file \in Files /\ names \in Seq(Nodes)
  BY DEF PopReady, IInv, Nodes
<1>3. n \in Nodes /\ n \notin Ordered /\ Pred(file, n) \subseteq Ordered
  BY <1>1 DEF IInv, CountersAreRight
<1>4. /\ names' \in Seq(Nodes)
      /\ DOMAIN names' = DOMAIN names \cup {Len(names) + 1}
      /\ \A i \in DOMAIN names : names'[i] = names[i] /\ i <= Len(names) /\ i \in Nat
      /\ names'[Len(names) + 1] = n
      /\ Ordered' = Ordered \cup {n}
      /\ Len(names) \in Nat
  BY <1>1, <1>2, <1>3, AppendName DEF Ordered
<1>5. \A m \in Nodes : m \in Succ(n) <=> n \in Pred(file, m)
  BY DEF Succ, Pred
<1>6. Succ(n) \subseteq Nodes
  BY DEF Succ, Nodes, NodesOf
<1>7. ASSUME NEW m \in Nodes
      PROVE  /\ IsFiniteSet(Pred(file, m) \ Ordered)
             /\ Cardinality(Pred(file, m) \ Ordered') =
                  IF m \in Succ(n) THEN indeg[m] - 1 ELSE indeg[m]
             /\ m \in Succ(n) => (indeg[m] = 1 <=> Pred(file, m) \subseteq Ordered')
  <2> DEFINE P == Pred(file, m) \ Ordered
             Q == Pred(file, m) \ Ordered'
  <2>1. IsFiniteSet(Pred(file, m)) /\ IsFiniteSet(P)
    BY <1>2, FileIsFinite, FS_Subset DEF Nodes
  <2>2. Q = P \ {n} /\ (m \in Succ(n) <=> n \in P)
    BY <1>3, <1>4, <1>5
  <2>3. indeg[m] = Cardinality(P)
    BY DEF IInv, CountersAreRight
  <2>4. IsFiniteSet(Q) /\ Cardinality(Q) = IF n \in P THEN Cardinality(P) - 1 ELSE Cardinality(P)
    BY <2>1, <2>2, FS_RemoveElement
  <2>5. Cardinality(P) \in Nat /\ Cardinality(Q) \in Nat /\ (Cardinality(Q) = 0 <=> Q = {})
    BY <2>1, <2>4, FS_CardinalityType, FS_EmptySet
  <2>6. m \in Succ(n) => (Cardinality(P) = 1 <=> Q = {})
    BY <2>2, <2>4, <2>5
  <2>7. Q = {} <=> Pred(file, m) \subseteq Ordered'
    OBVIOUS
  <2>. QED BY <2>1, <2>2, <2>3, <2>4, <2>6, <2>7
<1>8. CountersAreRight'
  <2>1. indeg' = [m \in Nodes |-> Cardinality(Pred(file, m) \ Ordered')]
    BY <1>1, <1>7
  <2>2. \A m \in Nodes : m \in ready <=> m \notin Ordered /\ Pred(file, m) \subseteq Ordered
    BY DEF IInv, CountersAreRight
  <2>3. ready \subseteq Nodes
    BY DEF IInv, CountersAreRight
  <2>4. ASSUME NEW m \in Nodes
        PROVE  m \in ready' <=> m \notin Ordered' /\ Pred(file, m) \subseteq Ordered'
    <3>1. CASE m \in Succ(n)
      <4>1. n \in Pred(file, m) /\ m \notin ready /\ (m \in ready' <=> indeg[m] = 1)
        BY <1>1, <1>3, <1>5, <2>2, <3>1
      <4>2. m \notin Ordered'
        <5>1. m # n
          BY <1>3, <4>1
        <5>2. m \in Ordered => Pred(file, m) \subseteq Ordered
          BY DEF IInv, WinnersComeFirst, Ordered
        <5>. QED BY <1>3, <1>4, <4>1, <5>1, <5>2
      <4>. QED BY <1>7, <3>1, <4>1, <4>2
    <3>2. CASE m \notin Succ(n)
      <4>1. n \notin Pred(file, m) /\ (m \in ready' <=> m \in ready /\ m # n)
        BY <1>1, <1>5, <3>2
      <4>. QED BY <1>4, <2>2, <4>1
    <3>. QED BY <3>1, <3>2
  <2>5. ready' \subseteq Nodes
    BY <1>1, <1>6, <2>3
  <2>6. ready' = {m \in Nodes \ Ordered' : Pred(file, m) \subseteq Ordered'}
    BY <2>4, <2>5
  <2>. QED BY <1>2, <2>1, <2>6 DEF CountersAreRight
<1>9. WinnersComeFirst'
  <2>1. ASSUME NEW i \in DOMAIN names', NEW j \in DOMAIN names', names'[i] = names'[j]
        PROVE  i = j
    <3>1. \A k \in DOMAIN names : names[k] # n
      BY <1>3 DEF Ordered
    <3>. QED BY <1>4, <2>1, <3>1 DEF IInv, WinnersComeFirst
  <2>2. ASSUME NEW i \in DOMAIN names', NEW y \in Pred(file, names'[i])
        PROVE  \E j \in 1..(i - 1) : names'[j] = y
    <3>1. CASE i \in DOMAIN names
      <4>1. PICK j \in 1..(i - 1) : names[j] = y
        BY <1>4, <2>2, <3>1 DEF IInv, WinnersComeFirst
      <4>2. j \in DOMAIN names
        BY <1>2, <1>4, <3>1, <4>1, LenProperties
      <4>. QED BY <1>4, <4>1, <4>2
    <3>2. CASE i = Len(names) + 1
      <4>1. y \in Ordered
        BY <1>3, <1>4, <2>2, <3>2
      <4>2. PICK j \in DOMAIN names : names[j] = y
        BY <4>1 DEF Ordered
      <4>3. j \in 1..(i - 1)
        BY <1>2, <1>4, <3>2, <4>2, LenProperties
      <4>. QED BY <1>4, <4>2, <4>3
    <3>. QED BY <1>4, <3>1, <3>2
  <2>. QED BY <1>2, <2>1, <2>2 DEF WinnersComeFirst
<1>10. ContradictionsStayOut'
  <2>1. ASSUME NEW S \in SUBSET Nodes, Contradiction(S)
        PROVE  S \cap Ordered' = {}
    <3>1. S \cap Ordered = {}
      BY <2>1 DEF IInv, ContradictionsStayOut
    <3>2. n \in S => Pred(file, n) \cap S # {}
      BY <2>1 DEF Contradiction
    <3>. QED BY <1>3, <1>4, <3>1, <3>2
  <2>. QED BY <1>2, <2>1 DEF ContradictionsStayOut, Contradiction
<1>11. RefusedIffContradictory'
  BY <1>2 DEF RefusedIffContradictory
<1>. QED BY <1>2, <1>4, <1>8, <1>9, <1>10, <1>11 DEF IInv

\* When nothing is ready, what is not ordered is a contradiction.
LEMMA FinishKeeps == IInv /\ Finish => IInv'
<1> SUFFICES ASSUME IInv, Finish PROVE IInv'
  OBVIOUS
<1>1. /\ file' = file /\ ready' = ready /\ indeg' = indeg /\ names' = names
      /\ ready = {}
      /\ outcome' = IF /\ Len(names) = Cardinality(Nodes)
                       /\ Nodes \subseteq Categories(file) \cup file.macros
                    THEN "ordered" ELSE "refused"
  BY DEF Finish
<1>2. Nodes' = Nodes /\ Ordered' = Ordered
  BY <1>1 DEF Nodes, Ordered
<1>3. Len(names) = Cardinality(Nodes) <=> Ordered = Nodes
  BY FileIsFinite, FullLength DEF IInv, WinnersComeFirst, Nodes, Ordered
<1>4. Ordered \subseteq Nodes
  BY LenProperties DEF IInv, Ordered
<1>5. Ordered # Nodes => Contradiction(Nodes \ Ordered)
  <2>1. ASSUME NEW m \in Nodes \ Ordered
        PROVE  Pred(file, m) \cap (Nodes \ Ordered) # {}
    <3>1. ~(Pred(file, m) \subseteq Ordered)
      BY <1>1, <2>1 DEF IInv, CountersAreRight
    <3>2. Pred(file, m) \subseteq Nodes
      BY <2>1, FileIsFinite DEF IInv, Nodes
    <3>. QED BY <3>1, <3>2
  <2>. QED BY <1>4, <2>1 DEF Contradiction
<1>6. (\E S \in SUBSET Nodes : Contradiction(S)) <=> Ordered # Nodes
  <2>1. ASSUME NEW S \in SUBSET Nodes, Contradiction(S)
        PROVE  Ordered # Nodes
    BY <2>1 DEF IInv, ContradictionsStayOut, Contradiction
  <2>. QED BY <1>5, <2>1
<1>7. outcome' = "refused" <=>
        \/ \E S \in SUBSET Nodes : Contradiction(S)
        \/ ~(Nodes \subseteq Categories(file) \cup file.macros)
  BY <1>1, <1>3, <1>6
<1>8. RefusedIffContradictory'
  BY <1>1, <1>2, <1>7 DEF RefusedIffContradictory, Contradiction, Nodes
<1>9. /\ CountersAreRight' /\ WinnersComeFirst' /\ ContradictionsStayOut'
      /\ file' \in Files /\ names' \in Seq(Nodes')
  BY <1>1, <1>2
    DEF IInv, CountersAreRight, WinnersComeFirst, ContradictionsStayOut, Contradiction
<1>. QED BY <1>8, <1>9 DEF IInv

\* A step that leaves the order alone keeps its invariant.
LEMMA OrderStays == IInv /\ UNCHANGED orderVars => IInv'
<1> SUFFICES ASSUME IInv, UNCHANGED orderVars PROVE IInv'
  OBVIOUS
<1>1. file' = file /\ ready' = ready /\ indeg' = indeg /\ names' = names /\ outcome' = outcome
  BY DEF orderVars
<1>2. Nodes' = Nodes /\ Ordered' = Ordered
  BY <1>1 DEF Nodes, Ordered
<1>3. CountersAreRight' /\ WinnersComeFirst'
  BY <1>1, <1>2 DEF IInv, CountersAreRight, WinnersComeFirst
<1>4. ContradictionsStayOut' /\ RefusedIffContradictory'
  BY <1>1, <1>2 DEF IInv, ContradictionsStayOut, RefusedIffContradictory, Contradiction
<1>. QED BY <1>1, <1>2, <1>3, <1>4 DEF IInv

-----------------------------------------------------------------------------
(* The theorems.                                                           *)

\* The inductive invariant holds throughout the sort.
THEOREM OrderInvariance == OrderSpec => []IInv
<1>1. IInv /\ [OrderStep]_orderVars => IInv'
  BY PopKeeps, FinishKeeps, OrderStays DEF OrderStep
<1>. QED BY <1>1, OrderStarts, PTL DEF OrderSpec

\* However the ready nodes are popped, a category comes after every name it
\* excludes, and no name comes twice.
THEOREM OrderRespectsExcludes == OrderSpec => []WinnersComeFirst
<1>1. IInv => WinnersComeFirst
  BY DEF IInv
<1>. QED BY <1>1, OrderInvariance, PTL

\* The load fails exactly on contradictory exclusions and unknown names.
THEOREM RefusalIsExact == OrderSpec => []RefusedIffContradictory
<1>1. IInv => RefusedIffContradictory
  BY DEF IInv
<1>. QED BY <1>1, OrderInvariance, PTL

-----------------------------------------------------------------------------
(***************************************************************************)
(* Theorems about the discrimination net.                                  *)
(***************************************************************************)
(* The language of an instance.                                            *)

Filters == Lang.filters
Inherited == Lang.inherited
Lowered == Lang.lowered
Normal  == Lang.normal

\* The objects, and the parents a filter may be evaluated on in their place.
Seen == UNION {Views(w) : w \in Objects}

\* In a set of conditions of finite depth, every set of them that has a member has one none
\* of whose parts belongs to it: the form in which the proofs below use induction.
LEMMA Shallowest ==
  ASSUME NEW S, NEW depth, WellFounded(S, depth), NEW B \in SUBSET S, B # {}
  PROVE  \E e \in B : Parts(e) \cap B = {}
<1> DEFINE D == {depth[e] : e \in B}
<1>1. \A e \in B : depth[e] \in Nat
  BY DEF WellFounded
<1>2. D \subseteq Nat /\ D # {}
  BY <1>1
<1>3. PICK n \in D : \A m \in D : n <= m
  BY <1>2, LeastNatural
<1>4. PICK e \in B : depth[e] = n
  BY <1>3
<1>5. ASSUME NEW x \in Parts(e) \cap B PROVE FALSE
  <2>1. depth[x] < depth[e]
    BY <1>5 DEF WellFounded
  <2>2. depth[e] <= depth[x]
    BY <1>3, <1>4, <1>5
  <2>. QED BY <1>1, <1>5, <2>1, <2>2
<1>. QED BY <1>5

\* The image of a finite set under a function is finite.
LEMMA ImageIsFinite ==
  ASSUME NEW S, IsFiniteSet(S), NEW g, DOMAIN g = S
  PROVE  IsFiniteSet({g[x] : x \in S})
<1> DEFINE h == [x \in S |-> g[x]]
<1>1. h \in Surjection(S, {g[x] : x \in S})
  BY DEF Surjection
<1>. QED BY <1>1, FS_Surjection

\* The parts of an expression or a filter.
LEMMA PartsOf ==
  ASSUME NEW e
  PROVE  /\ e.op \in {"and", "or"} => Parts(e) = e.args
         /\ e.op \in {"not", "parent"} => Parts(e) = {e.arg}
BY DEF Parts

-----------------------------------------------------------------------------
(* Evaluation, one case at a time.                                         *)

\* The equations of `eval`.
LEMMA EvalCases ==
  ASSUME NEW f \in Filters, NEW o \in Seen
  PROVE  /\ f.op = "bool" => (Eval(f, o) <=> f.val)
         /\ f.op = "and" => (Eval(f, o) <=> \A g \in f.args : Eval(g, o))
         /\ f.op = "or"  => (Eval(f, o) <=> \E g \in f.args : Eval(g, o))
         /\ f.op = "not" => (Eval(f, o) <=> ~Eval(f.arg, o))
         /\ f.op = "in"  => (Eval(f, o) <=> \E v \in ReadTags(f.ext, o.tags) : v \in f.vals)
         /\ f.op = "contains" /\ ~f.ci =>
              (Eval(f, o) <=> \E v \in ReadTags(f.ext, o.tags) : v \in Shape[f.shape])
         /\ f.op = "atom" => (Eval(f, o) <=> (DecideConcrete(f.pred, o) <=> f.want))
         /\ f.op = "parent" => (Eval(f, o) <=> \E t \in o.parent : Eval(f.arg, [o EXCEPT !.tags = t]))
<1>1. Eval(f, o) <=> EvalBody(f, o)
  BY LanguageAssumption DEF Language, FiltersAreLowered, Filters, Seen
<1>3. CASE f.op = "bool" BY <1>1, <1>3 DEF EvalBody
<1>4. CASE f.op = "and" BY <1>1, <1>4 DEF EvalBody
<1>5. CASE f.op = "or" BY <1>1, <1>5 DEF EvalBody
<1>6. CASE f.op = "not" BY <1>1, <1>6 DEF EvalBody
<1>7. CASE f.op = "in"
  <2>1. Eval(f, o) <=> ReadTags(f.ext, o.tags) \cap f.vals # {}
    BY <1>1, <1>7 DEF EvalBody
  <2>. QED BY <1>7, <2>1
<1>8. CASE f.op = "contains" /\ ~f.ci
  <2>1. Eval(f, o) <=> ReadTags(f.ext, o.tags) \cap Shape[f.shape] # {}
    BY <1>1, <1>8 DEF EvalBody
  <2>. QED BY <1>8, <2>1
<1>9. CASE f.op = "atom" BY <1>1, <1>9 DEF EvalBody
<1>10. CASE f.op = "parent" BY <1>1, <1>10 DEF EvalBody
<1>. QED BY <1>3, <1>4, <1>5, <1>6, <1>7, <1>8, <1>9, <1>10

\* The equations of `eval_expr`.
LEMMA EvalExprCases ==
  ASSUME NEW e \in Normal, NEW o \in Objects
  PROVE  /\ e.op = "true" => EvalExpr(e, o)
         /\ e.op = "false" => ~EvalExpr(e, o)
         /\ e.op = "lit" => (EvalExpr(e, o) <=> (DecideConcrete(e.pred, o) <=> e.pos))
         /\ e.op = "and" => (EvalExpr(e, o) <=> \A x \in e.args : EvalExpr(x, o))
         /\ e.op = "or"  => (EvalExpr(e, o) <=> \E x \in e.args : EvalExpr(x, o))
<1>1. EvalExpr(e, o) <=> EvalExprBody(e, o)
  BY LanguageAssumption DEF Language, NormalAreFolded, Normal
<1>3. CASE e.op = "true" BY <1>1, <1>3 DEF EvalExprBody
<1>4. CASE e.op = "and" BY <1>1, <1>4 DEF EvalExprBody
<1>5. CASE e.op = "or" BY <1>1, <1>5 DEF EvalExprBody
<1>6. CASE e.op = "false" BY <1>1, <1>6 DEF EvalExprBody
<1>7. CASE e.op = "lit" BY <1>1, <1>7 DEF EvalExprBody
<1>. QED BY <1>3, <1>4, <1>5, <1>6, <1>7

\* What is known of a normal form.
LEMMA NormalFacts ==
  /\ WellFounded(Normal, Lang.depth)
  /\ TrueE \in Normal /\ FalseE \in Normal
  /\ \A e \in Normal : /\ IsExpression(e) /\ e.op \in {"true", "false", "lit", "and", "or"}
                       /\ Conjuncts(e) = ConjunctsBody(e) /\ Literals(e) = LiteralsBody(e)
                       /\ e.op \in {"and", "or"} =>
                            /\ e = [op |-> e.op, args |-> e.args]
                            /\ e.args \subseteq Normal /\ IsFiniteSet(e.args)
                       /\ e.op = "lit" =>
                            e = Lit(e.pos, e.pred) /\ e.pos \in BOOLEAN /\ IsPredicate(e.pred)
                       /\ e.op = "true" => e = TrueE
                       /\ e.op = "false" => e = FalseE
<1>1. /\ WellFounded(Normal, Lang.depth)
      /\ TrueE \in Normal /\ FalseE \in Normal
      /\ \A e \in Normal : IsExpression(e) /\ e.op # "not"
                           /\ Conjuncts(e) = ConjunctsBody(e) /\ Literals(e) = LiteralsBody(e)
  BY LanguageAssumption DEF Language, NormalAreFolded, Normal
<1>2. ASSUME NEW e \in Normal
      PROVE  /\ e.op \in {"true", "false", "lit", "and", "or"}
             /\ e.op \in {"and", "or"} => e = [op |-> e.op, args |-> e.args]
             /\ e.op = "lit" => e = Lit(e.pos, e.pred) /\ e.pos \in BOOLEAN /\ IsPredicate(e.pred)
             /\ e.op = "true" => e = TrueE
             /\ e.op = "false" => e = FalseE
  <2>1. IsExpression(e) /\ e.op # "not"
    BY <1>1
  <2>2. TrueE.op = "true" /\ FalseE.op = "false"
    BY DEF TrueE, FalseE
  <2>. QED BY <2>1, <2>2 DEF IsExpression
<1>3. ASSUME NEW e \in Normal, e.op \in {"and", "or"}
      PROVE  e.args \subseteq Normal /\ IsFiniteSet(e.args)
  BY <1>1, <1>3 DEF WellFounded, Parts
<1>. QED BY <1>1, <1>2, <1>3

-----------------------------------------------------------------------------
(* Folding.                                                                *)

\* A joined set of normal forms means the conjunction, or the disjunction, of its members.
LEMMA JoinMeans ==
  ASSUME NEW xs, IsFiniteSet(xs), xs \subseteq Normal, NEW o \in Objects
  PROVE  /\ Join("and", xs) \in Normal =>
              (EvalExpr(Join("and", xs), o) <=> \A x \in xs : EvalExpr(x, o))
         /\ Join("or", xs) \in Normal =>
              (EvalExpr(Join("or", xs), o) <=> \E x \in xs : EvalExpr(x, o))
<1>1. TrueE \in Normal /\ FalseE \in Normal /\ TrueE.op = "true" /\ FalseE.op = "false"
  BY NormalFacts DEF TrueE, FalseE
<1>2. EvalExpr(TrueE, o) /\ ~EvalExpr(FalseE, o)
  BY <1>1, EvalExprCases
<1>3. CASE xs = {}
  <2>1. Join("and", xs) = TrueE /\ Join("or", xs) = FalseE
    BY <1>3, FS_EmptySet DEF Join
  <2>. QED BY <1>2, <1>3, <2>1
<1>4. CASE xs # {} /\ Cardinality(xs) = 1
  <2>1. PICK x : xs = {x}
    BY <1>4, FS_Singleton
  <2>2. (CHOOSE y \in xs : TRUE) = x
    BY <2>1
  <2>3. Join("and", xs) = x /\ Join("or", xs) = x
    BY <1>4, <2>2 DEF Join
  <2>. QED BY <2>1, <2>3
<1>5. CASE xs # {} /\ Cardinality(xs) # 1
  <2>1. /\ Join("and", xs) = [op |-> "and", args |-> xs]
        /\ Join("or", xs) = [op |-> "or", args |-> xs]
    BY <1>5 DEF Join
  <2>. QED BY <2>1, EvalExprCases
<1>. QED BY <1>3, <1>4, <1>5

\* A read of one map of tags gives at most one value.
LEMMA OneTagRead ==
  ASSUME NEW ext, IsExtract(ext), NEW tags,
         NEW u \in ReadTags(ext, tags), NEW v \in ReadTags(ext, tags)
  PROVE  u = v
<1> DEFINE first == {i \in DOMAIN ext.keys :
                       /\ ext.keys[i] \in DOMAIN tags
                       /\ \A j \in 1..(i - 1) : ext.keys[j] \notin DOMAIN tags}
           raw == {tags[ext.keys[i]] : i \in first}
<1>1. ReadTags(ext, tags) = {Sanitize[ext.chain][w] : w \in raw \cap DOMAIN Sanitize[ext.chain]}
  BY DEF ReadTags
<1>2. \A i \in first : i \in Nat \ {0}
  BY DEF IsExtract
<1>3. ASSUME NEW i \in first, NEW j \in first, i < j PROVE FALSE
  <2>1. i \in 1..(j - 1)
    BY <1>2, <1>3
  <2>. QED BY <2>1
<1>4. \A i, j \in first : i = j
  <2> HIDE DEF first
  <2>. QED BY <1>2, <1>3
<1>5. \A x, y \in raw : x = y
  <2> HIDE DEF first
  <2>. QED BY <1>4
<1>. HIDE DEF raw, first
<1>. QED BY <1>1, <1>5

\* So does a read of an object, which has at most one parent.
LEMMA OneRead ==
  ASSUME NEW ext, IsExtract(ext), NEW o \in Objects,
         NEW u \in ReadExtract(ext, o), NEW v \in ReadExtract(ext, o)
  PROVE  u = v
<1>1. CASE ext.parent
  <2>1. PICK s \in o.parent : u \in ReadTags(ext, s)
    BY <1>1 DEF ReadExtract
  <2>2. PICK t \in o.parent : v \in ReadTags(ext, t)
    BY <1>1 DEF ReadExtract
  <2>3. s = t
    BY ObjectsAssumption
  <2>. QED BY <2>1, <2>2, <2>3, OneTagRead
<1>2. CASE ~ext.parent
  BY <1>2, OneTagRead DEF ReadExtract
<1>. QED BY <1>1, <1>2

\* An atom holds or fails.
LEMMA DecideConcreteIsBoolean ==
  ASSUME NEW p, IsPredicate(p), NEW o
  PROVE  DecideConcrete(p, o) \in BOOLEAN
<1>1. CASE Tagged(p)
  <2>1. DecideConcrete(p, o) = \E v \in ReadExtract(p.ext, o) : ValueSatisfies(p, v)
    BY <1>1 DEF DecideConcrete, Tagged
  <2>. QED BY <2>1
<1>2. CASE p.kind = "hasKeyPrefix"
  <2>1. DecideConcrete(p, o) = (p.keys \cap DOMAIN o.tags # {})
    BY <1>2 DEF DecideConcrete, Tagged
  <2>. QED BY <2>1
<1>3. CASE p.kind = "hasParent" BY <1>3 DEF DecideConcrete, Tagged
<1>4. CASE p.kind = "side" BY <1>4 DEF DecideConcrete, Tagged
<1>5. CASE p.kind = "prefix" BY <1>5 DEF DecideConcrete, Tagged
<1>6. CASE p.kind = "tagsEmpty" BY <1>6 DEF DecideConcrete, Tagged
<1>. QED BY <1>1, <1>2, <1>3, <1>4, <1>5, <1>6 DEF IsPredicate, Tagged

\* The literals of a normal form are normal forms, and finitely many.
LEMMA LiteralsAreNormal ==
  \A e \in Normal : IsFiniteSet(Literals(e)) /\ Literals(e) \subseteq {l \in Normal : l.op = "lit"}
<1> DEFINE Lits == {l \in Normal : l.op = "lit"}
           Bad == {e \in Normal : ~(IsFiniteSet(Literals(e)) /\ Literals(e) \subseteq Lits)}
<1>. SUFFICES ASSUME Bad # {} PROVE FALSE
  OBVIOUS
<1>1. PICK e \in Bad : Parts(e) \cap Bad = {}
  BY NormalFacts, Shallowest
<1>2. CASE e.op = "lit"
  <2>1. Literals(e) = {e}
    BY <1>2, NormalFacts DEF LiteralsBody
  <2>. QED BY <1>2, <2>1, FS_Singleton
<1>3. CASE e.op \in {"and", "or"}
  <2> DEFINE each == {Literals(x) : x \in e.args}
  <2>1. Literals(e) = UNION each
    BY <1>3, NormalFacts DEF LiteralsBody
  <2>2. IsFiniteSet(e.args) /\ e.args \subseteq Normal
    BY <1>3, NormalFacts
  <2>3. \A x \in e.args : IsFiniteSet(Literals(x)) /\ Literals(x) \subseteq Lits
    BY <1>1, <1>3, <2>2 DEF Parts
  <2>4. IsFiniteSet(each)
    <3> DEFINE g == [x \in e.args |-> Literals(x)]
    <3>1. IsFiniteSet({g[x] : x \in e.args})
      BY <2>2, ImageIsFinite
    <3>2. {g[x] : x \in e.args} = each
      OBVIOUS
    <3>. QED BY <3>1, <3>2
  <2>5. IsFiniteSet(UNION each)
    BY <2>3, <2>4, FS_UNION
  <2>6. UNION each \subseteq Lits
    BY <2>3
  <2>. QED BY <2>1, <2>5, <2>6
<1>4. CASE e.op \in {"true", "false"}
  <2>1. Literals(e) = {}
    BY <1>4, NormalFacts DEF LiteralsBody
  <2>. QED BY <2>1, FS_EmptySet
<1>. QED BY <1>2, <1>3, <1>4, NormalFacts

\* All branches the expressions of the language offer.  A branch on the side, or on whether
\* there is a parent, has all the values there are.
AllKeys == BranchKeys(Residuals(Normal), {})
AllValues(key) == EligibleValues(Residuals(Normal), key)

IsSplit(b) ==
  \/ \E key \in AllKeys : \E vs \in SUBSET AllValues(key) :
       /\ b = [by |-> "key", key |-> key, vals |-> vs]
       /\ key.on \in {"side", "hasParent"} => vs = AllValues(key)
  \/ \E p \in EligibleAtoms(Residuals(Normal), {}) : b = AtomBranch(p)

\* The literals of the language are tests of well-formed atoms.
LEMMA AllLiterals ==
  ASSUME NEW l \in CandidateLiterals(Residuals(Normal))
  PROVE  l \in Normal /\ l.op = "lit" /\ IsPredicate(l.pred)
<1>1. PICK e \in Normal : l \in Literals(e)
  BY DEF CandidateLiterals, Residuals
<1>2. l \in Normal /\ l.op = "lit"
  BY <1>1, LiteralsAreNormal
<1>. QED BY <1>2, NormalFacts

\* A key of the language reads a tag, or one of the context fields.
LEMMA KeyForms ==
  ASSUME NEW key \in AllKeys
  PROVE  \/ key.on = "tag" /\ IsExtract(key.ext)
         \/ key.on \in {"side", "hasParent", "prefix"}
<1>1. CASE \E l \in CandidateLiterals(Residuals(Normal)) :
              l.pred.kind \in {"eq", "firstTagIn"} /\ key = TagKey(l.pred.ext)
  <2>1. PICK l \in CandidateLiterals(Residuals(Normal)) :
               l.pred.kind \in {"eq", "firstTagIn"} /\ key = TagKey(l.pred.ext)
    BY <1>1
  <2>2. IsExtract(l.pred.ext)
    BY <2>1, AllLiterals DEF IsPredicate
  <2>. QED BY <2>1, <2>2 DEF TagKey
<1>2. CASE \E l \in CandidateLiterals(Residuals(Normal)) :
              l.pred.kind \in {"side", "hasParent", "prefix"} /\ key = ContextKey(l.pred.kind)
  BY <1>2 DEF ContextKey
<1>. QED BY <1>1, <1>2 DEF AllKeys, BranchKeys

\* A branch is one of those whose facts the language is closed under.
LEMMA SplitsAreBranches ==
  ASSUME NEW b, IsSplit(b)
  PROVE  b \in BranchesOver(Normal) /\ FactsOf(b) \subseteq FactsOver(Normal)
<1>1. b \in BranchesOver(Normal)
  <2>1. CASE \E key \in AllKeys : \E vs \in SUBSET AllValues(key) :
                b = [by |-> "key", key |-> key, vals |-> vs]
    <3>1. PICK key \in AllKeys : \E vs \in SUBSET AllValues(key) :
                 b = [by |-> "key", key |-> key, vals |-> vs]
      BY <2>1
    <3>2. PICK vs \in SUBSET AllValues(key) : b = [by |-> "key", key |-> key, vals |-> vs]
      BY <3>1
    <3>3. b = [KeyBranch(Residuals(Normal), key) EXCEPT !.vals = vs]
      BY <3>2 DEF KeyBranch
    <3>4. b \in KeyBranchesOver(Normal, key)
      BY <3>3 DEF AllValues, KeyBranchesOver
    <3>. QED BY <3>4 DEF BranchesOver, AllKeys
  <2>2. CASE \E p \in EligibleAtoms(Residuals(Normal), {}) : b = AtomBranch(p)
    <3>1. b \in AtomBranchesOver(Normal)
      BY <2>2 DEF AtomBranchesOver
    <3>. QED BY <3>1 DEF BranchesOver
  <2>. QED BY <2>1, <2>2 DEF IsSplit
<1>. QED BY <1>1 DEF FactsOver

\* What a branch asks of an object has at most one answer.
LEMMA OneKeyRead ==
  ASSUME NEW key \in AllKeys, NEW o \in Objects,
         NEW u \in KeyReads(key, o), NEW v \in KeyReads(key, o)
  PROVE  u = v
<1>1. CASE key.on = "tag"
  <2>1. KeyReads(key, o) = ReadExtract(key.ext, o) /\ IsExtract(key.ext)
    BY <1>1, KeyForms DEF KeyReads
  <2>. QED BY <2>1, OneRead
<1>2. CASE key.on = "side" BY <1>2 DEF KeyReads
<1>3. CASE key.on = "hasParent" BY <1>3 DEF KeyReads
<1>4. CASE key.on = "prefix" BY <1>4, ObjectsAssumption DEF KeyReads
<1>. QED BY <1>1, <1>2, <1>3, <1>4, KeyForms

\* The edge an object takes at a branch is one of the branch's edges.
LEMMA EdgesExist ==
  ASSUME NEW b, IsSplit(b), NEW o \in Objects
  PROVE  EdgeOf(b, o) \in FactsOf(b)
<1>1. CASE \E key \in AllKeys : \E vs \in SUBSET AllValues(key) :
              b = [by |-> "key", key |-> key, vals |-> vs]
  <2>1. b.by = "key"
    BY <1>1
  <2> DEFINE hit == KeyReads(b.key, o) \cap b.vals
  <2>2. CASE hit = {}
    BY <2>1, <2>2 DEF EdgeOf, FactsOf
  <2>3. CASE hit # {}
    <3>1. (CHOOSE v \in hit : TRUE) \in b.vals
      BY <2>3
    <3>2. EdgeOf(b, o) = ValueFact(b.key, CHOOSE v \in hit : TRUE)
      BY <2>1, <2>3 DEF EdgeOf
    <3>. QED BY <2>1, <3>1, <3>2 DEF FactsOf
  <2>. QED BY <2>2, <2>3
<1>2. CASE \E p \in EligibleAtoms(Residuals(Normal), {}) : b = AtomBranch(p)
  <2>1. PICK p \in EligibleAtoms(Residuals(Normal), {}) : b = AtomBranch(p)
    BY <1>2
  <2>2. IsPredicate(p)
    BY AllLiterals DEF EligibleAtoms
  <2>3. b.by = "atom" /\ b.key = p
    BY <2>1 DEF AtomBranch
  <2>4. DecideConcrete(p, o) \in BOOLEAN
    BY <2>2, DecideConcreteIsBoolean
  <2>. QED BY <2>3, <2>4 DEF EdgeOf, FactsOf
<1>. QED BY <1>1, <1>2 DEF IsSplit

\* What an edge decides of an atom is what the atom is for the objects that take the edge.
LEMMA DecideIsSound ==
  ASSUME NEW b, IsSplit(b), NEW o \in Objects, NEW p, IsPredicate(p)
  PROVE  /\ Decide(p, EdgeOf(b, o)) \in {"T", "F", "U"}
         /\ Decide(p, EdgeOf(b, o)) = "T" => DecideConcrete(p, o)
         /\ Decide(p, EdgeOf(b, o)) = "F" => ~DecideConcrete(p, o)
<1> DEFINE f == EdgeOf(b, o)
<1>1. CASE \E q \in EligibleAtoms(Residuals(Normal), {}) : b = AtomBranch(q)
  <2>1. PICK q \in EligibleAtoms(Residuals(Normal), {}) : b = AtomBranch(q)
    BY <1>1
  <2>2. f = AtomFact(q, DecideConcrete(q, o))
    BY <2>1 DEF EdgeOf, AtomBranch
  <2>3. f.fact = "atom" /\ f.atom = q /\ f.holds = DecideConcrete(q, o)
    BY <2>2 DEF AtomFact
  <2>4. Decide(p, f) = IF p = q THEN K(DecideConcrete(q, o)) ELSE "U"
    BY <2>3 DEF Decide
  <2>. QED BY <2>4 DEF K
<1>2. CASE \E key \in AllKeys : \E vs \in SUBSET AllValues(key) :
              /\ b = [by |-> "key", key |-> key, vals |-> vs]
              /\ key.on \in {"side", "hasParent"} => vs = AllValues(key)
  <2>1. PICK key \in AllKeys : \E vs \in SUBSET AllValues(key) :
              /\ b = [by |-> "key", key |-> key, vals |-> vs]
              /\ key.on \in {"side", "hasParent"} => vs = AllValues(key)
    BY <1>2
  <2>2. PICK vs \in SUBSET AllValues(key) :
              /\ b = [by |-> "key", key |-> key, vals |-> vs]
              /\ key.on \in {"side", "hasParent"} => vs = AllValues(key)
    BY <2>1
  <2> DEFINE hit == KeyReads(key, o) \cap vs
  <2>3. b.by = "key" /\ b.key = key /\ b.vals = vs
    BY <2>2
  <2>4. CASE ~Reads(p, key)
    <3>1. Decide(p, f) = "U"
      <4>1. CASE hit = {}
        <5>1. f = OtherFact(key, vs)
          BY <2>3, <4>1 DEF EdgeOf
        <5>. QED BY <2>4, <5>1 DEF Decide, OtherFact, DecideWildcard
      <4>2. CASE hit # {}
        <5>1. f = ValueFact(key, CHOOSE v \in hit : TRUE)
          BY <2>3, <4>2 DEF EdgeOf
        <5>. QED BY <2>4, <5>1 DEF Decide, ValueFact, DecideValue
      <4>. QED BY <4>1, <4>2
    <3>. QED BY <3>1
  <2>5. CASE Reads(p, key) /\ hit # {}
    <3>1. PICK v : v = (CHOOSE w \in hit : TRUE)
      OBVIOUS
    <3>2. v \in KeyReads(key, o) /\ \A w \in KeyReads(key, o) : w = v
      BY <2>5, <3>1, OneKeyRead
    <3>3. f = ValueFact(key, v)
      BY <2>3, <2>5, <3>1 DEF EdgeOf
    <3>4. Decide(p, f) = DecideValue(p, key, v)
      BY <3>3 DEF Decide, ValueFact
    <3>5. CASE key.on = "tag"
      <4>1. Tagged(p) /\ p.ext = key.ext /\ KeyReads(key, o) = ReadExtract(p.ext, o)
        BY <2>5, <3>5 DEF Reads, KeyReads
      <4>2. DecideConcrete(p, o) <=> \E w \in ReadExtract(p.ext, o) : ValueSatisfies(p, w)
        BY <4>1 DEF DecideConcrete, Tagged
      <4>3. DecideConcrete(p, o) <=> ValueSatisfies(p, v)
        BY <3>2, <4>1, <4>2
      <4>4. Decide(p, f) = K(ValueSatisfies(p, v))
        BY <2>5, <3>4, <3>5 DEF DecideValue
      <4>. QED BY <4>3, <4>4 DEF K
    <3>6. CASE key.on = "side"
      <4>1. p.kind = "side" /\ v = o.side /\ ~Tagged(p)
        BY <2>5, <3>2, <3>6 DEF Reads, KeyReads, Tagged
      <4>2. DecideConcrete(p, o) <=> o.side = p.val
        BY <4>1 DEF DecideConcrete, Tagged
      <4>3. Decide(p, f) = K(p.val = v)
        BY <2>5, <3>4, <3>6 DEF DecideValue
      <4>. QED BY <4>1, <4>2, <4>3 DEF K
    <3>7. CASE key.on = "hasParent"
      <4>1. /\ p.kind = "hasParent" /\ ~Tagged(p)
            /\ v = IF o.parent # {} THEN "true" ELSE "false"
        BY <2>5, <3>2, <3>7 DEF Reads, KeyReads, Tagged
      <4>2. DecideConcrete(p, o) <=> o.parent # {}
        BY <4>1 DEF DecideConcrete, Tagged
      <4>3. Decide(p, f) = K(v = "true")
        BY <2>5, <3>4, <3>7 DEF DecideValue
      <4>. QED BY <4>1, <4>2, <4>3 DEF K
    <3>8. CASE key.on = "prefix"
      <4>1. p.kind = "prefix" /\ KeyReads(key, o) = o.prefix /\ ~Tagged(p)
        BY <2>5, <3>8 DEF Reads, KeyReads, Tagged
      <4>2. DecideConcrete(p, o) <=> p.val \in o.prefix
        BY <4>1 DEF DecideConcrete, Tagged
      <4>3. Decide(p, f) = K(p.val = v)
        BY <2>5, <3>4, <3>8 DEF DecideValue
      <4>. QED BY <3>2, <4>1, <4>2, <4>3 DEF K
    <3>. QED BY <3>5, <3>6, <3>7, <3>8, KeyForms
  <2>6. CASE Reads(p, key) /\ hit = {}
    <3>1. f = OtherFact(key, vs)
      BY <2>3, <2>6 DEF EdgeOf
    <3>2. Decide(p, f) = DecideWildcard(p, key, vs)
      BY <3>1 DEF Decide, OtherFact
    <3>3. CASE key.on = "tag"
      <4>1. Tagged(p) /\ p.ext = key.ext /\ KeyReads(key, o) = ReadExtract(p.ext, o)
        BY <2>6, <3>3 DEF Reads, KeyReads
      <4>2. DecideConcrete(p, o) <=> \E w \in ReadExtract(p.ext, o) : ValueSatisfies(p, w)
        BY <4>1 DEF DecideConcrete, Tagged
      <4>3. \A w \in ReadExtract(p.ext, o) : w \notin vs
        BY <2>6, <4>1
      <4>4. Decide(p, f) = CASE p.kind = "eq" -> IF p.val \in vs THEN "F" ELSE "U"
                             [] p.kind = "firstTagIn" -> IF p.vals \subseteq vs THEN "F" ELSE "U"
                             [] OTHER -> "U"
        BY <2>6, <3>2, <3>3 DEF DecideWildcard
      <4>. QED BY <4>2, <4>3, <4>4 DEF ValueSatisfies
    <3>4. CASE key.on \in {"side", "hasParent"}
      <4>1. vs = AllValues(key)
        BY <2>2, <3>4
      <4>2. CASE key.on = "side"
        BY <2>6, <4>1, <4>2, ObjectsAssumption DEF AllValues, EligibleValues, KeyReads
      <4>3. CASE key.on = "hasParent"
        BY <2>6, <4>1, <4>3 DEF AllValues, EligibleValues, KeyReads
      <4>. QED BY <3>4, <4>2, <4>3
    <3>5. CASE key.on = "prefix"
      <4>1. p.kind = "prefix" /\ KeyReads(key, o) = o.prefix /\ ~Tagged(p)
        BY <2>6, <3>5 DEF Reads, KeyReads, Tagged
      <4>2. DecideConcrete(p, o) <=> p.val \in o.prefix
        BY <4>1 DEF DecideConcrete, Tagged
      <4>3. Decide(p, f) = IF p.val \in vs THEN "F" ELSE "U"
        BY <2>6, <3>2, <3>5, <4>1 DEF DecideWildcard
      <4>. QED BY <2>6, <4>1, <4>2, <4>3
    <3>. QED BY <3>3, <3>4, <3>5, KeyForms
  <2>. QED BY <2>4, <2>5, <2>6
<1>. QED BY <1>1, <1>2 DEF IsSplit

\* Folding a normal form by an edge keeps its meaning for the objects that take the edge.
THEOREM FoldingIsSound ==
  ASSUME NEW b, IsSplit(b), NEW o \in Objects
  PROVE  \A e \in Normal : /\ Simplify(e, EdgeOf(b, o)) \in Normal
                           /\ EvalExpr(Simplify(e, EdgeOf(b, o)), o) <=> EvalExpr(e, o)
<1> DEFINE f == EdgeOf(b, o)
           Bad == {e \in Normal : ~(EvalExpr(Simplify(e, f), o) <=> EvalExpr(e, o))}
<1>1. f \in FactsOver(Normal)
  BY EdgesExist, SplitsAreBranches
<1>2. \A e \in Normal : Simplify(e, f) \in Normal /\ Simplify(e, f) = SimplifyBody(e, f)
  BY <1>1, LanguageAssumption DEF Language, NormalAreFolded, Normal
<1>3. ASSUME Bad # {} PROVE FALSE
  <2>1. PICK e \in Bad : Parts(e) \cap Bad = {}
    BY <1>3, NormalFacts, Shallowest
  <2>2. TrueE \in Normal /\ FalseE \in Normal /\ TrueE.op = "true" /\ FalseE.op = "false"
    BY NormalFacts DEF TrueE, FalseE
  <2>3. EvalExpr(TrueE, o) /\ ~EvalExpr(FalseE, o)
    BY <2>2, EvalExprCases
  <2>4. Simplify(e, f) = SimplifyBody(e, f) /\ e \in Normal
    BY <1>2
  <2>5. CASE e.op \in {"true", "false"}
    BY <2>4, <2>5 DEF SimplifyBody
  <2>6. CASE e.op = "lit"
    <3>1. /\ Simplify(e, f) = IF Decide(e.pred, f) = "U" THEN e
                              ELSE IF (Decide(e.pred, f) = "T") <=> e.pos THEN TrueE ELSE FalseE
          /\ IsPredicate(e.pred) /\ e.pos \in BOOLEAN
      BY <2>4, <2>6, NormalFacts DEF SimplifyBody
    <3>2. EvalExpr(e, o) <=> (DecideConcrete(e.pred, o) <=> e.pos)
      BY <2>4, <2>6, EvalExprCases
    <3>3. /\ Decide(e.pred, f) \in {"T", "F", "U"}
          /\ Decide(e.pred, f) = "T" => DecideConcrete(e.pred, o)
          /\ Decide(e.pred, f) = "F" => ~DecideConcrete(e.pred, o)
      BY <3>1, DecideIsSound
    <3>4. Decide(e.pred, f) # "U" => (EvalExpr(Simplify(e, f), o) <=> EvalExpr(e, o))
      <4> HIDE DEF f
      <4>. QED BY <2>3, <3>1, <3>2, <3>3
    <3>5. Decide(e.pred, f) = "U" => Simplify(e, f) = e
      BY <3>1
    <3>. QED BY <3>4, <3>5
  <2>7. ASSUME e.op \in {"and", "or"}
        PROVE  /\ e.args \subseteq Normal /\ IsFiniteSet({Simplify(x, f) : x \in e.args})
               /\ {Simplify(x, f) : x \in e.args} \subseteq Normal
               /\ \A x \in e.args : EvalExpr(Simplify(x, f), o) <=> EvalExpr(x, o)
    <3>1. e.args \subseteq Normal /\ IsFiniteSet(e.args)
      BY <2>4, <2>7, NormalFacts
    <3>2. IsFiniteSet({Simplify(x, f) : x \in e.args})
      <4> DEFINE g == [x \in e.args |-> Simplify(x, f)]
      <4>1. IsFiniteSet({g[x] : x \in e.args})
        BY <3>1, ImageIsFinite
      <4>2. {g[x] : x \in e.args} = {Simplify(x, f) : x \in e.args}
        OBVIOUS
      <4>. QED BY <4>1, <4>2
    <3>3. {Simplify(x, f) : x \in e.args} \subseteq Normal
      BY <1>2, <3>1
    <3>4. \A x \in e.args : x \notin Bad
      BY <2>1, <2>7, PartsOf
    <3>. QED BY <3>1, <3>2, <3>3, <3>4
  <2>8. CASE e.op = "and"
    <3> DEFINE kids == {Simplify(x, f) : x \in e.args}
    <3>1. EvalExpr(e, o) <=> \A x \in e.args : EvalExpr(x, o)
      BY <2>4, <2>8, EvalExprCases
    <3>2. EvalExpr(e, o) <=> \A k \in kids : EvalExpr(k, o)
      BY <2>7, <2>8, <3>1
    <3>3. CASE FalseE \in kids
      <4>1. Simplify(e, f) = FalseE
        BY <2>4, <2>8, <3>3 DEF SimplifyBody
      <4>. QED BY <2>3, <3>2, <3>3, <4>1
    <3>4. CASE FalseE \notin kids
      <4>1. Simplify(e, f) = Join("and", kids \ {TrueE})
        BY <2>4, <2>8, <3>4 DEF SimplifyBody
      <4>2. IsFiniteSet(kids \ {TrueE}) /\ kids \ {TrueE} \subseteq Normal
        BY <2>7, <2>8, FS_Subset
      <4>3. Join("and", kids \ {TrueE}) \in Normal
        BY <1>2, <2>4, <4>1
      <4>4. EvalExpr(Simplify(e, f), o) <=> \A k \in kids \ {TrueE} : EvalExpr(k, o)
        <5> HIDE DEF kids
        <5>. QED BY <4>1, <4>2, <4>3, JoinMeans
      <4>. QED BY <2>3, <3>2, <4>4
    <3>. QED BY <3>3, <3>4
  <2>9. CASE e.op = "or"
    <3> DEFINE kids == {Simplify(x, f) : x \in e.args}
    <3>1. EvalExpr(e, o) <=> \E x \in e.args : EvalExpr(x, o)
      BY <2>4, <2>9, EvalExprCases
    <3>2. EvalExpr(e, o) <=> \E k \in kids : EvalExpr(k, o)
      BY <2>7, <2>9, <3>1
    <3>3. CASE TrueE \in kids
      <4>1. Simplify(e, f) = TrueE
        BY <2>4, <2>9, <3>3 DEF SimplifyBody
      <4>. QED BY <2>3, <3>2, <3>3, <4>1
    <3>4. CASE TrueE \notin kids
      <4>1. Simplify(e, f) = Join("or", kids \ {FalseE})
        BY <2>4, <2>9, <3>4 DEF SimplifyBody
      <4>2. IsFiniteSet(kids \ {FalseE}) /\ kids \ {FalseE} \subseteq Normal
        BY <2>7, <2>9, FS_Subset
      <4>3. Join("or", kids \ {FalseE}) \in Normal
        BY <1>2, <2>4, <4>1
      <4>4. EvalExpr(Simplify(e, f), o) <=> \E k \in kids \ {FalseE} : EvalExpr(k, o)
        <5> HIDE DEF kids
        <5>. QED BY <4>1, <4>2, <4>3, JoinMeans
      <4>. QED BY <2>3, <3>2, <4>4
    <3>. QED BY <3>3, <3>4
  <2>. QED BY <2>4, <2>5, <2>6, <2>8, <2>9, NormalFacts
<1>. QED BY <1>2, <1>3
-----------------------------------------------------------------------------
(* Normalising.                                                            *)

\* What is known of a lowered expression.
LEMMA LoweredFacts ==
  /\ WellFounded(Lowered, Lang.depth)
  /\ \A e \in Lowered :
       /\ IsExpression(e) /\ Scoped(e) = ScopedBody(e)
       /\ ToNNF(e) = ToNNFBody(e) /\ ToNNF(e) \in Lowered /\ ToNNF(e) \in Normal
       /\ ToNNF(Not(e)) = ToNNFBody(Not(e)) /\ ToNNF(Not(e)) \in Lowered /\ ToNNF(Not(e)) \in Normal
       /\ e.op \in {"and", "or"} => e = [op |-> e.op, args |-> e.args] /\ e.args \subseteq Lowered
       /\ e.op = "not" => e = Not(e.arg) /\ e.arg \in Lowered
       /\ e.op = "lit" => e = Lit(e.pos, e.pred) /\ e.pos \in BOOLEAN /\ IsPredicate(e.pred)
       /\ e.op = "true" => e = TrueE
       /\ e.op = "false" => e = FalseE
<1>1. /\ WellFounded(Lowered, Lang.depth)
      /\ \A e \in Lowered :
           /\ IsExpression(e) /\ Scoped(e) = ScopedBody(e)
           /\ \A n \in {e, Not(e)} : ToNNF(n) = ToNNFBody(n) /\ ToNNF(n) \in Lowered \cap Normal
  BY LanguageAssumption DEF Language, LoweredAreNormalised, Lowered, Normal
<1>2. ASSUME NEW e \in Lowered
      PROVE  /\ e.op \in {"and", "or"} => e = [op |-> e.op, args |-> e.args]
             /\ e.op = "not" => e = Not(e.arg)
             /\ e.op = "lit" => e = Lit(e.pos, e.pred) /\ e.pos \in BOOLEAN /\ IsPredicate(e.pred)
             /\ e.op = "true" => e = TrueE
             /\ e.op = "false" => e = FalseE
  <2>1. IsExpression(e)
    BY <1>1
  <2>2. TrueE.op = "true" /\ FalseE.op = "false"
    BY DEF TrueE, FalseE
  <2>. QED BY <2>1, <2>2 DEF IsExpression
<1>3. ASSUME NEW e \in Lowered
      PROVE  /\ e.op \in {"and", "or"} => e.args \subseteq Lowered
             /\ e.op = "not" => e.arg \in Lowered
  BY <1>1, PartsOf DEF WellFounded
<1>. QED BY <1>1, <1>2, <1>3

\* One step of `to_nnf`, by what it is given.
LEMMA NNFCases ==
  ASSUME NEW e \in Lowered
  PROVE  /\ e.op \in {"true", "false", "lit"} => ToNNF(e) = e
         /\ e.op \in {"and", "or"} => ToNNF(e) = [op |-> e.op, args |-> {ToNNF(x) : x \in e.args}]
         /\ e.op = "true" => ToNNF(Not(e)) = FalseE
         /\ e.op = "false" => ToNNF(Not(e)) = TrueE
         /\ e.op = "lit" => ToNNF(Not(e)) = Lit(~e.pos, e.pred)
         /\ e.op = "not" => ToNNF(Not(e)) = ToNNF(e.arg)
         /\ e.op = "and" => ToNNF(Not(e)) = Or({ToNNF(Not(x)) : x \in e.args})
         /\ e.op = "or" => ToNNF(Not(e)) = And({ToNNF(Not(x)) : x \in e.args})
<1>1. Not(e).op = "not" /\ Not(e).arg = e
  BY DEF Not
<1>2. ToNNF(e) = ToNNFBody(e) /\ ToNNF(Not(e)) = ToNNFBody(Not(e))
  BY LoweredFacts
<1>3. CASE e.op \in {"true", "false"}
  BY <1>1, <1>2, <1>3 DEF ToNNFBody
<1>4. CASE e.op = "lit"
  <2>1. ToNNF(Not(e)) = [e EXCEPT !.pos = ~e.pos]
    BY <1>1, <1>2, <1>4 DEF ToNNFBody
  <2>2. e = [op |-> "lit", pos |-> e.pos, pred |-> e.pred]
    BY <1>4, LoweredFacts DEF Lit
  <2>3. [e EXCEPT !.pos = ~e.pos] = [op |-> "lit", pos |-> ~e.pos, pred |-> e.pred]
    BY <2>2
  <2>4. ToNNF(e) = e
    BY <1>2, <1>4 DEF ToNNFBody
  <2>. QED BY <1>4, <2>1, <2>3, <2>4 DEF Lit
<1>5. CASE e.op = "not"
  BY <1>1, <1>2, <1>5 DEF ToNNFBody
<1>6. CASE e.op \in {"and", "or"}
  <2>1. e = [op |-> e.op, args |-> e.args]
    BY <1>6, LoweredFacts
  <2>2. ToNNF(e) = [e EXCEPT !.args = {ToNNF(x) : x \in e.args}]
    BY <1>2, <1>6 DEF ToNNFBody
  <2>3. ToNNF(e) = [op |-> e.op, args |-> {ToNNF(x) : x \in e.args}]
    <3> DEFINE kids == {ToNNF(x) : x \in e.args}
    <3>1. ToNNF(e) = [e EXCEPT !.args = kids]
      BY <2>2
    <3> HIDE DEF kids
    <3>2. ToNNF(e) = [op |-> e.op, args |-> kids]
      BY <2>1, <3>1
    <3>. QED BY <3>2 DEF kids
  <2>4. e.op = "and" => ToNNF(Not(e)) = Or({ToNNF(Not(x)) : x \in e.args})
    BY <1>1, <1>2 DEF ToNNFBody
  <2>5. e.op = "or" => ToNNF(Not(e)) = And({ToNNF(Not(x)) : x \in e.args})
    BY <1>1, <1>2 DEF ToNNFBody
  <2>. QED BY <1>6, <2>3, <2>4, <2>5
<1>. QED BY <1>3, <1>4, <1>5, <1>6, LoweredFacts DEF IsExpression, TrueE, FalseE

\* Normalising a conjunction or a disjunction, or its negation, evaluates to that of its parts.
LEMMA NNFOfJunction ==
  ASSUME NEW e \in Lowered, e.op \in {"and", "or"}, NEW o \in Objects
  PROVE  /\ e.args \subseteq Lowered
         /\ e.op = "and" =>
              /\ EvalExpr(ToNNF(e), o) <=> \A x \in e.args : EvalExpr(ToNNF(x), o)
              /\ EvalExpr(ToNNF(Not(e)), o) <=> \E x \in e.args : EvalExpr(ToNNF(Not(x)), o)
         /\ e.op = "or" =>
              /\ EvalExpr(ToNNF(e), o) <=> \E x \in e.args : EvalExpr(ToNNF(x), o)
              /\ EvalExpr(ToNNF(Not(e)), o) <=> \A x \in e.args : EvalExpr(ToNNF(Not(x)), o)
<1> DEFINE pos == {ToNNF(x) : x \in e.args}
           neg == {ToNNF(Not(x)) : x \in e.args}
<1>1. e.args \subseteq Lowered
  BY LoweredFacts
<1>2. ToNNF(e) \in Normal /\ ToNNF(Not(e)) \in Normal
  BY LoweredFacts
<1>3. CASE e.op = "and"
  <2>1. ToNNF(e) = [op |-> "and", args |-> pos] /\ ToNNF(Not(e)) = [op |-> "or", args |-> neg]
    BY <1>3, NNFCases DEF Or
  <2>2. EvalExpr(ToNNF(e), o) <=> \A y \in pos : EvalExpr(y, o)
    <3> HIDE DEF pos, neg
    <3>. QED BY <1>2, <2>1, EvalExprCases
  <2>3. EvalExpr(ToNNF(Not(e)), o) <=> \E y \in neg : EvalExpr(y, o)
    <3> HIDE DEF pos, neg
    <3>. QED BY <1>2, <2>1, EvalExprCases
  <2>. QED BY <1>1, <1>3, <2>2, <2>3
<1>4. CASE e.op = "or"
  <2>1. ToNNF(e) = [op |-> "or", args |-> pos] /\ ToNNF(Not(e)) = [op |-> "and", args |-> neg]
    BY <1>4, NNFCases DEF And
  <2>2. EvalExpr(ToNNF(e), o) <=> \E y \in pos : EvalExpr(y, o)
    <3> HIDE DEF pos, neg
    <3>. QED BY <1>2, <2>1, EvalExprCases
  <2>3. EvalExpr(ToNNF(Not(e)), o) <=> \A y \in neg : EvalExpr(y, o)
    <3> HIDE DEF pos, neg
    <3>. QED BY <1>2, <2>1, EvalExprCases
  <2>. QED BY <1>1, <1>4, <2>2, <2>3
<1>. QED BY <1>3, <1>4

\* Normalising a literal, or its negation.
LEMMA NNFOfLiteral ==
  ASSUME NEW e \in Lowered, e.op = "lit", NEW o \in Objects
  PROVE  /\ EvalExpr(ToNNF(e), o) <=> (DecideConcrete(e.pred, o) <=> e.pos)
         /\ EvalExpr(ToNNF(Not(e)), o) <=> ~(DecideConcrete(e.pred, o) <=> e.pos)
<1>1. ToNNF(e) = e /\ ToNNF(e) \in Normal /\ e.pos \in BOOLEAN
  BY LoweredFacts, NNFCases
<1>2. EvalExpr(ToNNF(e), o) <=> (DecideConcrete(e.pred, o) <=> e.pos)
  BY <1>1, EvalExprCases
<1>3. ToNNF(Not(e)) = Lit(~e.pos, e.pred) /\ ToNNF(Not(e)) \in Normal
  BY LoweredFacts, NNFCases
<1>4. /\ ToNNF(Not(e)).op = "lit" /\ ToNNF(Not(e)).pred = e.pred
      /\ ToNNF(Not(e)).pos = ~e.pos
  BY <1>3 DEF Lit
<1>5. EvalExpr(ToNNF(Not(e)), o) <=> (DecideConcrete(e.pred, o) <=> ~e.pos)
  BY <1>3, <1>4, EvalExprCases
<1>. QED BY <1>1, <1>2, <1>5

\* The negation of an expression in negation normal form, normalised, fails exactly when the
\* expression holds.
LEMMA DenialIsSound ==
  ASSUME NEW o \in Objects
  PROVE  \A e \in Lowered \cap Normal : EvalExpr(ToNNF(Not(e)), o) <=> ~EvalExpr(e, o)
<1> DEFINE Bad == {e \in Lowered \cap Normal : ~(EvalExpr(ToNNF(Not(e)), o) <=> ~EvalExpr(e, o))}
<1>1. ASSUME Bad # {} PROVE FALSE
  <2>1. Bad \in SUBSET Normal
    OBVIOUS
  <2>2. PICK e \in Bad : Parts(e) \cap Bad = {}
    BY <1>1, <2>1, NormalFacts, Shallowest
  <2>3. e \in Lowered /\ e \in Normal
    OBVIOUS
  <2>4. TrueE \in Normal /\ FalseE \in Normal /\ TrueE.op = "true" /\ FalseE.op = "false"
    BY NormalFacts DEF TrueE, FalseE
  <2>5. EvalExpr(TrueE, o) /\ ~EvalExpr(FalseE, o)
    BY <2>4, EvalExprCases
  <2>6. CASE e.op \in {"true", "false"}
    BY <2>3, <2>5, <2>6, NNFCases, EvalExprCases
  <2>7. CASE e.op = "lit"
    <3>1. ToNNF(e) = e
      BY <2>3, <2>7, NNFCases
    <3>. QED BY <2>3, <2>7, <3>1, NNFOfLiteral
  <2>8. CASE e.op \in {"and", "or"}
    <3>1. e.args \subseteq Lowered /\ e.args \subseteq Normal
      BY <2>3, <2>8, LoweredFacts, NormalFacts
    <3>2. \A x \in e.args : EvalExpr(ToNNF(Not(x)), o) <=> ~EvalExpr(x, o)
      BY <2>2, <2>8, <3>1, PartsOf
    <3>3. /\ e.op = "and" => (EvalExpr(ToNNF(Not(e)), o) <=> \E x \in e.args : EvalExpr(ToNNF(Not(x)), o))
          /\ e.op = "or" => (EvalExpr(ToNNF(Not(e)), o) <=> \A x \in e.args : EvalExpr(ToNNF(Not(x)), o))
      BY <2>3, <2>8, NNFOfJunction
    <3>4. /\ e.op = "and" => (EvalExpr(e, o) <=> \A x \in e.args : EvalExpr(x, o))
          /\ e.op = "or" => (EvalExpr(e, o) <=> \E x \in e.args : EvalExpr(x, o))
      BY <2>3, EvalExprCases
    <3>. QED BY <2>8, <3>2, <3>3, <3>4
  <2>. QED BY <2>3, <2>6, <2>7, <2>8, NormalFacts
<1>. QED BY <1>1

-----------------------------------------------------------------------------
(* Lowering.                                                               *)

\* What is known of a filter.
LEMMA FilterFacts ==
  /\ WellFounded(Filters, Lang.depth)
  /\ \A f \in Filters :
       /\ IsFilter(f) /\ FilterToExpr(f) = FilterToExprBody(f) /\ FilterToExpr(f) \in Lowered
       /\ Parts(f) \subseteq Filters
       /\ f.op = "parent" => f.arg \in Inherited
  /\ Inherited \subseteq Filters
  /\ \A f \in Inherited : /\ f.op # "parent" /\ Parts(f) \subseteq Inherited
                          /\ Scoped(FilterToExpr(f)) \in Lowered
BY LanguageAssumption
   DEF Language, FiltersAreLowered, Filters, Inherited, Lowered, WellFounded

\* What a plain filter consists of.
LEMMA PlainFacts ==
  ASSUME NEW f \in Filters, NEW scoped \in BOOLEAN, Plain(f, scoped)
  PROVE  /\ f.op = "bool" => (scoped => ~f.val)
         /\ f.op = "and" => (scoped => f.args # {})
         /\ f.op \in {"and", "or"} => \A g \in f.args : Plain(g, scoped)
         /\ f.op = "not" => ~scoped /\ Plain(f.arg, FALSE)
         /\ f.op = "contains" => ~f.ci
         /\ f.op = "atom" => (scoped => f.want /\ Tagged(f.pred) /\ ~f.pred.ext.parent)
         /\ f.op = "parent" => ~scoped /\ Plain(f.arg, TRUE)
<1>1. PlainBody(f, scoped)
  BY LanguageAssumption DEF Language, FiltersAreLowered, Filters
<1>2. CASE f.op = "bool" BY <1>1, <1>2 DEF PlainBody
<1>3. CASE f.op = "and" BY <1>1, <1>3 DEF PlainBody
<1>4. CASE f.op = "or" BY <1>1, <1>4 DEF PlainBody
<1>5. CASE f.op = "not" BY <1>1, <1>5 DEF PlainBody
<1>6. CASE f.op = "contains" BY <1>1, <1>6 DEF PlainBody
<1>7. CASE f.op = "atom" BY <1>1, <1>7 DEF PlainBody
<1>8. CASE f.op = "parent" BY <1>1, <1>8 DEF PlainBody
<1>. QED BY <1>2, <1>3, <1>4, <1>5, <1>6, <1>7, <1>8

\* The extract that reads the same keys from the parent.
OfParent(ext) == [ext EXCEPT !.parent = TRUE]

\* It reads what the extract would read from the parent's tags.
LEMMA ReadOfParent ==
  ASSUME NEW ext, IsExtract(ext), NEW o, NEW v
  PROVE  v \in ReadExtract(OfParent(ext), o) <=> \E t \in o.parent : v \in ReadTags(ext, t)
<1> DEFINE ext2 == OfParent(ext)
<1>1. ext2.keys = ext.keys /\ ext2.chain = ext.chain /\ ext2.parent
  BY DEF IsExtract, OfParent
<1>2. \A t : ReadTags(ext2, t) = ReadTags(ext, t)
  BY <1>1 DEF ReadTags
<1>. QED BY <1>1, <1>2 DEF ReadExtract

\* The test of a value is a test of what the extract reads.
LEMMA TagTest ==
  ASSUME NEW p, Tagged(p), NEW o
  PROVE  DecideConcrete(p, o) <=> \E v \in ReadExtract(p.ext, o) : ValueSatisfies(p, v)
BY DEF DecideConcrete, Tagged

\* A literal that tests a tag, once it reads the parent.
LEMMA ScopedLiteral ==
  ASSUME NEW e \in Lowered, e.op = "lit", Tagged(e.pred)
  PROVE  /\ Scoped(e) = Lit(e.pos, [e.pred EXCEPT !.ext = OfParent(e.pred.ext)])
         /\ \A o : DecideConcrete([e.pred EXCEPT !.ext = OfParent(e.pred.ext)], o) <=>
                     \E t \in o.parent : \E v \in ReadTags(e.pred.ext, t) : ValueSatisfies(e.pred, v)
<1> DEFINE p == e.pred
           q == [p EXCEPT !.ext = OfParent(p.ext)]
<1>1. e = Lit(e.pos, p) /\ IsPredicate(p) /\ Scoped(e) = ScopedBody(e)
  BY LoweredFacts
<1>2. Scoped(e) = [e EXCEPT !.pred.ext.parent = TRUE]
  BY <1>1 DEF ScopedBody
<1>3. [e EXCEPT !.pred.ext.parent = TRUE] = [e EXCEPT !.pred = q]
  BY DEF OfParent
<1>4. Scoped(e) = Lit(e.pos, q)
  <2>1. Scoped(e) = [e EXCEPT !.pred = q]
    BY <1>2, <1>3
  <2>2. e = [op |-> "lit", pos |-> e.pos, pred |-> p]
    BY <1>1 DEF Lit
  <2> HIDE DEF q
  <2>. QED BY <2>1, <2>2 DEF Lit
<1>5. /\ IsExtract(p.ext) /\ q.kind = p.kind /\ q.ext = OfParent(p.ext) /\ Tagged(q)
      /\ \A v : ValueSatisfies(q, v) <=> ValueSatisfies(p, v)
  <2>1. IsExtract(p.ext)
    BY <1>1 DEF IsPredicate, Tagged
  <2>2. CASE p.kind = "eq"
    <3>1. DOMAIN p = {"kind", "ext", "val"}
      BY <1>1, <2>2 DEF IsPredicate
    <3>2. q.kind = "eq" /\ q.ext = OfParent(p.ext) /\ q.val = p.val
      BY <2>2, <3>1
    <3>. QED BY <2>1, <2>2, <3>2 DEF Tagged, ValueSatisfies
  <2>3. CASE p.kind = "firstTagIn"
    <3>1. DOMAIN p = {"kind", "ext", "vals"}
      BY <1>1, <2>3 DEF IsPredicate
    <3>2. q.kind = "firstTagIn" /\ q.ext = OfParent(p.ext) /\ q.vals = p.vals
      BY <2>3, <3>1
    <3>. QED BY <2>1, <2>3, <3>2 DEF Tagged, ValueSatisfies
  <2>4. CASE p.kind = "exists"
    <3>1. DOMAIN p = {"kind", "ext"}
      BY <1>1, <2>4 DEF IsPredicate
    <3>2. q.kind = "exists" /\ q.ext = OfParent(p.ext)
      BY <2>4, <3>1
    <3>. QED BY <2>1, <2>4, <3>2 DEF Tagged, ValueSatisfies
  <2>5. CASE p.kind = "shape"
    <3>1. DOMAIN p = {"kind", "ext", "shape"}
      BY <1>1, <2>5 DEF IsPredicate
    <3>2. q.kind = "shape" /\ q.ext = OfParent(p.ext) /\ q.shape = p.shape
      BY <2>5, <3>1
    <3>. QED BY <2>1, <2>5, <3>2 DEF Tagged, ValueSatisfies
  <2>. QED BY <2>2, <2>3, <2>4, <2>5 DEF Tagged
<1>6. ASSUME NEW o
      PROVE  DecideConcrete(q, o) <=>
               \E t \in o.parent : \E v \in ReadTags(p.ext, t) : ValueSatisfies(p, v)
  <2>1. DecideConcrete(q, o) <=> \E v \in ReadExtract(q.ext, o) : ValueSatisfies(q, v)
    BY <1>5, TagTest
  <2>2. DecideConcrete(q, o) <=> \E v \in ReadExtract(OfParent(p.ext), o) : ValueSatisfies(p, v)
    BY <1>5, <2>1
  <2>3. \A v : v \in ReadExtract(OfParent(p.ext), o) <=> \E t \in o.parent : v \in ReadTags(p.ext, t)
    BY <1>5, ReadOfParent
  <2>. QED BY <2>2, <2>3
<1>. QED BY <1>4, <1>6

\* The literals that an `in` filter of one key is lowered to.
Equals(ext, v) == Lit(TRUE, [kind |-> "eq", ext |-> ext, val |-> v])

\* Together they test whether the extract reads one of the values.
LEMMA EqualsOneOf ==
  ASSUME NEW ext, NEW vals, Or({Equals(ext, v) : v \in vals}) \in Lowered, NEW o \in Objects
  PROVE  LET e == Or({Equals(ext, v) : v \in vals})
         IN  /\ EvalExpr(ToNNF(e), o) <=> \E u \in ReadExtract(ext, o) : u \in vals
             /\ EvalExpr(ToNNF(Not(e)), o) <=> ~\E u \in ReadExtract(ext, o) : u \in vals
<1> DEFINE lits == {Equals(ext, v) : v \in vals}
           e == Or(lits)
<1>1. e.op = "or" /\ e.args = lits /\ e \in Lowered
  BY DEF Or
<1>2. /\ lits \subseteq Lowered
      /\ EvalExpr(ToNNF(e), o) <=> \E x \in lits : EvalExpr(ToNNF(x), o)
      /\ EvalExpr(ToNNF(Not(e)), o) <=> \A x \in lits : EvalExpr(ToNNF(Not(x)), o)
  <2> HIDE DEF lits, e
  <2>. QED BY <1>1, NNFOfJunction
<1>3. ASSUME NEW v \in vals
      PROVE  /\ EvalExpr(ToNNF(Equals(ext, v)), o) <=> v \in ReadExtract(ext, o)
             /\ EvalExpr(ToNNF(Not(Equals(ext, v))), o) <=> v \notin ReadExtract(ext, o)
  <2> DEFINE p == [kind |-> "eq", ext |-> ext, val |-> v]
  <2>1. /\ Equals(ext, v).op = "lit" /\ Equals(ext, v).pos = TRUE /\ Equals(ext, v).pred = p
        /\ Equals(ext, v) \in Lowered
    BY <1>2 DEF Equals, Lit
  <2>2. DecideConcrete(p, o) <=> \E u \in ReadExtract(ext, o) : u = v
    <3>1. Tagged(p) /\ p.ext = ext /\ \A u : ValueSatisfies(p, u) <=> u = v
      BY DEF Tagged, ValueSatisfies
    <3>. QED BY <3>1, TagTest
  <2>. QED BY <2>1, <2>2, NNFOfLiteral
<1>. QED BY <1>2, <1>3

\* An `in` filter is lowered to that, or to one literal.
LEMMA LoweredIn ==
  ASSUME NEW f \in Filters, f.op = "in"
  PROVE  \/ FilterToExpr(f) = Or({Equals(f.ext, v) : v \in f.vals})
         \/ FilterToExpr(f) = Lit(TRUE, [kind |-> "firstTagIn", ext |-> f.ext, vals |-> f.vals])
BY FilterFacts DEF FilterToExprBody, Equals

\* What a literal of a tag means, whichever way it is.
LEMMA LiteralMeans ==
  ASSUME NEW p, Tagged(p), Lit(TRUE, p) \in Lowered, NEW o \in Objects
  PROVE  /\ EvalExpr(ToNNF(Lit(TRUE, p)), o) <=> \E v \in ReadExtract(p.ext, o) : ValueSatisfies(p, v)
         /\ EvalExpr(ToNNF(Not(Lit(TRUE, p))), o) <=>
              ~\E v \in ReadExtract(p.ext, o) : ValueSatisfies(p, v)
         /\ Scoped(Lit(TRUE, p)) \in Lowered =>
              /\ EvalExpr(ToNNF(Scoped(Lit(TRUE, p))), o) <=>
                   \E t \in o.parent : \E v \in ReadTags(p.ext, t) : ValueSatisfies(p, v)
              /\ EvalExpr(ToNNF(Not(Scoped(Lit(TRUE, p)))), o) <=>
                   ~\E t \in o.parent : \E v \in ReadTags(p.ext, t) : ValueSatisfies(p, v)
<1> DEFINE e == Lit(TRUE, p)
           q == [p EXCEPT !.ext = OfParent(p.ext)]
<1>1. e.op = "lit" /\ e.pos = TRUE /\ e.pred = p /\ e \in Lowered
  BY DEF Lit
<1>2. /\ EvalExpr(ToNNF(e), o) <=> DecideConcrete(p, o)
      /\ EvalExpr(ToNNF(Not(e)), o) <=> ~DecideConcrete(p, o)
  <2> HIDE DEF e
  <2>. QED BY <1>1, NNFOfLiteral
<1>3. DecideConcrete(p, o) <=> \E v \in ReadExtract(p.ext, o) : ValueSatisfies(p, v)
  BY TagTest
<1>4. /\ Scoped(e) = Lit(TRUE, q)
      /\ DecideConcrete(q, o) <=>
           \E t \in o.parent : \E v \in ReadTags(p.ext, t) : ValueSatisfies(p, v)
  <2> HIDE DEF e
  <2>. QED BY <1>1, ScopedLiteral
<1>5. Scoped(e).op = "lit" /\ Scoped(e).pos = TRUE /\ Scoped(e).pred = q
  <2> HIDE DEF q, e
  <2>. QED BY <1>4 DEF Lit
<1>6. Scoped(e) \in Lowered =>
        /\ EvalExpr(ToNNF(Scoped(e)), o) <=> DecideConcrete(q, o)
        /\ EvalExpr(ToNNF(Not(Scoped(e))), o) <=> ~DecideConcrete(q, o)
  <2> HIDE DEF e, q
  <2>. QED BY <1>5, NNFOfLiteral
<1>. QED BY <1>2, <1>3, <1>4, <1>6

\* Lowered under a Parent filter, a plain filter asks the parent what it asks an object.
LEMMA InheritedIsSound ==
  ASSUME NEW o \in Objects
  PROVE  \A f \in Inherited : Plain(f, TRUE) =>
           /\ EvalExpr(ToNNF(Scoped(FilterToExpr(f))), o) <=>
                \E t \in o.parent : Eval(f, [o EXCEPT !.tags = t])
           /\ EvalExpr(ToNNF(Not(Scoped(FilterToExpr(f)))), o) <=>
                ~\E t \in o.parent : Eval(f, [o EXCEPT !.tags = t])
<1> DEFINE At(t) == [o EXCEPT !.tags = t]
           S(f) == Scoped(FilterToExpr(f))
           Holds(f) == \E t \in o.parent : Eval(f, At(t))
           Good(f) == /\ EvalExpr(ToNNF(S(f)), o) <=> Holds(f)
                      /\ EvalExpr(ToNNF(Not(S(f))), o) <=> ~Holds(f)
           Bad == {f \in Inherited : Plain(f, TRUE) /\ ~Good(f)}
<1>1. ASSUME Bad # {} PROVE FALSE
  <2>1. Bad \in SUBSET Filters
    BY FilterFacts
  <2>2. PICK f \in Bad : Parts(f) \cap Bad = {}
    BY <1>1, <2>1, FilterFacts, Shallowest
  <2>3. /\ f \in Inherited /\ f \in Filters /\ IsFilter(f) /\ Plain(f, TRUE)
        /\ FilterToExpr(f) = FilterToExprBody(f) /\ FilterToExpr(f) \in Lowered
        /\ Scoped(FilterToExpr(f)) \in Lowered
        /\ Scoped(FilterToExpr(f)) = ScopedBody(FilterToExpr(f))
    BY FilterFacts, LoweredFacts
  <2>4. ~Good(f)
    OBVIOUS
  <2>5. \A t \in o.parent : At(t) \in Seen /\ At(t).tags = t
    BY ObjectsAssumption DEF Seen, Views
  <2>6. \A s, t \in o.parent : s = t
    BY ObjectsAssumption
  <2>7. ASSUME f.op \in {"and", "or"}
        PROVE  /\ f.args \subseteq Inherited /\ \A g \in f.args : Good(g)
               /\ S(f) = [op |-> f.op, args |-> {S(g) : g \in f.args}]
    <3>1. f.args \subseteq Inherited
      BY <2>3, <2>7, FilterFacts, PartsOf
    <3>2. \A g \in f.args : Good(g)
      <4>1. \A g \in f.args : Plain(g, TRUE) /\ g \notin Bad
        BY <2>2, <2>3, <2>7, PlainFacts, PartsOf
      <4>. QED BY <3>1, <4>1
    <3> DEFINE kids == {FilterToExpr(g) : g \in f.args}
               skids == {Scoped(x) : x \in kids}
    <3>3. FilterToExpr(f) = [op |-> f.op, args |-> kids]
      BY <2>3, <2>7 DEF FilterToExprBody, And, Or
    <3>4. S(f) = [op |-> f.op, args |-> skids]
      <4>1. FilterToExpr(f).op = f.op /\ FilterToExpr(f).args = kids
        BY <3>3
      <4>2. S(f) = [FilterToExpr(f) EXCEPT !.args = skids]
        BY <2>3, <2>7, <4>1 DEF ScopedBody
      <4> HIDE DEF kids, skids
      <4>. QED BY <3>3, <4>2
    <3>5. skids = {S(g) : g \in f.args}
      OBVIOUS
    <3>. QED BY <3>1, <3>2, <3>4, <3>5
  <2>8. ASSUME f.op \in {"and", "or"}
        PROVE  /\ S(f).op = f.op
               /\ f.op = "and" =>
                    /\ EvalExpr(ToNNF(S(f)), o) <=> \A g \in f.args : Holds(g)
                    /\ EvalExpr(ToNNF(Not(S(f))), o) <=> \E g \in f.args : ~Holds(g)
               /\ f.op = "or" =>
                    /\ EvalExpr(ToNNF(S(f)), o) <=> \E g \in f.args : Holds(g)
                    /\ EvalExpr(ToNNF(Not(S(f))), o) <=> \A g \in f.args : ~Holds(g)
    <3>1. S(f).op = f.op /\ S(f).args = {S(g) : g \in f.args} /\ S(f) \in Lowered
      BY <2>3, <2>7, <2>8
    <3>2. /\ f.op = "and" =>
               /\ EvalExpr(ToNNF(S(f)), o) <=> \A x \in S(f).args : EvalExpr(ToNNF(x), o)
               /\ EvalExpr(ToNNF(Not(S(f))), o) <=> \E x \in S(f).args : EvalExpr(ToNNF(Not(x)), o)
          /\ f.op = "or" =>
               /\ EvalExpr(ToNNF(S(f)), o) <=> \E x \in S(f).args : EvalExpr(ToNNF(x), o)
               /\ EvalExpr(ToNNF(Not(S(f))), o) <=> \A x \in S(f).args : EvalExpr(ToNNF(Not(x)), o)
      <4> HIDE DEF S
      <4>. QED BY <2>8, <3>1, NNFOfJunction
    <3>3. \A g \in f.args : /\ EvalExpr(ToNNF(S(g)), o) <=> Holds(g)
                            /\ EvalExpr(ToNNF(Not(S(g))), o) <=> ~Holds(g)
      BY <2>7, <2>8
    <3>. HIDE DEF S, Holds
    <3>. QED BY <3>1, <3>2, <3>3
  <2>9. CASE f.op = "and"
    <3>1. f.args # {}
      BY <2>3, <2>9, PlainFacts
    <3>2. \A t \in o.parent : Eval(f, At(t)) <=> \A g \in f.args : Eval(g, At(t))
      BY <2>3, <2>5, <2>9, EvalCases
    <3>3. Holds(f) <=> \A g \in f.args : Holds(g)
      <4> HIDE DEF At
      <4>. QED BY <2>6, <3>1, <3>2
    <3> HIDE DEF Holds, S
    <3>. QED BY <2>4, <2>8, <2>9, <3>3
  <2>10. CASE f.op = "or"
    <3>2. \A t \in o.parent : Eval(f, At(t)) <=> \E g \in f.args : Eval(g, At(t))
      BY <2>3, <2>5, <2>10, EvalCases
    <3>3. Holds(f) <=> \E g \in f.args : Holds(g)
      <4> HIDE DEF At
      <4>. QED BY <3>2
    <3> HIDE DEF Holds, S
    <3>. QED BY <2>4, <2>8, <2>10, <3>3
  <2>11. CASE f.op = "in"
    <3>1. IsExtract(f.ext) /\ (Holds(f) <=> \E t \in o.parent : \E u \in ReadTags(f.ext, t) : u \in f.vals)
      <4>1. \A t \in o.parent : Eval(f, At(t)) <=> \E u \in ReadTags(f.ext, At(t).tags) : u \in f.vals
        <5> HIDE DEF At
        <5>. QED BY <2>3, <2>5, <2>11, EvalCases
      <4>2. IsExtract(f.ext)
        BY <2>3, <2>11 DEF IsFilter
      <4> HIDE DEF At
      <4>. QED BY <2>5, <4>1, <4>2
    <3>2. CASE FilterToExpr(f) = Or({Equals(f.ext, v) : v \in f.vals})
      <4> DEFINE lits == {Equals(f.ext, v) : v \in f.vals}
      <4>1. FilterToExpr(f).op = "or" /\ FilterToExpr(f).args = lits /\ lits \subseteq Lowered
        <5>1. FilterToExpr(f).op = "or" /\ FilterToExpr(f).args = lits
          BY <3>2 DEF Or
        <5>2. FilterToExpr(f).args \subseteq Lowered
          BY <2>3, <5>1, LoweredFacts
        <5>. QED BY <5>1, <5>2
      <4>2. ASSUME NEW v \in f.vals
            PROVE  Scoped(Equals(f.ext, v)) = Equals(OfParent(f.ext), v)
        <5> DEFINE p == [kind |-> "eq", ext |-> f.ext, val |-> v]
        <5>1. /\ Equals(f.ext, v) \in Lowered /\ Equals(f.ext, v).op = "lit"
              /\ Equals(f.ext, v).pos = TRUE /\ Equals(f.ext, v).pred = p /\ Tagged(p)
          BY <4>1 DEF Equals, Lit, Tagged
        <5>2. Scoped(Equals(f.ext, v)) = Lit(TRUE, [p EXCEPT !.ext = OfParent(p.ext)])
          BY <5>1, ScopedLiteral
        <5>3. [p EXCEPT !.ext = OfParent(p.ext)] =
                [kind |-> "eq", ext |-> OfParent(f.ext), val |-> v]
          OBVIOUS
        <5>. QED BY <5>2, <5>3 DEF Equals
      <4>3. S(f) = Or({Equals(OfParent(f.ext), v) : v \in f.vals})
        <5> DEFINE slits == {Scoped(x) : x \in lits}
        <5>1. S(f) = [FilterToExpr(f) EXCEPT !.args = slits]
          BY <2>3, <4>1 DEF ScopedBody
        <5>2. slits = {Equals(OfParent(f.ext), v) : v \in f.vals}
          BY <4>2
        <5>3. FilterToExpr(f) = [op |-> "or", args |-> lits]
          BY <3>2 DEF Or
        <5> HIDE DEF slits, lits
        <5>4. S(f) = [op |-> "or", args |-> slits]
          BY <5>1, <5>3
        <5>. QED BY <5>2, <5>4 DEF Or
      <4>4. /\ EvalExpr(ToNNF(S(f)), o) <=> \E u \in ReadExtract(OfParent(f.ext), o) : u \in f.vals
            /\ EvalExpr(ToNNF(Not(S(f))), o) <=> ~\E u \in ReadExtract(OfParent(f.ext), o) : u \in f.vals
        BY <2>3, <4>3, EqualsOneOf
      <4>5. \A u : u \in ReadExtract(OfParent(f.ext), o) <=> \E t \in o.parent : u \in ReadTags(f.ext, t)
        BY <3>1, ReadOfParent
      <4>6. (\E u \in ReadExtract(OfParent(f.ext), o) : u \in f.vals) <=> Holds(f)
        <5> HIDE DEF Holds
        <5>. QED BY <3>1, <4>5
      <4> HIDE DEF Holds, S
      <4>. QED BY <2>4, <4>4, <4>6
    <3>3. CASE FilterToExpr(f) = Lit(TRUE, [kind |-> "firstTagIn", ext |-> f.ext, vals |-> f.vals])
      <4> DEFINE p == [kind |-> "firstTagIn", ext |-> f.ext, vals |-> f.vals]
      <4>1. p.ext = f.ext /\ Tagged(p) /\ \A v : ValueSatisfies(p, v) <=> v \in f.vals
        BY DEF Tagged, ValueSatisfies
      <4>2. /\ EvalExpr(ToNNF(S(f)), o) <=>
                 \E t \in o.parent : \E v \in ReadTags(p.ext, t) : ValueSatisfies(p, v)
            /\ EvalExpr(ToNNF(Not(S(f))), o) <=>
                 ~\E t \in o.parent : \E v \in ReadTags(p.ext, t) : ValueSatisfies(p, v)
        <5>1. S(f) = Scoped(Lit(TRUE, p)) /\ Lit(TRUE, p) \in Lowered /\ Scoped(Lit(TRUE, p)) \in Lowered
          BY <2>3, <3>3
        <5> HIDE DEF p, S
        <5>. QED BY <4>1, <5>1, LiteralMeans
      <4>3. (\E t \in o.parent : \E v \in ReadTags(p.ext, t) : ValueSatisfies(p, v)) <=> Holds(f)
        <5> HIDE DEF Holds, p
        <5>. QED BY <3>1, <4>1
      <4> HIDE DEF Holds, S, p
      <4>. QED BY <2>4, <4>2, <4>3
    <3>. QED BY <2>3, <2>11, <3>2, <3>3, LoweredIn
  <2>12. CASE f.op = "contains"
    <3> DEFINE p == [kind |-> "shape", ext |-> f.ext, shape |-> f.shape]
    <3>1. FilterToExpr(f) = Lit(TRUE, p)
      BY <2>3, <2>12 DEF FilterToExprBody
    <3>2. p.ext = f.ext /\ Tagged(p) /\ \A v : ValueSatisfies(p, v) <=> v \in Shape[f.shape]
      BY DEF Tagged, ValueSatisfies
    <3>3. /\ EvalExpr(ToNNF(S(f)), o) <=>
               \E t \in o.parent : \E v \in ReadTags(p.ext, t) : ValueSatisfies(p, v)
          /\ EvalExpr(ToNNF(Not(S(f))), o) <=>
               ~\E t \in o.parent : \E v \in ReadTags(p.ext, t) : ValueSatisfies(p, v)
      <4>1. S(f) = Scoped(Lit(TRUE, p)) /\ Lit(TRUE, p) \in Lowered /\ Scoped(Lit(TRUE, p)) \in Lowered
        BY <2>3, <3>1
      <4> HIDE DEF p, S
      <4>. QED BY <3>2, <4>1, LiteralMeans
    <3>4. (\E t \in o.parent : \E v \in ReadTags(p.ext, t) : ValueSatisfies(p, v)) <=> Holds(f)
      <4>1. \A t \in o.parent :
              Eval(f, At(t)) <=> \E u \in ReadTags(f.ext, At(t).tags) : u \in Shape[f.shape]
        <5>1. ~f.ci
          BY <2>3, <2>12, PlainFacts
        <5> HIDE DEF At
        <5>. QED BY <2>3, <2>5, <2>12, <5>1, EvalCases
      <4> HIDE DEF At, p
      <4>. QED BY <2>5, <3>2, <4>1
    <3> HIDE DEF Holds, S, p
    <3>. QED BY <2>4, <3>3, <3>4
  <2>13. CASE f.op = "atom"
    <3> DEFINE p == f.pred
    <3>1. FilterToExpr(f) = Lit(f.want, p)
      BY <2>3, <2>13 DEF FilterToExprBody
    <3>2. f.want = TRUE /\ Tagged(p) /\ ~p.ext.parent
      <4>1. f.want /\ f.want \in BOOLEAN /\ Tagged(p) /\ ~p.ext.parent
        BY <2>3, <2>13, PlainFacts DEF IsFilter
      <4>. QED BY <4>1
    <3>3. /\ EvalExpr(ToNNF(S(f)), o) <=>
               \E t \in o.parent : \E v \in ReadTags(p.ext, t) : ValueSatisfies(p, v)
          /\ EvalExpr(ToNNF(Not(S(f))), o) <=>
               ~\E t \in o.parent : \E v \in ReadTags(p.ext, t) : ValueSatisfies(p, v)
      <4>1. S(f) = Scoped(Lit(TRUE, p)) /\ Lit(TRUE, p) \in Lowered /\ Scoped(Lit(TRUE, p)) \in Lowered
        BY <2>3, <3>1, <3>2
      <4> HIDE DEF p, S
      <4>. QED BY <3>2, <4>1, LiteralMeans
    <3>4. ASSUME NEW t \in o.parent
          PROVE  Eval(f, At(t)) <=> \E v \in ReadTags(p.ext, t) : ValueSatisfies(p, v)
      <4>1. Eval(f, At(t)) <=> DecideConcrete(p, At(t))
        BY <2>3, <2>5, <2>13, <3>2, EvalCases
      <4>2. DecideConcrete(p, At(t)) <=> \E v \in ReadExtract(p.ext, At(t)) : ValueSatisfies(p, v)
        BY <3>2, TagTest
      <4>3. ReadExtract(p.ext, At(t)) = ReadTags(p.ext, t)
        <5> HIDE DEF At
        <5>. QED BY <2>5, <3>2 DEF ReadExtract
      <4>. QED BY <4>1, <4>2, <4>3
    <3>5. (\E t \in o.parent : \E v \in ReadTags(p.ext, t) : ValueSatisfies(p, v)) <=> Holds(f)
      BY <3>4
    <3> HIDE DEF Holds, S, p
    <3>. QED BY <2>4, <3>3, <3>5
  <2>14. CASE f.op = "bool"
    <3>1. ~f.val /\ f.val \in BOOLEAN
      BY <2>3, <2>14, PlainFacts DEF IsFilter
    <3>2. FilterToExpr(f) = FalseE
      BY <2>3, <2>14, <3>1 DEF FilterToExprBody
    <3>3. S(f) = FalseE
      BY <2>3, <3>2 DEF ScopedBody, FalseE
    <3>4. ~EvalExpr(FalseE, o) /\ EvalExpr(TrueE, o)
      <4>1. TrueE \in Normal /\ FalseE \in Normal /\ TrueE.op = "true" /\ FalseE.op = "false"
        BY NormalFacts DEF TrueE, FalseE
      <4>. QED BY <4>1, EvalExprCases
    <3>5. ToNNF(FalseE) = FalseE /\ ToNNF(Not(FalseE)) = TrueE
      <4>1. FalseE \in Lowered /\ FalseE.op = "false"
        BY <2>3, <3>3 DEF FalseE
      <4>. QED BY <4>1, NNFCases
    <3>6. ~Holds(f)
      BY <2>3, <2>5, <2>14, <3>1, EvalCases
    <3> HIDE DEF Holds, S
    <3>. QED BY <2>4, <3>3, <3>4, <3>5, <3>6
  <2>15. f.op \notin {"not", "parent"}
    BY <2>3, PlainFacts
  <2>. QED BY <2>3, <2>9, <2>10, <2>11, <2>12, <2>13, <2>14, <2>15 DEF IsFilter
<1>. QED BY <1>1

\* A plain filter, lowered and normalised, evaluates to what the filter evaluates to.
THEOREM LoweringIsSound ==
  ASSUME NEW o \in Objects
  PROVE  \A f \in Filters : Plain(f, FALSE) =>
           /\ Compiled(f, o) <=> Eval(f, o)
           /\ EvalExpr(ToNNF(Not(FilterToExpr(f))), o) <=> ~Eval(f, o)
<1> DEFINE E(f) == FilterToExpr(f)
           Good(f) == /\ EvalExpr(ToNNF(E(f)), o) <=> Eval(f, o)
                      /\ EvalExpr(ToNNF(Not(E(f))), o) <=> ~Eval(f, o)
           Bad == {f \in Filters : Plain(f, FALSE) /\ ~Good(f)}
<1>1. o \in Seen
  BY DEF Seen, Views
<1>2. ASSUME Bad # {} PROVE FALSE
  <2>1. Bad \in SUBSET Filters
    OBVIOUS
  <2>2. PICK f \in Bad : Parts(f) \cap Bad = {}
    BY <1>2, <2>1, FilterFacts, Shallowest
  <2>3. /\ f \in Filters /\ IsFilter(f) /\ Plain(f, FALSE)
        /\ E(f) = FilterToExprBody(f) /\ E(f) \in Lowered
    BY FilterFacts
  <2>4. ~Good(f)
    OBVIOUS
  <2>5. TrueE \in Normal /\ FalseE \in Normal /\ TrueE.op = "true" /\ FalseE.op = "false"
    BY NormalFacts DEF TrueE, FalseE
  <2>6. EvalExpr(TrueE, o) /\ ~EvalExpr(FalseE, o)
    BY <2>5, EvalExprCases
  <2>7. CASE f.op = "bool"
    <3>1. f.val \in BOOLEAN /\ (Eval(f, o) <=> f.val)
      BY <1>1, <2>3, <2>7, EvalCases DEF IsFilter
    <3>2. E(f) = IF f.val THEN TrueE ELSE FalseE
      BY <2>3, <2>7 DEF FilterToExprBody
    <3>3. CASE f.val
      <4>1. E(f) = TrueE
        BY <3>2, <3>3
      <4>2. ToNNF(TrueE) = TrueE /\ ToNNF(Not(TrueE)) = FalseE
        BY <2>3, <2>5, <4>1, NNFCases
      <4>. QED BY <2>4, <2>6, <3>1, <3>3, <4>1, <4>2
    <3>4. CASE ~f.val
      <4>1. E(f) = FalseE
        BY <3>2, <3>4
      <4>2. ToNNF(FalseE) = FalseE /\ ToNNF(Not(FalseE)) = TrueE
        BY <2>3, <2>5, <4>1, NNFCases
      <4>. QED BY <2>4, <2>6, <3>1, <3>4, <4>1, <4>2
    <3>. QED BY <3>3, <3>4
  <2>8. CASE f.op \in {"and", "or"}
    <3>1. f.args \subseteq Filters
      BY <2>3, <2>8, FilterFacts, PartsOf
    <3>2. \A g \in f.args : Good(g)
      <4>1. \A g \in f.args : Plain(g, FALSE) /\ g \notin Bad
        BY <2>2, <2>3, <2>8, PlainFacts, PartsOf
      <4>. QED BY <3>1, <4>1
    <3> DEFINE kids == {E(g) : g \in f.args}
    <3>3. E(f) = [op |-> f.op, args |-> kids]
      BY <2>3, <2>8 DEF FilterToExprBody, And, Or
    <3>4. E(f).op = f.op /\ E(f).args = kids
      <4> HIDE DEF kids
      <4>. QED BY <3>3
    <3>5. /\ f.op = "and" =>
               /\ EvalExpr(ToNNF(E(f)), o) <=> \A x \in kids : EvalExpr(ToNNF(x), o)
               /\ EvalExpr(ToNNF(Not(E(f))), o) <=> \E x \in kids : EvalExpr(ToNNF(Not(x)), o)
          /\ f.op = "or" =>
               /\ EvalExpr(ToNNF(E(f)), o) <=> \E x \in kids : EvalExpr(ToNNF(x), o)
               /\ EvalExpr(ToNNF(Not(E(f))), o) <=> \A x \in kids : EvalExpr(ToNNF(Not(x)), o)
      <4> HIDE DEF E, kids
      <4>. QED BY <2>3, <2>8, <3>4, NNFOfJunction
    <3>6. \A g \in f.args : /\ EvalExpr(ToNNF(E(g)), o) <=> Eval(g, o)
                            /\ EvalExpr(ToNNF(Not(E(g))), o) <=> ~Eval(g, o)
      BY <3>2
    <3>7. /\ f.op = "and" => (Eval(f, o) <=> \A g \in f.args : Eval(g, o))
          /\ f.op = "or" => (Eval(f, o) <=> \E g \in f.args : Eval(g, o))
      BY <1>1, <2>3, EvalCases
    <3>8. /\ f.op = "and" =>
               /\ EvalExpr(ToNNF(E(f)), o) <=> \A g \in f.args : EvalExpr(ToNNF(E(g)), o)
               /\ EvalExpr(ToNNF(Not(E(f))), o) <=> \E g \in f.args : EvalExpr(ToNNF(Not(E(g))), o)
          /\ f.op = "or" =>
               /\ EvalExpr(ToNNF(E(f)), o) <=> \E g \in f.args : EvalExpr(ToNNF(E(g)), o)
               /\ EvalExpr(ToNNF(Not(E(f))), o) <=> \A g \in f.args : EvalExpr(ToNNF(Not(E(g))), o)
      <4> HIDE DEF E
      <4>. QED BY <3>5
    <3> HIDE DEF E
    <3>. QED BY <2>4, <2>8, <3>6, <3>7, <3>8
  <2>9. CASE f.op = "not"
    <3>1. f.arg \in Filters /\ Good(f.arg) /\ E(f.arg) \in Lowered
      <4>1. f.arg \in Filters
        BY <2>3, <2>9, FilterFacts, PartsOf
      <4>2. f.arg \notin Bad /\ Plain(f.arg, FALSE)
        BY <2>2, <2>3, <2>9, PlainFacts, PartsOf
      <4>. QED BY <4>1, <4>2, FilterFacts
    <3>2. E(f) = Not(E(f.arg))
      BY <2>3, <2>9 DEF FilterToExprBody
    <3>3. ToNNF(Not(E(f))) = ToNNF(E(f.arg))
      <4>1. E(f).op = "not" /\ E(f).arg = E(f.arg)
        BY <3>2 DEF Not
      <4>. QED BY <2>3, <4>1, NNFCases
    <3>4. Eval(f, o) <=> ~Eval(f.arg, o)
      BY <1>1, <2>3, <2>9, EvalCases
    <3>. QED BY <2>4, <3>1, <3>2, <3>3, <3>4
  <2>10. CASE f.op = "in"
    <3>1. IsExtract(f.ext) /\ ~f.ext.parent
      BY <2>3, <2>10 DEF IsFilter
    <3>2. Eval(f, o) <=> \E u \in ReadExtract(f.ext, o) : u \in f.vals
      BY <1>1, <2>3, <2>10, <3>1, EvalCases DEF ReadExtract
    <3>3. CASE E(f) = Or({Equals(f.ext, v) : v \in f.vals})
      <4>1. /\ EvalExpr(ToNNF(E(f)), o) <=> \E u \in ReadExtract(f.ext, o) : u \in f.vals
            /\ EvalExpr(ToNNF(Not(E(f))), o) <=> ~\E u \in ReadExtract(f.ext, o) : u \in f.vals
        BY <2>3, <3>3, EqualsOneOf
      <4>. QED BY <2>4, <3>2, <4>1
    <3>4. CASE E(f) = Lit(TRUE, [kind |-> "firstTagIn", ext |-> f.ext, vals |-> f.vals])
      <4> DEFINE p == [kind |-> "firstTagIn", ext |-> f.ext, vals |-> f.vals]
      <4>1. p.ext = f.ext /\ Tagged(p) /\ \A v : ValueSatisfies(p, v) <=> v \in f.vals
        BY DEF Tagged, ValueSatisfies
      <4>2. /\ EvalExpr(ToNNF(Lit(TRUE, p)), o) <=> \E v \in ReadExtract(p.ext, o) : ValueSatisfies(p, v)
            /\ EvalExpr(ToNNF(Not(Lit(TRUE, p))), o) <=>
                 ~\E v \in ReadExtract(p.ext, o) : ValueSatisfies(p, v)
        <5>1. Lit(TRUE, p) \in Lowered
          BY <2>3, <3>4
        <5> HIDE DEF p
        <5>. QED BY <4>1, <5>1, LiteralMeans
      <4>3. E(f) = Lit(TRUE, p)
        BY <3>4
      <4> HIDE DEF p
      <4>. QED BY <2>4, <3>2, <4>1, <4>2, <4>3
    <3>. QED BY <2>3, <2>10, <3>3, <3>4, LoweredIn
  <2>11. CASE f.op = "contains"
    <3> DEFINE p == [kind |-> "shape", ext |-> f.ext, shape |-> f.shape]
    <3>1. E(f) = Lit(TRUE, p)
      BY <2>3, <2>11 DEF FilterToExprBody
    <3>2. p.ext = f.ext /\ Tagged(p) /\ \A v : ValueSatisfies(p, v) <=> v \in Shape[f.shape]
      BY DEF Tagged, ValueSatisfies
    <3>3. ~f.ext.parent /\ ~f.ci
      BY <2>3, <2>11, PlainFacts DEF IsFilter
    <3>4. Eval(f, o) <=> \E v \in ReadExtract(f.ext, o) : v \in Shape[f.shape]
      BY <1>1, <2>3, <2>11, <3>3, EvalCases DEF ReadExtract
    <3>5. /\ EvalExpr(ToNNF(Lit(TRUE, p)), o) <=> \E v \in ReadExtract(p.ext, o) : ValueSatisfies(p, v)
          /\ EvalExpr(ToNNF(Not(Lit(TRUE, p))), o) <=>
               ~\E v \in ReadExtract(p.ext, o) : ValueSatisfies(p, v)
      <4>1. Lit(TRUE, p) \in Lowered
        BY <2>3, <3>1
      <4> HIDE DEF p
      <4>. QED BY <3>2, <4>1, LiteralMeans
    <3> HIDE DEF p
    <3>. QED BY <2>4, <3>1, <3>2, <3>4, <3>5
  <2>12. CASE f.op = "atom"
    <3>1. E(f) = Lit(f.want, f.pred) /\ f.want \in BOOLEAN
      BY <2>3, <2>12 DEF FilterToExprBody, IsFilter
    <3>2. E(f).op = "lit" /\ E(f).pos = f.want /\ E(f).pred = f.pred
      BY <3>1 DEF Lit
    <3>3. Eval(f, o) <=> (DecideConcrete(f.pred, o) <=> f.want)
      BY <1>1, <2>3, <2>12, EvalCases
    <3>4. /\ EvalExpr(ToNNF(E(f)), o) <=> (DecideConcrete(f.pred, o) <=> f.want)
          /\ EvalExpr(ToNNF(Not(E(f))), o) <=> ~(DecideConcrete(f.pred, o) <=> f.want)
      <4> HIDE DEF E
      <4>. QED BY <2>3, <3>2, NNFOfLiteral
    <3> HIDE DEF E
    <3>. QED BY <2>4, <3>3, <3>4
  <2>13. CASE f.op = "parent"
    <3>1. f.arg \in Inherited /\ Plain(f.arg, TRUE) /\ E(f) = Scoped(FilterToExpr(f.arg))
      BY <2>3, <2>13, FilterFacts, PlainFacts DEF FilterToExprBody
    <3>2. Eval(f, o) <=> \E t \in o.parent : Eval(f.arg, [o EXCEPT !.tags = t])
      BY <1>1, <2>3, <2>13, EvalCases
    <3>3. /\ EvalExpr(ToNNF(E(f)), o) <=> \E t \in o.parent : Eval(f.arg, [o EXCEPT !.tags = t])
          /\ EvalExpr(ToNNF(Not(E(f))), o) <=> ~\E t \in o.parent : Eval(f.arg, [o EXCEPT !.tags = t])
      BY <3>1, InheritedIsSound
    <3>. QED BY <2>4, <3>2, <3>3
  <2>. QED BY <2>3, <2>7, <2>8, <2>9, <2>10, <2>11, <2>12, <2>13 DEF IsFilter
<1>. QED BY <1>2 DEF Compiled

-----------------------------------------------------------------------------
(* The candidates a net starts from.                                       *)

\* The conjuncts of a normal form are normal forms, finitely many, and together mean the same.
LEMMA ConjunctsMean ==
  \A e \in Normal :
    /\ IsFiniteSet(Conjuncts(e)) /\ Conjuncts(e) \subseteq Normal
    /\ \A o \in Objects : EvalExpr(e, o) <=> \A x \in Conjuncts(e) : EvalExpr(x, o)
<1> DEFINE Good(e) == /\ IsFiniteSet(Conjuncts(e)) /\ Conjuncts(e) \subseteq Normal
                      /\ \A o \in Objects : EvalExpr(e, o) <=> \A x \in Conjuncts(e) : EvalExpr(x, o)
           Bad == {e \in Normal : ~Good(e)}
<1>1. ASSUME Bad # {} PROVE FALSE
  <2>1. PICK e \in Bad : Parts(e) \cap Bad = {}
    BY <1>1, NormalFacts, Shallowest
  <2>2. CASE e.op = "and"
    <3>1. e.args \subseteq Normal /\ IsFiniteSet(e.args) /\ \A x \in e.args : Good(x)
      <4>1. e.args \subseteq Normal /\ IsFiniteSet(e.args)
        BY <2>2, NormalFacts
      <4>2. \A x \in e.args : x \notin Bad
        BY <2>1, <2>2, PartsOf
      <4>. QED BY <4>1, <4>2
    <3> DEFINE g == [x \in e.args |-> Conjuncts(x)]
               each == {g[x] : x \in e.args}
    <3>2. Conjuncts(e) = UNION each
      <4>1. Conjuncts(e) = UNION {Conjuncts(x) : x \in e.args}
        BY <2>2, NormalFacts DEF ConjunctsBody
      <4>2. each = {Conjuncts(x) : x \in e.args}
        OBVIOUS
      <4>. QED BY <4>1, <4>2
    <3>3. IsFiniteSet(each)
      <4>1. DOMAIN g = e.args
        OBVIOUS
      <4> HIDE DEF g
      <4>. QED BY <3>1, <4>1, ImageIsFinite
    <3>4. IsFiniteSet(UNION each) /\ UNION each \subseteq Normal
      <4>1. \A x \in e.args : IsFiniteSet(g[x]) /\ g[x] \subseteq Normal
        BY <3>1
      <4>2. \A c \in each : IsFiniteSet(c) /\ c \subseteq Normal
        <5> HIDE DEF g
        <5>. QED BY <4>1
      <4> HIDE DEF each
      <4>. QED BY <3>3, <4>2, FS_UNION
    <3>5. ASSUME NEW o \in Objects
          PROVE  EvalExpr(e, o) <=> \A x \in UNION each : EvalExpr(x, o)
      <4>1. EvalExpr(e, o) <=> \A x \in e.args : EvalExpr(x, o)
        BY <2>2, EvalExprCases
      <4>2. \A x \in e.args : EvalExpr(x, o) <=> \A y \in Conjuncts(x) : EvalExpr(y, o)
        BY <3>1
      <4>3. (\A y \in UNION each : EvalExpr(y, o)) <=>
              \A x \in e.args : \A y \in Conjuncts(x) : EvalExpr(y, o)
        OBVIOUS
      <4>. QED BY <4>1, <4>2, <4>3
    <3> HIDE DEF each
    <3>. QED BY <3>2, <3>4, <3>5
  <2>3. CASE e.op # "and"
    <3>1. Conjuncts(e) = {e}
      BY <2>3, NormalFacts DEF ConjunctsBody
    <3>. QED BY <3>1, FS_Singleton
  <2>. QED BY <2>2, <2>3
<1>. QED BY <1>1

\* A conjunction built of normal forms means that all of them hold.
LEMMA ConjoinMeans ==
  ASSUME NEW parts, IsFiniteSet(parts), parts \subseteq Normal, Conjoin(parts) \in Normal,
         NEW o \in Objects
  PROVE  EvalExpr(Conjoin(parts), o) <=> \A e \in parts : EvalExpr(e, o)
<1> DEFINE g == [e \in parts |-> Conjuncts(e)]
           each == {g[e] : e \in parts}
           flat == UNION each
           opposed == \E e \in flat : e.op = "lit" /\ [e EXCEPT !.pos = ~@] \in flat
<1>1. flat = UNION {Conjuncts(e) : e \in parts}
  <2>1. each = {Conjuncts(e) : e \in parts}
    OBVIOUS
  <2>. QED BY <2>1
<1>2. IsFiniteSet(flat) /\ flat \subseteq Normal
  <2>1. IsFiniteSet(each)
    BY ImageIsFinite
  <2>2. \A c \in each : IsFiniteSet(c) /\ c \subseteq Normal
    BY ConjunctsMean
  <2> HIDE DEF each
  <2>. QED BY <2>1, <2>2, FS_UNION
<1>3. (\A e \in parts : EvalExpr(e, o)) <=> \A x \in flat : EvalExpr(x, o)
  <2>1. \A e \in parts : EvalExpr(e, o) <=> \A x \in Conjuncts(e) : EvalExpr(x, o)
    BY ConjunctsMean
  <2>2. (\A x \in flat : EvalExpr(x, o)) <=>
          \A e \in parts : \A x \in Conjuncts(e) : EvalExpr(x, o)
    OBVIOUS
  <2>. QED BY <2>1, <2>2
<1>4. TrueE \in Normal /\ FalseE \in Normal /\ TrueE.op = "true" /\ FalseE.op = "false"
  BY NormalFacts DEF TrueE, FalseE
<1>5. EvalExpr(TrueE, o) /\ ~EvalExpr(FalseE, o)
  BY <1>4, EvalExprCases
<1>6. Conjoin(parts) = IF FalseE \in flat \/ opposed THEN FalseE ELSE Join("and", flat \ {TrueE})
  BY <1>1 DEF Conjoin
<1>7. opposed => ~\A x \in flat : EvalExpr(x, o)
  <2>1. ASSUME NEW e \in flat, e.op = "lit", [e EXCEPT !.pos = ~@] \in flat
        PROVE  ~\A x \in flat : EvalExpr(x, o)
    <3> DEFINE n == [e EXCEPT !.pos = ~@]
    <3>1. e \in Normal /\ n \in Normal
      <4> HIDE DEF flat
      <4>. QED BY <1>2, <2>1
    <3>2. e = [op |-> "lit", pos |-> e.pos, pred |-> e.pred] /\ e.pos \in BOOLEAN
      BY <2>1, <3>1, NormalFacts DEF Lit
    <3>3. n.op = "lit" /\ n.pos = ~e.pos /\ n.pred = e.pred
      BY <3>2
    <3>4. EvalExpr(e, o) <=> (DecideConcrete(e.pred, o) <=> e.pos)
      BY <2>1, <3>1, EvalExprCases
    <3>5. EvalExpr(n, o) <=> (DecideConcrete(e.pred, o) <=> ~e.pos)
      <4> HIDE DEF n
      <4>. QED BY <3>1, <3>3, EvalExprCases
    <3>6. ~(EvalExpr(e, o) /\ EvalExpr(n, o))
      <4> HIDE DEF n
      <4>. QED BY <3>2, <3>4, <3>5
    <3> HIDE DEF flat, n
    <3>7. n \in flat
      BY <2>1 DEF n
    <3>. QED BY <2>1, <3>6, <3>7
  <2> HIDE DEF flat
  <2>. QED BY <2>1
<1> HIDE DEF flat, each, opposed
<1>8. CASE FalseE \in flat \/ opposed
  <2>1. Conjoin(parts) = FalseE
    BY <1>6, <1>8
  <2>. QED BY <1>3, <1>5, <1>7, <1>8, <2>1
<1>9. CASE ~(FalseE \in flat \/ opposed)
  <2>1. Conjoin(parts) = Join("and", flat \ {TrueE})
    BY <1>6, <1>9
  <2>2. IsFiniteSet(flat \ {TrueE}) /\ flat \ {TrueE} \subseteq Normal
    BY <1>2, FS_Subset
  <2>3. EvalExpr(Join("and", flat \ {TrueE}), o) <=> \A x \in flat \ {TrueE} : EvalExpr(x, o)
    BY <2>1, <2>2, JoinMeans
  <2>. QED BY <1>3, <1>5, <2>1, <2>3
<1>. QED BY <1>8, <1>9

\* What a candidate with these three means for an object: its condition is the rule it stands
\* for, and what is left of it denies every earlier rule as well where a match is final.
Means(c, rs, fin, o) ==
  /\ EvalExpr(c.own, o) <=> Compiled(rs[c.idx], o)
  /\ EvalExpr(c.residual, o) <=> /\ Compiled(rs[c.idx], o)
                                 /\ fin => \A j \in 1..(c.idx - 1) : ~Compiled(rs[j], o)

CandidatesOf(rs) == [idx : DOMAIN rs, residual : Normal, own : Normal]

\* Every rule has a candidate, and the candidates mean what they should.
LEMMA StartIsSound ==
  ASSUME NEW rs, NEW fin, <<rs, fin>> \in RuleListsCompiled
  PROVE  /\ rs \in Seq(Filters) /\ IsFiniteSet(InitialCandidates(rs, fin))
         /\ InitialCandidates(rs, fin) \subseteq CandidatesOf(rs)
         /\ \A i \in DOMAIN rs : \E c \in InitialCandidates(rs, fin) : c.idx = i
         /\ \A c \in InitialCandidates(rs, fin) : \A o \in Objects : Means(c, rs, fin, o)
<1> DEFINE own == [i \in DOMAIN rs |-> ToNNF(FilterToExpr(rs[i]))]
           denied == [i \in DOMAIN rs |-> ToNNF(Not(own[i]))]
           parts(i) == {own[i]} \cup {denied[j] : j \in 1..(i - 1)}
           residual(i) == IF fin THEN Conjoin(parts(i)) ELSE own[i]
           cand(i) == [idx |-> i, residual |-> residual(i), own |-> own[i]]
           g == [i \in DOMAIN rs |-> cand(i)]
           C == InitialCandidates(rs, fin)
<1>1. rs \in Seq(Filters) /\ \A d \in C : d.residual \in Normal
  <2>1. /\ <<rs, fin>>[1] \in Seq(Filters)
        /\ \A d \in InitialCandidates(<<rs, fin>>[1], <<rs, fin>>[2]) : d.residual \in Normal
    BY LanguageAssumption DEF Language, ListsAreSpoken, Filters, Normal
  <2>. QED BY <2>1
<1>2. DOMAIN rs = 1..Len(rs) /\ Len(rs) \in Nat /\ \A i \in DOMAIN rs : rs[i] \in Filters
  BY <1>1, LenProperties
<1>3. C = {cand(i) : i \in DOMAIN rs}
  BY DEF InitialCandidates
<1>4. \A i \in DOMAIN rs : cand(i) \in C
  BY <1>3
<1>5. ASSUME NEW i \in DOMAIN rs
      PROVE  /\ own[i] \in Lowered /\ own[i] \in Normal
             /\ denied[i] \in Normal
             /\ \A o \in Objects : /\ EvalExpr(own[i], o) <=> Compiled(rs[i], o)
                                   /\ EvalExpr(denied[i], o) <=> ~Compiled(rs[i], o)
  <2>1. FilterToExpr(rs[i]) \in Lowered
    BY <1>2, FilterFacts
  <2>2. own[i] = ToNNF(FilterToExpr(rs[i])) /\ own[i] \in Lowered /\ own[i] \in Normal
    BY <2>1, LoweredFacts
  <2>3. denied[i] = ToNNF(Not(own[i])) /\ denied[i] \in Normal
    <3> HIDE DEF own
    <3>. QED BY <2>2, LoweredFacts
  <2>4. ASSUME NEW o \in Objects
        PROVE  /\ EvalExpr(own[i], o) <=> Compiled(rs[i], o)
               /\ EvalExpr(denied[i], o) <=> ~Compiled(rs[i], o)
    <3>1. EvalExpr(own[i], o) <=> Compiled(rs[i], o)
      BY <2>2 DEF Compiled
    <3>2. EvalExpr(denied[i], o) <=> ~EvalExpr(own[i], o)
      <4> HIDE DEF own, denied
      <4>. QED BY <2>2, <2>3, DenialIsSound
    <3>. QED BY <3>1, <3>2
  <2>. QED BY <2>2, <2>3, <2>4
<1>6. ASSUME NEW i \in DOMAIN rs
      PROVE  /\ cand(i).idx = i /\ cand(i).own = own[i] /\ cand(i).residual = residual(i)
             /\ residual(i) \in Normal
  <2>1. cand(i).idx = i /\ cand(i).own = own[i] /\ cand(i).residual = residual(i)
    <3> HIDE DEF own, residual
    <3>. QED OBVIOUS
  <2>2. cand(i).residual \in Normal
    <3> HIDE DEF cand, C
    <3>. QED BY <1>1, <1>4
  <2> HIDE DEF residual
  <2>. QED BY <2>1, <2>2
<1>7. ASSUME NEW i \in DOMAIN rs, NEW o \in Objects, fin
      PROVE  EvalExpr(residual(i), o) <=>
               Compiled(rs[i], o) /\ \A j \in 1..(i - 1) : ~Compiled(rs[j], o)
  <2>1. 1..(i - 1) \subseteq DOMAIN rs /\ i \in Nat
    BY <1>2
  <2>2. residual(i) = Conjoin(parts(i))
    BY <1>7
  <2>3. IsFiniteSet(parts(i)) /\ parts(i) \subseteq Normal
    <3> DEFINE h == [j \in 1..(i - 1) |-> denied[j]]
    <3>1. IsFiniteSet({h[j] : j \in 1..(i - 1)})
      <4>1. IsFiniteSet(1..(i - 1)) /\ DOMAIN h = 1..(i - 1)
        BY <2>1, FS_Interval
      <4> HIDE DEF h
      <4>. QED BY <4>1, ImageIsFinite
    <3>2. parts(i) = {own[i]} \cup {h[j] : j \in 1..(i - 1)}
      OBVIOUS
    <3>3. IsFiniteSet(parts(i))
      <4> DEFINE H == {h[j] : j \in 1..(i - 1)}
      <4>1. IsFiniteSet({own[i]}) /\ IsFiniteSet(H) /\ parts(i) = {own[i]} \cup H
        BY <3>1, <3>2, FS_Singleton
      <4> HIDE DEF parts, H, own
      <4>. QED BY <4>1, FS_Union
    <3>4. \A x \in parts(i) : x \in Normal
      <4> HIDE DEF own, denied
      <4>. QED BY <1>5, <2>1
    <3>. QED BY <3>3, <3>4
  <2>4. EvalExpr(residual(i), o) <=> \A x \in parts(i) : EvalExpr(x, o)
    <3>1. Conjoin(parts(i)) \in Normal
      <4> HIDE DEF parts
      <4>. QED BY <1>6, <2>2
    <3> HIDE DEF parts, residual
    <3>. QED BY <2>2, <2>3, <3>1, ConjoinMeans
  <2>5. (\A x \in parts(i) : EvalExpr(x, o)) <=>
          EvalExpr(own[i], o) /\ \A j \in 1..(i - 1) : EvalExpr(denied[j], o)
    <3> HIDE DEF own, denied
    <3>. QED OBVIOUS
  <2>6. \A j \in 1..(i - 1) : EvalExpr(denied[j], o) <=> ~Compiled(rs[j], o)
    <3> HIDE DEF own, denied
    <3>. QED BY <1>5, <2>1
  <2> HIDE DEF own, denied, parts, residual
  <2>. QED BY <1>5, <2>4, <2>5, <2>6
<1>8. ASSUME NEW i \in DOMAIN rs, NEW o \in Objects
      PROVE  Means(cand(i), rs, fin, o)
  <2>1. EvalExpr(own[i], o) <=> Compiled(rs[i], o)
    <3> HIDE DEF own
    <3>. QED BY <1>5
  <2>2. ~fin => residual(i) = own[i]
    OBVIOUS
  <2>3. EvalExpr(residual(i), o) <=>
          Compiled(rs[i], o) /\ (fin => \A j \in 1..(i - 1) : ~Compiled(rs[j], o))
    <3> HIDE DEF own, residual
    <3>. QED BY <1>7, <2>1, <2>2
  <2>4. cand(i).idx = i /\ cand(i).own = own[i] /\ cand(i).residual = residual(i)
    BY <1>6
  <2> HIDE DEF own, residual, cand
  <2>. QED BY <2>1, <2>3, <2>4 DEF Means
<1>9. ASSUME NEW i \in DOMAIN rs PROVE cand(i) \in CandidatesOf(rs)
  <2>1. own[i] \in Normal /\ residual(i) \in Normal
    <3> HIDE DEF own, residual
    <3>. QED BY <1>5, <1>6
  <2> HIDE DEF own, residual
  <2>. QED BY <2>1 DEF CandidatesOf
<1>10. IsFiniteSet(C)
  <2>1. IsFiniteSet({g[i] : i \in DOMAIN rs})
    <3>1. IsFiniteSet(DOMAIN rs)
      <4>1. Len(rs) \in Int /\ 1 \in Int /\ DOMAIN rs = 1..Len(rs)
        BY <1>2
      <4>. QED BY ONLY <4>1, FS_Interval
    <3>2. DOMAIN g = DOMAIN rs
      OBVIOUS
    <3> HIDE DEF g
    <3>. QED BY <3>1, <3>2, ImageIsFinite
  <2>2. {g[i] : i \in DOMAIN rs} = {cand(i) : i \in DOMAIN rs}
    <3> HIDE DEF cand
    <3>. QED OBVIOUS
  <2>. QED BY <1>3, <2>1, <2>2
<1>11. \A c \in C : \E i \in DOMAIN rs : c = cand(i)
  BY <1>3
<1> HIDE DEF cand, C
<1>. QED BY <1>1, <1>4, <1>6, <1>8, <1>9, <1>10, <1>11 DEF C

-----------------------------------------------------------------------------
(* Branching.                                                              *)

\* The facts a branch of the net may rest on, and what a path may have used up.
Facts   == FactsOver(Normal)
AllUsed == AllKeys \cup EligibleAtoms(Residuals(Normal), {})

\* A set made into a sequence: each member once.
LEMMA SetToSeqIs ==
  ASSUME NEW S, IsFiniteSet(S)
  PROVE  /\ SetToSeq(S) \in Seq(S)
         /\ \A i, j \in DOMAIN SetToSeq(S) : SetToSeq(S)[i] = SetToSeq(S)[j] => i = j
         /\ \A x \in S : \E i \in DOMAIN SetToSeq(S) : SetToSeq(S)[i] = x
<1> DEFINE n == Cardinality(S)
           q == SetToSeq(S)
<1>1. n \in Nat /\ ExistsBijection(1..n, S)
  BY FS_CardinalityType
<1>2. \E g : g \in Bijection(1..n, S)
  BY <1>1 DEF ExistsBijection
<1>3. \E g \in [1..n -> S] : IsInjective(g)
  BY <1>2 DEF Bijection, Injection, IsInjective
<1>4. q \in [1..n -> S] /\ IsInjective(q)
  BY <1>3 DEF SetToSeq
<1>5. q \in Injection(1..n, S)
  BY <1>4 DEF Injection, IsInjective
<1>6. Cardinality(1..n) = n
  <2> HIDE DEF n
  <2>1. n \in Int /\ 1 \in Int /\ ~(1 > n) => n - 1 + 1 = n
    BY <1>1
  <2>. QED BY <1>1, <2>1, FS_Interval
<1>7. q \in Surjection(1..n, S)
  BY <1>5, <1>6, FS_Injection
<1>8. \A x \in S : \E i \in 1..n : q[i] = x
  BY <1>7 DEF Surjection
<1>9. DOMAIN q = 1..n /\ q \in Seq(S)
  <2> HIDE DEF n, q
  <2>. QED BY <1>1, <1>4, SeqDef
<1>10. \A i, j \in DOMAIN q : q[i] = q[j] => i = j
  BY <1>4 DEF IsInjective
<1>. QED BY <1>8, <1>9, <1>10

\* What the candidates of a call offer is among what the language offers.
LEMMA OffersAreKnown ==
  ASSUME NEW cands, \A c \in cands : c.residual \in Normal, NEW used
  PROVE  /\ CandidateLiterals(cands) \subseteq CandidateLiterals(Residuals(Normal))
         /\ BranchKeys(cands, used) \subseteq AllKeys
         /\ EligibleAtoms(cands, used) \subseteq EligibleAtoms(Residuals(Normal), {})
         /\ \A key : EligibleValues(cands, key) \subseteq AllValues(key)
         /\ \A key : key.on \in {"side", "hasParent"} => EligibleValues(cands, key) = AllValues(key)
<1> DEFINE L == CandidateLiterals(cands)
           M == CandidateLiterals(Residuals(Normal))
<1>1. L \subseteq M
  <2>1. ASSUME NEW l \in L PROVE l \in M
    <3>1. PICK c \in cands : l \in Literals(c.residual)
      BY DEF CandidateLiterals
    <3>2. [residual |-> c.residual] \in Residuals(Normal)
      BY DEF Residuals
    <3>3. l \in Literals([residual |-> c.residual].residual)
      BY <3>1
    <3>. QED BY <3>2, <3>3 DEF CandidateLiterals
  <2>. QED BY <2>1
<1>2. BranchKeys(cands, used) \subseteq AllKeys
  <2> HIDE DEF L, M
  <2>1. /\ BranchKeys(cands, used) \subseteq
             {TagKey(l.pred.ext) : l \in {m \in L : m.pos /\ m.pred.kind \in {"eq", "firstTagIn"}}}
             \cup {ContextKey(l.pred.kind) :
                     l \in {m \in L : m.pred.kind \in {"side", "hasParent", "prefix"}}}
        /\ AllKeys =
             {TagKey(l.pred.ext) : l \in {m \in M : m.pos /\ m.pred.kind \in {"eq", "firstTagIn"}}}
             \cup {ContextKey(l.pred.kind) :
                     l \in {m \in M : m.pred.kind \in {"side", "hasParent", "prefix"}}}
    BY DEF BranchKeys, AllKeys, L, M
  <2>. QED BY <1>1, <2>1
<1>3. EligibleAtoms(cands, used) \subseteq EligibleAtoms(Residuals(Normal), {})
  BY <1>1 DEF EligibleAtoms
<1>4. ASSUME NEW key
      PROVE  /\ EligibleValues(cands, key) \subseteq AllValues(key)
             /\ key.on \in {"side", "hasParent"} => EligibleValues(cands, key) = AllValues(key)
  <2>1. CASE key.on = "side"
    BY <2>1 DEF EligibleValues, AllValues
  <2>2. CASE key.on = "hasParent"
    BY <2>2 DEF EligibleValues, AllValues
  <2>3. CASE key.on \notin {"side", "hasParent"}
    <3> DEFINE named(S) == {l.pred : l \in {m \in S : m.pos /\ Reads(m.pred, key)}}
               vals(P)  == {p.val : p \in {q \in P : q.kind \in {"eq", "prefix"}}}
                              \cup UNION {p.vals : p \in {q \in P : q.kind = "firstTagIn"}}
    <3>1. EligibleValues(cands, key) = vals(named(L)) /\ AllValues(key) = vals(named(M))
      BY <2>3 DEF EligibleValues, AllValues
    <3>2. named(L) \subseteq named(M)
      BY <1>1
    <3>3. \A P, Q : P \subseteq Q => vals(P) \subseteq vals(Q)
      OBVIOUS
    <3> HIDE DEF named, vals
    <3>. QED BY <2>3, <3>1, <3>2, <3>3
  <2>. QED BY <2>1, <2>2, <2>3
<1>. QED BY <1>1, <1>2, <1>3, <1>4

\* A branch has finitely many values.
LEMMA FiniteValues ==
  ASSUME NEW cands, IsFiniteSet(cands), \A c \in cands : c.residual \in Normal, NEW key
  PROVE  IsFiniteSet(EligibleValues(cands, key))
<1> DEFINE L == CandidateLiterals(cands)
           g == [c \in cands |-> Literals(c.residual)]
           named == {l.pred : l \in {m \in L : m.pos /\ Reads(m.pred, key)}}
<1>1. IsFiniteSet(L)
  <2>1. DOMAIN g = cands /\ \A c \in cands : IsFiniteSet(g[c])
    BY LiteralsAreNormal
  <2>2. L = UNION {g[c] : c \in cands}
    BY DEF CandidateLiterals
  <2> HIDE DEF g, L
  <2>3. IsFiniteSet({g[c] : c \in cands})
    BY <2>1, ImageIsFinite
  <2>. QED BY <2>1, <2>2, <2>3, FS_UNION
<1>2. \A l \in L : IsPredicate(l.pred)
  BY OffersAreKnown, AllLiterals
<1>3. IsFiniteSet(named) /\ \A p \in named : IsPredicate(p)
  <2> DEFINE K0 == {m \in L : m.pos /\ Reads(m.pred, key)}
             h == [l \in K0 |-> l.pred]
  <2>1. IsFiniteSet(K0) /\ K0 \subseteq L
    <3> HIDE DEF L
    <3>. QED BY <1>1, FS_Subset
  <2>2. DOMAIN h = K0 /\ named = {h[l] : l \in K0}
    OBVIOUS
  <2>3. \A p \in named : IsPredicate(p)
    <3> HIDE DEF L
    <3>. QED BY <1>2
  <2> HIDE DEF h, K0, named
  <2>. QED BY <2>1, <2>2, <2>3, ImageIsFinite
<1> HIDE DEF named, L
<1>4. IsFiniteSet({p.val : p \in {q \in named : q.kind \in {"eq", "prefix"}}})
  <2> DEFINE K0 == {q \in named : q.kind \in {"eq", "prefix"}}
             h == [p \in K0 |-> p.val]
  <2>1. IsFiniteSet(K0)
    BY <1>3, FS_Subset
  <2>2. DOMAIN h = K0 /\ {p.val : p \in K0} = {h[p] : p \in K0}
    OBVIOUS
  <2> HIDE DEF h, K0
  <2>3. IsFiniteSet({h[p] : p \in K0})
    BY <2>1, <2>2, ImageIsFinite
  <2>4. IsFiniteSet({p.val : p \in K0})
    BY <2>2, <2>3
  <2>. QED BY <2>4 DEF K0
<1>5. IsFiniteSet(UNION {p.vals : p \in {q \in named : q.kind = "firstTagIn"}})
  <2> DEFINE K0 == {q \in named : q.kind = "firstTagIn"}
             h == [p \in K0 |-> p.vals]
  <2>1. IsFiniteSet(K0) /\ \A p \in K0 : IsFiniteSet(p.vals)
    <3>1. IsFiniteSet(K0)
      BY <1>3, FS_Subset
    <3>2. \A p \in K0 : IsFiniteSet(p.vals)
      BY <1>3 DEF IsPredicate
    <3>. QED BY <3>1, <3>2
  <2>2. DOMAIN h = K0 /\ {p.vals : p \in K0} = {h[p] : p \in K0} /\ \A p \in K0 : h[p] = p.vals
    OBVIOUS
  <2> HIDE DEF h, K0
  <2>3. IsFiniteSet({h[p] : p \in K0})
    BY <2>1, <2>2, ImageIsFinite
  <2>4. \A T \in {h[p] : p \in K0} : IsFiniteSet(T)
    BY <2>1, <2>2
  <2>5. IsFiniteSet(UNION {h[p] : p \in K0})
    BY <2>3, <2>4, FS_UNION
  <2>6. IsFiniteSet(UNION {p.vals : p \in K0})
    BY <2>2, <2>5
  <2>. QED BY <2>6 DEF K0
<1>6. /\ key.on = "side" => EligibleValues(cands, key) = {"left", "right", "self"}
      /\ key.on = "hasParent" => EligibleValues(cands, key) = {"false", "true"}
      /\ key.on \notin {"side", "hasParent"} =>
           EligibleValues(cands, key) =
             {p.val : p \in {q \in named : q.kind \in {"eq", "prefix"}}}
               \cup UNION {p.vals : p \in {q \in named : q.kind = "firstTagIn"}}
  BY DEF EligibleValues, named, L
<1>7. IsFiniteSet({"left", "right", "self"}) /\ IsFiniteSet({"false", "true"})
  <2>1. IsFiniteSet({"left"}) /\ IsFiniteSet({"false"})
    BY FS_Singleton
  <2>2. IsFiniteSet({"left"} \cup {"right"}) /\ IsFiniteSet({"false"} \cup {"true"})
    BY <2>1, FS_AddElement
  <2>3. IsFiniteSet(({"left"} \cup {"right"}) \cup {"self"})
    BY <2>2, FS_AddElement
  <2>4. /\ ({"left"} \cup {"right"}) \cup {"self"} = {"left", "right", "self"}
        /\ {"false"} \cup {"true"} = {"false", "true"}
    OBVIOUS
  <2>. QED BY <2>2, <2>3, <2>4
<1>8. CASE key.on \notin {"side", "hasParent"}
  <2>1. EligibleValues(cands, key) =
             {p.val : p \in {q \in named : q.kind \in {"eq", "prefix"}}}
               \cup UNION {p.vals : p \in {q \in named : q.kind = "firstTagIn"}}
    BY <1>6, <1>8
  <2> DEFINE A == {p.val : p \in {q \in named : q.kind \in {"eq", "prefix"}}}
             B == UNION {p.vals : p \in {q \in named : q.kind = "firstTagIn"}}
  <2>2. IsFiniteSet(A) /\ IsFiniteSet(B) /\ EligibleValues(cands, key) = A \cup B
    BY <1>4, <1>5, <2>1
  <2> HIDE DEF A, B
  <2>. QED BY <2>2, FS_Union
<1>. QED BY <1>6, <1>7, <1>8

\* The branches that may be chosen are branches the candidates offer.
LEMMA ChosenAreOffered ==
  ASSUME NEW cands, NEW used, NEW b \in ChooseBranch(cands, used)
  PROVE  \/ \E key \in BranchKeys(cands, used) : b = KeyBranch(cands, key)
         \/ \E p \in EligibleAtoms(cands, used) : b = AtomBranch(p)
<1> DEFINE keys == {KeyBranch(cands, k) : k \in BranchKeys(cands, used)}
           atoms == {AtomBranch(p) : p \in EligibleAtoms(cands, used)}
<1>1. BestSingleBranch(cands, used) \subseteq keys \cup atoms
  <2> DEFINE score == [c \in keys \cup atoms |-> Worst(cands, c)]
             helpful == {c \in keys \cup atoms : score[c] < Cardinality(cands)}
             best == {c \in helpful : \A d \in helpful : score[c] <= score[d]}
  <2>1. BestSingleBranch(cands, used) = IF best \cap keys # {} THEN best \cap keys ELSE best
    BY DEF BestSingleBranch, Best
  <2>2. best \subseteq keys \cup atoms
    OBVIOUS
  <2> HIDE DEF best, keys, atoms
  <2>. QED BY <2>1, <2>2
<1>2. LookaheadBranch(cands, used) \subseteq keys
  BY DEF LookaheadBranch, Best
<1>3. b \in keys \cup atoms
  <2> HIDE DEF keys, atoms
  <2>. QED BY <1>1, <1>2 DEF ChooseBranch
<1>. QED BY <1>3

\* A branch that may be chosen is a split, with finitely many edges.
LEMMA ChosenAreSplits ==
  ASSUME NEW cands, IsFiniteSet(cands), \A c \in cands : c.residual \in Normal, NEW used,
         NEW b \in ChooseBranch(cands, used)
  PROVE  IsSplit(b) /\ b.key \in AllUsed /\ IsFiniteSet(FactsOf(b))
<1>1. CASE \E key \in BranchKeys(cands, used) : b = KeyBranch(cands, key)
  <2>1. PICK key \in BranchKeys(cands, used) : b = KeyBranch(cands, key)
    BY <1>1
  <2> DEFINE vs == EligibleValues(cands, key)
  <2>2. b = [by |-> "key", key |-> key, vals |-> vs]
    BY <2>1 DEF KeyBranch
  <2>3. key \in AllKeys /\ vs \subseteq AllValues(key) /\ IsFiniteSet(vs)
        /\ (key.on \in {"side", "hasParent"} => vs = AllValues(key))
    BY OffersAreKnown, FiniteValues
  <2> HIDE DEF vs
  <2>4. IsSplit(b) /\ b.key \in AllUsed
    BY <2>2, <2>3 DEF IsSplit, AllUsed
  <2>5. IsFiniteSet(FactsOf(b))
    <3> DEFINE h == [v \in vs |-> ValueFact(key, v)]
               rest == {h[v] : v \in vs}
    <3>1. FactsOf(b) = rest \cup {OtherFact(key, vs)}
      BY <2>2 DEF FactsOf
    <3>2. DOMAIN h = vs
      OBVIOUS
    <3> HIDE DEF h
    <3>3. IsFiniteSet(rest)
      BY <2>3, <3>2, ImageIsFinite
    <3> HIDE DEF rest
    <3>. QED BY <3>1, <3>3, FS_AddElement
  <2>. QED BY <2>4, <2>5
<1>2. CASE \E p \in EligibleAtoms(cands, used) : b = AtomBranch(p)
  <2>1. PICK p \in EligibleAtoms(cands, used) : b = AtomBranch(p)
    BY <1>2
  <2>2. p \in EligibleAtoms(Residuals(Normal), {})
    BY OffersAreKnown
  <2>3. IsSplit(b) /\ b.key \in AllUsed /\ b.by = "atom"
    BY <2>1, <2>2 DEF IsSplit, AllUsed, AtomBranch
  <2>4. FactsOf(b) = {AtomFact(b.key, TRUE)} \cup {AtomFact(b.key, FALSE)}
    BY <2>3 DEF FactsOf
  <2>5. IsFiniteSet({AtomFact(b.key, TRUE)})
    BY FS_Singleton
  <2>6. IsFiniteSet(FactsOf(b))
    BY <2>4, <2>5, FS_AddElement
  <2>. QED BY <2>3, <2>6
<1>. QED BY <1>1, <1>2, ChosenAreOffered

\* Folding keeps the candidates' form.
LEMMA FoldTypes ==
  ASSUME NEW rs, NEW cands, cands \subseteq CandidatesOf(rs), IsFiniteSet(cands), NEW f \in Facts
  PROVE  FoldCandidates(cands, f) \subseteq CandidatesOf(rs) /\ IsFiniteSet(FoldCandidates(cands, f))
<1> DEFINE left == {d \in cands : Simplify(d.residual, f) # FalseE}
           h == [c \in left |-> [c EXCEPT !.residual = Simplify(@, f), !.own = Simplify(@, f)]]
<1>1. \A e \in Normal : Simplify(e, f) \in Normal
  BY LanguageAssumption DEF Language, NormalAreFolded, Normal, Facts
<1>2. FoldCandidates(cands, f) = {h[c] : c \in left}
  BY DEF FoldCandidates
<1>3. \A c \in left : h[c] \in CandidatesOf(rs)
  BY <1>1 DEF CandidatesOf
<1>4. IsFiniteSet(left) /\ DOMAIN h = left
  BY FS_Subset
<1> HIDE DEF h, left
<1>5. IsFiniteSet({h[c] : c \in left})
  BY <1>4, ImageIsFinite
<1>. QED BY <1>2, <1>3, <1>5

\* Folding by the edge an object takes drops no candidate whose condition the object still
\* satisfies, and changes the meaning of none.
LEMMA FoldKeeps ==
  ASSUME NEW rs, NEW fin, NEW cands, cands \subseteq CandidatesOf(rs), NEW b, IsSplit(b),
         NEW o \in Objects, \A c \in cands : Means(c, rs, fin, o)
  PROVE  /\ \A d \in FoldCandidates(cands, EdgeOf(b, o)) : Means(d, rs, fin, o)
         /\ \A c \in cands : EvalExpr(c.residual, o) =>
              \E d \in FoldCandidates(cands, EdgeOf(b, o)) : d.idx = c.idx
<1> DEFINE f == EdgeOf(b, o)
           folded(c) == [c EXCEPT !.residual = Simplify(c.residual, f), !.own = Simplify(c.own, f)]
<1>1. ASSUME NEW c \in cands
      PROVE  /\ folded(c).idx = c.idx
             /\ folded(c).own = Simplify(c.own, f) /\ folded(c).residual = Simplify(c.residual, f)
             /\ EvalExpr(folded(c).own, o) <=> EvalExpr(c.own, o)
             /\ EvalExpr(folded(c).residual, o) <=> EvalExpr(c.residual, o)
  <2>1. c \in CandidatesOf(rs) /\ c.own \in Normal /\ c.residual \in Normal
    BY DEF CandidatesOf
  <2>2. /\ folded(c).idx = c.idx
        /\ folded(c).own = Simplify(c.own, f) /\ folded(c).residual = Simplify(c.residual, f)
    <3> HIDE DEF f
    <3>. QED BY <2>1 DEF CandidatesOf
  <2>3. /\ EvalExpr(Simplify(c.own, f), o) <=> EvalExpr(c.own, o)
        /\ EvalExpr(Simplify(c.residual, f), o) <=> EvalExpr(c.residual, o)
    BY <2>1, FoldingIsSound
  <2> HIDE DEF folded
  <2>. QED BY <2>2, <2>3
<1>2. FoldCandidates(cands, f) = {folded(c) : c \in {d \in cands : Simplify(d.residual, f) # FalseE}}
  BY DEF FoldCandidates
<1>3. ~EvalExpr(FalseE, o)
  <2>1. FalseE \in Normal /\ FalseE.op = "false"
    BY NormalFacts DEF FalseE
  <2>. QED BY <2>1, EvalExprCases
<1>4. ASSUME NEW d \in FoldCandidates(cands, f) PROVE Means(d, rs, fin, o)
  <2>1. PICK c \in cands : d = folded(c)
    BY <1>2
  <2> HIDE DEF folded
  <2>2. Means(c, rs, fin, o)
    OBVIOUS
  <2>. QED BY <1>1, <2>1, <2>2 DEF Means
<1>5. ASSUME NEW c \in cands, EvalExpr(c.residual, o)
      PROVE  \E d \in FoldCandidates(cands, f) : d.idx = c.idx
  <2>1. Simplify(c.residual, f) # FalseE
    <3>1. EvalExpr(Simplify(c.residual, f), o)
      BY <1>1, <1>5
    <3>. QED BY <1>3, <3>1
  <2>2. folded(c) \in FoldCandidates(cands, f)
    <3> HIDE DEF folded
    <3>. QED BY <1>2, <2>1
  <2> HIDE DEF folded
  <2>. QED BY <1>1, <2>2
<1>. QED BY <1>4, <1>5

-----------------------------------------------------------------------------
(* The inductive invariant of the build.                                   *)

CallsOf(rs) == [path : Seq(Facts), cands : SUBSET CandidatesOf(rs), used : SUBSET AllUsed]

\* The paths of the calls to make, and all that have been reached.
Pending == {todo[i].path : i \in DOMAIN todo}
Reached == DOMAIN tree \cup Pending

\* The rules that match an object and may still be its answer.
Wanted(o) == {i \in MatchingLowered(o) : final => i = LinearLowered(o, {})}

NetTyped ==
  /\ <<rules, final>> \in RuleListsCompiled
  /\ todo \in Seq(CallsOf(rules))
  /\ \A i \in DOMAIN todo : IsFiniteSet(todo[i].cands)
  /\ DOMAIN tree \subseteq Seq(Facts)
  /\ \A p \in DOMAIN tree : \/ tree[p].kind = "leaf"
                            \/ tree[p].kind = "branch" /\ IsSplit(tree[p].split)

\* No call is made twice, and what is reached hangs below branches.
NetIsATree ==
  /\ \A i, j \in DOMAIN todo : todo[i].path = todo[j].path => i = j
  /\ \A i \in DOMAIN todo : todo[i].path \notin DOMAIN tree
  /\ \A p \in Reached : \A i \in 1..Len(p) :
       /\ SubSeq(p, 1, i - 1) \in DOMAIN tree
       /\ tree[SubSeq(p, 1, i - 1)].kind = "branch"

\* Every object gets to a leaf, or to a call that is still to be made.
EveryObjectArrives ==
  \A o \in Objects : \E p \in Reached :
    /\ Takes(o, p)
    /\ p \in DOMAIN tree => tree[p].kind = "leaf"

\* For the objects that get there, a call has every candidate that could win, and each means
\* what it should; and so has a leaf.
CallsAreSound ==
  \A i \in DOMAIN todo : \A o \in Objects : Takes(o, todo[i].path) =>
    /\ \A k \in Wanted(o) : \E c \in todo[i].cands : c.idx = k
    /\ \A c \in todo[i].cands : Means(c, rules, final, o)

LeavesAreSound ==
  \A p \in DOMAIN tree : tree[p].kind = "leaf" =>
    /\ \A c \in tree[p].cands : c.idx \in DOMAIN rules
    /\ \A o \in Objects : Takes(o, p) =>
         /\ \A k \in Wanted(o) : \E c \in tree[p].cands : c.idx = k
         /\ \A c \in tree[p].cands : EvalExpr(c.own, o) <=> Compiled(rules[c.idx], o)

NetInv == NetTyped /\ NetIsATree /\ EveryObjectArrives /\ CallsAreSound /\ LeavesAreSound

\* The first of a set of places.
LEMMA FirstIndexIs ==
  ASSUME NEW S, S \subseteq Nat \ {0}
  PROVE  /\ S = {} => FirstIndex(S) = 0
         /\ S # {} => FirstIndex(S) \in S /\ \A y \in S : FirstIndex(S) <= y
<1>1. CASE S # {}
  <2>1. \E x \in S : \A y \in S : x <= y
    BY <1>1, LeastNatural
  <2>2. Min(S) \in S /\ \A y \in S : Min(S) <= y
    BY <2>1 DEF Min
  <2>. QED BY <1>1, <2>2 DEF FirstIndex
<1>. QED BY <1>1 DEF FirstIndex

\* A rule that may be the answer matches, and no earlier one does where a match is final.
LEMMA WantedMatch ==
  ASSUME NetTyped, NEW o, NEW k \in Wanted(o)
  PROVE  /\ k \in DOMAIN rules /\ Compiled(rules[k], o)
         /\ final => \A j \in 1..(k - 1) : ~Compiled(rules[j], o)
<1>1. rules \in Seq(Filters)
  BY StartIsSound DEF NetTyped
<1>2. DOMAIN rules = 1..Len(rules) /\ Len(rules) \in Nat
  BY <1>1, LenProperties
<1>3. k \in DOMAIN rules /\ Compiled(rules[k], o) /\ (final => k = LinearLowered(o, {}))
  BY DEF Wanted, MatchingLowered
<1>4. ASSUME final, NEW j \in 1..(k - 1), Compiled(rules[j], o) PROVE FALSE
  <2>1. MatchingLowered(o) \subseteq Nat \ {0} /\ MatchingLowered(o) \ {} = MatchingLowered(o)
    BY <1>2 DEF MatchingLowered
  <2>2. j \in DOMAIN rules /\ j \in MatchingLowered(o)
    BY <1>2, <1>3, <1>4 DEF MatchingLowered
  <2>3. FirstIndex(MatchingLowered(o)) <= j
    BY <2>1, <2>2, FirstIndexIs
  <2>4. k = FirstIndex(MatchingLowered(o))
    BY <1>3, <1>4, <2>1 DEF LinearLowered
  <2>. QED BY <1>2, <1>3, <1>4, <2>3, <2>4
<1>. QED BY <1>3, <1>4

\* The call at the root.
LEMMA NetStarts ==
  <<rules, final>> \in RuleListsCompiled /\ todo = StartTree(rules, final) /\ tree = <<>> => NetInv
<1> SUFFICES ASSUME <<rules, final>> \in RuleListsCompiled, todo = StartTree(rules, final), tree = <<>>
             PROVE  NetInv
  OBVIOUS
<1> DEFINE C == InitialCandidates(rules, final)
           root == [path |-> <<>>, cands |-> C, used |-> {}]
<1>1. todo = <<root>> /\ DOMAIN tree = {}
  BY DEF StartTree
<1>2. DOMAIN todo = {1} /\ todo[1] = root /\ root.path = <<>> /\ root.cands = C
  BY <1>1
<1>3. /\ IsFiniteSet(C) /\ C \subseteq CandidatesOf(rules)
      /\ \A i \in DOMAIN rules : \E c \in C : c.idx = i
      /\ \A c \in C : \A o \in Objects : Means(c, rules, final, o)
  BY StartIsSound
<1>4. <<>> \in Seq(Facts) /\ Len(<<>>) = 0 /\ DOMAIN <<>> = {}
  OBVIOUS
<1>5. root \in CallsOf(rules)
  <2> HIDE DEF C
  <2>. QED BY <1>3, <1>4 DEF CallsOf
<1>6. todo \in Seq(CallsOf(rules))
  <2> HIDE DEF root
  <2>. QED BY <1>1, <1>5
<1> HIDE DEF C, root
<1>7. NetTyped
  BY <1>1, <1>2, <1>3, <1>6 DEF NetTyped
<1>8. Pending = {<<>>} /\ Reached = {<<>>}
  BY <1>1, <1>2 DEF Pending, Reached
<1>9. \A o : Takes(o, <<>>)
  BY <1>4 DEF Takes
<1>10. NetIsATree
  <2>1. \A i \in 1..Len(<<>>) : FALSE
    BY <1>4
  <2>. QED BY <1>1, <1>2, <1>8, <2>1 DEF NetIsATree
<1>11. EveryObjectArrives
  BY <1>1, <1>8, <1>9 DEF EveryObjectArrives
<1>12. CallsAreSound
  BY <1>2, <1>3 DEF CallsAreSound, Wanted, MatchingLowered
<1>13. LeavesAreSound
  BY <1>1 DEF LeavesAreSound
<1>. QED BY <1>7, <1>10, <1>11, <1>12, <1>13 DEF NetInv

\* What a call is.
LEMMA CallFacts ==
  ASSUME NetTyped, NEW i \in DOMAIN todo
  PROVE  /\ todo[i] \in CallsOf(rules) /\ todo[i].path \in Seq(Facts)
         /\ todo[i].cands \subseteq CandidatesOf(rules) /\ IsFiniteSet(todo[i].cands)
         /\ todo[i].used \subseteq AllUsed
<1>1. todo \in Seq(CallsOf(rules)) /\ IsFiniteSet(todo[i].cands)
  BY DEF NetTyped
<1>2. PICK C : C = CallsOf(rules)
  OBVIOUS
<1>3. todo[i] \in C
  <2>1. todo \in Seq(C)
    BY <1>1, <1>2
  <2>. QED BY <2>1
<1>. QED BY <1>1, <1>2, <1>3 DEF CallsOf

\* What has been reached keeps its path when a node is made.
LEMMA TakesKept ==
  ASSUME NetTyped, NetIsATree, NEW q, q \notin DOMAIN tree, NEW n,
         tree' = [p \in DOMAIN tree \cup {q} |-> IF p = q THEN n ELSE tree[p]],
         NEW o, NEW p \in Reached
  PROVE  Takes(o, p)' <=> Takes(o, p)
<1>1. p \in Seq(Facts)
  <2>1. \A i \in DOMAIN todo : todo[i].path \in Seq(Facts)
    BY CallFacts
  <2>. QED BY <2>1 DEF NetTyped, Reached, Pending
<1>2. DOMAIN p = 1..Len(p)
  BY <1>1, LenProperties
<1>3. ASSUME NEW i \in DOMAIN p
      PROVE  tree'[SubSeq(p, 1, i - 1)] = tree[SubSeq(p, 1, i - 1)]
  <2>1. SubSeq(p, 1, i - 1) \in DOMAIN tree
    BY <1>2 DEF NetIsATree
  <2>. QED BY <2>1
<1>. QED BY <1>3 DEF Takes

\* A call that makes a leaf keeps the invariant.
LEMMA LeafKeeps ==
  ASSUME NetInv, todo # <<>>, MakeLeaf(Head(todo)), UNCHANGED <<rules, final>>
  PROVE  NetInv'
<1>1. PICK q, n, m, R :
        /\ q = Head(todo).path /\ m = Len(todo) /\ R = rules
        /\ n = [kind |-> "leaf", cands |-> {[idx |-> c.idx, own |-> c.own] : c \in Head(todo).cands}]
  OBVIOUS
<1>2. /\ NetTyped /\ NetIsATree /\ EveryObjectArrives /\ CallsAreSound /\ LeavesAreSound
      /\ rules' = rules /\ final' = final
  BY DEF NetInv
<1>3. /\ todo \in Seq(CallsOf(R)) /\ m \in Nat \ {0} /\ DOMAIN todo = 1..m
      /\ Head(todo) = todo[1]
      /\ Tail(todo) \in Seq(CallsOf(R)) /\ DOMAIN Tail(todo) = 1..(m - 1)
      /\ \A i \in 1..(m - 1) : Tail(todo)[i] = todo[i + 1]
  <2>1. todo \in Seq(CallsOf(R)) /\ todo # <<>>
    BY <1>1, <1>2 DEF NetTyped
  <2>. QED BY <1>1, <2>1, HeadTailProperties, LenProperties
<1>4. /\ tree' = [p \in DOMAIN tree \cup {q} |-> IF p = q THEN n ELSE tree[p]]
      /\ todo' = Tail(todo)
  BY <1>1 DEF MakeLeaf
<1>5. 1 \in DOMAIN todo /\ q = todo[1].path /\ q \notin DOMAIN tree /\ q \in Reached /\ q \in Seq(Facts)
  BY <1>1, <1>2, <1>3, CallFacts DEF NetIsATree, Reached, Pending
<1>6. /\ DOMAIN tree' = DOMAIN tree \cup {q} /\ tree'[q] = n
      /\ \A p \in DOMAIN tree : tree'[p] = tree[p]
  BY <1>4, <1>5
<1>7. DOMAIN todo' = 1..(m - 1) /\ \A i \in 1..(m - 1) : i + 1 \in DOMAIN todo /\ todo'[i] = todo[i + 1]
  BY <1>3, <1>4
<1>8. Pending = Pending' \cup {q}
  <2>1. ASSUME NEW i \in DOMAIN todo PROVE todo[i].path \in Pending' \cup {q}
    <3>1. CASE i = 1
      BY <1>5, <3>1
    <3>2. CASE i # 1
      <4>1. i - 1 \in 1..(m - 1) /\ (i - 1) + 1 = i
        BY <1>3, <2>1, <3>2
      <4>. QED BY <1>7, <4>1 DEF Pending
    <3>. QED BY <3>1, <3>2
  <2>2. Pending' \subseteq Pending
    BY <1>7 DEF Pending
  <2>. QED BY <1>5, <2>1, <2>2 DEF Pending
<1>9. Reached' = Reached
  BY <1>6, <1>8 DEF Reached
<1>10. \A o, p : p \in Reached => (Takes(o, p)' <=> Takes(o, p))
  BY <1>2, <1>4, <1>5, TakesKept
<1>11. NetTyped'
  <2>1. todo' \in Seq(CallsOf(R))
    BY <1>3, <1>4
  <2>2. \A i \in DOMAIN todo' : IsFiniteSet(todo'[i].cands)
    BY <1>2, <1>7 DEF NetTyped
  <2>3. DOMAIN tree' \subseteq Seq(Facts)
    BY <1>2, <1>5, <1>6 DEF NetTyped
  <2>4. \A p \in DOMAIN tree' : \/ tree'[p].kind = "leaf"
                                \/ tree'[p].kind = "branch" /\ IsSplit(tree'[p].split)
    <3>1. n.kind = "leaf"
      BY <1>1
    <3>. QED BY <1>2, <1>6, <3>1 DEF NetTyped
  <2>5. <<rules', final'>> \in RuleListsCompiled /\ rules' = R
    BY <1>1, <1>2 DEF NetTyped
  <2>. QED BY <2>1, <2>2, <2>3, <2>4, <2>5 DEF NetTyped
<1>12. NetIsATree'
  <2>1. \A i, j \in DOMAIN todo' : todo'[i].path = todo'[j].path => i = j
    BY <1>2, <1>7 DEF NetIsATree
  <2>2. \A i \in DOMAIN todo' : todo'[i].path \notin DOMAIN tree'
    <3>1. ASSUME NEW i \in 1..(m - 1) PROVE todo[i + 1].path # q
      BY <1>2, <1>3, <1>5 DEF NetIsATree
    <3>. QED BY <1>2, <1>6, <1>7, <3>1 DEF NetIsATree
  <2>3. \A p \in Reached' : \A i \in 1..Len(p) :
          /\ SubSeq(p, 1, i - 1) \in DOMAIN tree'
          /\ tree'[SubSeq(p, 1, i - 1)].kind = "branch"
    BY <1>2, <1>6, <1>9 DEF NetIsATree
  <2>. QED BY <2>1, <2>2, <2>3 DEF NetIsATree
<1>13. EveryObjectArrives'
  <2>1. ASSUME NEW o \in Objects
        PROVE  \E p \in Reached' : Takes(o, p)' /\ (p \in DOMAIN tree' => tree'[p].kind = "leaf")
    <3>1. PICK p \in Reached : Takes(o, p) /\ (p \in DOMAIN tree => tree[p].kind = "leaf")
      BY <1>2 DEF EveryObjectArrives
    <3>2. Takes(o, p)' /\ p \in Reached'
      BY <1>9, <1>10, <3>1
    <3>3. p \in DOMAIN tree' => tree'[p].kind = "leaf"
      BY <1>1, <1>6, <3>1
    <3>. QED BY <3>2, <3>3
  <2>. QED BY <2>1 DEF EveryObjectArrives
<1>14. \A o : Wanted(o)' = Wanted(o)
  BY <1>2 DEF Wanted, MatchingLowered, LinearLowered
<1>15. CallsAreSound'
  <2>1. ASSUME NEW i \in 1..(m - 1), NEW o \in Objects, Takes(o, todo[i].path)'
        PROVE  /\ \A k \in Wanted(o)' : \E c \in todo'[i].cands : c.idx = k
               /\ \A c \in todo'[i].cands : Means(c, rules, final, o)
    <3>1. Takes(o, todo[i + 1].path) /\ i + 1 \in DOMAIN todo
      <4>1. i + 1 \in DOMAIN todo /\ todo'[i] = todo[i + 1]
        BY <1>7
      <4>2. todo[i + 1].path \in Reached
        BY <4>1 DEF Reached, Pending
      <4>3. PICK p : p = todo[i + 1].path
        OBVIOUS
      <4>4. Takes(o, p)'
        BY <2>1, <4>1, <4>3
      <4>. QED BY <1>10, <4>1, <4>2, <4>3, <4>4
    <3>2. /\ \A k \in Wanted(o) : \E c \in todo[i + 1].cands : c.idx = k
          /\ \A c \in todo[i + 1].cands : Means(c, rules, final, o)
      BY <1>2, <3>1 DEF CallsAreSound
    <3>. QED BY <1>2, <1>7, <1>14, <3>2
  <2>2. \A i \in DOMAIN todo' : \A o \in Objects : Takes(o, todo[i].path)' =>
          /\ \A k \in Wanted(o)' : \E c \in todo'[i].cands : c.idx = k
          /\ \A c \in todo'[i].cands : Means(c, rules', final', o)
    BY <1>2, <1>7, <2>1
  <2>. QED BY <2>2 DEF CallsAreSound
<1>16. LeavesAreSound'
  <2>1. ASSUME NEW p \in DOMAIN tree, tree'[p].kind = "leaf"
        PROVE  /\ \A c \in tree'[p].cands : c.idx \in DOMAIN rules'
               /\ \A o \in Objects : Takes(o, p)' =>
                    /\ \A k \in Wanted(o)' : \E c \in tree'[p].cands : c.idx = k
                    /\ \A c \in tree'[p].cands : EvalExpr(c.own, o) <=> Compiled(rules'[c.idx], o)
    <3>1. tree'[p] = tree[p] /\ p \in Reached
      BY <1>6 DEF Reached
    <3>2. /\ \A c \in tree[p].cands : c.idx \in DOMAIN rules
          /\ \A o \in Objects : Takes(o, p) =>
               /\ \A k \in Wanted(o) : \E c \in tree[p].cands : c.idx = k
               /\ \A c \in tree[p].cands : EvalExpr(c.own, o) <=> Compiled(rules[c.idx], o)
      BY <1>2, <2>1, <3>1 DEF LeavesAreSound
    <3>. QED BY <1>2, <1>10, <1>14, <3>1, <3>2
  <2>2. /\ \A c \in n.cands : c.idx \in DOMAIN rules'
        /\ \A o \in Objects : Takes(o, q)' =>
             /\ \A k \in Wanted(o)' : \E c \in n.cands : c.idx = k
             /\ \A c \in n.cands : EvalExpr(c.own, o) <=> Compiled(rules'[c.idx], o)
    <3>1. /\ n.cands = {[idx |-> c.idx, own |-> c.own] : c \in todo[1].cands}
          /\ todo[1].cands \subseteq CandidatesOf(rules)
      BY <1>1, <1>2, <1>3, <1>5, CallFacts
    <3>2. \A c \in n.cands : c.idx \in DOMAIN rules'
      BY <1>2, <3>1 DEF CandidatesOf
    <3>3. ASSUME NEW o \in Objects, Takes(o, q)'
          PROVE  /\ \A k \in Wanted(o) : \E c \in n.cands : c.idx = k
                 /\ \A c \in n.cands : EvalExpr(c.own, o) <=> Compiled(rules[c.idx], o)
      <4>1. Takes(o, todo[1].path)
        BY <1>5, <1>10, <3>3
      <4>2. /\ \A k \in Wanted(o) : \E c \in todo[1].cands : c.idx = k
            /\ \A c \in todo[1].cands : EvalExpr(c.own, o) <=> Compiled(rules[c.idx], o)
        BY <1>2, <1>5, <4>1 DEF CallsAreSound, Means
      <4>3. ASSUME NEW k \in Wanted(o) PROVE \E d \in n.cands : d.idx = k
        <5>1. PICK c \in todo[1].cands : c.idx = k
          BY <4>2
        <5>2. [idx |-> c.idx, own |-> c.own] \in n.cands
          BY <3>1
        <5>. QED BY <5>1, <5>2
      <4>4. ASSUME NEW d \in n.cands PROVE EvalExpr(d.own, o) <=> Compiled(rules[d.idx], o)
        <5>1. PICK c \in todo[1].cands : d = [idx |-> c.idx, own |-> c.own]
          BY <3>1
        <5>2. d.own = c.own /\ d.idx = c.idx
          BY <5>1
        <5>. QED BY <4>2, <5>2
      <4>. QED BY <4>3, <4>4
    <3>. QED BY <1>2, <1>14, <3>2, <3>3
  <2>. QED BY <1>6, <2>1, <2>2 DEF LeavesAreSound
<1>. QED BY <1>11, <1>12, <1>13, <1>15, <1>16 DEF NetInv

\* The path of a child.
LEMMA ChildPath ==
  ASSUME NEW q \in Seq(Facts), NEW f \in Facts
  PROVE  /\ Append(q, f) \in Seq(Facts) /\ Len(q) \in Nat /\ Len(Append(q, f)) = Len(q) + 1
         /\ DOMAIN Append(q, f) = 1..(Len(q) + 1) /\ DOMAIN q = 1..Len(q)
         /\ Append(q, f)[Len(q) + 1] = f /\ SubSeq(Append(q, f), 1, Len(q)) = q
         /\ \A i \in 1..Len(q) : /\ Append(q, f)[i] = q[i]
                                 /\ SubSeq(Append(q, f), 1, i - 1) = SubSeq(q, 1, i - 1)
         /\ Append(q, f) # q
<1> DEFINE r == Append(q, f)
           n == Len(q)
<1>1. /\ r \in Seq(Facts) /\ Len(r) = n + 1 /\ r[n + 1] = f /\ \A i \in 1..n : r[i] = q[i]
  BY AppendProperties
<1>2. n \in Nat /\ DOMAIN q = 1..n /\ DOMAIN r = 1..(n + 1)
  BY <1>1, LenProperties
<1>3. r = q \o <<f>> /\ <<f>> \in Seq(Facts) /\ Len(<<f>>) = 1
  BY AppendIsConcat
<1>4. ASSUME NEW k \in 0..n PROVE SubSeq(r, 1, k) = SubSeq(q, 1, k)
  <2>1. CASE k = 0
    BY <2>1, SubSeqEmpty
  <2>2. CASE k # 0
    <3>1. 1 \in 1..n /\ k \in 1..n
      BY <1>2, <2>2
    <3>. QED BY <1>3, <3>1, SubSeqOfConcat1
  <2>. QED BY <2>1, <2>2
<1>5. SubSeq(r, 1, n) = q
  BY <1>2, <1>4, SubSeqFull
<1>6. \A i \in 1..n : SubSeq(r, 1, i - 1) = SubSeq(q, 1, i - 1)
  BY <1>2, <1>4
<1>7. r # q
  <2>1. \A x \in Nat : x + 1 # x
    OBVIOUS
  <2>2. Len(r) # Len(q)
    <3> HIDE DEF r
    <3>. QED BY <1>1, <1>2, <2>1
  <2> HIDE DEF r
  <2>. QED BY <2>2
<1>. QED BY <1>1, <1>2, <1>5, <1>6, <1>7

\* A call that makes a branch keeps the invariant.
LEMMA BranchKeeps ==
  ASSUME NetInv, todo # <<>>, NEW b \in ChooseBranch(Head(todo).cands, Head(todo).used),
         MakeBranch(Head(todo), b), UNCHANGED <<rules, final>>
  PROVE  NetInv'
<1>1. PICK q, C, u, m, R, T :
        /\ q = Head(todo).path /\ C = Head(todo).cands /\ u = Head(todo).used
        /\ m = Len(todo) /\ R = rules /\ T = Tail(todo)
  OBVIOUS
<1> DEFINE child(f) == [path |-> Append(q, f), cands |-> FoldCandidates(C, f), used |-> u \cup {b.key}]
           edges == FactsOf(b)
           kids == {child(f) : f \in edges}
           n == [kind |-> "branch", split |-> b]
<1>2. /\ NetTyped /\ NetIsATree /\ EveryObjectArrives /\ CallsAreSound /\ LeavesAreSound
      /\ rules' = rules /\ final' = final
  BY DEF NetInv
<1>3. /\ todo \in Seq(CallsOf(R)) /\ m \in Nat \ {0} /\ DOMAIN todo = 1..m
      /\ Head(todo) = todo[1]
      /\ T \in Seq(CallsOf(R)) /\ Len(T) = m - 1
      /\ \A i \in 1..(m - 1) : T[i] = todo[i + 1]
  <2>1. todo \in Seq(CallsOf(R)) /\ todo # <<>>
    BY <1>1, <1>2 DEF NetTyped
  <2>. QED BY <1>1, <2>1, HeadTailProperties, LenProperties
<1>4. /\ tree' = [p \in DOMAIN tree \cup {q} |-> IF p = q THEN n ELSE tree[p]]
      /\ todo' = SetToSeq(kids) \o T
  BY <1>1 DEF MakeBranch
<1>5. /\ 1 \in DOMAIN todo /\ q = todo[1].path /\ C = todo[1].cands /\ u = todo[1].used
      /\ q \notin DOMAIN tree /\ q \in Reached /\ q \in Seq(Facts)
      /\ C \subseteq CandidatesOf(R) /\ IsFiniteSet(C) /\ u \subseteq AllUsed
  BY <1>1, <1>2, <1>3, CallFacts DEF NetIsATree, Reached, Pending
<1>6. IsSplit(b) /\ b.key \in AllUsed /\ IsFiniteSet(edges)
  <2>1. \A c \in C : c.residual \in Normal
    BY <1>5 DEF CandidatesOf
  <2>2. b \in ChooseBranch(C, u)
    BY <1>1
  <2>. QED BY <1>5, <2>1, <2>2, ChosenAreSplits
<1>7. edges \subseteq Facts
  BY <1>6, SplitsAreBranches DEF Facts
<1>8. \A f \in edges : /\ child(f) \in CallsOf(R) /\ IsFiniteSet(child(f).cands)
                       /\ child(f).path = Append(q, f) /\ child(f).cands = FoldCandidates(C, f)
  <2>1. ASSUME NEW f \in edges
        PROVE  /\ child(f) \in CallsOf(R) /\ IsFiniteSet(child(f).cands)
               /\ child(f).path = Append(q, f) /\ child(f).cands = FoldCandidates(C, f)
    <3> HIDE DEF edges
    <3>1. f \in Facts /\ Append(q, f) \in Seq(Facts)
      BY <1>5, <1>7, ChildPath
    <3>2. FoldCandidates(C, f) \subseteq CandidatesOf(R) /\ IsFiniteSet(FoldCandidates(C, f))
      BY <1>5, <3>1, FoldTypes
    <3>3. u \cup {b.key} \subseteq AllUsed
      BY <1>5, <1>6
    <3>. QED BY <3>1, <3>2, <3>3 DEF CallsOf
  <2>. QED BY <2>1
<1>9. PICK s, k : /\ s = SetToSeq(kids) /\ s \in Seq(kids) /\ s \in Seq(CallsOf(R))
                  /\ k = Len(s) /\ k \in Nat /\ DOMAIN s = 1..k
                  /\ \A i, j \in 1..k : s[i] = s[j] => i = j
                  /\ \A x \in kids : \E i \in 1..k : s[i] = x
                  /\ \A i \in 1..k : s[i] \in kids
  <2> DEFINE h == [f \in edges |-> child(f)]
  <2>1. DOMAIN h = edges /\ kids = {h[f] : f \in edges}
    OBVIOUS
  <2>2. IsFiniteSet(kids)
    <3> HIDE DEF h, edges, kids
    <3>. QED BY <1>6, <2>1, ImageIsFinite
  <2>3. kids \subseteq CallsOf(R)
    BY <1>8
  <2> HIDE DEF kids
  <2>4. PICK s : s = SetToSeq(kids)
    OBVIOUS
  <2>5. /\ s \in Seq(kids)
        /\ \A i, j \in DOMAIN s : s[i] = s[j] => i = j
        /\ \A x \in kids : \E i \in DOMAIN s : s[i] = x
    BY <2>2, <2>4, SetToSeqIs
  <2>6. DOMAIN s = 1..Len(s) /\ Len(s) \in Nat /\ \A i \in 1..Len(s) : s[i] \in kids
    BY <2>5, LenProperties
  <2>7. s \in Seq(CallsOf(R))
    BY <2>3, <2>5
  <2>. QED BY <2>4, <2>5, <2>6, <2>7
<1>10. /\ todo' \in Seq(CallsOf(R)) /\ DOMAIN todo' = 1..(k + (m - 1))
       /\ \A i \in 1..k : todo'[i] = s[i]
       /\ \A i \in (k + 1)..(k + (m - 1)) :
            i - k + 1 \in 2..m /\ todo'[i] = todo[i - k + 1]
  <2> HIDE DEF kids
  <2>1. todo' = s \o T
    BY <1>4, <1>9
  <2>2. /\ s \o T \in Seq(CallsOf(R)) /\ Len(s \o T) = k + (m - 1)
        /\ \A i \in 1..(k + (m - 1)) : (s \o T)[i] = IF i <= k THEN s[i] ELSE T[i - k]
    <3>1. PICK S : S = CallsOf(R)
      OBVIOUS
    <3>2. s \in Seq(S) /\ T \in Seq(S) /\ Len(s) = k /\ Len(T) = m - 1
      BY <1>3, <1>9, <3>1
    <3>3. /\ s \o T \in Seq(S) /\ Len(s \o T) = Len(s) + Len(T)
          /\ \A i \in 1..(Len(s) + Len(T)) :
               (s \o T)[i] = IF i <= Len(s) THEN s[i] ELSE T[i - Len(s)]
      BY <3>2, ConcatProperties
    <3>. QED BY <3>1, <3>2, <3>3
  <2>3. DOMAIN (s \o T) = 1..(k + (m - 1))
    BY <2>2, LenProperties
  <2>4. \A i \in 1..k : todo'[i] = s[i]
    BY <1>3, <1>9, <2>1, <2>2
  <2>5. ASSUME NEW i \in (k + 1)..(k + (m - 1))
        PROVE  i - k + 1 \in 2..m /\ todo'[i] = todo[i - k + 1]
    <3>1. i \in 1..(k + (m - 1)) /\ ~(i <= k) /\ i - k \in 1..(m - 1) /\ i - k + 1 \in 2..m
      BY <1>3, <1>9
    <3>2. todo'[i] = T[i - k] /\ T[i - k] = todo[(i - k) + 1]
      BY <1>3, <2>1, <2>2, <3>1
    <3>. QED BY <3>1, <3>2
  <2>. QED BY <2>1, <2>2, <2>3, <2>4, <2>5
<1> HIDE DEF edges
<1>11. \A i \in DOMAIN todo' :
         \/ i \in 1..k /\ \E f \in edges : todo'[i] = child(f)
         \/ i \in (k + 1)..(k + (m - 1)) /\ i - k + 1 \in 2..m /\ todo'[i] = todo[i - k + 1]
  <2>1. ASSUME NEW i \in 1..(k + (m - 1))
        PROVE i \in 1..k \/ i \in (k + 1)..(k + (m - 1))
    BY <1>3, <1>9
  <2>2. ASSUME NEW i \in 1..k PROVE \E f \in edges : todo'[i] = child(f)
    <3>1. s[i] \in kids
      BY <1>9
    <3>2. PICK f \in edges : s[i] = child(f)
      BY <3>1
    <3>3. todo'[i] = s[i]
      BY <1>10
    <3> HIDE DEF child
    <3>. QED BY <3>2, <3>3
  <2> HIDE DEF child
  <2>. QED BY <1>10, <2>1, <2>2
<1>12. /\ DOMAIN tree' = DOMAIN tree \cup {q} /\ tree'[q] = n
       /\ \A p \in DOMAIN tree : tree'[p] = tree[p]
  BY <1>4, <1>5
<1>13. \A f \in edges : Append(q, f) \notin Reached /\ Append(q, f) \in Seq(Facts) /\ Append(q, f) # q
  <2>1. ASSUME NEW f \in edges, Append(q, f) \in Reached PROVE FALSE
    <3>1. PICK r : r = Append(q, f)
      OBVIOUS
    <3>2. Len(r) = Len(q) + 1 /\ Len(q) \in Nat /\ SubSeq(r, 1, Len(q)) = q
      BY <1>5, <1>7, <3>1, ChildPath
    <3>3. Len(r) \in 1..Len(r) /\ Len(r) - 1 = Len(q)
      BY <3>2
    <3>4. SubSeq(r, 1, Len(r) - 1) \in DOMAIN tree
      BY <1>2, <2>1, <3>1, <3>3 DEF NetIsATree
    <3>. QED BY <1>5, <3>2, <3>3, <3>4
  <2>2. \A f \in edges : Append(q, f) \in Seq(Facts) /\ Append(q, f) # q
    BY <1>5, <1>7, ChildPath
  <2>. QED BY <2>1, <2>2
<1>14. Reached' = Reached \cup {Append(q, f) : f \in edges}
  <2>1. ASSUME NEW i \in DOMAIN todo'
        PROVE  todo'[i].path \in Reached \cup {Append(q, f) : f \in edges}
    <3>1. CASE i \in 1..k /\ \E f \in edges : todo'[i] = child(f)
      BY <1>8, <3>1
    <3>2. CASE i - k + 1 \in 2..m /\ todo'[i] = todo[i - k + 1]
      BY <1>3, <3>2 DEF Reached, Pending
    <3>. QED BY <1>11, <3>1, <3>2
  <2>2. Reached' \subseteq Reached \cup {Append(q, f) : f \in edges}
    BY <1>5, <1>12, <2>1 DEF Reached, Pending
  <2>3. ASSUME NEW f \in edges PROVE Append(q, f) \in Reached'
    <3>1. child(f) \in kids
      OBVIOUS
    <3>2. PICK i \in 1..k : s[i] = child(f)
      BY <1>9, <3>1
    <3>3. i \in DOMAIN todo' /\ todo'[i].path = Append(q, f)
      <4>1. i \in 1..(k + (m - 1))
        BY <1>3, <1>9
      <4>2. i \in DOMAIN todo' /\ todo'[i] = s[i]
        BY <1>10, <4>1
      <4> HIDE DEF child, kids
      <4>3. child(f).path = Append(q, f)
        BY <1>8
      <4>. QED BY <3>2, <4>2, <4>3
    <3>. QED BY <3>3 DEF Reached, Pending
  <2>4. ASSUME NEW i \in DOMAIN todo PROVE todo[i].path \in Reached'
    <3>1. CASE i = 1
      BY <1>5, <1>12, <3>1 DEF Reached
    <3>2. CASE i # 1
      <4>1. i - 1 + k \in (k + 1)..(k + (m - 1)) /\ (i - 1 + k) - k + 1 = i
        BY <1>3, <1>9, <2>4, <3>2
      <4>2. i - 1 + k \in DOMAIN todo' /\ todo'[i - 1 + k] = todo[i]
        <5>1. i - 1 + k \in 1..(k + (m - 1))
          BY <1>9, <4>1
        <5>. QED BY <1>10, <4>1, <5>1
      <4>. QED BY <4>2 DEF Reached, Pending
    <3>. QED BY <3>1, <3>2
  <2>5. Reached \subseteq Reached'
    BY <1>12, <2>4 DEF Reached, Pending
  <2>. QED BY <2>2, <2>3, <2>5
<1>15. \A o, p : p \in Reached => (Takes(o, p)' <=> Takes(o, p))
  BY <1>2, <1>4, <1>5, TakesKept
<1>16. \A o : \A f \in edges : Takes(o, Append(q, f))' <=> Takes(o, q) /\ f = EdgeOf(b, o)
  <2> SUFFICES ASSUME NEW o, NEW f \in edges
               PROVE  Takes(o, Append(q, f))' <=> Takes(o, q) /\ f = EdgeOf(b, o)
    OBVIOUS
  <2>1. PICK r, l : r = Append(q, f) /\ l = Len(q)
    OBVIOUS
  <2>2. /\ l \in Nat /\ DOMAIN r = 1..(l + 1) /\ DOMAIN q = 1..l /\ r[l + 1] = f
        /\ SubSeq(r, 1, l) = q
        /\ \A i \in 1..l : r[i] = q[i] /\ SubSeq(r, 1, i - 1) = SubSeq(q, 1, i - 1)
    BY <1>5, <1>7, <2>1, ChildPath
  <2>3. tree'[q].split = b
    BY <1>12
  <2>4. Takes(o, q)' <=> \A i \in 1..l : r[i] = EdgeOf(tree'[SubSeq(r, 1, i - 1)].split, o)
    BY <2>2 DEF Takes
  <2>5. Takes(o, r)' <=> \A i \in 1..(l + 1) : r[i] = EdgeOf(tree'[SubSeq(r, 1, i - 1)].split, o)
    BY <2>2 DEF Takes
  <2>6. r[l + 1] = EdgeOf(tree'[SubSeq(r, 1, (l + 1) - 1)].split, o) <=> f = EdgeOf(b, o)
    <3>1. (l + 1) - 1 = l
      BY <2>2
    <3>. QED BY <2>2, <2>3, <3>1
  <2>7. \A i : i \in 1..(l + 1) <=> i \in 1..l \/ i = l + 1
    BY <2>2
  <2>8. Takes(o, r)' <=> Takes(o, q)' /\ f = EdgeOf(b, o)
    BY <2>4, <2>5, <2>6, <2>7
  <2>9. Takes(o, q)' <=> Takes(o, q)
    BY <1>5, <1>15
  <2>. QED BY <2>1, <2>8, <2>9
<1>17. NetTyped'
  <2>1. ASSUME NEW i \in DOMAIN todo' PROVE IsFiniteSet(todo'[i].cands)
    <3>1. CASE \E f \in edges : todo'[i] = child(f)
      <4> HIDE DEF child
      <4>. QED BY <1>8, <3>1
    <3>2. CASE i - k + 1 \in 2..m /\ todo'[i] = todo[i - k + 1]
      BY <1>2, <1>3, <3>2 DEF NetTyped
    <3>. QED BY <1>11, <3>1, <3>2
  <2>2. DOMAIN tree' \subseteq Seq(Facts)
    BY <1>2, <1>5, <1>12 DEF NetTyped
  <2>3. \A p \in DOMAIN tree' : \/ tree'[p].kind = "leaf"
                                \/ tree'[p].kind = "branch" /\ IsSplit(tree'[p].split)
    BY <1>2, <1>6, <1>12 DEF NetTyped
  <2>4. <<rules', final'>> \in RuleListsCompiled /\ rules' = R
    BY <1>1, <1>2 DEF NetTyped
  <2>. QED BY <1>10, <2>1, <2>2, <2>3, <2>4 DEF NetTyped
<1>18. NetIsATree'
  <2>1. ASSUME NEW i \in DOMAIN todo', NEW j \in DOMAIN todo', todo'[i].path = todo'[j].path
        PROVE  i = j
    <3>1. ASSUME NEW x \in 1..k, NEW f \in edges, todo'[x] = child(f),
                 NEW y \in DOMAIN todo', todo'[y].path = Append(q, f)
          PROVE  y \in 1..k /\ todo'[y] = todo'[x]
      <4>1. CASE y \in 1..k /\ \E g \in edges : todo'[y] = child(g)
        <5>1. PICK g \in edges : todo'[y] = child(g)
          BY <4>1
        <5>2. Append(q, g) = Append(q, f)
          <6> HIDE DEF child
          <6>. QED BY <1>8, <3>1, <5>1
        <5>3. g = f
          BY <1>5, <1>7, <5>2, ChildPath
        <5>. QED BY <3>1, <4>1, <5>1, <5>3
      <4>2. CASE y - k + 1 \in 2..m /\ todo'[y] = todo[y - k + 1]
        <5>1. Append(q, f) \in Reached
          BY <1>3, <3>1, <4>2 DEF Reached, Pending
        <5>. QED BY <1>13, <5>1
      <4> HIDE DEF child
      <4>. QED BY <1>11, <4>1, <4>2
    <3>2. CASE i \in 1..k /\ \E f \in edges : todo'[i] = child(f)
      <4>1. PICK f \in edges : todo'[i] = child(f)
        BY <3>2
      <4>2. todo'[j].path = Append(q, f)
        <5> HIDE DEF child
        <5>. QED BY <1>8, <2>1, <4>1
      <4>3. j \in 1..k /\ todo'[j] = todo'[i]
        BY <3>1, <3>2, <4>1, <4>2
      <4>4. i \in 1..k /\ j \in 1..k /\ todo'[i] = s[i] /\ todo'[j] = s[j]
        BY <1>10, <3>2, <4>3
      <4>5. \A x, y \in 1..k : s[x] = s[y] => x = y
        BY <1>9
      <4>. QED BY <4>3, <4>4, <4>5
    <3>3. CASE j \in 1..k /\ \E f \in edges : todo'[j] = child(f)
      <4>1. PICK f \in edges : todo'[j] = child(f)
        BY <3>3
      <4>2. todo'[i].path = Append(q, f)
        <5> HIDE DEF child
        <5>. QED BY <1>8, <2>1, <4>1
      <4>3. i \in 1..k /\ todo'[i] = todo'[j]
        BY <3>1, <3>3, <4>1, <4>2
      <4>4. i \in 1..k /\ j \in 1..k /\ todo'[i] = s[i] /\ todo'[j] = s[j]
        BY <1>10, <3>3, <4>3
      <4>5. \A x, y \in 1..k : s[x] = s[y] => x = y
        BY <1>9
      <4>. QED BY <4>3, <4>4, <4>5
    <3>4. CASE /\ i \in (k + 1)..(k + (m - 1)) /\ i - k + 1 \in 2..m /\ todo'[i] = todo[i - k + 1]
               /\ j \in (k + 1)..(k + (m - 1)) /\ j - k + 1 \in 2..m /\ todo'[j] = todo[j - k + 1]
      <4>1. i - k + 1 = j - k + 1
        <5>1. i - k + 1 \in DOMAIN todo /\ j - k + 1 \in DOMAIN todo
          BY <1>3, <3>4
        <5>. QED BY <1>2, <2>1, <3>4, <5>1 DEF NetIsATree
      <4>. QED BY <1>3, <1>9, <3>4, <4>1
    <3> HIDE DEF child, kids
    <3>. QED BY <1>11, <3>2, <3>3, <3>4
  <2>2. ASSUME NEW i \in DOMAIN todo' PROVE todo'[i].path \notin DOMAIN tree'
    <3>1. CASE \E f \in edges : todo'[i] = child(f)
      <4>1. PICK f \in edges : todo'[i] = child(f)
        BY <3>1
      <4>2. todo'[i].path = Append(q, f)
        <5> HIDE DEF child
        <5>. QED BY <1>8, <4>1
      <4>. QED BY <1>12, <1>13, <4>2 DEF Reached
    <3>2. CASE i - k + 1 \in 2..m /\ todo'[i] = todo[i - k + 1]
      <4>1. i - k + 1 \in DOMAIN todo /\ i - k + 1 # 1
        BY <1>3, <1>9, <3>2
      <4>2. todo[i - k + 1].path \notin DOMAIN tree /\ todo[i - k + 1].path # q
        BY <1>2, <1>5, <4>1 DEF NetIsATree
      <4>. QED BY <1>12, <3>2, <4>2
    <3> HIDE DEF child
    <3>. QED BY <1>11, <3>1, <3>2
  <2>3. ASSUME NEW p \in Reached', NEW i \in 1..Len(p)
        PROVE  /\ SubSeq(p, 1, i - 1) \in DOMAIN tree'
               /\ tree'[SubSeq(p, 1, i - 1)].kind = "branch"
    <3>1. ASSUME NEW r \in Reached, NEW x \in 1..Len(r)
          PROVE  /\ SubSeq(r, 1, x - 1) \in DOMAIN tree'
                 /\ tree'[SubSeq(r, 1, x - 1)].kind = "branch"
      <4>1. SubSeq(r, 1, x - 1) \in DOMAIN tree /\ tree[SubSeq(r, 1, x - 1)].kind = "branch"
        BY <1>2 DEF NetIsATree
      <4>. QED BY <1>12, <4>1
    <3>2. CASE \E f \in edges : p = Append(q, f)
      <4>1. PICK f \in edges : p = Append(q, f)
        BY <3>2
      <4>2. PICK l : l = Len(q)
        OBVIOUS
      <4>3. /\ l \in Nat /\ Len(p) = l + 1 /\ SubSeq(p, 1, l) = q
            /\ \A x \in 1..l : SubSeq(p, 1, x - 1) = SubSeq(q, 1, x - 1)
        BY <1>5, <1>7, <4>1, <4>2, ChildPath
      <4>4. CASE i \in 1..l
        BY <1>5, <3>1, <4>2, <4>3, <4>4
      <4>5. CASE i = l + 1
        <5>1. i - 1 = l /\ n.kind = "branch"
          BY <4>3, <4>5
        <5>. QED BY <1>12, <4>3, <5>1
      <4>. QED BY <4>3, <4>4, <4>5
    <3>. QED BY <1>14, <3>1, <3>2
  <2>. QED BY <2>1, <2>2, <2>3 DEF NetIsATree
<1>19. EveryObjectArrives'
  <2>1. ASSUME NEW o \in Objects
        PROVE  \E p \in Reached' : Takes(o, p)' /\ (p \in DOMAIN tree' => tree'[p].kind = "leaf")
    <3>1. PICK p \in Reached : Takes(o, p) /\ (p \in DOMAIN tree => tree[p].kind = "leaf")
      BY <1>2 DEF EveryObjectArrives
    <3>2. CASE p = q
      <4>1. PICK r, f : f = EdgeOf(b, o) /\ f \in edges /\ r = Append(q, f)
        <5>1. EdgeOf(b, o) \in edges
          BY <1>6, EdgesExist DEF edges
        <5>. QED BY <5>1
      <4>2. r \in Reached' /\ r \notin DOMAIN tree'
        BY <1>12, <1>13, <1>14, <4>1 DEF Reached
      <4>3. Takes(o, r)'
        BY <1>16, <3>1, <3>2, <4>1
      <4>. QED BY <4>2, <4>3
    <3>3. CASE p # q
      <4>1. p \in Reached' /\ Takes(o, p)'
        BY <1>14, <1>15, <3>1
      <4>2. p \in DOMAIN tree' => tree'[p].kind = "leaf"
        BY <1>12, <3>1, <3>3
      <4>. QED BY <4>1, <4>2
    <3>. QED BY <3>2, <3>3
  <2>. QED BY <2>1 DEF EveryObjectArrives
<1>20. \A o : Wanted(o)' = Wanted(o)
  BY <1>2 DEF Wanted, MatchingLowered, LinearLowered
<1>21. CallsAreSound'
  <2>1. ASSUME NEW i \in DOMAIN todo', NEW o \in Objects, Takes(o, todo[i].path)'
        PROVE  /\ \A w \in Wanted(o) : \E c \in todo'[i].cands : c.idx = w
               /\ \A c \in todo'[i].cands : Means(c, rules, final, o)
    <3>1. CASE \E f \in edges : todo'[i] = child(f)
      <4>1. PICK f \in edges : todo'[i] = child(f)
        BY <3>1
      <4>2. todo'[i].path = Append(q, f) /\ todo'[i].cands = FoldCandidates(C, f)
        <5> HIDE DEF child
        <5>. QED BY <1>8, <4>1
      <4>3. Takes(o, q) /\ f = EdgeOf(b, o)
        <5>1. PICK r : r = Append(q, f)
          OBVIOUS
        <5>2. Takes(o, r)'
          BY <2>1, <4>2, <5>1
        <5>. QED BY <1>16, <5>1, <5>2
      <4>4. /\ \A w \in Wanted(o) : \E c \in C : c.idx = w
            /\ \A c \in C : Means(c, rules, final, o)
        <5>1. Takes(o, todo[1].path)
          BY <1>5, <4>3
        <5>. QED BY <1>2, <1>5, <5>1 DEF CallsAreSound
      <4>5. PICK F : F = final
        OBVIOUS
      <4>6. C \subseteq CandidatesOf(R) /\ \A c \in C : Means(c, R, F, o)
        BY <1>1, <1>5, <4>4, <4>5
      <4>7. /\ \A d \in FoldCandidates(C, f) : Means(d, R, F, o)
            /\ \A c \in C : EvalExpr(c.residual, o) =>
                 \E d \in FoldCandidates(C, f) : d.idx = c.idx
        BY <1>6, <4>3, <4>6, FoldKeeps
      <4>8. ASSUME NEW w \in Wanted(o) PROVE \E d \in FoldCandidates(C, f) : d.idx = w
        <5>1. PICK c \in C : c.idx = w
          BY <4>4
        <5>2. Compiled(rules[w], o) /\ (final => \A j \in 1..(w - 1) : ~Compiled(rules[j], o))
          BY <1>2, WantedMatch
        <5>3. EvalExpr(c.residual, o)
          BY <4>4, <5>1, <5>2 DEF Means
        <5>. QED BY <4>7, <5>1, <5>3
      <4>. QED BY <1>1, <4>2, <4>5, <4>7, <4>8
    <3>2. CASE i - k + 1 \in 2..m /\ todo'[i] = todo[i - k + 1]
      <4>1. PICK x : x = i - k + 1 /\ x \in DOMAIN todo
        BY <1>3, <3>2
      <4>2. PICK p : p = todo[x].path
        OBVIOUS
      <4>3. p \in Reached
        BY <4>1, <4>2 DEF Reached, Pending
      <4>4. Takes(o, p)'
        BY <2>1, <3>2, <4>1, <4>2
      <4>5. Takes(o, todo[x].path)
        BY <1>15, <4>2, <4>3, <4>4
      <4>. QED BY <1>2, <3>2, <4>1, <4>5 DEF CallsAreSound
    <3> HIDE DEF child
    <3>. QED BY <1>11, <3>1, <3>2
  <2>2. \A i \in DOMAIN todo' : \A o \in Objects : Takes(o, todo[i].path)' =>
          /\ \A w \in Wanted(o)' : \E c \in todo'[i].cands : c.idx = w
          /\ \A c \in todo'[i].cands : Means(c, rules', final', o)
    BY <1>2, <1>20, <2>1
  <2>. QED BY <2>2 DEF CallsAreSound
<1>22. LeavesAreSound'
  <2>1. ASSUME NEW p \in DOMAIN tree', tree'[p].kind = "leaf"
        PROVE  /\ \A c \in tree'[p].cands : c.idx \in DOMAIN rules'
               /\ \A o \in Objects : Takes(o, p)' =>
                    /\ \A w \in Wanted(o)' : \E c \in tree'[p].cands : c.idx = w
                    /\ \A c \in tree'[p].cands : EvalExpr(c.own, o) <=> Compiled(rules'[c.idx], o)
    <3>1. p # q
      <4>1. n.kind # "leaf"
        OBVIOUS
      <4>. QED BY <1>12, <2>1, <4>1
    <3>2. p \in DOMAIN tree /\ tree'[p] = tree[p] /\ p \in Reached
      BY <1>12, <3>1 DEF Reached
    <3>3. /\ \A c \in tree[p].cands : c.idx \in DOMAIN rules
          /\ \A o \in Objects : Takes(o, p) =>
               /\ \A w \in Wanted(o) : \E c \in tree[p].cands : c.idx = w
               /\ \A c \in tree[p].cands : EvalExpr(c.own, o) <=> Compiled(rules[c.idx], o)
      BY <1>2, <2>1, <3>2 DEF LeavesAreSound
    <3>. QED BY <1>2, <1>15, <1>20, <3>2, <3>3
  <2>. QED BY <2>1 DEF LeavesAreSound
<1>. QED BY <1>17, <1>18, <1>19, <1>21, <1>22 DEF NetInv

-----------------------------------------------------------------------------
(* From a file to an answer.                                               *)

\* A finished net gives the answer of the walk over all the rules: a leaf has every rule that
\* could win, in the meaning it was written with.
LEMMA AnswersAreLinear ==
  ASSUME NetInv, todo = <<>>, NEW o \in Objects,
         NEW silent \in IF final THEN {{}} ELSE SUBSET (Matching(o) \cup MatchingLowered(o))
  PROVE  ResolveFirst(o, silent) = LinearLowered(o, silent)
<1>1. NetTyped /\ EveryObjectArrives /\ LeavesAreSound
  BY DEF NetInv
<1>2. Reached = DOMAIN tree
  <2>1. DOMAIN todo = {}
    OBVIOUS
  <2>. QED BY <2>1 DEF Reached, Pending
<1>3. \E p \in DOMAIN tree : tree[p].kind = "leaf" /\ Takes(o, p)
  BY <1>1, <1>2 DEF EveryObjectArrives
<1>4. PICK p : /\ p = (CHOOSE path \in DOMAIN tree : tree[path].kind = "leaf" /\ Takes(o, path))
               /\ p \in DOMAIN tree /\ tree[p].kind = "leaf" /\ Takes(o, p)
  BY <1>3
<1>5. PICK D : D = tree[p].cands
  OBVIOUS
<1>6. Descend(o) = D
  BY <1>4, <1>5 DEF Descend
<1>7. /\ \A c \in D : c.idx \in DOMAIN rules
      /\ \A k \in Wanted(o) : \E c \in D : c.idx = k
      /\ \A c \in D : EvalExpr(c.own, o) <=> Compiled(rules[c.idx], o)
  BY <1>1, <1>4, <1>5 DEF LeavesAreSound
<1> DEFINE S == {c.idx : c \in {d \in D : EvalExpr(d.own, o) /\ d.idx \notin silent}}
           M == MatchingLowered(o) \ silent
<1>8. ResolveFirst(o, silent) = FirstIndex(S) /\ LinearLowered(o, silent) = FirstIndex(M)
  BY <1>6 DEF ResolveFirst, LinearLowered
<1>9. S \subseteq M
  BY <1>7 DEF MatchingLowered
<1>10. Wanted(o) \ silent \subseteq S
  BY <1>7 DEF Wanted, MatchingLowered
<1>11. M \subseteq Nat \ {0}
  <2>1. rules \in Seq(Filters)
    BY <1>1, StartIsSound DEF NetTyped
  <2>2. DOMAIN rules = 1..Len(rules) /\ Len(rules) \in Nat
    BY <2>1, LenProperties
  <2>. QED BY <2>2 DEF MatchingLowered
<1>12. CASE ~final
  <2>1. M \subseteq S
    BY <1>10, <1>12 DEF Wanted
  <2> HIDE DEF S, M
  <2>2. S = M
    BY <1>9, <2>1
  <2>. QED BY <1>8, <2>2
<1>13. CASE final
  <2>1. silent = {} /\ FirstIndex(M) = LinearLowered(o, {})
    BY <1>8, <1>13
  <2>2. M # {} => FirstIndex(M) \in S
    <3>1. ASSUME M # {} PROVE FirstIndex(M) \in Wanted(o)
      <4>1. FirstIndex(M) \in M
        BY <1>11, <3>1, FirstIndexIs
      <4>. QED BY <2>1, <4>1 DEF Wanted
    <3>. QED BY <1>10, <2>1, <3>1
  <2> HIDE DEF S, M
  <2>3. CASE M = {}
    <3>1. S = M
      BY <1>9, <2>3
    <3>. QED BY <1>8, <3>1
  <2>4. CASE M # {}
    <3>1. S # {} /\ S \subseteq Nat \ {0} /\ FirstIndex(M) \in S
      BY <1>9, <1>11, <2>2, <2>4
    <3>2. FirstIndex(S) \in S /\ FirstIndex(S) <= FirstIndex(M)
      BY <3>1, FirstIndexIs
    <3>3. FirstIndex(M) <= FirstIndex(S)
      BY <1>9, <1>11, <2>4, <3>2, FirstIndexIs
    <3>4. FirstIndex(S) \in Nat /\ FirstIndex(M) \in Nat
      BY <3>1, <3>2
    <3>. QED BY <1>8, <3>2, <3>3, <3>4
  <2>. QED BY <2>3, <2>4
<1>. QED BY <1>12, <1>13

\* Nothing has been compiled yet.
Uncompiled == final /\ todo = <<>> /\ tree = <<>>

\* Every answer is the one that the walk over the lowered rules gives.
AnswersFollow == \A q \in asked : q.got = LinearLowered(q.obj, q.silent)

\* The inductive invariant: a file's order and its net are right, the net was compiled from
\* that order, and no question is put to a net that is not finished.
CatInv ==
  /\ final => IInv
  /\ outcome # "sorting" => final /\ ready = {}
  /\ \/ Uncompiled
     \/ NetInv /\ (final => outcome = "ordered"
                            /\ rules = [i \in DOMAIN names |-> Condition[names[i]]])
  /\ asked # {} => Built
  /\ \A a \in asked : a.obj \in Objects /\ (final => a.silent = {})
  /\ AnswersFollow

\* The start: a file to be sorted, or a producer's rules to be compiled.
LEMMA CatStarts == Init => CatInv
<1> SUFFICES ASSUME Init PROVE CatInv
  OBVIOUS
<1>1. tree = <<>> /\ asked = {}
  BY DEF Init
<1>2. AnswersFollow
  BY <1>1 DEF AnswersFollow
<1>3. CASE LoadFile
  <2>1. OrderInit /\ final = TRUE /\ todo = <<>>
    BY <1>3 DEF LoadFile
  <2>2. IInv /\ outcome = "sorting"
    BY <2>1, OrderStarts DEF OrderInit, StartOrder
  <2>. QED BY <1>1, <1>2, <2>1, <2>2 DEF CatInv, Uncompiled
<1>4. CASE LoadMatch
  <2>1. rules \in RuleLists /\ final = FALSE /\ todo = StartTree(rules, final) /\ outcome = "sorting"
    BY <1>4 DEF LoadMatch, StartOrder
  <2>2. <<rules, final>> \in RuleListsCompiled
    BY <2>1 DEF RuleListsCompiled
  <2>3. NetInv
    BY <1>1, <2>1, <2>2, NetStarts
  <2>. QED BY <1>1, <1>2, <2>1, <2>3 DEF CatInv
<1>. QED BY <1>3, <1>4 DEF Init

\* The conditions in the order of the names are a list that may be compiled.
LEMMA OrderIsCompiled ==
  ASSUME IInv
  PROVE  <<[i \in DOMAIN names |-> Condition[names[i]]], TRUE>> \in RuleListsCompiled
<1>1. /\ file \in Files /\ names \in Seq(NodesOf(file)) /\ IsFiniteSet(NodesOf(file))
      /\ \A i, j \in DOMAIN names : names[i] = names[j] => i = j
  BY FileIsFinite DEF IInv, WinnersComeFirst, Nodes
<1>2. PICK n, N : n = Len(names) /\ N = NodesOf(file)
  OBVIOUS
<1>3. DOMAIN names = 1..n /\ n \in Nat /\ names \in [1..n -> N]
  BY <1>1, <1>2, LenProperties
<1>4. names \in Injection(1..n, N)
  BY <1>1, <1>3 DEF Injection, IsInjective
<1>5. IsFiniteSet(1..n) /\ Cardinality(1..n) = n
  BY <1>3, FS_Interval
<1>6. Cardinality(N) \in Nat /\ n <= Cardinality(N)
  BY <1>1, <1>2, <1>4, <1>5, FS_Injection, FS_CardinalityType
<1>7. names \in UNION {[1..l -> N] : l \in 0..Cardinality(N)}
  BY <1>3, <1>6
<1>. QED BY <1>1, <1>2, <1>7 DEF RuleListsCompiled

\* What a net is does not depend on the questions put to it.
LEMMA NetStays == NetInv /\ UNCHANGED <<rules, final, todo, tree>> => NetInv'
<1> SUFFICES ASSUME NetInv, UNCHANGED <<rules, final, todo, tree>> PROVE NetInv'
  OBVIOUS
<1>1. Pending' = Pending /\ Reached' = Reached
  BY DEF Pending, Reached
<1>2. \A o, p : Takes(o, p)' <=> Takes(o, p)
  BY DEF Takes
<1>3. \A o : Wanted(o)' = Wanted(o)
  BY DEF Wanted, MatchingLowered, LinearLowered, Compiled
<1>4. NetTyped'
  BY DEF NetInv, NetTyped
<1>5. NetIsATree'
  BY <1>1 DEF NetInv, NetIsATree
<1>6. EveryObjectArrives'
  BY <1>1, <1>2 DEF NetInv, EveryObjectArrives
<1>7. CallsAreSound'
  <2>1. \A o : \A i \in DOMAIN todo : Takes(o, todo[i].path)' <=> Takes(o, todo[i].path)
    BY DEF Takes
  <2>. QED BY <1>3, <2>1 DEF NetInv, CallsAreSound
<1>8. LeavesAreSound'
  BY <1>2, <1>3 DEF NetInv, LeavesAreSound
<1>. QED BY <1>4, <1>5, <1>6, <1>7, <1>8 DEF NetInv

\* A turn of the sort: nothing is compiled before it is over.
LEMMA SortKeeps == CatInv /\ Sort => CatInv'
<1> SUFFICES ASSUME CatInv, Sort PROVE CatInv'
  OBVIOUS
<1>1. /\ final /\ IInv /\ OrderStep
      /\ rules' = rules /\ final' = final /\ todo' = todo /\ tree' = tree /\ asked' = asked
  BY DEF Sort, CatInv, treeVars
<1>2. outcome = "sorting"
  BY <1>1 DEF OrderStep, PopReady, Finish
<1>3. Uncompiled /\ asked = {}
  BY <1>1, <1>2 DEF CatInv, Uncompiled, Built
<1>4. IInv'
  BY <1>1, PopKeeps, FinishKeeps DEF OrderStep
<1>5. outcome' # "sorting" => ready' = {}
  BY <1>1, <1>2 DEF OrderStep, PopReady, Finish
<1>6. Uncompiled' /\ asked' = {} /\ AnswersFollow'
  BY <1>1, <1>3 DEF Uncompiled, AnswersFollow
<1>. QED BY <1>1, <1>4, <1>5, <1>6 DEF CatInv

\* The conditions are collected in the order of the names.
LEMMA CompileKeeps == CatInv /\ Compile => CatInv'
<1> SUFFICES ASSUME CatInv, Compile PROVE CatInv'
  OBVIOUS
<1>1. /\ outcome = "ordered" /\ todo = <<>> /\ tree = <<>>
      /\ rules' = [i \in DOMAIN names |-> Condition[names[i]]]
      /\ todo' = StartTree(rules', TRUE)
      /\ UNCHANGED orderVars /\ outcome' = outcome /\ ready' = ready /\ names' = names
      /\ final' = final /\ tree' = tree /\ asked' = asked
  BY DEF Compile, orderVars
<1>2. final /\ IInv /\ ready = {} /\ asked = {}
  BY <1>1 DEF CatInv, Built
<1>3. final = TRUE
  BY <1>1, <1>2, OrderIsCompiled DEF CatInv, Uncompiled
<1>4. <<rules', final'>> \in RuleListsCompiled /\ todo' = StartTree(rules', final') /\ tree' = <<>>
  BY <1>1, <1>2, <1>3, OrderIsCompiled
<1>5. NetInv'
  <2>1. (<<rules, final>> \in RuleListsCompiled /\ todo = StartTree(rules, final) /\ tree = <<>>
           => NetInv)'
    BY NetStarts, PTL
  <2>. QED BY <1>4, <2>1
<1>6. IInv'
  BY <1>1, <1>2, OrderStays
<1>7. asked' = {} /\ AnswersFollow'
  BY <1>1, <1>2 DEF AnswersFollow
<1>. QED BY <1>1, <1>2, <1>5, <1>6, <1>7 DEF CatInv

\* One call of build_rec.
LEMMA BuildKeeps == CatInv /\ BuildNode /\ UNCHANGED orderVars => CatInv'
<1> SUFFICES ASSUME CatInv, BuildNode, UNCHANGED orderVars PROVE CatInv'
  OBVIOUS
<1>1. /\ todo # <<>> /\ UNCHANGED <<rules, final>> /\ asked' = asked
      /\ \/ MakeLeaf(Head(todo))
         \/ \E b \in ChooseBranch(Head(todo).cands, Head(todo).used) : MakeBranch(Head(todo), b)
  BY DEF BuildNode
<1>2. /\ NetInv /\ asked = {}
      /\ final => IInv /\ outcome = "ordered"
                  /\ rules = [i \in DOMAIN names |-> Condition[names[i]]]
  BY <1>1 DEF CatInv, Uncompiled, Built
<1>3. NetInv'
  BY <1>1, <1>2, LeafKeeps, BranchKeeps
<1>4. outcome' = outcome /\ ready' = ready /\ names' = names
  BY DEF orderVars
<1>5. final' => IInv'
  BY <1>1, <1>2, OrderStays
<1>6. asked' = {} /\ AnswersFollow'
  BY <1>1, <1>2 DEF AnswersFollow
<1>. QED BY <1>1, <1>2, <1>3, <1>4, <1>5, <1>6 DEF CatInv

\* A question to the finished net.
LEMMA AskKeeps == CatInv /\ Ask /\ UNCHANGED orderVars => CatInv'
<1> SUFFICES ASSUME CatInv, Ask, UNCHANGED orderVars PROVE CatInv'
  OBVIOUS
<1>0. PICK o \in Objects :
        \E silent \in IF final THEN {{}} ELSE SUBSET (Matching(o) \cup MatchingLowered(o)) :
           asked' = {[obj |-> o, silent |-> silent, got |-> ResolveFirst(o, silent)]}
  BY DEF Ask
<1>1. PICK silent \in IF final THEN {{}} ELSE SUBSET (Matching(o) \cup MatchingLowered(o)) :
        asked' = {[obj |-> o, silent |-> silent, got |-> ResolveFirst(o, silent)]}
  BY <1>0
<1>2. /\ Built /\ todo = <<>>
      /\ rules' = rules /\ final' = final /\ todo' = todo /\ tree' = tree
      /\ outcome' = outcome /\ ready' = ready /\ names' = names
  BY DEF Ask, Built, orderVars
<1>3. /\ NetInv
      /\ final => IInv /\ outcome = "ordered"
                  /\ rules = [i \in DOMAIN names |-> Condition[names[i]]]
  BY <1>2 DEF CatInv, Uncompiled, Built
<1>4. ResolveFirst(o, silent) = LinearLowered(o, silent)
  BY <1>1, <1>2, <1>3, AnswersAreLinear
<1>5. \A x, y : LinearLowered(x, y)' = LinearLowered(x, y)
  BY <1>2 DEF LinearLowered, MatchingLowered, Compiled
<1>6. AnswersFollow'
  BY <1>1, <1>4, <1>5 DEF AnswersFollow
<1>7. \A a \in asked' : a.obj \in Objects /\ (final' => a.silent = {})
  BY <1>1, <1>2
<1>8. Built' /\ NetInv'
  BY <1>2, <1>3, NetStays DEF Built
<1>9. final' => IInv'
  BY <1>2, <1>3, OrderStays
<1>. QED BY <1>2, <1>3, <1>6, <1>7, <1>8, <1>9 DEF CatInv

\* A step that changes nothing.
LEMMA CatStays == CatInv /\ UNCHANGED vars => CatInv'
<1> SUFFICES ASSUME CatInv, UNCHANGED vars PROVE CatInv'
  OBVIOUS
<1>1. /\ UNCHANGED orderVars /\ outcome' = outcome /\ ready' = ready /\ names' = names
      /\ rules' = rules /\ final' = final /\ todo' = todo /\ tree' = tree /\ asked' = asked
  BY DEF vars, orderVars, treeVars
<1>2. final' => IInv'
  BY <1>1, OrderStays DEF CatInv
<1>3. \/ Uncompiled'
      \/ NetInv' /\ (final' => outcome' = "ordered"
                               /\ rules' = [i \in DOMAIN names' |-> Condition[names'[i]]])
  <2>1. CASE Uncompiled
    BY <1>1, <2>1 DEF Uncompiled
  <2>2. CASE NetInv /\ (final => outcome = "ordered"
                                /\ rules = [i \in DOMAIN names |-> Condition[names[i]]])
    BY <1>1, <2>2, NetStays
  <2>. QED BY <2>1, <2>2 DEF CatInv
<1>4. AnswersFollow'
  BY <1>1 DEF CatInv, AnswersFollow, LinearLowered, MatchingLowered, Compiled
<1>5. asked' # {} => Built'
  BY <1>1 DEF CatInv, Built
<1>. QED BY <1>1, <1>2, <1>3, <1>4, <1>5 DEF CatInv

-----------------------------------------------------------------------------
(* The theorems.                                                           *)

\* From a file or a producer's rules to the answers, the invariant holds throughout.
THEOREM CategorizeInvariance == Spec => []CatInv
<1>1. CatInv /\ [Next]_vars => CatInv'
  BY SortKeeps, CompileKeeps, BuildKeeps, AskKeeps, CatStays DEF Next
<1>. QED BY <1>1, CatStarts, PTL DEF Spec

\* The net gives every object the answer that the walk over all the lowered rules gives it, for
\* every list of conditions, whichever branches are chosen and however deep the net may grow;
\* and, where every rule is plain, the answer of the walk over the rules as they are written.
THEOREM NetAnswersAsTheList == Spec => []NetFollowsLowering
<1>1. CatInv => NetFollowsLowering
  <2> SUFFICES ASSUME CatInv, NEW q \in asked
               PROVE  /\ q.got = LinearLowered(q.obj, q.silent)
                      /\ PlainRules => q.got = Linear(q.obj, q.silent)
    BY DEF NetFollowsLowering
  <2>1. q.got = LinearLowered(q.obj, q.silent) /\ q.obj \in Objects /\ NetInv
    BY DEF CatInv, AnswersFollow, Uncompiled, Built
  <2>2. DOMAIN rules = 1..Len(rules) /\ \A i \in DOMAIN rules : rules[i] \in Filters
    <3>1. rules \in Seq(Filters)
      BY <2>1, StartIsSound DEF NetInv, NetTyped
    <3>. QED BY <3>1, LenProperties
  <2>3. ASSUME PlainRules PROVE MatchingLowered(q.obj) = Matching(q.obj)
    <3>1. \A i \in DOMAIN rules : Compiled(rules[i], q.obj) <=> Eval(rules[i], q.obj)
      BY <2>1, <2>2, <2>3, LoweringIsSound DEF PlainRules
    <3>. QED BY <3>1 DEF MatchingLowered, Matching
  <2>. QED BY <2>1, <2>3 DEF Linear, LinearLowered
<1>. QED BY <1>1, CategorizeInvariance, PTL

\* No fact on a path costs a candidate that could win, or changes what one means.
THEOREM FactsOnPathsAreSound == Spec => []FoldsAreSound
<1>1. CatInv => FoldsAreSound
  <2> SUFFICES ASSUME CatInv, todo # <<>>, NEW o \in Objects, Takes(o, Head(todo).path)
               PROVE  /\ \A i \in MatchingLowered(o) : (final => i = LinearLowered(o, {})) =>
                           \E c \in Head(todo).cands : c.idx = i
                      /\ \A c \in Head(todo).cands : EvalExpr(c.own, o) <=> Compiled(rules[c.idx], o)
    BY DEF FoldsAreSound
  <2>1. NetInv
    BY DEF CatInv, Uncompiled
  <2>2. 1 \in DOMAIN todo /\ Head(todo) = todo[1]
    <3>1. PICK C : C = CallsOf(rules)
      OBVIOUS
    <3>2. todo \in Seq(C)
      BY <2>1, <3>1 DEF NetInv, NetTyped
    <3>3. DOMAIN todo = 1..Len(todo) /\ Len(todo) \in Nat /\ Len(todo) # 0
      BY <3>2, LenProperties, EmptySeq
    <3>. QED BY <3>2, <3>3
  <2>3. /\ \A k \in Wanted(o) : \E c \in todo[1].cands : c.idx = k
        /\ \A c \in todo[1].cands : Means(c, rules, final, o)
    BY <2>1, <2>2 DEF NetInv, CallsAreSound
  <2>. QED BY <2>2, <2>3 DEF Wanted, Means
<1>. QED BY <1>1, CategorizeInvariance, PTL

\* The category an object gets beats every other that the object matches, and there is one
\* whenever anything matches, for an object on which the file says which of two beats the other.
THEOREM TheWinnerIsUnbeaten == Spec => []WinnerIsUnbeaten
<1>1. CatInv => WinnerIsUnbeaten
  <2> SUFFICES ASSUME CatInv, NEW q \in asked, final, DisjointFor(q.obj)
               PROVE  IF q.got = 0 THEN CoMatching(q.obj) = {}
                      ELSE /\ names[q.got] \in CoMatching(q.obj)
                           /\ \A y \in CoMatching(q.obj) :
                                Rivals(y, names[q.got]) => names[q.got] \in Pred(file, y)
    BY DEF WinnerIsUnbeaten
  <2>1. /\ IInv /\ outcome = "ordered" /\ ready = {}
        /\ rules = [i \in DOMAIN names |-> Condition[names[i]]]
        /\ q.silent = {} /\ q.got = LinearLowered(q.obj, q.silent)
    BY DEF CatInv, Uncompiled, Built, AnswersFollow
  <2>2. PICK o, M : o = q.obj /\ M = MatchingLowered(o)
    OBVIOUS
  <2>3. /\ names \in Seq(Nodes) /\ WinnersComeFirst
        /\ \A S \in SUBSET Nodes : ~Contradiction(S)
    BY <2>1 DEF IInv, RefusedIffContradictory
  <2>4. DOMAIN names = 1..Len(names) /\ Len(names) \in Nat /\ Ordered \subseteq Nodes
    BY <2>3, LenProperties DEF Ordered
  <2>5. Ordered = Nodes
    <3>1. ASSUME NEW m \in Nodes \ Ordered PROVE Pred(file, m) \cap (Nodes \ Ordered) # {}
      <4>1. ~(Pred(file, m) \subseteq Ordered) /\ Pred(file, m) \subseteq Nodes
        BY <2>1, <3>1, FileIsFinite DEF IInv, CountersAreRight, Nodes
      <4>. QED BY <4>1
    <3>2. Nodes # Ordered => Contradiction(Nodes \ Ordered)
      BY <2>4, <3>1 DEF Contradiction
    <3>. QED BY <2>3, <3>2
  <2>6. M = {i \in DOMAIN names : Compiled(Condition[names[i]], o)} /\ M \subseteq Nat \ {0}
    BY <2>1, <2>2, <2>4 DEF MatchingLowered
  <2>7. q.got = FirstIndex(M)
    BY <2>1, <2>2 DEF LinearLowered
  <2>8. \A y \in CoMatching(o) : \E i \in M : names[i] = y
    BY <2>5, <2>6 DEF CoMatching, Ordered
  <2>9. CASE M = {}
    BY <2>2, <2>6, <2>7, <2>8, <2>9, FirstIndexIs
  <2>10. CASE M # {}
    <3>1. PICK k : k = q.got
      OBVIOUS
    <3>2. k \in M /\ k # 0 /\ k \in Nat /\ \A i \in M : k <= i
      BY <2>6, <2>7, <2>10, <3>1, FirstIndexIs
    <3>3. names[k] \in CoMatching(o)
      BY <2>4, <2>5, <2>6, <3>2 DEF CoMatching, Ordered
    <3>4. ASSUME NEW y \in CoMatching(o), Rivals(y, names[k]) PROVE names[k] \in Pred(file, y)
      <4>1. PICK i \in M : names[i] = y
        BY <2>8
      <4>2. i \in DOMAIN names /\ i \in Nat /\ k <= i
        BY <2>6, <3>2
      <4>3. y \notin Pred(file, names[k])
        <5>1. ASSUME y \in Pred(file, names[k]) PROVE FALSE
          <6>1. PICK j \in 1..(k - 1) : names[j] = y
            BY <2>3, <2>6, <3>2, <5>1 DEF WinnersComeFirst
          <6>2. j \in DOMAIN names /\ j < k
            BY <2>4, <2>6, <3>2, <6>1
          <6>3. j = i
            BY <2>3, <4>1, <4>2, <6>1, <6>2 DEF WinnersComeFirst
          <6>. QED BY <3>2, <4>2, <6>2, <6>3
        <5>. QED BY <5>1
      <4>. QED BY <2>2, <3>3, <3>4, <4>3 DEF DisjointFor
    <3>. QED BY <2>2, <3>1, <3>2, <3>3, <3>4
  <2>. QED BY <2>9, <2>10
<1>. QED BY <1>1, CategorizeInvariance, PTL
===============================================================================

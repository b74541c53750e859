--------------------------- MODULE DecisionTree ---------------------------
(***************************************************************************)
(* The discrimination net over an ordered list of conditions               *)
(* (decision_tree/build.rs, mod.rs, walkers.rs, runtime.rs): it is compiled*)
(* once, greedily, by splitting the surviving candidates on a tag, a       *)
(* context field or one atom, and then walked once per object.             *)
(*                                                                         *)
(* A node of the tree is named by its path, the sequence of facts on the   *)
(* edges that lead to it.  `todo` holds the calls of `build_rec` still to  *)
(* be made.  The code makes the calls for the children of one node one     *)
(* after the other, or in parallel for a large node; they share nothing    *)
(* but what they were given, so one order stands for all.                  *)
(***************************************************************************)
EXTENDS Conditions, FiniteSetsExt, SequencesExt

CONSTANTS
    Objects,       \* the objects a finished tree is asked about
    MaxDepth,      \* --tree-max-depth (0 compiles no tree and is not modelled)
    LeafMax,       \* LEAF_MAX: a candidate set this small is a leaf
    LookaheadMin,  \* LOOKAHEAD_MIN_CANDIDATES
    Conjuncts(_),  \* the operands of nested conjunctions: ConjunctsBody
    Literals(_),   \* the literals of an expression: LiteralsBody
    Plain(_, _)    \* whether the lowering keeps what a filter means: PlainBody

ASSUME TreeAssumption ==
    /\ MaxDepth \in Nat \ {0}
    /\ LeafMax \in Nat
    /\ LookaheadMin \in Nat

\* An object has one side, and at most one parent and one prefix.
ASSUME ObjectsAssumption ==
    \A o \in Objects :
        /\ DOMAIN o = {"tags", "parent", "side", "prefix"} /\ o.side \in {"left", "right", "self"}
        /\ \A s, t \in o.parent : s = t
        /\ \A x, y \in o.prefix : x = y

VARIABLES
    rules,     \* the conditions, in priority order
    final,     \* assume_match_is_final: TRUE for categories, FALSE for Match
    todo,      \* the calls of build_rec to make: [path, cands, used]
    tree,      \* path -> node, the nodes made so far
    asked      \* a question put to the finished tree, and its answer

treeVars == <<rules, final, todo, tree, asked>>

(***************************************************************************)
(* Candidates: [idx, residual, own].  `own` is the condition; `residual`   *)
(* also denies every earlier condition when a match is final.              *)
(***************************************************************************)
ConjunctsBody(e) == IF e.op = "and" THEN UNION {Conjuncts(x) : x \in e.args} ELSE {e}

Conjoin(parts) ==
    LET flat      == UNION {Conjuncts(e) : e \in parts}
        opposed == \E e \in flat : e.op = "lit" /\ [e EXCEPT !.pos = ~@] \in flat
    IN  IF FalseE \in flat \/ opposed THEN FalseE ELSE Join("and", flat \ {TrueE})

\* Seeded fault: the earlier conditions are denied for a Match as well.
CandidatesAlwaysFinal(conditions, isFinal) ==
    LET own == [i \in DOMAIN conditions |-> ToNNF(FilterToExpr(conditions[i]))]
        residual(i) == Conjoin({own[i]} \cup {ToNNF(Not(own[j])) : j \in 1..(i - 1)})
    IN  {[idx |-> i, residual |-> residual(i), own |-> own[i]] : i \in DOMAIN conditions}

\* Seeded fault: every other condition is denied, not only the earlier ones.
CandidatesDenyingAll(conditions, isFinal) ==
    LET own == [i \in DOMAIN conditions |-> ToNNF(FilterToExpr(conditions[i]))]
        residual(i) == Conjoin({own[i]} \cup
                               {ToNNF(Not(own[j])) : j \in DOMAIN conditions \ {i}})
    IN  {[idx |-> i, residual |-> IF isFinal THEN residual(i) ELSE own[i], own |-> own[i]] :
            i \in DOMAIN conditions}

InitialCandidates(conditions, isFinal) ==
    LET own    == [i \in DOMAIN conditions |-> ToNNF(FilterToExpr(conditions[i]))]
        denied == [i \in DOMAIN conditions |-> ToNNF(Not(own[i]))]
        residual(i) == IF isFinal THEN Conjoin({own[i]} \cup {denied[j] : j \in 1..(i - 1)})
                                  ELSE own[i]
    IN  {[idx |-> i, residual |-> residual(i), own |-> own[i]] : i \in DOMAIN conditions}

\* `fold_candidates`: bake a fact in, and drop what it refutes.
FoldCandidates(cands, f) ==
    {[c EXCEPT !.residual = Simplify(@, f), !.own = Simplify(@, f)] :
        c \in {d \in cands : Simplify(d.residual, f) # FalseE}}

(***************************************************************************)
(* The branches a candidate set offers.                                    *)
(***************************************************************************)
LiteralsBody(e) ==
    CASE e.op = "lit"           -> {e}
      [] e.op \in {"and", "or"} -> UNION {Literals(x) : x \in e.args}
      [] OTHER                  -> {}

CandidateLiterals(cands) == UNION {Literals(c.residual) : c \in cands}

BranchKeys(cands, used) ==
    LET lits == CandidateLiterals(cands)
    IN  ({TagKey(l.pred.ext) : l \in {m \in lits : m.pos /\ m.pred.kind \in {"eq", "firstTagIn"}}}
            \cup {ContextKey(l.pred.kind) :
                    l \in {m \in lits : m.pred.kind \in {"side", "hasParent", "prefix"}}})
        \ used

EligibleValues(cands, key) ==
    LET named == {l.pred : l \in {m \in CandidateLiterals(cands) : m.pos /\ Reads(m.pred, key)}}
    IN  CASE key.on = "side"      -> {"left", "right", "self"}
          [] key.on = "hasParent" -> {"false", "true"}
          [] OTHER -> {p.val : p \in {q \in named : q.kind \in {"eq", "prefix"}}}
                        \cup UNION {p.vals : p \in {q \in named : q.kind = "firstTagIn"}}

EligibleAtoms(cands, used) ==
    {l.pred : l \in {m \in CandidateLiterals(cands) :
                        m.pred.kind \in {"shape", "exists", "hasKeyPrefix"}}} \ used

KeyBranch(cands, key) == [by |-> "key", key |-> key, vals |-> EligibleValues(cands, key)]
AtomBranch(p)         == [by |-> "atom", key |-> p]

\* The facts on the edges below a branch.
FactsOf(b) ==
    IF b.by = "key" THEN {OtherFact(b.key, b.vals)} \cup {ValueFact(b.key, v) : v \in b.vals}
                    ELSE {AtomFact(b.key, TRUE), AtomFact(b.key, FALSE)}

(***************************************************************************)
(* `choose_branch`.                                                        *)
(***************************************************************************)
Survivors(cands, f) == {c \in cands : Kleene(c.residual, f) # "F"}

Worst(cands, b) == Max({Cardinality(Survivors(cands, f)) : f \in FactsOf(b)})

Best(bs, Score(_)) == {b \in bs : \A c \in bs : Score(b) <= Score(c)}

\* The branches whose worst child is smallest, if that is a gain at all; a
\* key is preferred to an atom that is no better.  The keys come out of a
\* hash set, so any of the best ones may be taken.
BestSingleBranch(cands, used) ==
    LET keys    == {KeyBranch(cands, k) : k \in BranchKeys(cands, used)}
        atoms   == {AtomBranch(p) : p \in EligibleAtoms(cands, used)}
        score   == [b \in keys \cup atoms |-> Worst(cands, b)]
        helpful == {b \in keys \cup atoms : score[b] < Cardinality(cands)}
        best    == Best(helpful, LAMBDA b : score[b])
    IN  IF best \cap keys # {} THEN best \cap keys ELSE best

\* Two plies: a key after which some second branch shrinks the worst child.
LookaheadBranch(cands, used) ==
    LET worstBelow(child, used1) ==
            LET next == BestSingleBranch(child, used1)
            IN  IF next = {} THEN Cardinality(child) ELSE Max({Worst(child, b) : b \in next})
        keys    == {KeyBranch(cands, k) : k \in BranchKeys(cands, used)}
        score   == [b \in keys |-> Max({worstBelow(FoldCandidates(cands, f), used \cup {b.key})
                                        : f \in FactsOf(b)})]
        helpful == {b \in keys : score[b] < Cardinality(cands)}
    IN  Best(helpful, LAMBDA b : score[b])

ChooseBranch(cands, used) ==
    LET single == BestSingleBranch(cands, used)
    IN  IF single # {} THEN single
        ELSE IF Cardinality(cands) > LookaheadMin THEN LookaheadBranch(cands, used) ELSE {}

(***************************************************************************)
(* `build_rec`.                                                            *)
(***************************************************************************)
StartTree(conditions, isFinal) ==
    <<[path |-> <<>>, cands |-> InitialCandidates(conditions, isFinal), used |-> {}]>>

MakeLeaf(call) ==
    /\ tree' = [p \in DOMAIN tree \cup {call.path} |->
                    IF p = call.path
                    THEN [kind |-> "leaf", cands |-> {[idx |-> c.idx, own |-> c.own] : c \in call.cands}]
                    ELSE tree[p]]
    /\ todo' = Tail(todo)

MakeBranch(call, b) ==
    LET child(f) == [path  |-> Append(call.path, f),
                     cands |-> FoldCandidates(call.cands, f),
                     used  |-> call.used \cup {b.key}]
    IN  /\ tree' = [p \in DOMAIN tree \cup {call.path} |->
                        IF p = call.path THEN [kind |-> "branch", split |-> b] ELSE tree[p]]
        /\ todo' = SetToSeq({child(f) : f \in FactsOf(b)}) \o Tail(todo)

SmallOrDeep(call) == Cardinality(call.cands) <= LeafMax \/ Len(call.path) >= MaxDepth

BuildNode ==
    /\ todo # <<>>
    /\ LET call     == Head(todo)
           branches == IF SmallOrDeep(call) THEN {} ELSE ChooseBranch(call.cands, call.used)
       IN  \/ branches = {} /\ MakeLeaf(call)
           \/ \E b \in branches : MakeBranch(call, b)
    /\ UNCHANGED <<rules, final, asked>>

(***************************************************************************)
(* `candidates` and `resolve_first`: descend to a leaf, then take the first*)
(* candidate whose condition holds and that has a result.                  *)
(***************************************************************************)
KeyReads(key, o) == \* `branch_key`
    CASE key.on = "tag"       -> ReadExtract(key.ext, o)
      [] key.on = "side"      -> {o.side}
      [] key.on = "hasParent" -> {IF o.parent # {} THEN "true" ELSE "false"}
      [] key.on = "prefix"    -> o.prefix

EdgeOf(b, o) ==
    LET hit == KeyReads(b.key, o) \cap b.vals
    IN  IF b.by = "atom" THEN AtomFact(b.key, DecideConcrete(b.key, o))
        ELSE IF hit = {} THEN OtherFact(b.key, b.vals)
        ELSE ValueFact(b.key, CHOOSE v \in hit : TRUE)

\* The objects that take the path.
Takes(o, path) ==
    \A i \in DOMAIN path :
        path[i] = EdgeOf(tree[SubSeq(path, 1, i - 1)].split, o)

\* The leaf that taking an edge at every branch from the root leads to.
Descend(o) ==
    tree[CHOOSE path \in DOMAIN tree : tree[path].kind = "leaf" /\ Takes(o, path)].cands

FirstIndex(S) == IF S = {} THEN 0 ELSE Min(S)

\* `silent` are the rules whose value produces nothing for this object.
ResolveFirst(o, silent) ==
    FirstIndex({c.idx : c \in {d \in Descend(o) : EvalExpr(d.own, o) /\ d.idx \notin silent}})

\* The rules that match as they are written, and as they are lowered.
Matching(o) == {i \in DOMAIN rules : Eval(rules[i], o)}

Compiled(f, o) == EvalExpr(ToNNF(FilterToExpr(f)), o)

MatchingLowered(o) == {i \in DOMAIN rules : Compiled(rules[i], o)}

Built == todo = <<>> /\ tree # <<>>

\* Bounded to one question a tree: an answer changes nothing.
Ask ==
    /\ Built /\ asked = {}
    /\ \E o \in Objects :
         \E silent \in IF final THEN {{}} ELSE SUBSET (Matching(o) \cup MatchingLowered(o)) :
            asked' = {[obj |-> o, silent |-> silent, got |-> ResolveFirst(o, silent)]}
    /\ UNCHANGED <<rules, final, todo, tree>>

(***************************************************************************)
(* Properties.                                                             *)
(***************************************************************************)
\* What the lowering means to keep, and does not always.  A `contains` that ignores case is
\* lowered to one that does not.  Under a Parent filter, which fails without a parent, the
\* lowering only makes the tests of one tag read the parent: a negation, a constant or an
\* empty conjunction then holds without a parent, and the tests of the keys, of the context
\* and of empty tags still speak of the object itself.
PlainBody(f, scoped) ==
    CASE f.op = "bool"     -> scoped => ~f.val
      [] f.op = "and"      -> (scoped => f.args # {}) /\ \A g \in f.args : Plain(g, scoped)
      [] f.op = "or"       -> \A g \in f.args : Plain(g, scoped)
      [] f.op = "not"      -> ~scoped /\ Plain(f.arg, FALSE)
      [] f.op = "in"       -> TRUE
      [] f.op = "contains" -> ~f.ci
      [] f.op = "atom"     -> scoped => f.want /\ Tagged(f.pred) /\ ~f.pred.ext.parent
      [] f.op = "parent"   -> ~scoped /\ Plain(f.arg, TRUE)

PlainRules == \A i \in DOMAIN rules : Plain(rules[i], FALSE)

\* The first-match walk over the whole list (`categorize_linear`, and
\* `match_rules` without a tree), and over the lowered list.
Linear(o, silent)        == FirstIndex(Matching(o) \ silent)
LinearLowered(o, silent) == FirstIndex(MatchingLowered(o) \ silent)

\* The tree gives every object the answer the walk over all the original filters gives,
\* whatever the rules that match but produce nothing: "it never changes results"
\* (decision_tree/mod.rs, and the same of `categorize_linear`).  It does where the lowering
\* does: the run `lowered` shows it.
TreeMatchesLinear == \A q \in asked : q.got = Linear(q.obj, q.silent)

\* What the tree does keep.  Splitting, folding and denying never change the answer: it is the
\* one the walk over all the lowered conditions gives, whatever the rules that match but
\* produce nothing; and where every condition is plain, the one of the walk over the filters.
NetFollowsLowering ==
    \A q \in asked : /\ q.got = LinearLowered(q.obj, q.silent)
                     /\ PlainRules => q.got = Linear(q.obj, q.silent)

\* Whatever has been built when a node is reached, no fact on its path has
\* cost a candidate that could still win, and none has changed what a
\* surviving candidate means: for the objects that take the path, the folded
\* condition is the lowered one.
FoldsAreSound ==
    todo # <<>> =>
        LET call == Head(todo)
        IN  \A o \in Objects : Takes(o, call.path) =>
                /\ \A i \in MatchingLowered(o) :
                     (final => i = LinearLowered(o, {})) => \E c \in call.cands : c.idx = i
                /\ \A c \in call.cands : EvalExpr(c.own, o) <=> Compiled(rules[c.idx], o)
=============================================================================

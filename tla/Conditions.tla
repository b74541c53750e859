---------------------------- MODULE Conditions ----------------------------
(***************************************************************************)
(* The condition language of the topics: a resolved `Filter` and its       *)
(* evaluator (lang/filter.rs), its lowering to the boolean IR              *)
(* (lang/expr.rs), the three-valued folding of that IR under one known     *)
(* fact (decision_tree/kleene.rs) and its evaluation against one object    *)
(* (decision_tree/runtime.rs).                                             *)
(*                                                                         *)
(* An object is a record                                                   *)
(*   tags   - a function from the keys that are set to their values,       *)
(*   parent - the set of the parent's tag maps: empty without a parent,    *)
(*   side   - "self", "left" or "right",                                   *)
(*   prefix - the set of its `_prefix` annotations: empty or a singleton   *)
(*            (`_infix` has the same shape and is not modelled apart).     *)
(* An extract is a record [keys, chain, parent]: one key or a first-present*)
(* list, the name of a sanitizer chain, and whether it reads the parent    *)
(* (the code renames the keys to parent_<key>).                            *)
(* Contains, StartsWith, EndsWith and the numeric atoms are all tests of   *)
(* the value alone, false when there is none: they are one kind, "shape".  *)
(* Not modelled: a Parent filter inside a Parent filter, and a sanitizer   *)
(* whose output is not a string.                                           *)
(***************************************************************************)
EXTENDS Naturals, Sequences, FiniteSets

CONSTANTS
    Sanitize,   \* chain -> the values it keeps -> what it makes of them
    Shape,      \* shape -> the values that have it
    ShapeFolded \* shape -> the values that have it once lower-cased

\* The recursive functions of the code.  What one call of each returns, given what it gets
\* from the calls for the parts, is an operator below with `Body` in its name; the operator
\* itself is the function for which that equation holds.
CONSTANTS
    Eval(_, _), Scoped(_), FilterToExpr(_), ToNNF(_), EvalExpr(_, _), Kleene(_, _), Simplify(_, _)

(***************************************************************************)
(* Reading.  An optional value is a set with at most one element.          *)
(***************************************************************************)
ReadTags(ext, tags) ==
    LET first == {i \in DOMAIN ext.keys :
                    /\ ext.keys[i] \in DOMAIN tags
                    /\ \A j \in 1..(i - 1) : ext.keys[j] \notin DOMAIN tags}
        raw   == {tags[ext.keys[i]] : i \in first}
    IN  {Sanitize[ext.chain][v] : v \in raw \cap DOMAIN Sanitize[ext.chain]}

\* `read_extract`: a parent-scoped extract reads the parent's tags.
ReadExtract(ext, o) ==
    IF ext.parent THEN UNION {ReadTags(ext, t) : t \in o.parent}
                  ELSE ReadTags(ext, o.tags)

(***************************************************************************)
(* Atoms.                                                                  *)
(***************************************************************************)
Tagged(p) == p.kind \in {"eq", "firstTagIn", "exists", "shape"}

ValueSatisfies(p, v) ==
    CASE p.kind = "eq"         -> v = p.val
      [] p.kind = "firstTagIn" -> v \in p.vals
      [] p.kind = "exists"     -> TRUE
      [] p.kind = "shape"      -> v \in Shape[p.shape]

DecideConcrete(p, o) ==
    CASE Tagged(p)               -> \E v \in ReadExtract(p.ext, o) : ValueSatisfies(p, v)
      [] p.kind = "hasKeyPrefix" -> p.keys \cap DOMAIN o.tags # {}
      [] p.kind = "hasParent"    -> o.parent # {}
      [] p.kind = "side"         -> o.side = p.val
      [] p.kind = "prefix"       -> p.val \in o.prefix
      [] p.kind = "tagsEmpty"    -> DOMAIN o.tags = {}

(***************************************************************************)
(* `eval`: a filter against an object.  The filters that are one atom, or  *)
(* its negation, are [op |-> "atom", want, pred]; `contains` keeps its own *)
(* shape because it alone may ignore case.                                 *)
(***************************************************************************)
EvalBody(f, o) ==
    CASE f.op = "bool"     -> f.val
      [] f.op = "and"      -> \A g \in f.args : Eval(g, o)
      [] f.op = "or"       -> \E g \in f.args : Eval(g, o)
      [] f.op = "not"      -> ~Eval(f.arg, o)
      [] f.op = "in"       -> ReadTags(f.ext, o.tags) \cap f.vals # {}
      [] f.op = "contains" -> ReadTags(f.ext, o.tags)
                                \cap (IF f.ci THEN ShapeFolded[f.shape] ELSE Shape[f.shape]) # {}
      [] f.op = "atom"     -> DecideConcrete(f.pred, o) <=> f.want
      [] f.op = "parent"   -> \E t \in o.parent : Eval(f.arg, [o EXCEPT !.tags = t])

(***************************************************************************)
(* The IR.  The children of a conjunction or a disjunction are a set: the  *)
(* code's vectors are ordered, and nothing reads the order.                *)
(***************************************************************************)
TrueE  == [op |-> "true"]
FalseE == [op |-> "false"]
Lit(pos, p)   == [op |-> "lit", pos |-> pos, pred |-> p]
And(xs)       == [op |-> "and", args |-> xs]
Or(xs)        == [op |-> "or",  args |-> xs]
Not(e)        == [op |-> "not", arg |-> e]

ScopedBody(e) == \* `prefix_expr_tags`: every tag atom reads the parent instead
    CASE e.op = "lit"          -> IF Tagged(e.pred) THEN [e EXCEPT !.pred.ext.parent = TRUE] ELSE e
      [] e.op = "not"          -> Not(Scoped(e.arg))
      [] e.op \in {"and","or"} -> [e EXCEPT !.args = {Scoped(x) : x \in e.args}]
      [] OTHER                 -> e

FilterToExprBody(f) ==
    CASE f.op = "bool"     -> IF f.val THEN TrueE ELSE FalseE
      [] f.op = "and"      -> And({FilterToExpr(g) : g \in f.args})
      [] f.op = "or"       -> Or({FilterToExpr(g) : g \in f.args})
      [] f.op = "not"      -> Not(FilterToExpr(f.arg))
      [] f.op = "in"       ->
            IF Len(f.ext.keys) = 1
            THEN Or({Lit(TRUE, [kind |-> "eq", ext |-> f.ext, val |-> v]) : v \in f.vals})
            ELSE Lit(TRUE, [kind |-> "firstTagIn", ext |-> f.ext, vals |-> f.vals])
      [] f.op = "contains" -> Lit(TRUE, [kind |-> "shape", ext |-> f.ext, shape |-> f.shape])
      [] f.op = "atom"     -> Lit(f.want, f.pred)
      [] f.op = "parent"   -> Scoped(FilterToExpr(f.arg))

ToNNFBody(e) ==
    CASE e.op \in {"and", "or"} -> [e EXCEPT !.args = {ToNNF(x) : x \in e.args}]
      [] e.op = "not" /\ e.arg.op = "true"  -> FalseE
      [] e.op = "not" /\ e.arg.op = "false" -> TrueE
      [] e.op = "not" /\ e.arg.op = "lit"   -> [e.arg EXCEPT !.pos = ~@]
      [] e.op = "not" /\ e.arg.op = "not"   -> ToNNF(e.arg.arg)
      [] e.op = "not" /\ e.arg.op = "and"   -> Or({ToNNF(Not(x)) : x \in e.arg.args})
      [] e.op = "not" /\ e.arg.op = "or"    -> And({ToNNF(Not(x)) : x \in e.arg.args})
      [] OTHER -> e

\* `eval_expr`, on an expression in negation normal form.
EvalExprBody(e, o) ==
    CASE e.op = "true"  -> TRUE
      [] e.op = "false" -> FALSE
      [] e.op = "lit"   -> DecideConcrete(e.pred, o) <=> e.pos
      [] e.op = "and"   -> \A x \in e.args : EvalExpr(x, o)
      [] e.op = "or"    -> \E x \in e.args : EvalExpr(x, o)

(***************************************************************************)
(* Facts.  A branch key is a context field or a tag read; a fact is what   *)
(* one edge of the tree says of the objects that take it: the key reads    *)
(* exactly `val`; the key reads none of the enumerated `vals`, or nothing  *)
(* at all; or one atom holds or fails.                                     *)
(***************************************************************************)
TagKey(ext)          == [on |-> "tag", ext |-> ext]
ContextKey(field)    == [on |-> field]
ValueFact(key, v)    == [fact |-> "value", key |-> key, val |-> v]
OtherFact(key, vs)   == [fact |-> "other", key |-> key, vals |-> vs]
AtomFact(p, holds)   == [fact |-> "atom", atom |-> p, holds |-> holds]

K(b) == IF b THEN "T" ELSE "F"

Reads(p, key) == IF key.on = "tag" THEN Tagged(p) /\ p.ext = key.ext ELSE p.kind = key.on

DecideValue(p, key, v) ==
    IF ~Reads(p, key) THEN "U"
    ELSE CASE key.on = "tag"       -> K(ValueSatisfies(p, v))
           [] key.on = "hasParent" -> K(v = "true")
           [] OTHER                -> K(p.val = v)

\* Seeded fault: outside the enumerated values, every named value is denied.
DecideWildcardAll(p, key, vs) ==
    IF Reads(p, key) /\ p.kind \in {"side", "hasParent", "prefix", "eq", "firstTagIn"}
    THEN "F" ELSE "U"

DecideWildcard(p, key, vs) ==
    IF ~Reads(p, key) THEN "U"
    ELSE CASE key.on \in {"side", "hasParent"}   -> "F"
           [] key.on = "prefix" \/ p.kind = "eq" -> IF p.val \in vs THEN "F" ELSE "U"
           [] p.kind = "firstTagIn"              -> IF p.vals \subseteq vs THEN "F" ELSE "U"
           [] OTHER                              -> "U"

Decide(p, f) ==
    CASE f.fact = "value" -> DecideValue(p, f.key, f.val)
      [] f.fact = "other" -> DecideWildcard(p, f.key, f.vals)
      [] f.fact = "atom"  -> IF p = f.atom THEN K(f.holds) ELSE "U"

KleeneBody(e, f) ==
    LET kids == {Kleene(x, f) : x \in e.args}
        d    == Decide(e.pred, f)
    IN  CASE e.op = "true"  -> "T"
          [] e.op = "false" -> "F"
          [] e.op = "lit"   -> IF d = "U" THEN "U" ELSE K((d = "T") <=> e.pos)
          [] e.op = "and"   -> IF "F" \in kids THEN "F" ELSE IF "U" \in kids THEN "U" ELSE "T"
          [] e.op = "or"    -> IF "T" \in kids THEN "T" ELSE IF "U" \in kids THEN "U" ELSE "F"

\* A conjunction or disjunction of what is left: an empty one is its unit,
\* a singleton is unwrapped.
Join(op, xs) ==
    CASE xs = {}             -> IF op = "and" THEN TrueE ELSE FalseE
      [] Cardinality(xs) = 1 -> CHOOSE x \in xs : TRUE
      [] OTHER               -> [op |-> op, args |-> xs]

SimplifyBody(e, f) ==
    LET kids == {Simplify(x, f) : x \in e.args}
        d    == Decide(e.pred, f)
    IN  CASE e.op = "lit" -> IF d = "U" THEN e
                             ELSE IF (d = "T") <=> e.pos THEN TrueE ELSE FalseE
          [] e.op = "and" -> IF FalseE \in kids THEN FalseE ELSE Join("and", kids \ {TrueE})
          [] e.op = "or"  -> IF TrueE \in kids THEN TrueE ELSE Join("or", kids \ {FalseE})
          [] OTHER        -> e
=============================================================================

------------------------------- MODULE Language -------------------------------
(***************************************************************************)
(* The conditions the theorems about the discrimination net speak of: all  *)
(* that the conditions of an instance consist of and are compiled to.  It  *)
(* is closed under what the compiler does with a condition, and every      *)
(* condition is of finite depth, so that the recursive functions of module *)
(* Conditions are determined by their bodies.                              *)
(***************************************************************************)
EXTENDS Categorize

CONSTANT
    Lang   \* a record of
           \*   filters   - the conditions, with their parts,
           \*   inherited - those of them that stand under a Parent filter,
           \*   lowered   - what filters and their negations are lowered to, before and after ToNNF,
           \*   normal    - the expressions in negation normal form, as lowered and as folded,
           \*   depth     - how deep each of them is

Parts(e) == CASE e.op \in {"and", "or"}     -> e.args
              [] e.op \in {"not", "parent"} -> {e.arg}
              [] OTHER                      -> {}

\* S holds the parts of its members, which are finitely many and less deep.
WellFounded(S, depth) ==
    \A e \in S : /\ depth[e] \in Nat
                 /\ IsFiniteSet(Parts(e)) /\ Parts(e) \subseteq S
                 /\ \A x \in Parts(e) : depth[x] < depth[e]

IsExtract(x) ==
    /\ DOMAIN x = {"keys", "chain", "parent"}
    /\ DOMAIN x.keys \subseteq Nat \ {0} /\ x.parent \in BOOLEAN

IsPredicate(p) ==
    \/ /\ p.kind \in {"eq", "firstTagIn", "exists", "shape"} /\ IsExtract(p.ext)
       /\ p.kind = "eq"         => DOMAIN p = {"kind", "ext", "val"}
       /\ p.kind = "firstTagIn" => DOMAIN p = {"kind", "ext", "vals"} /\ IsFiniteSet(p.vals)
       /\ p.kind = "exists"     => DOMAIN p = {"kind", "ext"}
       /\ p.kind = "shape"      => DOMAIN p = {"kind", "ext", "shape"}
    \/ p.kind \in {"hasKeyPrefix", "hasParent", "side", "prefix", "tagsEmpty"}

IsExpression(e) ==
    \/ e \in {TrueE, FalseE}
    \/ e.op = "lit" /\ e = Lit(e.pos, e.pred) /\ e.pos \in BOOLEAN /\ IsPredicate(e.pred)
    \/ e.op \in {"and", "or"} /\ e = [op |-> e.op, args |-> e.args]
    \/ e.op = "not" /\ e = Not(e.arg)

\* A filter as a file can spell it: it reads the parent under a Parent filter only (no key of
\* a file begins with `parent_`, the mark lowering puts on a key of the parent).
IsFilter(f) ==
    /\ f.op \in {"bool", "and", "or", "not", "in", "contains", "atom", "parent"}
    /\ f.op = "bool"              => f.val \in BOOLEAN
    /\ f.op \in {"in", "contains"} => IsExtract(f.ext) /\ ~f.ext.parent
    /\ f.op = "in"                => IsFiniteSet(f.vals)
    /\ f.op = "contains"          => f.ci \in BOOLEAN
    /\ f.op = "atom"              => f.want \in BOOLEAN /\ IsPredicate(f.pred)

\* An object, and the parent a Parent filter evaluates in its place.
Views(o) == {o} \cup {[o EXCEPT !.tags = t] : t \in o.parent}

\* The facts on the edges that expressions of S can lead to.
Residuals(S) == {[residual |-> e] : e \in S}

KeyBranchesOver(S, key) ==
    {[KeyBranch(Residuals(S), key) EXCEPT !.vals = vs] : vs \in SUBSET EligibleValues(Residuals(S), key)}

AtomBranchesOver(S) == {AtomBranch(p) : p \in EligibleAtoms(Residuals(S), {})}

BranchesOver(S) ==
    AtomBranchesOver(S) \cup UNION {KeyBranchesOver(S, key) : key \in BranchKeys(Residuals(S), {})}

FactsOver(S) == UNION {FactsOf(b) : b \in BranchesOver(S)}

\* The filters, and what each is lowered to.
FiltersAreLowered(l) ==
    /\ WellFounded(l.filters, l.depth) /\ l.inherited \subseteq l.filters
    /\ \A f \in l.inherited : /\ f.op # "parent" /\ Parts(f) \subseteq l.inherited
                              /\ Scoped(FilterToExpr(f)) \in l.lowered
    /\ LET views == UNION {Views(w) : w \in Objects} IN \A f \in l.filters :
         /\ IsFilter(f) /\ (f.op = "parent" => f.arg \in l.inherited)
         /\ FilterToExpr(f) = FilterToExprBody(f) /\ FilterToExpr(f) \in l.lowered
         /\ \A o \in views : Eval(f, o) <=> EvalBody(f, o)
         /\ \A scoped \in BOOLEAN : Plain(f, scoped) <=> PlainBody(f, scoped)

\* The expressions, and what each is normalised to.
LoweredAreNormalised(l) ==
    /\ WellFounded(l.lowered, l.depth)
    /\ \A e \in l.lowered :
         /\ IsExpression(e) /\ Scoped(e) = ScopedBody(e)
         /\ \A n \in {e, Not(e)} : ToNNF(n) = ToNNFBody(n) /\ ToNNF(n) \in l.lowered \cap l.normal

\* The normal forms, and what each is folded to.
NormalAreFolded(l) ==
    /\ WellFounded(l.normal, l.depth) /\ {TrueE, FalseE} \subseteq l.normal
    /\ LET facts == FactsOver(l.normal) IN \A e \in l.normal :
         /\ IsExpression(e) /\ e.op # "not"
         /\ \A o \in Objects : EvalExpr(e, o) <=> EvalExprBody(e, o)
         /\ Conjuncts(e) = ConjunctsBody(e) /\ Literals(e) = LiteralsBody(e)
         /\ \A f \in facts : Simplify(e, f) = SimplifyBody(e, f) /\ Simplify(e, f) \in l.normal

\* The lists of conditions a net may be compiled from, with assume_match_is_final: the
\* rules of a producer, the nodes of a categories file in some order.
RuleListsCompiled ==
    {<<r, FALSE>> : r \in RuleLists}
    \cup UNION {{<<[i \in DOMAIN s |-> Condition[s[i]]], TRUE>> :
                    s \in UNION {[1..n -> NodesOf(f)] : n \in 0..Cardinality(NodesOf(f))}} : f \in Files}

\* They consist of filters, and what they are compiled from is a normal form.
ListsAreSpoken(l) ==
    \A c \in RuleListsCompiled :
        /\ c[1] \in Seq(l.filters)
        /\ \A d \in InitialCandidates(c[1], c[2]) : d.residual \in l.normal

Language(l) ==
    FiltersAreLowered(l) /\ LoweredAreNormalised(l) /\ NormalAreFolded(l) /\ ListsAreSpoken(l)

ASSUME LanguageAssumption == Language(Lang)
=============================================================================

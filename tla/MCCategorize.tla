--------------------------- MODULE MCCategorize ---------------------------
(***************************************************************************)
(* Two tags, `hw` with three values and `sg` with two, a side, a parent and*)
(* a prefix; conditions of every kind over them.                           *)
(***************************************************************************)
EXTENDS Language

\* The recursive functions are the ones their bodies call; a LET, so that the
\* tool that counts what TLC evaluates does not follow the circle.
MCEval(f, o)          == LET is == EvalBody(f, o) IN is
MCScoped(e)           == LET is == ScopedBody(e) IN is
MCFilterToExpr(f)     == LET is == FilterToExprBody(f) IN is
MCToNNF(e)            == LET is == ToNNFBody(e) IN is
MCEvalExpr(e, o)      == LET is == EvalExprBody(e, o) IN is
MCKleene(e, f)        == LET is == KleeneBody(e, f) IN is
MCSimplify(e, f)      == LET is == SimplifyBody(e, f) IN is
MCConjuncts(e)        == LET is == ConjunctsBody(e) IN is
MCLiterals(e)         == LET is == LiteralsBody(e) IN is
MCPlain(f, scoped)    == LET is == PlainBody(f, scoped) IN is

Val == {"a", "b", "Ab"}

MCSanitize ==
    [raw  |-> [v \in Val |-> v],
     norm |-> [v \in {"a", "Ab"} |-> "a"]]

\* s: contains "b"; t: contains "a".
MCShape       == [s |-> {"b", "Ab"}, t |-> {"a"}]
MCShapeFolded == [s |-> {"b", "Ab"}, t |-> {"a", "Ab"}]

TagMaps == {t \in UNION {[ks -> Val] : ks \in SUBSET {"hw", "sg"}} :
                "sg" \in DOMAIN t => t["sg"] \in {"a", "b"}}

MCObjects ==
    {[tags |-> t, parent |-> {}, side |-> "self", prefix |-> {}] : t \in TagMaps}
    \cup {[tags |-> t, parent |-> {p}, side |-> "left", prefix |-> x] :
            t \in {u \in TagMaps : "hw" \notin DOMAIN u \/ u["hw"] = "a"},
            p \in {<<>>, [k \in {"hw"} |-> "a"]}, x \in {{}, {"cw"}}}

Raw(k)  == [keys |-> <<k>>, chain |-> "raw", parent |-> FALSE]
Norm(k) == [Raw(k) EXCEPT !.chain = "norm"]
First   == [Raw("hw") EXCEPT !.keys = <<"sg", "hw">>]

Atom(p)       == [op |-> "atom", want |-> TRUE, pred |-> p]
EqF(ext, v)   == Atom([kind |-> "eq", ext |-> ext, val |-> v])
InF(ext, vs)  == [op |-> "in", ext |-> ext, vals |-> vs]
NotF(f)       == [op |-> "not", arg |-> f]
AndF(fs)      == [op |-> "and", args |-> fs]
OrF(fs)       == [op |-> "or", args |-> fs]
ParentF(f)    == [op |-> "parent", arg |-> f]
HasF(ext, s)  == [op |-> "contains", ext |-> ext, shape |-> s, ci |-> FALSE]
ExistsF(ext, b) == [op |-> "atom", want |-> b, pred |-> [kind |-> "exists", ext |-> ext]]
AnyCaseF(ext, s) == [HasF(ext, s) EXCEPT !.ci = TRUE]
SideF(s)      == Atom([kind |-> "side", val |-> s])
PrefixF(x)    == Atom([kind |-> "prefix", val |-> x])
NoParentF     == [op |-> "atom", want |-> FALSE, pred |-> [kind |-> "hasParent"]]
KeysF(ks)     == Atom([kind |-> "hasKeyPrefix", keys |-> ks])
EmptyF        == Atom([kind |-> "tagsEmpty"])

Pool ==
    {EqF(Raw("hw"), "a"),
     NotF(InF(Raw("hw"), {"a", "b"})),
     AndF({EqF(Norm("hw"), "a"), NotF(EqF(Raw("hw"), "a"))}),
     OrF({AndF({EqF(Raw("sg"), "b"), ExistsF(Raw("hw"), FALSE)}), HasF(Raw("hw"), "s")}),
     InF(First, {"a", "Ab"}),
     AndF({SideF("left"), NotF(ParentF(EqF(Raw("hw"), "a")))}),
     OrF({PrefixF("cw"), AndF({NoParentF, KeysF({"sg"})})})}

\* The conditions whose lowering means something else, and some that stand between them.
Odd ==
    {AnyCaseF(Raw("hw"), "t"),
     ParentF(NotF(EqF(Raw("hw"), "a"))),
     ParentF(OrF({KeysF({"sg"}), AnyCaseF(Raw("hw"), "t")})),
     ParentF(AndF({ExistsF(Raw("hw"), TRUE), EmptyF})),
     EqF(Raw("sg"), "b"),
     SideF("left")}

OddRuleLists == [1..2 -> Odd]

MCRuleLists ==
    [1..3 -> Pool] \cup OddRuleLists
    \cup {<<EmptyF, PrefixF("cw"), NotF(PrefixF("cw")), EqF(Raw("sg"), "a"), SideF("self")>>}

\* Cycles of two and of three, a category that excludes itself, a name that
\* is neither a category nor a macro.
MCFiles ==
    {[excludes |-> [c \in {"A", "B", "C"} |-> CASE c = "A" -> a [] c = "B" -> b [] OTHER -> c3],
      macros   |-> {"M"}] :
        a \in SUBSET {"B", "C", "M"}, b \in SUBSET {"C", "M"}, c3 \in SUBSET {"A", "B"}}
    \cup {[excludes |-> [c \in {"A"} |-> x], macros |-> {"M"}] : x \in {{"A", "M"}, {"X"}}}
    \cup {[excludes |-> [c \in {"A", "D"} |-> IF c = "D" THEN {"A"} ELSE {}], macros |-> {}]}

NoFiles == {}

MCCondition ==
    [n \in {"A", "B", "C", "D", "M", "X"} |->
        CASE n = "A" -> EqF(Raw("hw"), "a")
          [] n = "B" -> OrF({EqF(Raw("sg"), "b"), HasF(Raw("hw"), "s")})
          [] n = "C" -> AndF({SideF("left"), NotF(ParentF(EqF(Raw("hw"), "a")))})
          [] n = "D" -> AnyCaseF(Raw("hw"), "t")
          [] n = "M" -> AndF({NoParentF, ExistsF(Raw("sg"), FALSE), NotF(EqF(Raw("hw"), "b"))})
          [] OTHER   -> EmptyF]

\* What the members of new consist of, are negated to and are folded to by a fact, and so on.
RECURSIVE Closed(_, _, _, _)
Closed(old, new, negated, facts) ==
    LET S    == old \cup new
        more == UNION {Parts(e) \cup {Simplify(e, f) : f \in facts} : e \in new}
                  \cup IF negated THEN UNION {{ToNNF(e), ToNNF(Not(e))} : e \in new} ELSE {}
    IN  IF more \subseteq S THEN S ELSE Closed(S, more \ S, negated, facts)

RECURSIVE DepthOf(_)
DepthOf(e) == IF Parts(e) = {} THEN 0 ELSE 1 + Max({DepthOf(x) : x \in Parts(e)})

\* All that the lists of the instance are compiled from and to.
MCLang ==
    LET filters   == Closed({}, UNION {Range(c[1]) : c \in RuleListsCompiled}, FALSE, {})
        inherited == Closed({}, {f.arg : f \in {g \in filters : g.op = "parent"}}, FALSE, {})
        lowered   == Closed({}, {FilterToExpr(f) : f \in filters}
                                  \cup {Scoped(FilterToExpr(f)) : f \in inherited}, TRUE, {})
        start     == Closed({}, {TrueE, FalseE} \cup {ToNNF(e) : e \in lowered}
                                  \cup UNION {{d.residual : d \in InitialCandidates(c[1], c[2])} :
                                                c \in RuleListsCompiled}, FALSE, {})
        normal    == Closed({}, start, FALSE, FactsOver(start))
    IN  [filters |-> filters, inherited |-> inherited, lowered |-> lowered, normal |-> normal,
         depth   |-> [e \in filters \cup lowered \cup normal |-> DepthOf(e)]]
=============================================================================

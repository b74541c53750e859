SPECIFICATION Spec
CONSTANTS
  Sanitize <- MCSanitize
  Shape <- MCShape
  ShapeFolded <- MCShapeFolded
  Eval <- MCEval
  Scoped <- MCScoped
  FilterToExpr <- MCFilterToExpr
  ToNNF <- MCToNNF
  EvalExpr <- MCEvalExpr
  Kleene <- MCKleene
  Simplify <- MCSimplify
  Conjuncts <- MCConjuncts
  Literals <- MCLiterals
  Plain <- MCPlain
  Objects <- MCObjects
  Lang <- MCLang
  MaxDepth = 2
  LeafMax = 1
  LookaheadMin = 2
  MatchTreeMin = 1
  Files <- NoFiles
  RuleLists <- OddRuleLists
  Condition <- MCCondition
INVARIANT TreeMatchesLinear
CHECK_DEADLOCK FALSE

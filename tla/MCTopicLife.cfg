SPECIFICATION TopicsSpec
CONSTANTS
  Name <- MCName
  Tables <- MCTables
  Confs <- MCConfs
  BuiltIns <- MCBuiltIns
  Sanitize <- MCSanitize
  Shape <- MCShape
  ShapeFolded <- MCShapeFolded
  Eval <- MCEval
  Scoped <- MCScoped
  FilterToExpr <- MCFilterToExpr
  ToNNF <- MCToNNF
  EvalExpr <- MCEvalExpr
  Kleene <- MCKleene
  Simplify <- MCSimplify
  Conjuncts <- MCConjuncts
  Literals <- MCLiterals
  Plain <- MCPlain
  Objects <- MCObjects
  Lang <- MCLang
  MaxDepth = 2
  LeafMax = 1
  LookaheadMin = 2
  MatchTreeMin = 1
  Files <- MCFiles
  RuleLists <- MCRuleLists
  Condition <- MCCondition
  Holds <- MCHolds
  Produce <- MCProduce
  Category <- MCCategory
  Words <- MCWords
  Topics <- MCTopics
  Inputs <- MCInputs
INVARIANTS
  RefusedIffBroken
  DocumentsMeanWhatTheySay
  RefusedIffFaulty
  EachCategoryItsFields
  NetFollowsLowering
  FoldsAreSound
  WinnersComeFirst
  RefusedIffContradictory
  WinnerIsUnbeaten
  OnlyKnownClashes
  ProbeIsSound
  MostSpecificWins
  InheritedFromItsRelations

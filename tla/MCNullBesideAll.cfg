SPECIFICATION LoadSpec
CONSTANTS
  Name <- MCName
  Tables <- MCTables
  Confs <- MCConfs
  BuiltIns <- MCBuiltIns
INVARIANT NullBesideAllIsRefused

SPECIFICATION FairSpec
CONSTANTS
  Tags <- MCTags
  NodeGeom <- MCNone
  WayGeom <- MCNone
  RelGeom <- MCRelGeom
  GraphTopics <- MCGraph
  Ids <- MCIds
  Costed <- MCCosted
  K = 2
  ChanCap = 1
  MaxRuns = 2
INVARIANTS
  OnlyThisRun
  EdgeTablesAreCurrent
  IndexesFollowTheRows
  ConnectionForEveryWriter
PROPERTIES
  RunEnds

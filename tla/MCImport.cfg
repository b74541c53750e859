SPECIFICATION ImportSpec
CONSTANTS
  Files <- MCFiles
  Modes <- MCModes
  RelationGeom = {3}
  NodeGraph = {1}
  Chunk = 2
  Id <- MCId
  Loads <- MCLoads
  Width = 4
  Group = 2
  OffsetWidth = 5
  WayId = {1, 2, 3, 4}
  WayLists <- MCWayLists
  Relations <- MCRelations
  Contexts <- MCContexts
  WayGeom <- MCWayGeom
  RelationShape <- MCRelationShape
INVARIANTS
  RowsOnce
  ContextIsReference
  FileOrder
  LookupsAreExact
  PanicsIffDuplicate
  LinesAreReadBack
  ArenasAreReadBack
  EdgesTileWays
  NodesMatchEdges
  CutPointsAreNumbered
  MeetAtVertices
  GeometryFollowsTags
  RelationLinesAreMembers

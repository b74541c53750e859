SPECIFICATION MaterializeSpec
CONSTANTS
  Contexts <- ClippedContexts
  WayGeom <- MCWayGeom
  RelationShape <- MCRelationShape
INVARIANT
  CutPointsAreNumbered

SPECIFICATION RowsSpec
CONSTANTS
  Holds <- MCHolds
  Produce <- MCProduce
  Category <- MCCategory
  Words <- MCWords
  Topics <- FannedOut
  Inputs <- RoundTrips
INVARIANT RowIdsAreUnique

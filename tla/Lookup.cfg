SPECIFICATION LookupSpec
CONSTANTS
  Grids <- TwoGrids
  Size <- TwoSizes
  Val <- TwoVals
  Points <- AllPoints
  Wild = Wild
INVARIANTS
  InsideExact
  Neighbours

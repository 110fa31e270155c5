SPECIFICATION FairSpec
CONSTANTS
  N = 5
  Small = 4
  Share = 2
  MinStack = 2
  Keys <- Doubles
  Float <- Rounded
  Protocol = "yes"
INVARIANTS
  KeysFollow
  RangeSorted
  StaysInside
PROPERTIES
  SortEnds

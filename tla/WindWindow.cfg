SPECIFICATION FairSpec
CONSTANTS
  Times <- SomeTimes
  Sizes <- SomeSizes
  Files <- SomeFiles
  Float <- SomeFloats
  Clock <- Seconds
  Starts <- RunStarts
  Ends <- RunEnds
INVARIANTS
  Window
  Covers
  RecordsMatch
PROPERTIES
  ReadEnds

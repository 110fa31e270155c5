SPECIFICATION PlanesSpec
CONSTANTS
  ashN = 2
  Records = 2
  Stashes <- SomeStashes
  GridBoxes <- SomeBoxes
  NoBox = NoBox
  Decimal = 3
  Size1 = 10
  Size2 = 6
  AsGiven = FALSE
  Repeat = 1
  Circle = 36
  Near = 9
  Far = 36
  PlanesFiles <- SomePlanes
  Spacing = 5
INVARIANTS
  CellsRight
  OnlyEdgeLost
  AveragesAlign
  AveragesExact
  ExposureRight

SPECIFICATION MakeSpec
CONSTANTS
  Outlines <- SomeOutlines
  Elevations <- SomeElevations
  Far = 2
  Counts = {1, 3, 4, 10}
  MaxCloud = 4
  NFile = 2
  Classes <- SomeClasses
INVARIANTS
  SameSide
  CrossingsFound
  EachItsOwn
  SharesRight
CHECK_DEADLOCK FALSE

SPECIFICATION Spec
CONSTANTS
  ntiles = 3
  Header <- ThreeTiles
  Readable = {0, 1, 2}
  Types = {"GTOPO30", "DTED0", "NED"}
  Factors = {1, 2, 4}
  Lats <- SomeLats
  Lons <- SomeLons
  Circle = 24
  Pole = 6
INVARIANTS
  TileHolds
  ListedOnce
  Interpolated

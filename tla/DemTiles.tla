------------------------------ MODULE DemTiles ------------------------------
(***************************************************************************)
(* Class Dem: the elevation of the terrain under a particle.  elevation()  *)
(* is called for particles in any order; tileNumber() keeps the last tile  *)
(* in a static variable and the tiles met in an array, readTile() loads a  *)
(* tile the first time it is used, and the number of columns and rows are  *)
(* static constants of elevation(), set by the first tile it uses.         *)
(*                                                                         *)
(* Longitudes and latitudes are integers in a unit of which a step of the  *)
(* data is a multiple.  A call is one step; what it computes up to the     *)
(* interpolation itself (which data, with which weights) is kept in ans.   *)
(* The conversion from projected coordinates is left out.                  *)
(*                                                                         *)
(* The search leaves its loop by i = ntiles, and if the tile found goes    *)
(* over the meridian it still tests tile[i].  What is read there has no    *)
(* say: the test ends in maxLon > lon+360, with maxLon of the tile found,  *)
(* and that is false since lon > minLon and no tile is wider than 360.     *)
(*                                                                         *)
(* A definition named after another with a suffix is a plausible mistake   *)
(* in that operation, there to show which property notices it.             *)
(***************************************************************************)
EXTENDS Integers, Sequences

CONSTANTS
  ntiles,     \* tiles known by name
  Header,     \* what the headers say, for the tiles that have one; in the
              \* formats that list the data files themselves, each has one
  Readable,   \* the tiles whose data can be opened
  Types,      \* kinds of terrain models: "GTOPO30", "DTED0", "NED"
  Factors,    \* 2 to the power of argument.dem_lvl
  Lats, Lons, \* where particles are
  Circle, Pole

Index == 0 .. ntiles - 1

ASSUME DemAssumption ==
  /\ ntiles \in Nat \ {0}
  /\ DOMAIN Header \subseteq Index /\ Readable \subseteq Index
  /\ Header \in [DOMAIN Header -> [west : Int, corner : Int, nrows : Nat \ {0},
                                   ncols : Nat \ {0}, d : Nat \ {0}]]
  /\ Types \subseteq {"GTOPO30", "DTED0", "NED"}
  /\ Factors \subseteq Nat \ {0}
  /\ Lats \subseteq Int /\ Lons \subseteq Int
  /\ Circle \in Nat \ {0} /\ Pole \in Nat
  /\ \A t \in DOMAIN Header : Header[t].ncols * Header[t].d <= Circle

VARIABLES
  pc,           \* "setup", "ready", or how it ended
  type, factor, \* Dem::type, resolution_factor
  exists, loaded,   \* the tiles with these flags
  idx,          \* the static variable of tileNumber
  tileArray,    \* the tiles met, for DTED0 and NED
  xsize, ysize, \* the static constants of elevation, 0 before the first use
  lat, lon, ans \* the last call, at no latitude before the first

vars == <<pc, type, factor, exists, loaded, idx, tileArray, xsize, ysize, lat,
          lon, ans>>

-----------------------------------------------------------------------------
(* The tiles.                                                              *)

\* readGtopo30Header: longitudes are made positive; the corner is the north.
FromGtopo30(h) == [minLon |-> h.west % Circle, maxLat |-> h.corner]

\* readDted0Header: the corner is the south, minLat.
FromDted0(h) == [minLon |-> h.west % Circle,
                 maxLat |-> h.corner + (h.nrows - 1) * h.d]

\* readNedHeader, too, once the cell size is known.
FromNed(h) == [minLon |-> h.west % Circle,
               maxLat |-> h.corner + (h.nrows - 1) * h.d]

Origin(t) == CASE type = "GTOPO30" -> FromGtopo30(Header[t])
               [] type = "DTED0" -> FromDted0(Header[t])
               [] type = "NED" -> FromNed(Header[t])

minLon(t) == Origin(t).minLon
maxLat(t) == Origin(t).maxLat

\* Sizes and steps after setResolution.
nrows(t) == Header[t].nrows \div factor
ncols(t) == Header[t].ncols \div factor
d(t)     == Header[t].d * factor

maxLon(t) == minLon(t) + ncols(t) * d(t)
minLat(t) == maxLat(t) - nrows(t) * d(t)

Holds(t, y, x) == /\ minLat(t) < y /\ y < maxLat(t)
                  /\ minLon(t) < x /\ x < maxLon(t)

OverMeridian(t) == maxLon(t) >= Circle

\* At the meridian a tile goes on beyond 360 degrees.
HoldsShifted(t, y, x) ==
  Holds(t, y, x) \/ (OverMeridian(t) /\ Holds(t, y, x + Circle))

-----------------------------------------------------------------------------
(* tileNumber.                                                             *)

None == -1

\* The least element of a set of numbers, None of the empty set.
LeastOf(S) ==
  IF S = {} THEN None ELSE CHOOSE m \in S : \A n \in S : m <= n

\* The brute force method.
Search(y, x) == LeastOf({t \in exists : HoldsShifted(t, y, x)})

Lists == type \in {"DTED0", "NED"}

LastStillAny(y, x) == idx # None

LastStill(y, x) == idx # None /\ Holds(idx, y, x)

ListedForget(y, x) == {}

\* Where in tileArray is a tile that holds the point?
Listed(y, x) ==
  IF Lists THEN {p \in 1 .. Len(tileArray) : Holds(tileArray[p], y, x)} ELSE {}

tileNumber(y, x) ==
  IF LastStill(y, x) THEN idx
  ELSE IF Listed(y, x) # {} THEN tileArray[LeastOf(Listed(y, x))]
  ELSE Search(y, x)

\* Only what the search finds is added to tileArray.
Adds(y, x) == /\ Lists /\ ~LastStill(y, x) /\ Listed(y, x) = {}
              /\ Search(y, x) # None

-----------------------------------------------------------------------------
(* elevation, for a tile that was found.                                   *)

\* "while (lon < 0) lon += 360; while (lon > 360) lon -= 360".
Wrapped(x) == IF x < 0 THEN x % Circle
              ELSE IF x > Circle THEN ((x - 1) % Circle) + 1 ELSE x

ColumnFlat(t, x) == (x - minLon(t)) \div d(t)

\* The index to the right; a tile over the meridian starts below 360.
Column(t, x) == LET i == (x - minLon(t)) \div d(t)
                IN  IF i < 0 THEN (x + Circle - minLon(t)) \div d(t) ELSE i

\* The index down, rounded up.
Row(t, y) == -((y - maxLat(t)) \div d(t))

\* "no data on the tile's border!"
Inward(k, last) == IF k = last THEN k - 1 ELSE k

\* The data of the four corners, from the lower left one counterclockwise.
Corners(i, j, xs, ys) ==
  IF type = "DTED0"
  THEN <<(ys - j) * xs + i, (ys - j) * xs + i + 1,
         (ys - j + 1) * xs + i + 1, (ys - j + 1) * xs + i>>
  ELSE <<j * xs + i, j * xs + i + 1, (j - 1) * xs + i + 1, (j - 1) * xs + i>>

\* The weights, times the step.
WeightX(t, i, x) ==
  LET w == x - (i * d(t) + minLon(t))
  IN  IF w < 0 \/ w > d(t) THEN w + Circle ELSE w

WeightY(t, j, y) == j * d(t) - (maxLat(t) - y)

\* What the caller gets without any data: 0 or an error.
NoData == [tile |-> None, e |-> <<>>, t |-> 0, u |-> 0]

\* What elevation() computes with tile t when its sizes are xs and ys.
Answer(t, y, x, xs, ys) ==
  IF Column(t, x) > xs \/ Row(t, y) > ys THEN [NoData EXCEPT !.tile = t]
  ELSE LET inward == type # "DTED0"
           i == IF inward THEN Inward(Column(t, x), xs - 1) ELSE Column(t, x)
           j == IF inward THEN Inward(Row(t, y), ys) ELSE Row(t, y)
       IN  [tile |-> t, e |-> Corners(i, j, xs, ys),
            t |-> WeightX(t, i, x), u |-> WeightY(t, j, y)]

\* readTile leaves data behind, and GTOPO30 and DTED0 skip what a lower
\* resolution does not need; NED does not, so that the file is not read to
\* its end, which is fatal.
Unread(t) == type = "NED" /\ factor # 1

-----------------------------------------------------------------------------
Init ==
  /\ pc = "setup" /\ type \in Types /\ factor = 1
  /\ exists = DOMAIN Header /\ loaded = {}
  /\ idx = None /\ tileArray = <<>> /\ xsize = 0 /\ ysize = 0
  /\ lat = Pole + 1 /\ lon = 0 /\ ans = NoData

\* setResolution; DTED0 "only runs at full resolution".
SetResolution(f) ==
  /\ pc = "setup"
  /\ LET fac == IF type = "DTED0" THEN 1 ELSE f
     IN  IF \A t \in exists : Header[t].nrows % fac = 0 /\ Header[t].ncols % fac = 0
         THEN pc' = "ready" /\ factor' = fac
         ELSE pc' = "failed" /\ UNCHANGED factor
  /\ UNCHANGED <<type, exists, loaded, idx, tileArray, xsize, ysize, lat,
                 lon, ans>>

NoRoomNever == FALSE

\* The array is allocated for ntiles entries.
NoRoom == Len(tileArray) >= ntiles

\* A latitude that is none, or a point on no tile: the elevation is 0.
NoTile(y, x) ==
  /\ pc = "ready" /\ lat' = y /\ lon' = Wrapped(x) /\ ans' = NoData
  /\ IF y \in -Pole .. Pole
     THEN tileNumber(y, lon') = None /\ idx' = None
     ELSE UNCHANGED idx
  /\ UNCHANGED <<pc, type, factor, exists, loaded, tileArray, xsize, ysize>>

\* A point on a tile.
OnTile(y, x) ==
  /\ pc = "ready" /\ y \in -Pole .. Pole
  /\ lat' = y /\ lon' = Wrapped(x)
  /\ LET t == tileNumber(y, lon')
     IN  /\ t # None /\ idx' = t
         /\ ~(Adds(y, lon') /\ NoRoom)
         /\ tileArray' = IF Adds(y, lon') THEN Append(tileArray, t) ELSE tileArray
         /\ xsize' = IF xsize = 0 THEN ncols(t) ELSE xsize
         /\ ysize' = IF ysize = 0 THEN nrows(t) ELSE ysize
         /\ ans' = Answer(t, y, lon', xsize', ysize')
         /\ IF t \in loaded \/ t \notin exists
            THEN UNCHANGED <<pc, exists, loaded>>
            ELSE IF t \notin Readable
            THEN exists' = exists \ {t} /\ UNCHANGED <<pc, loaded>>
            ELSE IF Unread(t)
            THEN pc' = "exit" /\ UNCHANGED <<exists, loaded>>
            ELSE loaded' = loaded \cup {t} /\ UNCHANGED <<pc, exists>>
  /\ UNCHANGED <<type, factor>>

\* The array of tiles met is full, and one more is written behind it.
Overrun(y, x) ==
  /\ pc = "ready" /\ y \in -Pole .. Pole
  /\ Adds(y, Wrapped(x)) /\ NoRoom
  /\ pc' = "overrun"
  /\ UNCHANGED <<type, factor, exists, loaded, idx, tileArray, xsize, ysize,
                 lat, lon, ans>>

Returned == pc \in {"failed", "overrun", "exit"} /\ UNCHANGED vars

Next ==
  \/ \E f \in Factors : SetResolution(f)
  \/ \E y \in Lats, x \in Lons : NoTile(y, x) \/ OnTile(y, x) \/ Overrun(y, x)
  \/ Returned

Spec == Init /\ [][Next]_vars

-----------------------------------------------------------------------------
(* Properties.                                                             *)

\* Types; tileArray stays within the ntiles entries allocated for it, and every
\* tile remembered is one that has a header.
TypeOK ==
  /\ pc \in {"setup", "ready", "failed", "overrun", "exit"}
  /\ type \in Types /\ factor \in Factors \cup {1}
  /\ exists \subseteq DOMAIN Header /\ loaded \subseteq exists \cap Readable
  /\ idx \in DOMAIN Header \cup {None}
  /\ tileArray \in Seq(DOMAIN Header) /\ Len(tileArray) <= ntiles
  /\ xsize \in Nat /\ ysize \in Nat
  /\ lat \in Int /\ lon \in 0 .. Circle
  /\ ans.tile \in DOMAIN Header \cup {None}

\* Whatever was asked before, through the static index, the array or the search:
\* the tile found holds the point, if need be beyond the meridian, and if none is
\* found then no tile that exists holds it.
TileHolds ==
  pc = "ready" =>
    /\ ans.tile # None => HoldsShifted(ans.tile, lat, lon)
    /\ ans.tile = None /\ lat \in -Pole .. Pole =>
         \A t \in exists : ~HoldsShifted(t, lat, lon)

\* tileArray gets a tile twice, and overflows, only by tiles over the meridian:
\* they are not recognised in it beyond 360 degrees, so that each such point adds
\* them again.
ListedOnce ==
  /\ \A p, q \in 1 .. Len(tileArray) :
       p < q /\ tileArray[p] = tileArray[q] => OverMeridian(tileArray[p])
  /\ pc = "overrun" => \E t \in DOMAIN Header : OverMeridian(t)

\* What the source says of the order of the data.  readTile() takes those of
\* DTED0 by columns, elevation() by rows; those of NED begin in the northwest for
\* elevation() and in the southwest for readTile().
Orders == CASE type = "GTOPO30" -> {"rowsFromNorth"}
            [] type = "DTED0"   -> {"columnsFromSouth"}
            [] type = "NED"     -> {"rowsFromNorth", "rowsFromSouth"}

\* The place of a datum in its tile, counted from the northwest.
DatumAt(t, k, order) ==
  CASE order = "rowsFromNorth" ->
         [east |-> k % ncols(t), south |-> k \div ncols(t)]
    [] order = "rowsFromSouth" ->
         [east |-> k % ncols(t), south |-> nrows(t) - 1 - (k \div ncols(t))]
    [] order = "columnsFromSouth" ->
         [east |-> k \div nrows(t), south |-> nrows(t) - 1 - (k % nrows(t))]

NextTo(p, q) ==
  \/ p.east = q.east /\ p.south - q.south \in {-1, 1}
  \/ p.south = q.south /\ p.east - q.east \in {-1, 1}

\* The data used are the corners of a cell of the tile, and the weights those of
\* a point in it, so far to the east and south of the tile's first datum.
TakenAt(t, order, east, south) ==
  /\ Len(ans.e) = 4 /\ \A n \in 1 .. 4 : ans.e[n] \in 0 .. ncols(t) * nrows(t) - 1
  /\ ans.t \in 0 .. d(t) /\ ans.u \in 0 .. d(t)
  /\ LET p == [n \in 1 .. 4 |-> DatumAt(t, ans.e[n], order)]
     IN  /\ NextTo(p[1], p[2]) /\ NextTo(p[1], p[4]) /\ p[3] # p[1]
         /\ p[3].east = p[2].east + p[4].east - p[1].east
         /\ p[3].south = p[2].south + p[4].south - p[1].south
         /\ east = d(t) * p[1].east + ans.t * (p[2].east - p[1].east)
                                    + ans.u * (p[4].east - p[1].east)
         /\ south = d(t) * p[1].south + ans.t * (p[2].south - p[1].south)
                                      + ans.u * (p[4].south - p[1].south)

\* The places that are not treated alike: a tile's last column and row; in DTED0
\* the first row, and tiles that are not square.  A tile with more columns or
\* fewer than the first that was used is indexed by those of the first; one with
\* more rows is cut off.
Regular(t) ==
  /\ xsize = ncols(t) /\ Column(t, lon) < ncols(t) - 1
  /\ IF type = "DTED0" THEN ysize = nrows(t) /\ xsize = ysize /\ Row(t, lat) > 1
     ELSE Row(t, lat) < ysize /\ Row(t, lat) < nrows(t)

\* In these places the elevation is interpolated between the four data around the
\* point, with the weights of its place, on either side of the meridian, except
\* where elevation() takes the data in another order than the file has them: then
\* it is that of a mirror image, in DTED0 one step off.  On a tile of the size of
\* the first one used no point is refused.  (Dem::elevation)
Interpolated ==
  pc = "ready" /\ ans.tile # None =>
    LET t     == ans.tile
        south == maxLat(t) - lat
        depth == (nrows(t) - 1) * d(t)
    IN  /\ xsize = ncols(t) /\ ysize = nrows(t) => Len(ans.e) = 4
        /\ Regular(t) =>
             \A order \in Orders :
             \E east \in {lon - minLon(t), lon + Circle - minLon(t)} :
               \/ TakenAt(t, order, east, south)
               \/ order = "rowsFromSouth" /\ TakenAt(t, order, east, depth - south)
               \/ /\ order = "columnsFromSouth"
                  /\ TakenAt(t, order, ncols(t) * d(t) - south, depth - east)
=============================================================================

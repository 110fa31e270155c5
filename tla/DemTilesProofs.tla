------------------------- MODULE DemTilesProofs --------------------------
(***************************************************************************)
(* Theorems about DemTiles, for any tiles, places and resolutions: which   *)
(* tile is found, which of its cells is interpolated in, and when the      *)
(* array of the tiles met is too short.                                    *)
(***************************************************************************)
EXTENDS DemTiles, FiniteSetTheorems, WellFoundedInduction, TLAPS

LEMMA LeastExists ==
  ASSUME NEW S, S \subseteq Nat, S # {}
  PROVE  LeastOf(S) \in S
<1>1. PICK m \in S : \A n \in S : ~(<<n, m>> \in OpToRel(<, Nat))
  BY WFMin, NatLessThanWellFounded, Zenon
<1>2. \A n \in S : ~(n < m)
  BY <1>1 DEF OpToRel
<1>3. \A n \in S : m <= n
  BY <1>2
<1>. QED  BY <1>3 DEF LeastOf

LEMMA WrappedType == ASSUME NEW x \in Int PROVE Wrapped(x) \in 0 .. Circle
<1>1. Circle \in Nat /\ Circle > 0
  BY DemAssumption
<1>2. x % Circle \in 0 .. Circle - 1
  BY <1>1
<1>3. (x - 1) % Circle \in 0 .. Circle - 1
  BY <1>1
<1>. QED  BY <1>1, <1>2, <1>3 DEF Wrapped

\* A tile that is found is one with a header, and holds the point; if none is
\* found, none that exists holds it.
LEMMA Found ==
  ASSUME TypeOK, NEW y \in Int, NEW x \in Int, NEW t, t = tileNumber(y, x)
  PROVE  /\ t \in DOMAIN Header \cup {None}
         /\ t # None => HoldsShifted(t, y, x)
         /\ t = None => \A u \in exists : ~HoldsShifted(u, y, x)
         /\ Adds(y, x) => t = Search(y, x)
<1>. DEFINE S == {u \in exists : HoldsShifted(u, y, x)}
<1>1. DOMAIN Header \subseteq Nat /\ S \subseteq DOMAIN Header
  <2>1. DOMAIN Header \subseteq Nat
    BY DemAssumption DEF Index
  <2>2. exists \subseteq DOMAIN Header
    BY DEF TypeOK
  <2>. QED  BY <2>1, <2>2
<1>2. Search(y, x) = None => S = {}
  BY <1>1, LeastExists DEF Search, None
<1>3. Search(y, x) # None => Search(y, x) \in S
  BY <1>1, LeastExists DEF Search, LeastOf
<1>4. ASSUME Listed(y, x) # {}
      PROVE  /\ LeastOf(Listed(y, x)) \in 1 .. Len(tileArray)
             /\ Holds(tileArray[LeastOf(Listed(y, x))], y, x)
  <2>1. Listed(y, x) \subseteq {p \in 1 .. Len(tileArray) : Holds(tileArray[p], y, x)}
    BY DEF Listed
  <2>2. Listed(y, x) \subseteq Nat
    BY <2>1 DEF TypeOK
  <2>. QED  BY <2>1, <2>2, <1>4, LeastExists
<1>5. CASE LastStill(y, x)
  BY <1>5, <1>1 DEF tileNumber, LastStill, Adds, HoldsShifted, TypeOK
<1>6. CASE ~LastStill(y, x) /\ Listed(y, x) # {}
  <2>1. t = tileArray[LeastOf(Listed(y, x))] /\ ~Adds(y, x)
    BY <1>6 DEF tileNumber, Adds
  <2>2. t \in DOMAIN Header
    BY <2>1, <1>4, <1>6 DEF TypeOK
  <2>3. t # None
    BY <2>2, <1>1 DEF None
  <2>. QED  BY <2>1, <2>2, <2>3, <1>4, <1>6 DEF HoldsShifted
<1>7. CASE ~LastStill(y, x) /\ Listed(y, x) = {}
  <2>1. t = Search(y, x)
    BY <1>7 DEF tileNumber
  <2>. QED  BY <2>1, <1>1, <1>2, <1>3
<1>. QED  BY <1>5, <1>6, <1>7

\* What is added to the array is a tile over the meridian, or is not yet in it.
LEMMA New ==
  ASSUME TypeOK, NEW y \in Int, NEW x \in Int, Adds(y, x)
  PROVE  /\ Search(y, x) \in DOMAIN Header /\ Search(y, x) \in exists
         /\ OverMeridian(Search(y, x)) \/
              \A p \in 1 .. Len(tileArray) : tileArray[p] # Search(y, x)
<1>1. {u \in exists : HoldsShifted(u, y, x)} \subseteq Nat
  BY DemAssumption DEF TypeOK, Index
<1>2. Search(y, x) \in {u \in exists : HoldsShifted(u, y, x)}
  BY <1>1, LeastExists DEF Adds, Search, LeastOf
<1>3. \A p \in 1 .. Len(tileArray) : ~Holds(tileArray[p], y, x)
  BY DEF Adds, Listed
<1>. QED  BY <1>2, <1>3 DEF HoldsShifted, TypeOK

-----------------------------------------------------------------------------
(* The invariant: before the resolution is set nothing has been asked.     *)

Fresh == pc = "setup" => ans.tile = None /\ lat \notin -Pole .. Pole /\ tileArray = <<>>

Inv == TypeOK /\ Fresh /\ TileHolds /\ ListedOnce

LEMMA InitInv == Init => Inv
<1>. SUFFICES ASSUME Init PROVE Inv
  OBVIOUS
<1>1. Pole \in Nat /\ Circle \in Nat
  BY DemAssumption
<1>2. TypeOK
  <2>1. tileArray \in Seq(DOMAIN Header) /\ Len(tileArray) = 0
    BY DEF Init
  <2>. QED  BY <1>1, <2>1, DemAssumption DEF Init, TypeOK, NoData, None
<1>3. Fresh
  BY <1>1 DEF Init, Fresh, NoData
<1>4. TileHolds /\ ListedOnce
  BY DEF Init, TileHolds, ListedOnce
<1>. QED  BY <1>2, <1>3, <1>4 DEF Inv

LEMMA ResolutionInv ==
  ASSUME Inv, NEW f \in Factors, SetResolution(f)
  PROVE  Inv'
<1>1. TypeOK'
  BY DEF Inv, TypeOK, SetResolution
<1>2. Fresh'
  BY DEF SetResolution, Fresh
<1>3. TileHolds'
  BY DEF Inv, Fresh, TileHolds, SetResolution
<1>4. ListedOnce'
  <2>1. tileArray' = <<>> /\ pc' # "overrun"
    BY DEF Inv, Fresh, SetResolution
  <2>. QED  BY <2>1 DEF ListedOnce
<1>. QED  BY <1>1, <1>2, <1>3, <1>4 DEF Inv

\* Tiles stay where they are while points are asked for.
LEMMA SamePlaces ==
  ASSUME type' = type, factor' = factor
  PROVE  /\ TileHolds' <=>
              (pc' = "ready" =>
                 /\ ans'.tile # None => HoldsShifted(ans'.tile, lat', lon')
                 /\ ans'.tile = None /\ lat' \in -Pole .. Pole =>
                      \A t \in exists' : ~HoldsShifted(t, lat', lon'))
         /\ \A t : OverMeridian(t)' <=> OverMeridian(t)
<1>1. \A t : OverMeridian(t)' <=> OverMeridian(t)
  BY DEF OverMeridian, maxLon, minLon, Origin, FromGtopo30, FromDted0, FromNed, ncols, d
<1>2. /\ \A t : Origin(t)' = Origin(t)
      /\ \A t : nrows(t)' = nrows(t) /\ ncols(t)' = ncols(t) /\ d(t)' = d(t)
  BY DEF Origin, FromGtopo30, FromDted0, FromNed, ncols, nrows, d
<1>3. /\ \A t : minLon(t)' = minLon(t) /\ maxLat(t)' = maxLat(t)
      /\ \A t : maxLon(t)' = maxLon(t) /\ minLat(t)' = minLat(t)
  BY <1>2 DEF minLon, maxLat, maxLon, minLat
<1>. QED  BY <1>1, <1>3 DEF TileHolds, HoldsShifted, Holds, OverMeridian

LEMMA NoTileInv ==
  ASSUME Inv, NEW y \in Lats, NEW x \in Lons, NoTile(y, x)
  PROVE  Inv'
<1>1. /\ y \in Int /\ lat' = y /\ lon' = Wrapped(x) /\ lon' \in 0 .. Circle
      /\ lon' \in Int /\ ans'.tile = None /\ pc = "ready" /\ pc' = "ready"
      /\ type' = type /\ factor' = factor /\ exists' = exists
      /\ tileArray' = tileArray /\ idx' \in {idx, None}
  BY DemAssumption, WrappedType DEF NoTile, NoData
<1>2. TypeOK'
  BY <1>1 DEF Inv, TypeOK, NoTile
<1>3. y \in -Pole .. Pole => \A u \in exists : ~HoldsShifted(u, y, lon')
  <2>1. y \in -Pole .. Pole => tileNumber(y, lon') = None
    BY DEF NoTile
  <2>. QED  BY <1>1, <2>1, Found DEF Inv
<1>4. TileHolds'
  BY <1>1, <1>3, SamePlaces DEF TileHolds
<1>5. ListedOnce'
  BY <1>1, SamePlaces DEF Inv, ListedOnce
<1>. QED  BY <1>1, <1>2, <1>4, <1>5 DEF Inv, Fresh

LEMMA OnTileInv ==
  ASSUME Inv, NEW y \in Lats, NEW x \in Lons, OnTile(y, x)
  PROVE  Inv'
<1>. DEFINE t == tileNumber(y, lon')
<1>1. /\ y \in Int /\ lat' = y /\ lon' = Wrapped(x) /\ lon' \in 0 .. Circle
      /\ lon' \in Int /\ pc = "ready" /\ pc' \in {"ready", "exit"}
      /\ type' = type /\ factor' = factor /\ idx' = t /\ t # None
      /\ exists' \subseteq exists
  BY DemAssumption, WrappedType DEF OnTile
<1>2. /\ t \in DOMAIN Header /\ HoldsShifted(t, y, lon')
      /\ Adds(y, lon') => t = Search(y, lon')
  BY <1>1, Found DEF Inv
<1>3. ans'.tile = t
  <2>1. ans' = Answer(t, y, lon', xsize', ysize')
    BY DEF OnTile
  <2>. QED  BY <2>1 DEF Answer, NoData
<1>4. tileArray' = IF Adds(y, lon') THEN Append(tileArray, t) ELSE tileArray
  BY DEF OnTile
<1>5. Adds(y, lon') => Len(tileArray) < ntiles
  BY DemAssumption DEF OnTile, NoRoom, Inv, TypeOK
<1>6. tileArray' \in Seq(DOMAIN Header) /\ Len(tileArray') <= ntiles
  <2>1. tileArray \in Seq(DOMAIN Header) /\ Len(tileArray) <= ntiles /\ ntiles \in Nat
    BY DemAssumption DEF Inv, TypeOK
  <2>2. Adds(y, lon') =>
          /\ Append(tileArray, t) \in Seq(DOMAIN Header)
          /\ Len(Append(tileArray, t)) = Len(tileArray) + 1
    <3>. HIDE DEF t
    <3>. QED  BY <1>2, <2>1
  <2>3. Len(tileArray) \in Nat
    BY <2>1
  <2>. HIDE DEF t
  <2>4. CASE Adds(y, lon')
    <3>1. tileArray' = Append(tileArray, t)
      BY <1>4, <2>4
    <3>. QED  BY <3>1, <1>5, <2>1, <2>2, <2>3, <2>4
  <2>5. CASE ~Adds(y, lon')
    BY <1>4, <2>1, <2>5
  <2>. QED  BY <2>4, <2>5
<1>7. xsize' \in Nat /\ ysize' \in Nat
  <2>1. factor \in Nat /\ factor > 0
    <3>1. factor \in Factors \cup {1}
      BY DEF Inv, TypeOK
    <3>2. Factors \subseteq Nat \ {0}
      BY DemAssumption
    <3>. QED  BY <3>1, <3>2
  <2>2. Header[t].ncols \in Nat /\ Header[t].nrows \in Nat
    BY <1>2, DemAssumption
  <2>3. ncols(t) \in Nat /\ nrows(t) \in Nat
    <3>. HIDE DEF t
    <3>. QED  BY <2>1, <2>2 DEF ncols, nrows
  <2>4. /\ xsize' = IF xsize = 0 THEN ncols(t) ELSE xsize
        /\ ysize' = IF ysize = 0 THEN nrows(t) ELSE ysize
    BY DEF OnTile
  <2>. QED  BY <2>3, <2>4 DEF Inv, TypeOK
<1>8. loaded' \subseteq exists' \cap Readable
  BY DEF OnTile, Inv, TypeOK
<1>9. TypeOK'
  <2>. HIDE DEF t
  <2>. QED  BY <1>1, <1>2, <1>3, <1>6, <1>7, <1>8 DEF Inv, TypeOK
<1>10. TileHolds'
  <2>. HIDE DEF t
  <2>. QED  BY <1>1, <1>2, <1>3, SamePlaces
<1>11. ListedOnce'
  <2>1. pc' # "overrun" /\ \A u : OverMeridian(u)' <=> OverMeridian(u)
    BY <1>1, SamePlaces
  <2>2. CASE ~Adds(y, lon')
    BY <1>4, <2>1, <2>2 DEF Inv, ListedOnce
  <2>3. CASE Adds(y, lon')
    <3>1. OverMeridian(t) \/ \A p \in 1 .. Len(tileArray) : tileArray[p] # t
      BY <1>1, <1>2, <2>3, New DEF Inv
    <3>2. tileArray' = Append(tileArray, t) /\ tileArray \in Seq(DOMAIN Header)
      BY <1>4, <2>3 DEF Inv, TypeOK
    <3>3. /\ Len(tileArray') = Len(tileArray) + 1 /\ Len(tileArray) \in Nat
          /\ tileArray'[Len(tileArray) + 1] = t
          /\ \A p \in 1 .. Len(tileArray) : tileArray'[p] = tileArray[p]
      <4>. HIDE DEF t
      <4>. QED  BY <3>2, <1>2
    <3>4. ASSUME NEW p \in 1 .. Len(tileArray'), NEW q \in 1 .. Len(tileArray'),
                 p < q, tileArray'[p] = tileArray'[q]
          PROVE  OverMeridian(tileArray'[p])
      <4>. HIDE DEF t
      <4>1. p \in 1 .. Len(tileArray)
        BY <3>3, <3>4
      <4>2. CASE q = Len(tileArray) + 1
        BY <3>1, <3>3, <3>4, <4>1, <4>2
      <4>3. CASE q \in 1 .. Len(tileArray)
        BY <3>3, <3>4, <4>1, <4>3 DEF Inv, ListedOnce
      <4>. QED  BY <3>3, <4>2, <4>3
    <3>. QED  BY <2>1, <3>4 DEF ListedOnce
  <2>. QED  BY <2>2, <2>3
<1>. QED  BY <1>1, <1>9, <1>10, <1>11 DEF Inv, Fresh

\* As long as no tile goes over the meridian, the array holds each at most once,
\* so that there is room for one that is not in it.
LEMMA OverrunInv ==
  ASSUME Inv, NEW y \in Lats, NEW x \in Lons, Overrun(y, x)
  PROVE  Inv'
<1>. DEFINE t == Search(y, Wrapped(x))
            n == Len(tileArray)
            f == [p \in 1 .. n + 1 |-> IF p <= n THEN tileArray[p] ELSE t]
<1>1. /\ ntiles \in Nat /\ tileArray \in Seq(DOMAIN Header) /\ n \in Nat
      /\ DOMAIN Header \subseteq 0 .. ntiles - 1
  <2>1. ntiles \in Nat /\ DOMAIN Header \subseteq 0 .. ntiles - 1
    BY DemAssumption DEF Index
  <2>2. tileArray \in Seq(DOMAIN Header)
    BY DEF Inv, TypeOK
  <2>. QED  BY <2>1, <2>2
<1>2. n >= ntiles
  BY DEF Overrun, NoRoom
<1>3. /\ t \in DOMAIN Header
      /\ OverMeridian(t) \/ \A p \in 1 .. n : tileArray[p] # t
  <2>1. y \in Int /\ Wrapped(x) \in Int
    BY DemAssumption, WrappedType
  <2>. QED  BY <2>1, New DEF Overrun, Inv
<1>4. ASSUME \A u \in DOMAIN Header : ~OverMeridian(u) PROVE FALSE
  <2>. HIDE DEF t
  <2>1. f \in [1 .. n + 1 -> 0 .. ntiles - 1]
    BY <1>1, <1>3
  <2>2. /\ IsFiniteSet(1 .. n + 1) /\ Cardinality(1 .. n + 1) = n + 1
        /\ IsFiniteSet(0 .. ntiles - 1) /\ Cardinality(0 .. ntiles - 1) = ntiles
    <3>1. 1 \in Int /\ n + 1 \in Int /\ 0 \in Int /\ ntiles - 1 \in Int
      BY <1>1
    <3>2. /\ IsFiniteSet(1 .. n + 1)
          /\ Cardinality(1 .. n + 1) = IF 1 > n + 1 THEN 0 ELSE (n + 1) - 1 + 1
      BY <3>1, FS_Interval
    <3>3. /\ IsFiniteSet(0 .. ntiles - 1)
          /\ Cardinality(0 .. ntiles - 1) = IF 0 > ntiles - 1 THEN 0 ELSE (ntiles - 1) - 0 + 1
      BY <3>1, FS_Interval
    <3>. QED  BY <1>1, <3>2, <3>3
  <2>3. PICK p, q \in 1 .. n + 1 : p # q /\ f[p] = f[q]
    <3>1. Cardinality(0 .. ntiles - 1) < Cardinality(1 .. n + 1)
      BY <1>1, <1>2, <2>2
    <3>. HIDE DEF f
    <3>. QED  BY <2>1, <2>2, <3>1, FS_PigeonHole
  <2>4. \A i, j \in 1 .. n + 1 : i < j => f[i] # f[j]
    <3>1. SUFFICES ASSUME NEW i \in 1 .. n + 1, NEW j \in 1 .. n + 1, i < j
                   PROVE  f[i] # f[j]
      OBVIOUS
    <3>2. f[i] = tileArray[i] /\ i \in 1 .. n /\ tileArray[i] \in DOMAIN Header
      BY <1>1, <3>1
    <3>3. CASE j = n + 1
      <4>1. f[j] = t
        BY <1>1, <3>3
      <4>. QED  BY <1>3, <1>4, <3>2, <4>1
    <3>4. CASE j \in 1 .. n
      BY <1>1, <1>4, <3>1, <3>2, <3>4 DEF Inv, ListedOnce
    <3>. QED  BY <1>1, <3>3, <3>4
  <2>. QED  BY <1>1, <2>3, <2>4
<1>5. /\ type' = type /\ factor' = factor /\ pc' = "overrun"
      /\ tileArray' = tileArray /\ \A u : OverMeridian(u)' <=> OverMeridian(u)
  BY SamePlaces DEF Overrun
<1>6. TypeOK'
  BY DEF Inv, TypeOK, Overrun
<1>7. TileHolds' /\ ListedOnce'
  BY <1>4, <1>5 DEF Inv, TileHolds, ListedOnce
<1>. QED  BY <1>5, <1>6, <1>7 DEF Inv, Fresh

LEMMA NextInv == Inv /\ [Next]_vars => Inv'
<1>. SUFFICES ASSUME Inv, [Next]_vars PROVE Inv'
  OBVIOUS
<1>1. ASSUME UNCHANGED vars PROVE Inv'
  <2>1. TypeOK' /\ Fresh'
    BY <1>1 DEF Inv, TypeOK, Fresh, vars
  <2>2. TileHolds' /\ ListedOnce'
    BY <1>1, SamePlaces DEF Inv, TileHolds, ListedOnce, vars
  <2>. QED  BY <2>1, <2>2 DEF Inv
<1>. QED  BY <1>1, ResolutionInv, NoTileInv, OnTileInv, OverrunInv DEF Next, Returned

LEMMA InvHolds == Spec => []Inv
BY InitInv, NextInv, PTL DEF Spec

-----------------------------------------------------------------------------
\* Nothing is written behind the array of the tiles met, and no index is
\* remembered but that of a tile with a header.
THEOREM TerrainTypes == Spec => []TypeOK
BY InvHolds, PTL DEF Inv

\* The tile used for a point holds it, whichever of the three ways it was found
\* in, and a point that gets none lies on none.
THEOREM TileCorrect == Spec => []TileHolds
BY InvHolds, PTL DEF Inv

\* Tiles that end before the meridian are listed once, and if all do the array
\* of ntiles entries is large enough for any sequence of points.
THEOREM ListCorrect == Spec => []ListedOnce
BY InvHolds, PTL DEF Inv

-----------------------------------------------------------------------------
(* The data around a point.                                                *)

\* A flat index is taken apart again into row and column.
LEMMA RowColumn ==
  ASSUME NEW n \in Nat, NEW j \in Nat, NEW i \in 0 .. n - 1
  PROVE  (j * n + i) % n = i /\ (j * n + i) \div n = j
<1>. DEFINE k == j * n + i  q == k \div n
<1>1. n > 0 /\ n \in Nat /\ i \in Int
  OBVIOUS
<1>2. k \in Int /\ k = j * n + i
  OBVIOUS
<1>3. q \in Int /\ k % n \in 0 .. n - 1 /\ k = n * q + (k % n)
  BY <1>1, <1>2
<1>. HIDE DEF q, k
<1>4. n * (j - q) = (k % n) - i
  BY <1>1, <1>2, <1>3
<1>5. CASE j - q >= 1
  <2>1. n * (j - q) >= n
    BY <1>1, <1>3, <1>5
  <2>. QED  BY <1>1, <1>3, <1>4, <2>1
<1>6. CASE j - q <= -1
  <2>1. n * (j - q) <= -n
    BY <1>1, <1>3, <1>6
  <2>. QED  BY <1>1, <1>3, <1>4, <2>1
<1>7. CASE j - q = 0
  <2>1. j = q /\ n * (j - q) = 0
    BY <1>3, <1>7
  <2>. QED  BY <1>2, <1>3, <1>4, <2>1 DEF q, k
<1>. QED  BY <1>3, <1>5, <1>6, <1>7

\* The sizes of a tile are numbers, and a tile is no wider than the circle.
LEMMA TileSizes ==
  ASSUME TypeOK, NEW t \in DOMAIN Header
  PROVE  /\ d(t) \in Nat /\ d(t) > 0 /\ ncols(t) \in Nat /\ nrows(t) \in Nat
         /\ minLon(t) \in 0 .. Circle - 1 /\ maxLat(t) \in Int
         /\ ncols(t) > 0 => d(t) <= Circle
         /\ Circle \in Nat /\ t # None
<1>. DEFINE h == Header[t]
<1>1. /\ factor \in Nat /\ factor > 0 /\ Circle \in Nat /\ Circle > 0
      /\ h \in [west : Int, corner : Int, nrows : Nat \ {0},
                ncols : Nat \ {0}, d : Nat \ {0}]
      /\ h.ncols * h.d <= Circle /\ t \in Nat
  <2>1. factor \in Nat /\ factor > 0
    <3>1. factor \in Factors \cup {1}
      BY DEF TypeOK
    <3>2. Factors \subseteq Nat \ {0}
      BY DemAssumption
    <3>. QED  BY <3>1, <3>2
  <2>. QED  BY <2>1, DemAssumption DEF Index
<1>2. /\ h.west % Circle \in 0 .. Circle - 1
      /\ h.corner \in Int /\ (h.nrows - 1) * h.d \in Int
  BY <1>1
<1>3. minLon(t) = h.west % Circle
      /\ maxLat(t) \in {h.corner, h.corner + (h.nrows - 1) * h.d}
  BY DemAssumption DEF TypeOK, minLon, maxLat, Origin, FromGtopo30, FromDted0, FromNed
<1>4. d(t) = h.d * factor /\ ncols(t) = h.ncols \div factor
      /\ nrows(t) = h.nrows \div factor
  BY DEF d, ncols, nrows
<1>. HIDE DEF h
<1>5. d(t) \in Nat /\ d(t) > 0
  BY <1>1, <1>4
<1>6. ncols(t) \in Nat /\ nrows(t) \in Nat
  BY <1>1, <1>4
<1>7. ASSUME ncols(t) > 0 PROVE d(t) <= Circle
  <2>1. h.ncols >= factor
    BY <1>1, <1>4, <1>7
  <2>2. h.d * factor <= h.d * h.ncols
    BY <1>1, <2>1
  <2>. QED  BY <1>1, <1>4, <1>5, <2>2
<1>. QED  BY <1>1, <1>2, <1>3, <1>5, <1>6, <1>7 DEF None

\* What is left of a division.
LEMMA Remains ==
  ASSUME NEW a \in Int, NEW n \in Nat, n > 0
  PROVE  /\ a \div n \in Int /\ a - (a \div n) * n \in 0 .. n - 1
         /\ a < 0 => a \div n < 0
         /\ a >= 0 => a \div n >= 0
<1>. DEFINE q == a \div n  m == a % n
<1>1. q \in Int /\ m \in 0 .. n - 1 /\ a = n * q + m
  OBVIOUS
<1>. HIDE DEF q, m
<1>2. a - q * n = m
  BY <1>1
<1>3. a < 0 => q < 0
  BY <1>1
<1>4. a >= 0 => q >= 0
  BY <1>1
<1>. QED  BY <1>1, <1>2, <1>3, <1>4 DEF q

\* The column of a point on a tile, and the weight in it, are those of the cell
\* it lies in, also beyond the meridian.
LEMMA ColumnWeight ==
  ASSUME TypeOK, NEW t \in DOMAIN Header, NEW y \in Int, NEW x \in 0 .. Circle,
         HoldsShifted(t, y, x), Column(t, x) < ncols(t) - 1, ncols(t) > 0
  PROVE  LET i == Column(t, x)  w == WeightX(t, i, x)  west == minLon(t) + i * d(t)
         IN  /\ i \in Nat /\ w \in 0 .. d(t)
             /\ x - west = w \/ x + Circle - west = w
<1>. DEFINE D == d(t)  m == minLon(t)
<1>1. /\ D \in Nat /\ D > 0 /\ m \in 0 .. Circle - 1 /\ D <= Circle
      /\ Circle \in Nat /\ ncols(t) \in Nat
  BY TileSizes
<1>. HIDE DEF D, m
<1>2. CASE m <= x
  <2>. DEFINE i == (x - m) \div D  w == x - (i * D + m)
  <2>1. i \in Nat /\ w \in 0 .. D - 1
    <3>1. x - m \in Int /\ x - m >= 0
      BY <1>1, <1>2
    <3>2. i \in Int /\ (x - m) - i * D \in 0 .. D - 1 /\ i >= 0
      BY <1>1, <3>1, Remains
    <3>3. i * D \in Int
      BY <1>1, <3>2
    <3>. HIDE DEF i
    <3>. QED  BY <1>1, <3>2, <3>3
  <2>2. Column(t, x) = i
    BY <2>1 DEF Column, D, m
  <2>3. i * D \in Int
    BY <1>1, <2>1
  <2>. HIDE DEF i
  <2>4. WeightX(t, i, x) = w
    BY <1>1, <2>1 DEF WeightX, D, m
  <2>5. x - (m + i * D) = w
    BY <1>1, <2>3
  <2>. HIDE DEF w
  <2>. QED  BY <1>1, <2>1, <2>2, <2>4, <2>5 DEF D, m
<1>3. CASE x < m
  <2>. DEFINE i == (x + Circle - m) \div D  w == x - (i * D + m)
  <2>1. i \in Nat /\ w + Circle \in 0 .. D - 1
    <3>1. x + Circle - m \in Int /\ x + Circle - m >= 0
      BY <1>1, <1>3
    <3>2. i \in Int /\ (x + Circle - m) - i * D \in 0 .. D - 1 /\ i >= 0
      BY <1>1, <3>1, Remains
    <3>3. i * D \in Int
      BY <1>1, <3>2
    <3>. HIDE DEF i
    <3>. QED  BY <1>1, <3>2, <3>3
  <2>2. Column(t, x) = i
    <3>1. x - m \in Int /\ x - m < 0
      BY <1>1, <1>3
    <3>2. (x - m) \div D < 0
      BY <1>1, <3>1, Remains
    <3>. QED  BY <3>2 DEF Column, D, m
  <2>3. i * D \in Int
    BY <1>1, <2>1
  <2>. HIDE DEF i
  <2>4. WeightX(t, i, x) = w + Circle
    <3>1. w < 0 /\ w \in Int
      BY <1>1, <2>1, <2>3
    <3>. QED  BY <3>1 DEF WeightX, D, m
  <2>5. x + Circle - (m + i * D) = w + Circle
    BY <1>1, <2>3
  <2>. HIDE DEF w
  <2>. QED  BY <1>1, <2>1, <2>2, <2>4, <2>5 DEF D, m
<1>. QED  BY <1>1, <1>2, <1>3

\* The same for the rows, which are counted from the north.
LEMMA RowWeight ==
  ASSUME TypeOK, NEW t \in DOMAIN Header, NEW y \in Int, NEW x \in Int,
         HoldsShifted(t, y, x)
  PROVE  LET j == Row(t, y)  u == WeightY(t, j, y)  south == maxLat(t) - j * d(t)
         IN  j \in Nat /\ j > 0 /\ u \in 0 .. d(t) /\ y - south = u
<1>. DEFINE D == d(t)  m == maxLat(t)  q == (y - m) \div D
<1>1. D \in Nat /\ D > 0 /\ m \in Int /\ y < m
  BY TileSizes DEF HoldsShifted, Holds
<1>2. y - m \in Int /\ y - m < 0
  BY <1>1
<1>3. q \in Int /\ (y - m) - q * D \in 0 .. D - 1 /\ q < 0
  BY <1>1, <1>2, Remains
<1>4. Row(t, y) = -q
  BY DEF Row
<1>. HIDE DEF q
<1>5. WeightY(t, -q, y) = (-q) * D - (m - y)
  BY DEF WeightY
<1>. HIDE DEF D, m
<1>6. q * D \in Int /\ (-q) * D = -(q * D)
  BY <1>1, <1>3
<1>7. /\ WeightY(t, -q, y) \in 0 .. D
      /\ y - (m - (-q) * D) = WeightY(t, -q, y)
  BY <1>1, <1>3, <1>5, <1>6
<1>. QED  BY <1>3, <1>4, <1>7 DEF D, m

\* The answer is that of elevation() for the tile and the sizes it then had.
AnsInv ==
  pc = "ready" /\ ans.tile # None =>
    \A t, y, x, xs, ys :
      t = ans.tile /\ y = lat /\ x = lon /\ xs = xsize /\ ys = ysize =>
        ans = Answer(t, y, x, xs, ys)

LEMMA SameAnswer ==
  ASSUME type' = type, factor' = factor, NEW t, NEW y, NEW x, NEW xs, NEW ys
  PROVE  Answer(t, y, x, xs, ys)' = Answer(t, y, x, xs, ys)
BY DEF Answer, Column, Row, WeightX, WeightY, Corners, Inward, minLon, maxLat,
       Origin, FromGtopo30, FromDted0, FromNed, d

LEMMA NextAns == Inv /\ AnsInv /\ [Next]_vars => AnsInv'
<1>. SUFFICES ASSUME Inv, AnsInv, [Next]_vars PROVE AnsInv'
  OBVIOUS
<1>2. ASSUME type' = type, factor' = factor,
             UNCHANGED <<pc, ans, lat, lon, xsize, ysize>>
      PROVE  AnsInv'
  <2>1. ASSUME NEW t, NEW y, NEW x, NEW xs, NEW ys
        PROVE  Answer(t, y, x, xs, ys)' = Answer(t, y, x, xs, ys)
    BY <1>2, SameAnswer
  <2>. QED  BY <1>2, <2>1 DEF AnsInv
<1>3. ASSUME NEW f \in Factors, SetResolution(f) PROVE AnsInv'
  BY <1>3 DEF SetResolution, Inv, Fresh, AnsInv
<1>4. ASSUME NEW y \in Lats, NEW x \in Lons, NoTile(y, x) PROVE AnsInv'
  BY <1>4 DEF NoTile, NoData, AnsInv
<1>5. ASSUME NEW y \in Lats, NEW x \in Lons, OnTile(y, x) PROVE AnsInv'
  <2>. DEFINE t == tileNumber(y, lon')
  <2>1. /\ ans' = Answer(t, y, lon', xsize', ysize') /\ lat' = y
        /\ type' = type /\ factor' = factor
    BY <1>5 DEF OnTile
  <2>2. ans'.tile = t
    BY <2>1 DEF Answer, NoData
  <2>. HIDE DEF t
  <2>3. ASSUME NEW v, NEW a, NEW b, NEW xs, NEW ys
        PROVE  Answer(v, a, b, xs, ys)' = Answer(v, a, b, xs, ys)
    BY <2>1, SameAnswer
  <2>. QED  BY <2>1, <2>2, <2>3 DEF AnsInv
<1>6. ASSUME NEW y \in Lats, NEW x \in Lons, Overrun(y, x) PROVE AnsInv'
  BY <1>6 DEF Overrun, AnsInv
<1>7. CASE UNCHANGED vars
  BY <1>2, <1>7 DEF vars
<1>. QED  BY <1>3, <1>4, <1>5, <1>6, <1>7 DEF Next, Returned

\* A point on a tile has a row and a column that elevation() does not refuse.
LEMMA SizeBounds ==
  ASSUME TypeOK, NEW t \in DOMAIN Header, NEW y \in Int, NEW x \in 0 .. Circle,
         HoldsShifted(t, y, x), ncols(t) > 0
  PROVE  /\ Row(t, y) <= nrows(t) /\ Column(t, x) <= ncols(t)
         /\ Column(t, x) \in Int
<1>. DEFINE D == d(t)  n == ncols(t)  r == nrows(t)
            m == minLon(t)  k == maxLat(t)
<1>1. /\ D \in Nat /\ D > 0 /\ n \in Nat /\ r \in Nat /\ k \in Int /\ Circle \in Nat
      /\ m \in Int /\ m >= 0 /\ m < Circle
  BY TileSizes
<1>2. k - r * D < y /\ y < k
  <2>1. minLat(t) < y /\ y < maxLat(t)
    BY DEF HoldsShifted, Holds
  <2>. QED  BY <2>1 DEF minLat
<1>3. \/ m < x /\ x < m + n * D
      \/ m < x + Circle /\ x + Circle < m + n * D
  BY DEF HoldsShifted, Holds, maxLon
<1>. HIDE DEF D, n, r, m, k
<1>4. ASSUME NEW a \in Int, NEW b \in Int, a < b * D PROVE a \div D < b
  <2>. DEFINE q == a \div D
  <2>1. q \in Int /\ a - q * D \in 0 .. D - 1
    BY <1>1, Remains
  <2>. HIDE DEF q
  <2>2. q * D <= a /\ q * D \in Int /\ b * D \in Int
    BY <1>1, <2>1
  <2>3. q * D < b * D
    BY <1>4, <2>2
  <2>4. CASE q >= b
    <3>1. q * D >= b * D
      BY <1>1, <2>1, <2>4
    <3>. QED  BY <2>2, <2>3, <3>1
  <2>. QED  BY <2>1, <2>4 DEF q
<1>5. Row(t, y) <= r
  <2>. DEFINE q == (y - k) \div D
  <2>1. y - k \in Int /\ r * D \in Int /\ y - k > -(r * D)
    BY <1>1, <1>2
  <2>2. q \in Int /\ (y - k) - q * D \in 0 .. D - 1
    BY <1>1, <2>1, Remains
  <2>3. Row(t, y) = -q
    BY DEF Row, D, k
  <2>. HIDE DEF q
  <2>4. CASE q <= -r - 1
    <3>1. q * D <= (-r - 1) * D
      BY <1>1, <2>2, <2>4
    <3>2. (-r - 1) * D = -(r * D) - D /\ q * D \in Int
      BY <1>1, <2>2
    <3>. QED  BY <1>1, <2>1, <2>2, <3>1, <3>2
  <2>. QED  BY <1>1, <2>2, <2>3, <2>4
<1>6. Column(t, x) <= n /\ Column(t, x) \in Int
  <2>. DEFINE q == (x - m) \div D  z == (x + Circle - m) \div D
  <2>0. n * D \in Int /\ x \in Int /\ x - m \in Int /\ x + Circle - m \in Int
    BY <1>1
  <2>1. Column(t, x) = IF q < 0 THEN z ELSE q
    BY DEF Column, D, m
  <2>2. q \in Int /\ z \in Int
    BY <1>1, <2>0, Remains
  <2>3. x - m < n * D
    BY <1>1, <1>3, <2>0
  <2>4. q < n
    BY <1>1, <1>4, <2>0, <2>3
  <2>5. CASE q < 0
    <3>1. x < m
      <4>1. x - m >= 0 => q >= 0
        BY <1>1, <2>0, Remains
      <4>. QED  BY <1>1, <2>0, <2>2, <2>5, <4>1
    <3>2. x + Circle - m < n * D
      BY <1>1, <1>3, <2>0, <3>1
    <3>3. z < n
      BY <1>1, <1>4, <2>0, <3>2
    <3>. QED  BY <1>1, <2>1, <2>2, <2>5, <3>3
  <2>. QED  BY <1>1, <2>1, <2>2, <2>4, <2>5
<1>. QED  BY <1>5, <1>6 DEF n, r

\* Where a datum lies in its tile, by its row and column in the file.
PlaceOf(t, k, i, j) ==
  /\ k \in Nat
  /\ j < nrows(t) => k \in 0 .. ncols(t) * nrows(t) - 1
  /\ DatumAt(t, k, "rowsFromNorth") = [east |-> i, south |-> j]
  /\ DatumAt(t, k, "rowsFromSouth") = [east |-> i, south |-> nrows(t) - 1 - j]
  /\ ncols(t) = nrows(t) =>
       DatumAt(t, k, "columnsFromSouth") = [east |-> j, south |-> nrows(t) - 1 - i]

LEMMA DatumPlace ==
  ASSUME TypeOK, NEW t \in DOMAIN Header, NEW k,
         NEW j \in Nat, NEW i \in 0 .. ncols(t) - 1, k = j * ncols(t) + i
  PROVE  PlaceOf(t, k, i, j)
<1>. DEFINE n == ncols(t)  m == nrows(t)
<1>0. k = j * n + i
  OBVIOUS
<1>1. n \in Nat /\ m \in Nat
  BY TileSizes
<1>2. i \in 0 .. n - 1
  OBVIOUS
<1>. HIDE DEF n, m
<1>3. k % n = i /\ k \div n = j
  BY <1>0, <1>1, <1>2, RowColumn
<1>4. k \in Nat
  BY <1>0, <1>1, <1>2
<1>5. ASSUME j < m PROVE k \in 0 .. n * m - 1
  <2>1. j * n <= (m - 1) * n
    BY <1>1, <1>5
  <2>2. (m - 1) * n = n * m - n /\ j * n \in Nat /\ n * m \in Nat
    BY <1>1
  <2>. QED  BY <1>0, <1>2, <1>1, <2>1, <2>2
<1>6. /\ DatumAt(t, k, "rowsFromNorth") = [east |-> i, south |-> j]
      /\ DatumAt(t, k, "rowsFromSouth") = [east |-> i, south |-> m - 1 - j]
      /\ n = m => DatumAt(t, k, "columnsFromSouth") = [east |-> j, south |-> m - 1 - i]
  BY <1>3 DEF DatumAt, n, m
<1>. QED  BY <1>4, <1>5, <1>6 DEF PlaceOf, n, m

\* The steps from the first of the four data to the second and the fourth: to the
\* east and north, to the east and south, and to the north and east.
Steps == {<<1, 0, 0, -1>>, <<1, 0, 0, 1>>, <<0, -1, 1, 0>>}

FourAt(t, order, C, R, a, b, g, h) ==
  /\ DatumAt(t, ans.e[1], order) = [east |-> C, south |-> R]
  /\ DatumAt(t, ans.e[2], order) = [east |-> C + a, south |-> R + b]
  /\ DatumAt(t, ans.e[3], order) = [east |-> C + a + g, south |-> R + b + h]
  /\ DatumAt(t, ans.e[4], order) = [east |-> C + g, south |-> R + h]

LEMMA FourTaken ==
  ASSUME NEW t, NEW order, NEW C \in Int, NEW R \in Int, d(t) \in Nat,
         ans.t \in 0 .. d(t), ans.u \in 0 .. d(t),
         Len(ans.e) = 4,
         \A n \in 1 .. 4 : ans.e[n] \in 0 .. ncols(t) * nrows(t) - 1,
         NEW a \in Int, NEW b \in Int, NEW g \in Int, NEW h \in Int,
         <<a, b, g, h>> \in Steps, FourAt(t, order, C, R, a, b, g, h)
  PROVE  TakenAt(t, order, d(t) * C + ans.t * a + ans.u * g,
                 d(t) * R + ans.t * b + ans.u * h)
<1>. DEFINE p == [n \in 1 .. 4 |-> DatumAt(t, ans.e[n], order)]
<1>1. /\ p[1].east = C /\ p[1].south = R
      /\ p[2].east = C + a /\ p[2].south = R + b
      /\ p[3].east = C + a + g /\ p[3].south = R + b + h
      /\ p[4].east = C + g /\ p[4].south = R + h
  BY DEF FourAt
<1>2. \/ a = 1 /\ b = 0 /\ g = 0 /\ h = -1
      \/ a = 1 /\ b = 0 /\ g = 0 /\ h = 1
      \/ a = 0 /\ b = -1 /\ g = 1 /\ h = 0
  BY DEF Steps
<1>. HIDE DEF p
<1>3. NextTo(p[1], p[2]) /\ NextTo(p[1], p[4])
  BY <1>1, <1>2 DEF NextTo
<1>4. p[3] # p[1]
  <2>1. p[3].east # p[1].east
    BY <1>1, <1>2
  <2>. QED  BY <2>1
<1>5. /\ p[3].east = p[2].east + p[4].east - p[1].east
      /\ p[3].south = p[2].south + p[4].south - p[1].south
      /\ p[2].east - p[1].east = a /\ p[4].east - p[1].east = g
      /\ p[2].south - p[1].south = b /\ p[4].south - p[1].south = h
  BY <1>1
<1>. QED  BY <1>1, <1>3, <1>4, <1>5 DEF TakenAt, p

\* Dem::elevation.  Where a tile is treated alike, the elevation is interpolated
\* in the cell the point lies in, and for a file in another order in the mirror
\* image of that cell; and on tiles of the size of the first no point is refused.
THEOREM CellCorrect == Spec => []Interpolated
<1>1. TypeOK /\ TileHolds /\ AnsInv => Interpolated
  <2>. SUFFICES ASSUME TypeOK, TileHolds, AnsInv, pc = "ready", ans.tile # None,
                       NEW t, t = ans.tile
                PROVE  LET south == maxLat(t) - lat
                           depth == (nrows(t) - 1) * d(t)
                       IN  /\ xsize = ncols(t) /\ ysize = nrows(t) => Len(ans.e) = 4
                           /\ Regular(t) =>
                                \A order \in Orders :
                                \E east \in {lon - minLon(t), lon + Circle - minLon(t)} :
                                  \/ TakenAt(t, order, east, south)
                                  \/ /\ order = "rowsFromSouth"
                                     /\ TakenAt(t, order, east, depth - south)
                                  \/ /\ order = "columnsFromSouth"
                                     /\ TakenAt(t, order, ncols(t) * d(t) - south, depth - east)
    BY DEF Interpolated
  <2>. DEFINE i == Column(t, lon)  j == Row(t, lat)  D == d(t)
              n == ncols(t)  m == nrows(t)
              w == WeightX(t, i, lon)  v == WeightY(t, j, lat)
              south == maxLat(t) - lat
              depth == (m - 1) * D
  <2>1. /\ t \in DOMAIN Header /\ HoldsShifted(t, lat, lon)
        /\ lat \in Int /\ lon \in 0 .. Circle /\ lon \in Int
        /\ n \in Nat /\ m \in Nat /\ Circle \in Nat
        /\ D \in Nat /\ D > 0 /\ minLon(t) \in Int /\ maxLat(t) \in Int
    <3>1. t \in DOMAIN Header /\ HoldsShifted(t, lat, lon)
      BY DEF TypeOK, TileHolds
    <3>2. /\ Circle \in Nat /\ n \in Nat /\ m \in Nat /\ D \in Nat /\ D > 0
          /\ minLon(t) \in 0 .. Circle - 1 /\ maxLat(t) \in Int
      BY <3>1, TileSizes
    <3>3. lat \in Int /\ lon \in 0 .. Circle
      BY DEF TypeOK
    <3>. HIDE DEF n, m, D
    <3>. QED  BY <3>1, <3>2, <3>3
  <2>2. /\ j \in Nat /\ j > 0 /\ v \in 0 .. D
        /\ lat - (maxLat(t) - j * D) = v
    BY <2>1, RowWeight
  <2>3. n > 0
    <3>1. n = 0 => maxLon(t) = minLon(t)
      BY TileSizes, <2>1 DEF maxLon
    <3>2. minLon(t) \in Int /\ minLon(t) < maxLon(t)
      <4>1. minLon(t) \in Int /\ maxLon(t) \in Int /\ Circle \in Nat
        BY TileSizes, <2>1 DEF maxLon
      <4>. QED  BY <2>1, <4>1 DEF HoldsShifted, Holds
    <3>. QED  BY <2>1, <3>1, <3>2
  <2>4. i < n - 1 =>
          /\ i \in Nat /\ w \in 0 .. D
          /\ \/ lon - (minLon(t) + i * D) = w
             \/ lon + Circle - (minLon(t) + i * D) = w
    BY <2>1, <2>3, ColumnWeight
  <2>5. j <= m /\ i <= n /\ i \in Int
    BY <2>1, <2>2, <2>3, SizeBounds
  <2>6. xsize = n /\ ysize = m => Len(ans.e) = 4
    <3>. HIDE DEF i, j, n, m, w, v
    <3>1. ASSUME xsize = n, ysize = m
          PROVE  ans = Answer(t, lat, lon, n, m)
      BY <3>1 DEF AnsInv
    <3>2. ASSUME xsize = n, ysize = m PROVE ~(i > n \/ j > m)
      BY <2>1, <2>2, <2>5
    <3>. QED  BY <3>1, <3>2 DEF Answer, Corners, i, j
  <2>7. ASSUME Regular(t), NEW order \in Orders
        PROVE  \E east \in {lon - minLon(t), lon + Circle - minLon(t)} :
                 \/ TakenAt(t, order, east, south)
                 \/ order = "rowsFromSouth" /\ TakenAt(t, order, east, depth - south)
                 \/ /\ order = "columnsFromSouth"
                    /\ TakenAt(t, order, n * D - south, depth - east)
    <3>1. xsize = n /\ i < n - 1
      BY <2>7 DEF Regular
    <3>2. /\ i \in Nat /\ i \in 0 .. n - 1 /\ i + 1 \in 0 .. n - 1
          /\ w \in 0 .. D /\ w \in Int /\ v \in Int
      <4>. HIDE DEF i, w, v, n, D
      <4>. QED  BY <2>1, <2>2, <2>4, <3>1
    <3>. DEFINE east == D * i + w
    <3>3. /\ east \in {lon - minLon(t), lon + Circle - minLon(t)}
          /\ south = D * j - v
      <4>. HIDE DEF i, j, w, v, D
      <4>1. D * i \in Int /\ D * j \in Int /\ i * D = D * i /\ j * D = D * j
        BY <2>1, <2>2, <3>2
      <4>2. south = D * j - v
        BY <2>1, <2>2, <3>2, <4>1
      <4>3. CASE lon - (minLon(t) + i * D) = w
        <5>1. lon - minLon(t) = D * i + w
          BY <2>1, <3>2, <4>1, <4>3
        <5>. QED  BY <4>2, <5>1
      <4>4. CASE lon + Circle - (minLon(t) + i * D) = w
        <5>1. lon + Circle - minLon(t) = D * i + w
          BY <2>1, <3>2, <4>1, <4>4
        <5>. QED  BY <4>2, <5>1
      <4>. QED  BY <2>4, <3>1, <4>3, <4>4
    <3>4. CASE type # "DTED0"
      <4>1. j < ysize /\ j < m
        BY <2>7, <3>4 DEF Regular
      <4>2. ans = Answer(t, lat, lon, n, ysize)
        BY <3>1 DEF AnsInv
      <4>3. ~(i > n) /\ ~(j > ysize) /\ Inward(i, n - 1) = i /\ Inward(j, ysize) = j
        <5>1. ysize \in Nat
          BY DEF TypeOK
        <5>. HIDE DEF i, j, n, m
        <5>. QED  BY <2>1, <2>2, <3>1, <3>2, <4>1, <5>1 DEF Inward
      <4>4. /\ ans.t = w /\ ans.u = v
            /\ ans.e = <<j * n + i, j * n + i + 1, (j - 1) * n + i + 1, (j - 1) * n + i>>
        BY <3>4, <4>2, <4>3 DEF Answer, Corners
      <4>5. /\ j - 1 \in Nat /\ j - 1 < m /\ j < m
            /\ j * n + i + 1 = j * n + (i + 1)
            /\ (j - 1) * n + i + 1 = (j - 1) * n + (i + 1)
        <5>. HIDE DEF i, j, n, m
        <5>. QED  BY <2>1, <2>2, <3>2, <4>1
      <4>. DEFINE e1 == j * n + i  e2 == j * n + (i + 1)
                  e3 == (j - 1) * n + (i + 1)  e4 == (j - 1) * n + i
      <4>6. /\ e1 \in 0 .. n * m - 1 /\ e2 \in 0 .. n * m - 1
            /\ e3 \in 0 .. n * m - 1 /\ e4 \in 0 .. n * m - 1
            /\ DatumAt(t, e1, "rowsFromNorth") = [east |-> i, south |-> j]
            /\ DatumAt(t, e2, "rowsFromNorth") = [east |-> i + 1, south |-> j]
            /\ DatumAt(t, e3, "rowsFromNorth") = [east |-> i + 1, south |-> j - 1]
            /\ DatumAt(t, e4, "rowsFromNorth") = [east |-> i, south |-> j - 1]
            /\ DatumAt(t, e1, "rowsFromSouth") = [east |-> i, south |-> m - 1 - j]
            /\ DatumAt(t, e2, "rowsFromSouth") = [east |-> i + 1, south |-> m - 1 - j]
            /\ DatumAt(t, e3, "rowsFromSouth") = [east |-> i + 1, south |-> m - 1 - (j - 1)]
            /\ DatumAt(t, e4, "rowsFromSouth") = [east |-> i, south |-> m - 1 - (j - 1)]
        <5>0. /\ n = ncols(t) /\ m = nrows(t)
              /\ i \in 0 .. ncols(t) - 1 /\ i + 1 \in 0 .. ncols(t) - 1
              /\ j \in Nat /\ j < nrows(t) /\ j - 1 \in Nat /\ j - 1 < nrows(t)
          <6>1. n = ncols(t) /\ m = nrows(t)
            OBVIOUS
          <6>. HIDE DEF i, j, n, m
          <6>. QED  BY <2>1, <2>2, <3>2, <4>5, <6>1
        <5>. HIDE DEF i, j
        <5>1. /\ e1 \in 0 .. n * m - 1
              /\ DatumAt(t, e1, "rowsFromNorth") = [east |-> i, south |-> j]
              /\ DatumAt(t, e1, "rowsFromSouth") = [east |-> i, south |-> m - 1 - j]
          <6>1. e1 = (j) * ncols(t) + (i)
            OBVIOUS
          <6>. HIDE DEF e1, i, j, n, m
          <6>2. PlaceOf(t, e1, i, j)
            BY <2>1, <5>0, <6>1, DatumPlace
          <6>. QED  BY <5>0, <6>2 DEF PlaceOf
        <5>2. /\ e2 \in 0 .. n * m - 1
              /\ DatumAt(t, e2, "rowsFromNorth") = [east |-> i + 1, south |-> j]
              /\ DatumAt(t, e2, "rowsFromSouth") = [east |-> i + 1, south |-> m - 1 - j]
          <6>1. e2 = (j) * ncols(t) + (i + 1)
            OBVIOUS
          <6>. HIDE DEF e2, i, j, n, m
          <6>2. PlaceOf(t, e2, i + 1, j)
            BY <2>1, <5>0, <6>1, DatumPlace
          <6>. QED  BY <5>0, <6>2 DEF PlaceOf
        <5>3. /\ e3 \in 0 .. n * m - 1
              /\ DatumAt(t, e3, "rowsFromNorth") = [east |-> i + 1, south |-> j - 1]
              /\ DatumAt(t, e3, "rowsFromSouth") = [east |-> i + 1, south |-> m - 1 - (j - 1)]
          <6>1. e3 = (j - 1) * ncols(t) + (i + 1)
            OBVIOUS
          <6>. HIDE DEF e3, i, j, n, m
          <6>2. PlaceOf(t, e3, i + 1, j - 1)
            BY <2>1, <5>0, <6>1, DatumPlace
          <6>. QED  BY <5>0, <6>2 DEF PlaceOf
        <5>4. /\ e4 \in 0 .. n * m - 1
              /\ DatumAt(t, e4, "rowsFromNorth") = [east |-> i, south |-> j - 1]
              /\ DatumAt(t, e4, "rowsFromSouth") = [east |-> i, south |-> m - 1 - (j - 1)]
          <6>1. e4 = (j - 1) * ncols(t) + (i)
            OBVIOUS
          <6>. HIDE DEF e4, i, j, n, m
          <6>2. PlaceOf(t, e4, i, j - 1)
            BY <2>1, <5>0, <6>1, DatumPlace
          <6>. QED  BY <5>0, <6>2 DEF PlaceOf
        <5>. QED  BY <5>1, <5>2, <5>3, <5>4
      <4>7. ans.e = <<e1, e2, e3, e4>>
        BY <4>4, <4>5
      <4>. HIDE DEF i, j, w, v, e1, e2, e3, e4, n, m, D, south, depth, east
      <4>8. Len(ans.e) = 4 /\ \A q \in 1 .. 4 : ans.e[q] \in 0 .. n * m - 1
        BY <4>6, <4>7
      <4>9. ans.e[1] = e1 /\ ans.e[2] = e2 /\ ans.e[3] = e3 /\ ans.e[4] = e4
        BY <4>7
      <4>10. CASE order = "rowsFromNorth"
        <5>1. <<1, 0, 0, -1>> \in Steps
          BY DEF Steps
        <5>2. i + 1 + 0 = i + 1 /\ j + 0 = j /\ j + 0 + (-1) = j - 1 /\ i + 0 = i
              /\ j + (-1) = j - 1
          BY <2>2, <3>2
        <5>5. FourAt(t, order, i, j, 1, 0, 0, -1)
          BY <4>6, <4>9, <4>10, <5>2 DEF FourAt
        <5>7. TakenAt(t, order, d(t) * i + ans.t * 1 + ans.u * 0,
                             d(t) * j + ans.t * 0 + ans.u * (-1))
          BY <2>1, <2>2, <3>2, <4>4, <4>8, <5>1, <5>5, FourTaken DEF n, m, D
        <5>3. TakenAt(t, order, D * i + w * 1 + v * 0, D * j + w * 0 + v * (-1))
          BY <5>7, <4>4 DEF D
        <5>4. D * i + w * 1 + v * 0 = east /\ D * j + w * 0 + v * (-1) = south
          BY <2>1, <2>2, <3>2, <3>3 DEF east
        <5>. QED  BY <3>3, <5>3, <5>4
      <4>11. CASE order = "rowsFromSouth"
        <5>0. m - 1 - j \in Int
          BY <2>1, <2>2
        <5>1. <<1, 0, 0, 1>> \in Steps
          BY DEF Steps
        <5>2. i + 1 + 0 = i + 1 /\ m - 1 - j + 0 = m - 1 - j /\ i + 0 = i
              /\ m - 1 - j + 0 + 1 = m - 1 - (j - 1) /\ m - 1 - j + 1 = m - 1 - (j - 1)
          BY <2>1, <2>2, <3>2
        <5>5. FourAt(t, order, i, m - 1 - j, 1, 0, 0, 1)
          BY <4>6, <4>9, <4>11, <5>2 DEF FourAt
        <5>7. TakenAt(t, order, d(t) * i + ans.t * 1 + ans.u * 0,
                             d(t) * (m - 1 - j) + ans.t * 0 + ans.u * 1)
          BY <2>1, <2>2, <3>2, <4>4, <4>8, <5>0, <5>1, <5>5, FourTaken DEF n, m, D
        <5>3. TakenAt(t, order, D * i + w * 1 + v * 0, D * (m - 1 - j) + w * 0 + v * 1)
          BY <5>7, <4>4 DEF D
        <5>4. D * i + w * 1 + v * 0 = east /\ D * (m - 1 - j) + w * 0 + v * 1 = depth - south
          <6>1. D * (m - 1 - j) = (m - 1) * D - D * j /\ (m - 1) * D \in Int /\ D * j \in Int
            BY <2>1, <2>2
          <6>2. D * i + w * 1 + v * 0 = east
            BY <2>1, <2>2, <3>2 DEF east
          <6>. QED  BY <2>1, <2>2, <3>2, <3>3, <6>1, <6>2 DEF depth
        <5>6. TakenAt(t, order, east, depth - south)
          BY <5>3, <5>4
        <5>. QED  BY <3>3, <4>11, <5>6
      <4>12. type \in {"GTOPO30", "DTED0", "NED"}
        BY DemAssumption DEF TypeOK
      <4>13. order \in {"rowsFromNorth", "rowsFromSouth"}
        BY <2>7, <3>4, <4>12 DEF Orders
      <4>. QED  BY <4>10, <4>11, <4>13
    <3>5. CASE type = "DTED0"
      <4>1. ysize = m /\ n = m /\ j > 1
        BY <2>7, <3>1, <3>5 DEF Regular
      <4>2. ans = Answer(t, lat, lon, n, m)
        BY <3>1, <4>1 DEF AnsInv
      <4>3. ~(i > n) /\ ~(j > m)
        <5>. HIDE DEF i, j, n, m
        <5>. QED  BY <2>1, <2>2, <2>5, <3>1, <3>2
      <4>4. /\ ans.t = w /\ ans.u = v
            /\ ans.e = <<(m - j) * n + i, (m - j) * n + i + 1,
                         (m - j + 1) * n + i + 1, (m - j + 1) * n + i>>
        BY <3>5, <4>2, <4>3 DEF Answer, Corners
      <4>5. /\ m - j \in Nat /\ m - j < m /\ m - j + 1 \in Nat /\ m - j + 1 < m
            /\ (m - j) * n + i + 1 = (m - j) * n + (i + 1)
            /\ (m - j + 1) * n + i + 1 = (m - j + 1) * n + (i + 1)
        <5>. HIDE DEF i, j, n, m
        <5>. QED  BY <2>1, <2>2, <2>5, <3>2, <4>1
      <4>. DEFINE e1 == (m - j) * n + i  e2 == (m - j) * n + (i + 1)
                  e3 == (m - j + 1) * n + (i + 1)  e4 == (m - j + 1) * n + i
      <4>6. /\ e1 \in 0 .. n * m - 1 /\ e2 \in 0 .. n * m - 1
            /\ e3 \in 0 .. n * m - 1 /\ e4 \in 0 .. n * m - 1
            /\ DatumAt(t, e1, "columnsFromSouth") = [east |-> m - j, south |-> m - 1 - i]
            /\ DatumAt(t, e2, "columnsFromSouth") = [east |-> m - j, south |-> m - 1 - (i + 1)]
            /\ DatumAt(t, e3, "columnsFromSouth") = [east |-> m - j + 1, south |-> m - 1 - (i + 1)]
            /\ DatumAt(t, e4, "columnsFromSouth") = [east |-> m - j + 1, south |-> m - 1 - i]
        <5>0. /\ n = ncols(t) /\ m = nrows(t) /\ ncols(t) = nrows(t)
              /\ i \in 0 .. ncols(t) - 1 /\ i + 1 \in 0 .. ncols(t) - 1
              /\ m - j \in Nat /\ m - j < nrows(t)
              /\ m - j + 1 \in Nat /\ m - j + 1 < nrows(t)
          <6>1. n = ncols(t) /\ m = nrows(t)
            OBVIOUS
          <6>. HIDE DEF i, j, n, m
          <6>. QED  BY <2>1, <2>2, <3>2, <4>1, <4>5, <6>1
        <5>. HIDE DEF i, j
        <5>1. /\ e1 \in 0 .. n * m - 1
              /\ DatumAt(t, e1, "columnsFromSouth") = [east |-> m - j, south |-> m - 1 - i]
          <6>1. e1 = (m - j) * ncols(t) + (i)
            OBVIOUS
          <6>. HIDE DEF e1, i, j, n, m
          <6>2. PlaceOf(t, e1, i, m - j)
            BY <2>1, <5>0, <6>1, DatumPlace
          <6>. QED  BY <5>0, <6>2 DEF PlaceOf
        <5>2. /\ e2 \in 0 .. n * m - 1
              /\ DatumAt(t, e2, "columnsFromSouth") = [east |-> m - j, south |-> m - 1 - (i + 1)]
          <6>1. e2 = (m - j) * ncols(t) + (i + 1)
            OBVIOUS
          <6>. HIDE DEF e2, i, j, n, m
          <6>2. PlaceOf(t, e2, i + 1, m - j)
            BY <2>1, <5>0, <6>1, DatumPlace
          <6>. QED  BY <5>0, <6>2 DEF PlaceOf
        <5>3. /\ e3 \in 0 .. n * m - 1
              /\ DatumAt(t, e3, "columnsFromSouth") = [east |-> m - j + 1, south |-> m - 1 - (i + 1)]
          <6>1. e3 = (m - j + 1) * ncols(t) + (i + 1)
            OBVIOUS
          <6>. HIDE DEF e3, i, j, n, m
          <6>2. PlaceOf(t, e3, i + 1, m - j + 1)
            BY <2>1, <5>0, <6>1, DatumPlace
          <6>. QED  BY <5>0, <6>2 DEF PlaceOf
        <5>4. /\ e4 \in 0 .. n * m - 1
              /\ DatumAt(t, e4, "columnsFromSouth") = [east |-> m - j + 1, south |-> m - 1 - i]
          <6>1. e4 = (m - j + 1) * ncols(t) + (i)
            OBVIOUS
          <6>. HIDE DEF e4, i, j, n, m
          <6>2. PlaceOf(t, e4, i, m - j + 1)
            BY <2>1, <5>0, <6>1, DatumPlace
          <6>. QED  BY <5>0, <6>2 DEF PlaceOf
        <5>. QED  BY <5>1, <5>2, <5>3, <5>4
      <4>7. ans.e = <<e1, e2, e3, e4>>
        BY <4>4, <4>5
      <4>. HIDE DEF i, j, w, v, e1, e2, e3, e4, n, m, D, south, depth, east
      <4>8. Len(ans.e) = 4 /\ \A q \in 1 .. 4 : ans.e[q] \in 0 .. n * m - 1
        BY <4>6, <4>7
      <4>9. ans.e[1] = e1 /\ ans.e[2] = e2 /\ ans.e[3] = e3 /\ ans.e[4] = e4
        BY <4>7
      <4>10. order = "columnsFromSouth"
        BY <2>7, <3>5 DEF Orders
      <4>11. <<0, -1, 1, 0>> \in Steps
        BY DEF Steps
      <4>12. /\ m - j \in Int /\ m - 1 - i \in Int
             /\ m - j + 0 = m - j /\ m - 1 - i + (-1) = m - 1 - (i + 1)
             /\ m - j + 0 + 1 = m - j + 1 /\ m - 1 - i + (-1) + 0 = m - 1 - (i + 1)
             /\ m - 1 - i + 0 = m - 1 - i
        BY <2>1, <2>2, <3>2
      <4>15. FourAt(t, order, m - j, m - 1 - i, 0, -1, 1, 0)
        BY <4>6, <4>9, <4>10, <4>12 DEF FourAt
      <4>16. TakenAt(t, order, d(t) * (m - j) + ans.t * 0 + ans.u * 1,
                           d(t) * (m - 1 - i) + ans.t * (-1) + ans.u * 0)
        BY <2>1, <2>2, <3>2, <4>4, <4>8, <4>11, <4>12, <4>15, FourTaken DEF n, m, D
      <4>13. TakenAt(t, order, D * (m - j) + w * 0 + v * 1, D * (m - 1 - i) + w * (-1) + v * 0)
        BY <4>16, <4>4 DEF D
      <4>14. /\ D * (m - j) + w * 0 + v * 1 = n * D - south
             /\ D * (m - 1 - i) + w * (-1) + v * 0 = depth - east
        <5>1. /\ D * (m - j) = m * D - D * j /\ m * D \in Int /\ D * j \in Int
              /\ D * (m - 1 - i) = (m - 1) * D - D * i /\ (m - 1) * D \in Int
              /\ D * i \in Int
          BY <2>1, <2>2, <3>2
        <5>2. D * (m - j) + w * 0 + v * 1 = n * D - south
          BY <2>1, <2>2, <3>2, <3>3, <4>1, <5>1
        <5>. QED  BY <2>1, <2>2, <3>2, <5>1, <5>2 DEF depth, east
      <4>. QED  BY <3>3, <4>10, <4>13, <4>14
    <3>. QED  BY <3>4, <3>5
  <2>. QED  BY <2>6, <2>7
<1>2. Init => AnsInv
  BY DEF Init, AnsInv
<1>3. Inv => TypeOK /\ TileHolds
  BY DEF Inv
<1>. QED  BY <1>1, <1>2, <1>3, InvHolds, NextAns, PTL DEF Spec

=============================================================================

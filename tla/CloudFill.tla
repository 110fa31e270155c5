----------------------------- MODULE CloudFill -----------------------------
(***************************************************************************)
(* Class Cloud: the outline and the elevation points of a cloud file, and  *)
(* the random walks that fill the outline with particles.  A point belongs *)
(* to the cloud when as many sides (modulo 2) pass below it as below the   *)
(* first elevation point.                                                  *)
(*                                                                         *)
(* Coordinates are integers and the slopes fractions of them, so that      *)
(* nothing is rounded.  In the code points are doubles, but the ends, the  *)
(* slope and the intercept of a side are floats, as is the place where two *)
(* sides meet: whether sides that touch cross is left to their rounding.   *)
(* A side of constant longitude has slope HUGE_VAL, and every comparison   *)
(* with it is false.  Heights are left out: what they do to the control is *)
(* that looking one up sorts the elevation points, and the next walk       *)
(* starts from that order.                                                 *)
(*                                                                         *)
(* A definition named after another with a suffix is a plausible mistake   *)
(* in that operation, there to show which property notices it.             *)
(***************************************************************************)
EXTENDS Integers, Sequences, FiniteSets

CONSTANTS
  Outlines,   \* the outlines a file may have: sequences of vertices
  Elevations, \* the sequences of elevation points it may have
  Far         \* bound: the longest displacement of a walk in one direction

ASSUME CloudAssumption ==
  /\ Outlines \cup Elevations \subseteq Seq(Int \X Int) \ {<<>>}
  /\ Far \in Nat

VARIABLES
  cloud,    \* "none", "read", "fill", "filled", "gone", or how the program
            \* ended: "crossing", "sides", "exhausted"
  outline, elevPoint,
  inside,   \* define of the first elevation point, 0 or 1 here
  want,     \* ashN of customCloud
  nPolySide, validPoints,
  failed,   \* has a candidate fallen outside (numTries, as far as it matters)?
  points    \* lonlatValues: the points placed

cloudVars == <<cloud, outline, elevPoint, inside, want, nPolySide, validPoints,
               failed, points>>

-----------------------------------------------------------------------------
\* Side k goes from vertex k to the next, the last one back to the first.
Sides == 1 .. Len(outline)
Next1(k) == (k % Len(outline)) + 1
x1(k) == outline[k][1]
y1(k) == outline[k][2]
x2(k) == outline[Next1(k)][1]
y2(k) == outline[Next1(k)][2]
dx(k) == x2(k) - x1(k)
dy(k) == y2(k) - y1(k)

\* Side k spans the longitude of p and passes below it.
Passes(k, p) ==
  /\ (p[1] - x1(k)) * (p[1] - x2(k)) < 0
  /\ (p[2] - y1(k)) * dx(k) * dx(k) > dy(k) * (p[1] - x1(k)) * dx(k)

\* Over any number of sides is inside.
defineAny(p) == IF \E k \in Sides : Passes(k, p) THEN 1 ELSE 0

define(p) == Cardinality({k \in Sides : Passes(k, p)}) % 2

inCloud(p) == define(p) = inside

\* Do the lines of sides i and j meet at a longitude inside both sides?
\* The intercept of side k is Intercept(k) / dx(k).
Intercept(k) == y1(k) * dx(k) - dy(k) * x1(k)
Within(k, num, den) == (num - x1(k) * den) * (num - x2(k) * den) < 0
MeetFirstOnly(i, j) ==
  LET den == dy(i) * dx(j) - dy(j) * dx(i)
      num == Intercept(j) * dx(i) - Intercept(i) * dx(j)
  IN  /\ dx(i) # 0 /\ dx(j) # 0 /\ den # 0 /\ Within(i, num, den)

Meet(i, j) ==
  LET den == dy(i) * dx(j) - dy(j) * dx(i)
      num == Intercept(j) * dx(i) - Intercept(i) * dx(j)
  IN  /\ dx(i) # 0 /\ dx(j) # 0 /\ den # 0
      /\ Within(i, num, den) /\ Within(j, num, den)

\* Sides that are not neighbours are compared, each pair once.
Compared == {p \in Sides \X Sides : p[2] >= p[1] + 2
                                    /\ p # <<1, Len(outline)>>}
validRegion == \A p \in Compared : ~Meet(p[1], p[2])

\* lengthScale, squared: the shortest side.
Square(n) == n * n
LengthScale2 ==
  LET lengths == {Square(dx(k)) + Square(dy(k)) : k \in Sides}
  IN  CHOOSE s \in lengths : \A t \in lengths : s <= t

\* Where (ran1 - 0.5) * lengthScale in both directions can lead.
Steps == {d \in -Far .. Far : 4 * Square(d) < LengthScale2}
Around(p) == {<<p[1] + a, p[2] + b>> : a \in Steps, b \in Steps}

\* sortElevations: bubble sort by distance, equal ones keep their order.
Distance2(p, q) == Square(p[1] - q[1]) + Square(p[2] - q[2])
Sorted(p) ==
  LET Before(i, j) == \/ Distance2(elevPoint[i], p) < Distance2(elevPoint[j], p)
                      \/ /\ Distance2(elevPoint[i], p) = Distance2(elevPoint[j], p)
                         /\ i < j
      Rank(j) == 1 + Cardinality({i \in DOMAIN elevPoint : Before(i, j)})
  IN  [r \in DOMAIN elevPoint |->
         elevPoint[CHOOSE j \in DOMAIN elevPoint : Rank(j) = r]]

\* ashNLocal: what the walk from elevation point k is to place.
ashNLocal(k) == want \div Len(elevPoint)
                + IF k = Len(elevPoint) THEN want % Len(elevPoint) ELSE 0

-----------------------------------------------------------------------------
CloudInit ==
  /\ cloud = "none" /\ outline = <<>> /\ elevPoint = <<>>
  /\ inside = 0 /\ want = 0 /\ nPolySide = 1 /\ validPoints = 0
  /\ failed = FALSE /\ points = <<>>

\* readPoints, for a cloud of n particles.
ReadPoints(n) ==
  /\ cloud = "none" /\ cloud' = "read" /\ want' = n
  /\ outline' \in Outlines /\ elevPoint' \in Elevations
  /\ UNCHANGED <<inside, nPolySide, validPoints, failed, points>>

\* build: sides must not meet, elevation points must agree with the first.
Build ==
  /\ cloud = "read"
  /\ inside' = define(elevPoint[1])
  /\ cloud' = IF ~validRegion THEN "crossing"
              ELSE IF \E k \in DOMAIN elevPoint :
                        define(elevPoint[k]) # inside' THEN "sides"
              ELSE "fill"
  /\ UNCHANGED <<outline, elevPoint, want, nPolySide, validPoints, failed, points>>

Place(p) ==
  /\ points' = Append(points, p)
  /\ elevPoint' = Sorted(p)
  /\ validPoints' = validPoints + 1
  /\ UNCHANGED <<cloud, outline, inside, want, nPolySide, failed>>

\* The first point of a walk is its elevation point, taken untested.
StartWalk ==
  /\ cloud = "fill" /\ validPoints = 0 /\ validPoints < ashNLocal(nPolySide)
  /\ Place(elevPoint[nPolySide])

\* Every other is tried around the last one placed.
Wander ==
  /\ cloud = "fill" /\ validPoints > 0 /\ validPoints < ashNLocal(nPolySide)
  /\ \E p \in Around(points[Len(points)]) :
       \/ inCloud(p) /\ Place(p)
       \/ /\ ~inCloud(p)
          /\ failed' = TRUE
          /\ UNCHANGED <<cloud, outline, elevPoint, inside, want,
                         nPolySide, validPoints, points>>

\* The number of tries is looked at only between two walks.
EndWalk ==
  /\ cloud = "fill" /\ validPoints = ashNLocal(nPolySide)
  /\ \/ /\ failed /\ cloud' = "exhausted" /\ UNCHANGED nPolySide
     \/ /\ nPolySide < Len(elevPoint)
        /\ nPolySide' = nPolySide + 1 /\ UNCHANGED cloud
     \/ /\ nPolySide = Len(elevPoint)
        /\ cloud' = "filled" /\ UNCHANGED nPolySide
  /\ validPoints' = 0
  /\ UNCHANGED <<outline, elevPoint, inside, want, failed, points>>

\* The object is local to init_site_custom.
Destroy ==
  /\ cloud = "filled" /\ cloud' = "gone"
  /\ outline' = <<>> /\ elevPoint' = <<>> /\ points' = <<>>
  /\ inside' = 0 /\ want' = 0 /\ nPolySide' = 1 /\ validPoints' = 0
  /\ failed' = FALSE

CloudNext == Build \/ StartWalk \/ Wander \/ EndWalk

-----------------------------------------------------------------------------
\* A second definition of inside: the sides that the half line from p to the
\* east crosses, a vertex counted with the side above it.
East(k, p) ==
  LET low  == IF y1(k) < y2(k) THEN y1(k) ELSE y2(k)
      high == IF y1(k) < y2(k) THEN y2(k) ELSE y1(k)
  IN  /\ low <= p[2] /\ p[2] < high
      /\ (x1(k) - p[1]) * Square(dy(k)) + (p[2] - y1(k)) * dx(k) * dy(k) > 0
Enclosed(p) == Cardinality({k \in Sides : East(k, p)}) % 2 = 1

\* Orientation of the triangle a, b, c.
Turn(a, b, c) == (b[1] - a[1]) * (c[2] - a[2]) - (b[2] - a[2]) * (c[1] - a[1])
Vertex(k) == outline[k]
CrossEachOther(i, j) ==
  /\ Turn(Vertex(i), Vertex(Next1(i)), Vertex(j))
       * Turn(Vertex(i), Vertex(Next1(i)), Vertex(Next1(j))) < 0
  /\ Turn(Vertex(j), Vertex(Next1(j)), Vertex(i))
       * Turn(Vertex(j), Vertex(Next1(j)), Vertex(Next1(i))) < 0

OnOutline(p) ==
  \E k \in Sides : /\ Turn(Vertex(k), Vertex(Next1(k)), p) = 0
                   /\ (p[1] - x1(k)) * (p[1] - x2(k)) <= 0
                   /\ (p[2] - y1(k)) * (p[2] - y2(k)) <= 0
OnVertexLongitude(p) == \E k \in Sides : x1(k) = p[1]
Plain(p) == ~OnOutline(p) /\ ~OnVertexLongitude(p)
=============================================================================

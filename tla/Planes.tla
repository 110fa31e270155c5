------------------------------- MODULE Planes -------------------------------
(***************************************************************************)
(* Class Planes: the exposure of flights to the ash.  It is calculated     *)
(* once, after the last pass, from the averages that ConcGrid leaves: the  *)
(* concentrations at the places a flight passes, found again through the   *)
(* values of the dimensions, with an index of its own into the flat array. *)
(*                                                                         *)
(* A line of a file of flights is a place, a time and a speed, or not      *)
(* readable; the formats of its ten fields are left out, and so are the    *)
(* units: exposures are twice the sums of the code, with the denominator   *)
(* of the averages, and zero if no masses were calculated (write_abs_conc, *)
(* see ConcGrid).  Times count from the first record.  LonAlways and      *)
(* cIdxFlat are plausible mistakes in the definitions they are named after. *)
(***************************************************************************)
EXTENDS ConcGrid, SequencesExt

CONSTANTS
  PlanesFiles,  \* the files -planesFile may name: sequences of lines
  Spacing       \* between the records of the stash

Line == [readable : BOOLEAN, cname : STRING, r : [Axes -> Int], time : Int,
         speed : Nat]

ASSUME PlanesAssumption ==
  /\ Spacing \in Nat \ {0}
  /\ PlanesFiles \subseteq Seq(Line)

VARIABLES
  report,    \* "none", "printed", or "undefined" when memory outside was read
  flight,    \* the flights, each the sequence of its lines
  exposure   \* the numbers of the flights reported, with their exposures

planesVars == <<vars, report, flight, exposure>>

-----------------------------------------------------------------------------
\* readPlanesFile: a new flight whenever the call name changes.
Joined(flights, line) ==
  IF flights # <<>> /\ Last(flights)[1].cname = line.cname
  THEN [flights EXCEPT ![Len(flights)] = Append(@, line)]
  ELSE Append(flights, <<line>>)

Flights(f) ==
  LET Read[n \in 0 .. Len(f)] ==
        IF n = 0 THEN <<>>
        ELSE IF f[n].readable THEN Joined(Read[n - 1], f[n]) ELSE Read[n - 1]
  IN  Read[Len(f)]

\* The last value of each dimension.
LastValue(a) == min[a] + (size[a] - 1) * d(a)
LastTime == (Records - 1) * Spacing

\* "loc->lon may be a large east value such as 350".
LonAlways(x) == IF x - Circle > min["x"] THEN x - Circle ELSE x

Lon(x) ==
  IF x > LastValue("x") /\ x - Circle > min["x"] /\ x - Circle < LastValue("x")
  THEN x - Circle ELSE x

Adjusted(r) == [r EXCEPT !["x"] = Lon(@)]

Covered(l) ==
  /\ \A a \in Axes : min[a] <= Adjusted(l.r)[a] /\ Adjusted(l.r)[a] <= LastValue(a)
  /\ 0 <= l.time /\ l.time <= LastTime

\* The steps are taken from the first two values, of which there may be one;
\* an empty dimension has no last value.
Undefined(l) ==
  \/ \E a \in Axes : size[a] = 0
  \/ Covered(l) /\ (Records = 1 \/ \E a \in Axes : size[a] = 1)

cIdxFlat(l) ==
  LET i == [a \in Axes |-> (Adjusted(l.r)[a] - min[a]) \div d(a)]
  IN  i["x"] + i["y"] * size["x"] + i["z"] * size["x"] * size["y"]
      + (l.time \div Spacing) * size["x"] * size["y"]

cIdx(l) ==
  LET i == [a \in Axes |-> (Adjusted(l.r)[a] - min[a]) \div d(a)]
  IN  i["x"] + i["y"] * size["x"] + i["z"] * size["x"] * size["y"]
      + (l.time \div Spacing) * size["x"] * size["y"] * size["z"]

abs_conc(l) ==
  IF Covered(l) /\ \A a \in Axes : size[a] > 0 THEN avg["air"][cIdx(l)] ELSE 0

\* Of all legs of flight f, with concentrations c at its lines.
Summed(f, c) ==
  LET Upto[k \in 1 .. Len(f)] ==
        IF k = 1 THEN 0
        ELSE Upto[k - 1]
             + (c[k - 1] + c[k]) * (f[k].time - f[k - 1].time) * f[k - 1].speed
  IN  Upto[Len(f)]

Exposure(f) == Summed(f, [k \in DOMAIN f |-> abs_conc(f[k])])

\* A flight of one line has no leg, and nothing is looked up for it.
UndefinedOn(f) == Len(f) > 1 /\ \E k \in DOMAIN f : Undefined(f[k])

\* "skip this flight if no times overlap"
Overlaps(f) == f[1].time <= LastTime /\ f[Len(f)].time >= 0

-----------------------------------------------------------------------------
PlanesInit == Init /\ report = "none" /\ flight = <<>> /\ exposure = <<>>

Grid == (MakeGrid \/ Count \/ Average \/ AverageBeyond) /\ UNCHANGED <<report, flight, exposure>>

calculateExposure ==
  /\ pc = "done" /\ report = "none"
  /\ \E f \in PlanesFiles : flight' = Flights(f)
  /\ LET met    == {k \in DOMAIN flight' : Overlaps(flight'[k])}
         beyond == \E k \in met : UndefinedOn(flight'[k])
     IN  /\ exposure' = IF beyond THEN <<>> ELSE [k \in met |-> Exposure(flight'[k])]
         /\ report'   = IF beyond THEN "undefined" ELSE "printed"
  /\ UNCHANGED vars

PlanesReturned == (report # "none" \/ pc = "outside") /\ UNCHANGED planesVars

PlanesNext == Grid \/ calculateExposure \/ PlanesReturned

PlanesSpec == PlanesInit /\ [][PlanesNext]_planesVars

-----------------------------------------------------------------------------
PlanesTypeOK ==
  /\ report \in {"none", "printed", "undefined"}
  /\ DOMAIN exposure \subseteq DOMAIN flight

\* The positions that hold value v of dimension a, of which the last value ends
\* the last: the last cell of each dimension is given no ash.
Slots(a, v) ==
  {i \in 0 .. size[a] - 1 : /\ min[a] + i * d(a) <= v /\ v < min[a] + (i + 1) * d(a)
                            /\ v <= LastValue(a)}

\* A longitude, or else the same place a circle to the west, off the edges.
PlaceSlots(a, v) ==
  LET west == v - Circle
  IN  IF Slots(a, v) # {} THEN Slots(a, v)
      ELSE IF a = "x" /\ min[a] < west /\ west < LastValue(a)
      THEN Slots(a, west) ELSE {}

TimeSlots(time) ==
  {t \in 0 .. Records - 1 : /\ t * Spacing <= time /\ time < (t + 1) * Spacing
                            /\ time <= LastTime}

Concentration(l) ==
  LET at == [a \in Axes |-> PlaceSlots(a, l.r[a])]
  IN  IF TimeSlots(l.time) = {} \/ \E a \in Axes : at[a] = {} THEN 0
      ELSE avg["air"][Cell("air", [a \in Axes |-> CHOOSE i \in at[a] : TRUE],
                           CHOOSE t \in TimeSlots(l.time) : TRUE)]

InOrder(f) == \A k \in 1 .. Len(f) - 1 : f[k].time <= f[k + 1].time

(* The exposure of a flight whose lines are in order of time is that of    *)
(* the cells it passes, as writeGriddedData filled them and                *)
(* averageGriddedData averaged them; a flight that is left out has none,   *)
(* and the index never leaves the array.                                   *)
ExposureRight ==
  report = "printed" =>
    \A k \in DOMAIN flight :
      InOrder(flight[k]) =>
        LET f == flight[k]
        IN  Summed(f, [i \in DOMAIN f |-> Concentration(f[i])])
              = IF k \in DOMAIN exposure THEN exposure[k] ELSE 0
=============================================================================

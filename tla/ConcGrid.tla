------------------------------ MODULE ConcGrid ------------------------------
(***************************************************************************)
(* Ash::writeGriddedData and Ash::averageGriddedData: the ash stashed in a *)
(* pass is counted in the cells of a grid, and the counts of the passes    *)
(* (-repeat) are averaged cell by cell.                                    *)
(*                                                                         *)
(* Positions are integers, in units of what a float resolves.  Masses and  *)
(* sizes are added at the index, in the branch and with the weights of the *)
(* counts, so the counts stand for them; but with cells of more than half  *)
(* a degree (write_abs_conc) the masses of all cells are zero.  Every pass *)
(* leaves as many records: only one with global winds may end early.  The  *)
(* rebinning of -gridLevels is left out.  The arrays are flat, as in the   *)
(* code.                                                                   *)
(*                                                                         *)
(* A definition named after another with a suffix is a plausible mistake   *)
(* in that operation, there to show which property notices it.             *)
(***************************************************************************)
EXTENDS Integers, FiniteSets, FiniteSetsExt

CONSTANTS
  ashN,           \* particles of the cloud
  Records,        \* records of the stash
  Stashes,        \* what recParticle can hold when a pass ends
  GridBoxes,      \* what -gridBox can be
  NoBox,          \* the option is absent
  Decimal,        \* the last decimal that "%f" prints, in units
  Size1, Size2, AsGiven,  \* -gridSize, and its "!"
  Repeat,         \* argument.repeat, 0 without it
  Circle, Near,   \* 360 and 10 degrees
  Far             \* bounds every coordinate

Axes  == {"x", "y", "z"}
Index == 0 .. ashN * Records - 1
Copy  == [r : [Axes -> -Far .. Far], exists : BOOLEAN, grounded : BOOLEAN]

\* A user's box has its limits in order, else the sizes below are negative.
Box   == {b \in [lo : [Axes -> Int], hi : [Axes -> Int]] :
            \A a \in Axes : b.lo[a] <= b.hi[a]}

ASSUME GridAssumption ==
  /\ ashN \in Nat \ {0} /\ Records \in Nat \ {0} /\ Repeat \in Nat
  /\ Size1 \in Nat \ {0} /\ Size2 \in Nat \ {0} /\ AsGiven \in BOOLEAN
  /\ Circle \in Nat /\ Near \in Nat /\ Far \in Nat /\ Decimal \in Nat \ {0}
  /\ Stashes \subseteq [Index -> Copy]
  /\ \A b \in GridBoxes \ {NoBox} : b \in Box
  /\ NoBox \notin Box

\* "this dHorz and dVert could be backwards, so swap them".
Swapped == Size1 > Size2 /\ ~AsGiven
dHorz   == IF Swapped THEN Size2 ELSE Size1
dVert   == IF Swapped THEN Size1 ELSE Size2
d(a)    == IF a = "z" THEN dVert ELSE dHorz

VARIABLES
  pc,        \* "limits", "count", "done", or "outside" when memory outside
             \* of the averages would be used
  rec,       \* recParticle
  gridBox,   \* argument.gridBox
  min, size, \* the origin of the grid, cc.xSize, ySize and zSize
  pIdx,      \* the copy counted next
  conc,      \* rel_air_conc and rel_fo_conc
  avg, den,  \* rel_air_conc_avg and rel_fo_conc_avg: avg[k][c] / den
  wgt,       \* passes averaged
  \* history variables, read by no action
  total,     \* the counts of the passes averaged, summed
  home       \* the grid of the first pass, and the box it was made from

vars == <<pc, rec, gridBox, min, size, pIdx, conc, avg, den, wgt, total, home>>

Kinds == {"air", "fo"}

-----------------------------------------------------------------------------
(* The grid of a pass.                                                     *)

Coords(s, a) == {s[p].r[a] : p \in Index}

Limits(s) == [lo |-> [a \in Axes |-> Min(Coords(s, a))],
              hi |-> [a \in Axes |-> Max(Coords(s, a))]]

\* "if ash falls within +/- 10 degrees of the meridian, assume it crosses it".
Crosses(s) == Limits(s).hi["x"] > Circle - Near /\ Limits(s).lo["x"] < Near

West(x) == IF 2 * x > Circle THEN x - Circle ELSE x

Unwrapped(s) ==
  IF Crosses(s) THEN [p \in Index |-> [s[p] EXCEPT !.r["x"] = West(@)]] ELSE s

UsedNot(s) == Limits(s)

\* The limits used: those of the option, or of the first pass, which sets it.
Used(s) == IF gridBox = NoBox THEN Limits(s) ELSE gridBox

\* "%f": the nearest that can be printed, which for most floats is the same.
Printed(v)    == ((2 * v + Decimal) \div (2 * Decimal)) * Decimal
PrintedBox(b) == [lo |-> [a \in Axes |-> Printed(b.lo[a])],
                  hi |-> [a \in Axes |-> Printed(b.hi[a])]]
Kept(s) == IF gridBox = NoBox THEN PrintedBox(Limits(s)) ELSE gridBox

RoundDownCeil(v, by) == ((v + by - 1) \div by) * by

RoundDown(v, by) == (v \div by) * by
RoundUp(v, by)   == -RoundDown(-v, by)

\* "round with dHorz and dVert".
Origin(box) == [a \in Axes |-> RoundDown(box.lo[a], d(a))]
SizeOf(box) == [a \in Axes |->
                  (RoundUp(box.hi[a], d(a)) - RoundDown(box.lo[a], d(a))) \div d(a)]

CellsOf(k, sz) == LET plane == sz["x"] * sz["y"] * Records
                  IN  0 .. (IF k = "air" THEN plane * sz["z"] ELSE plane) - 1

ZeroesOf(sz) == [k \in Kinds |-> [c \in CellsOf(k, sz) |-> 0]]

-----------------------------------------------------------------------------
(* The cell of a copy.                                                     *)

BinRound(r) == [a \in Axes |-> (r[a] - min[a] + d(a) \div 2) \div d(a)]

Bin(r) == [a \in Axes |-> (r[a] - min[a]) \div d(a)]

KindOf(p) == IF rec[p].grounded THEN "fo" ELSE "air"

tIdx(p) == p \div ashN

CellPacked(k, b, t) ==
  b["x"] + b["y"] * size["x"]
    + IF k = "fo" THEN t * size["x"] * size["y"]
      ELSE b["z"] * size["x"] * size["y"] + t * size["x"] * size["y"]

\* cIdx: a record of airborne ash has zSize planes, one of fallout has one.
Cell(k, b, t) ==
  b["x"] + b["y"] * size["x"]
    + IF k = "fo" THEN t * size["x"] * size["y"]
      ELSE b["z"] * size["x"] * size["y"] + t * size["x"] * size["y"] * size["z"]

OnGrid(b) == \A a \in Axes : 0 <= b[a] /\ b[a] < size[a]

\* "sanity check that cIdx is valid", and only what exists.
Counted(p) ==
  LET b == Bin(rec[p].r)
  IN  /\ rec[p].exists /\ OnGrid(b)
      /\ Cell(KindOf(p), b, tIdx(p)) \in CellsOf(KindOf(p), size)

-----------------------------------------------------------------------------
Init ==
  /\ pc = "limits" /\ rec \in Stashes /\ gridBox \in GridBoxes
  /\ min = [a \in Axes |-> 0] /\ size = [a \in Axes |-> 0]
  /\ pIdx = 0 /\ conc = ZeroesOf(size)
  /\ avg = ZeroesOf(size) /\ den = 1 /\ wgt = 0
  /\ total = ZeroesOf(size) /\ home = [min |-> min, size |-> size, box |-> gridBox]

\* Up to the zeroing of the arrays.
MakeGrid ==
  /\ pc = "limits"
  /\ rec' = Unwrapped(rec)
  /\ gridBox' = Kept(rec')
  /\ min' = Origin(Used(rec')) /\ size' = SizeOf(Used(rec'))
  /\ home' = IF wgt = 0 THEN [min |-> min', size |-> size', box |-> Used(rec')] ELSE home
  /\ pIdx' = 0 /\ conc' = ZeroesOf(size')
  /\ pc' = "count"
  /\ UNCHANGED <<avg, den, wgt, total>>

Count ==
  /\ pc = "count" /\ pIdx \in Index
  /\ conc' = IF Counted(pIdx)
             THEN [conc EXCEPT ![KindOf(pIdx)]
                                [Cell(KindOf(pIdx), Bin(rec[pIdx].r), tIdx(pIdx))] = @ + 1]
             ELSE conc
  /\ pIdx' = pIdx + 1
  /\ UNCHANGED <<pc, rec, gridBox, min, size, avg, den, wgt, total, home>>

\* averageGriddedData allocates the averages in its first call only.
Allocated(f) == IF wgt = 0 THEN ZeroesOf(size) ELSE f

WeightedLate(old, new) == (wgt + 1) * old + den * new

Weighted(old, new) == wgt * old + den * new

\* The loops run over the cells of this pass.
Held(k) == DOMAIN Allocated(avg)[k]
Beyond  == \E k \in Kinds : ~(CellsOf(k, size) \subseteq Held(k))

\* With the denominator (wgt + 1) * den the first is
\* wgt / (wgt + 1) * avg + 1 / (wgt + 1) * conc, the second avg.
Averaged == [k \in Kinds |-> [c \in Held(k) |->
               IF c \in CellsOf(k, size) THEN Weighted(Allocated(avg)[k][c], conc[k][c])
               ELSE (wgt + 1) * avg[k][c]]]

\* The rest of a pass, and the stash of the next one.
Average ==
  /\ pc = "count" /\ pIdx \notin Index /\ ~Beyond
  /\ avg' = Averaged /\ den' = (wgt + 1) * den /\ wgt' = wgt + 1
  /\ total' = [k \in Kinds |-> [c \in Held(k) |->
                 Allocated(total)[k][c]
                   + IF c \in CellsOf(k, size) THEN conc[k][c] ELSE 0]]
  /\ IF wgt < Repeat
     THEN pc' = "limits" /\ rec' \in Stashes
     ELSE pc' = "done" /\ rec' = rec
  /\ UNCHANGED <<gridBox, min, size, pIdx, conc, home>>

\* Cells that the arrays, allocated in the first pass, do not have.
AverageBeyond ==
  /\ pc = "count" /\ pIdx \notin Index /\ Beyond
  /\ pc' = "outside"
  /\ UNCHANGED <<rec, gridBox, min, size, pIdx, conc, avg, den, wgt, total, home>>

Returned == pc \in {"done", "outside"} /\ UNCHANGED vars

Next == MakeGrid \/ Count \/ Average \/ AverageBeyond \/ Returned

Spec == Init /\ [][Next]_vars

-----------------------------------------------------------------------------
(* Properties.                                                             *)

TypeOK ==
  /\ pc \in {"limits", "count", "done", "outside"}
  /\ rec \in [Index -> [r : [Axes -> Int], exists : BOOLEAN, grounded : BOOLEAN]]
  /\ gridBox \in Box \cup {NoBox}
  /\ min \in [Axes -> Int] /\ size \in [Axes -> Nat]
  /\ pIdx \in 0 .. ashN * Records
  /\ \A k \in Kinds : conc[k] \in [CellsOf(k, size) -> Nat]
  /\ wgt \in 0 .. Repeat + 1 /\ den \in Nat \ {0}

\* Is copy p in cell b of record t, by its position?
Within(p, k, b, t) ==
  /\ rec[p].exists /\ KindOf(p) = k
  /\ t * ashN <= p /\ p < (t + 1) * ashN
  /\ \A a \in Axes :
       LET low  == IF k = "fo" /\ a = "z" THEN 0 ELSE b[a]
           high == IF k = "fo" /\ a = "z" THEN size[a] ELSE b[a] + 1
       IN  min[a] + low * d(a) <= rec[p].r[a] /\ rec[p].r[a] < min[a] + high * d(a)

Bins == {b \in [Axes -> UNION {0 .. size[a] - 1 : a \in Axes}] : OnGrid(b)}

\* When all is counted, each element of the flat arrays is the number of existing
\* copies of its record inside its cell: no two cells share an index, and no copy counts for
\* another record or another cell.
CellsRight ==
  pc = "count" /\ pIdx \notin Index =>
    \A t \in 0 .. Records - 1 :
      \A b \in Bins : \A k \in Kinds :
        conc[k][Cell(k, b, t)]
          = Cardinality({p \in Index : Within(p, k, b, t)})

\* Without the option, the only ash of the first pass that is not counted lies
\* on an upper face of the box it was to define.
OnlyEdgeLost ==
  pc = "count" /\ wgt = 0 /\ home.box = Limits(rec) =>
    \A p \in Index : rec[p].exists /\ ~Counted(p) =>
      \E a \in Axes : rec[p].r[a] = home.box.hi[a]

\* A limit v of the first pass that is printed as w stays between the same faces
\* of cells: it is printed exactly, or no face is as near as "%f" may err.
Steady(v, w, a) ==
  v = w \/ (2 * (v % d(a)) > Decimal /\ 2 * (d(a) - (v % d(a))) > Decimal)
SteadyBox == \A a \in Axes : /\ Steady(home.box.lo[a], gridBox.lo[a], a)
                            /\ Steady(home.box.hi[a], gridBox.hi[a], a)

\* "set gridBox so the next time (if this is a repeat run) it will be used as
\* well": every pass has the grid of the first, and its averages their place,
\* although the limits go through a string.  The exception is a limit within
\* half a decimal of the face of a cell.
AveragesAlign ==
  pc # "limits" /\ SteadyBox => /\ min = home.min /\ size = home.size
                               /\ pc # "outside"

\* After each pass the averages are the means of the passes so far, if all had
\* one grid.
AveragesExact ==
  wgt > 0 /\ SteadyBox =>
    \A k \in Kinds : \A c \in DOMAIN total[k] : avg[k][c] * wgt = total[k][c] * den

\* "set gridBox so the next time (if this is a repeat run) it will be used as
\* well": ash of any pass strictly inside the box is counted, by whichever of
\* its longitudes it is given.
KeptBoxCounts ==
  pc = "count" =>
    \A p \in Index : \A turn \in {-Circle, 0, Circle} :
      LET r == [rec[p].r EXCEPT !["x"] = @ + turn]
      IN  rec[p].exists
            /\ (\A a \in Axes : gridBox.lo[a] < r[a] /\ r[a] < gridBox.hi[a])
          => Counted(p)
=============================================================================

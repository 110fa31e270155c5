---------------------------- MODULE WindLookup ----------------------------
(***************************************************************************)
(* Grid::nnint, the four-dimensional one: the interpolation of the winds   *)
(* at a particle.  For each dimension of the grid the coordinate is        *)
(* located by bisection among the grid values (fg_locate), clamped to the  *)
(* grid, and turned into the weights of two neighbouring values.           *)
(*                                                                         *)
(* The upper indices ihi, jhi, khi, lhi are static locals, shared by every *)
(* call and every Grid object; above the grid the clamp of LEVEL, LAT and  *)
(* LON reads the one the previous call left, before it is set.  Dimensions *)
(* do not depend on each other, so a lookup here is one dimension of one   *)
(* call; "FRTIME" stands for the clamp of the first dimension and "LEVEL"  *)
(* for that of the others (and of all dimensions in the versions with two  *)
(* and three).                                                             *)
(*                                                                         *)
(* A definition named after another with a suffix is a plausible mistake   *)
(* in that operation, there to show which property notices it.             *)
(***************************************************************************)
EXTENDS Integers

CONSTANTS
  Grids,      \* the Grid objects (U, V, W, ...)
  Size,       \* their number of values, in a dimension
  Val,        \* fgData[d].val: the values, ascending or descending
  Points,     \* the coordinates looked up
  Wild        \* what a read outside an array yields

Indices(g)   == 0 .. Size[g] - 1
Last(g)      == Val[g][Size[g] - 1]
Ascending(g) == Last(g) > Val[g][0]

ASSUME GridAssumption ==
  /\ Size \in [Grids -> Nat] /\ \A g \in Grids : Size[g] >= 2
  /\ \A g \in Grids : Val[g] \in [Indices(g) -> Int]
  /\ \A g \in Grids : \/ \A p, q \in Indices(g) : p < q => Val[g][p] < Val[g][q]
                      \/ \A p, q \in Indices(g) : p < q => Val[g][p] > Val[g][q]
  /\ Points \subseteq Int /\ Wild \notin Int

Dims == {"FRTIME", "LEVEL"}

VARIABLES
  stage,    \* "idle", "locate", or "ready": the weights can be computed
  grid,     \* the object of the call
  dim,      \* the dimension
  x,        \* the coordinate asked for
  jl, ju,   \* the bisection of fg_locate
  jlo, jhi, \* the static indices, one pair for each dimension
  yy        \* the coordinate after the clamp, Wild if read outside val

lookupVars == <<stage, grid, dim, x, jl, ju, jlo, jhi, yy>>

\* A read of the values at p.
Read(g, p) == IF p \in Indices(g) THEN Val[g][p] ELSE Wild

-----------------------------------------------------------------------------
LookupInit ==
  /\ stage = "idle" /\ grid \in Grids /\ dim \in Dims /\ x \in Points
  /\ jl = -1 /\ ju = 0
  /\ jlo = [d \in Dims |-> 0] /\ jhi = [d \in Dims |-> 0]
  /\ yy = x

\* fg_locate begins with bounds on both sides of the array.
CallPast(g, d, p) ==
  /\ stage \in {"idle", "ready"}
  /\ grid' = g /\ dim' = d /\ x' = p
  /\ jl' = -1 /\ ju' = Size[g] + 2
  /\ stage' = "locate"
  /\ UNCHANGED <<jlo, jhi, yy>>

Call(g, d, p) ==
  /\ stage \in {"idle", "ready"}
  /\ grid' = g /\ dim' = d /\ x' = p
  /\ jl' = -1 /\ ju' = Size[g] + 1
  /\ stage' = "locate"
  /\ UNCHANGED <<jlo, jhi, yy>>

\* What the comparison of fg_locate with the value at jm can say.  One past
\* the last value the comparison is with whatever lies there.
GoesUp(jm) ==
  IF jm \in Indices(grid) THEN {(x > Val[grid][jm]) <=> Ascending(grid)} ELSE BOOLEAN

Bisect ==
  /\ stage = "locate" /\ ju - jl > 1
  /\ LET jm == (ju + jl) \div 2
     IN  \E up \in GoesUp(jm) :
           IF up THEN jl' = jm /\ UNCHANGED ju ELSE ju' = jm /\ UNCHANGED jl
  /\ UNCHANGED <<stage, grid, dim, x, jlo, jhi, yy>>

\* What fg_locate returns: the two end cases go to the first and last interval.
Located ==
  CASE ~Ascending(grid) /\ jl = Size[grid] /\ x = Last(grid) -> Size[grid] - 2
    [] jl < 0 /\ x = Val[grid][0] -> 0
    [] OTHER -> jl

OffTopEarly == Located >= Size[grid] - 2

OffBottom == Located < 0
OffTop    == Located >= Size[grid] - 1

LowerLast ==
  CASE OffBottom -> 0 [] OffTop -> Size[grid] - 1 [] OTHER -> Located

\* The lower neighbour after the clamp.
Lower ==
  CASE OffBottom -> 0 [] OffTop -> Size[grid] - 2 [] OTHER -> Located

ClampedStale ==
  CASE OffBottom -> Val[grid][0]
    [] OffTop -> Read(grid, jhi[dim])
    [] OTHER -> x

\* The coordinate after the clamp.  Off the top FRTIME takes the last value, the
\* other dimensions the value at the upper index of the previous call.
Clamped ==
  CASE OffBottom -> Val[grid][0]
    [] OffTop -> IF dim = "FRTIME" THEN Last(grid) ELSE Read(grid, jhi[dim])
    [] OTHER -> x

Clamp ==
  /\ stage = "locate" /\ ju - jl <= 1
  /\ yy' = Clamped
  /\ jlo' = [jlo EXCEPT ![dim] = Lower]
  /\ jhi' = [jhi EXCEPT ![dim] = Lower + 1]
  /\ stage' = "ready"
  /\ UNCHANGED <<grid, dim, x, jl, ju>>

LookupNext == (\E g \in Grids, d \in Dims, p \in Points : Call(g, d, p)) \/ Bisect \/ Clamp

LookupSpec == LookupInit /\ [][LookupNext]_lookupVars

-----------------------------------------------------------------------------
(* Properties.                                                             *)

\* Types; the bounds of the bisection stay within one of the array.
LookupTypeOK ==
  /\ stage \in {"idle", "locate", "ready"}
  /\ grid \in Grids /\ dim \in Dims /\ x \in Points
  /\ jl \in -1 .. Size[grid] /\ ju \in 0 .. Size[grid] + 1
  /\ jlo \in [Dims -> Int] /\ jhi \in [Dims -> Int]
  /\ yy \in Int \cup {Wild}

Inside == IF Ascending(grid) THEN Val[grid][0] <= x /\ x <= Last(grid)
          ELSE Last(grid) < x /\ x <= Val[grid][0]
Below  == IF Ascending(grid) THEN x < Val[grid][0] ELSE x > Val[grid][0]

Between(v, p, q) == (p <= v /\ v <= q) \/ (q <= v /\ v <= p)

\* Inside the grid the two neighbours enclose the coordinate, so the weights are
\* between 0 and 1, and no earlier call has a say.  (At the last value of a
\* descending dimension fg_locate reads past the array and this can fail.)
InsideExact ==
  stage = "ready" /\ Inside =>
    /\ yy = x
    /\ Between(x, Read(grid, jlo[dim]), Read(grid, jhi[dim]))

\* Outside the grid at its first value, or in time at either end, the value of
\* the nearest neighbour is taken.
ClampedExact ==
  stage = "ready" =>
    /\ Below => jlo[dim] = 0 /\ yy = Val[grid][0]
    /\ ~Below /\ ~Inside /\ dim = "FRTIME" =>
         jhi[dim] = Size[grid] - 1 /\ yy = Last(grid)

\* Whatever the coordinate, the two values are neighbours inside the array.
Neighbours ==
  stage = "ready" =>
    /\ jlo[dim] \in Indices(grid) /\ jhi[dim] \in Indices(grid)
    /\ jhi[dim] = jlo[dim] + 1
=============================================================================

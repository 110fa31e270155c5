----------------------------- MODULE MCConcGrid -----------------------------
(* Two particles, two records and two passes.  A copy is one of a few that *)
(* lie on the faces of cells, near them, inside them, and on either side   *)
(* of the meridian; a cell is 6 by 6 by 10 units, of which "%f" prints     *)
(* every third; a circle has 36.  The flights pass on either side of the   *)
(* meridian, one begins before the first record, one is after the last,    *)
(* and a line is not readable.                                             *)
EXTENDS Planes

At(x, y, z) == [a \in Axes |-> CASE a = "x" -> x [] a = "y" -> y [] OTHER -> z]

Thing(x, y, z, ex, gr) == [r |-> At(x, y, z), exists |-> ex, grounded |-> gr]

Things == <<Thing(0, 0, 0, TRUE, TRUE), Thing(5, 6, 20, TRUE, FALSE),
            Thing(33, 3, 3, TRUE, FALSE), Thing(30, -3, 0, TRUE, FALSE),
            Thing(9, 3, 13, FALSE, FALSE)>>

\* The order of the particles of a record does not matter.
SomeStashes ==
  {[p \in Index |-> Things[f[p]]] :
     f \in {g \in [Index -> 1 .. Len(Things)] :
              \A t \in 0 .. Records - 1 : g[t * ashN] <= g[t * ashN + 1]}}

UserBox   == [lo |-> At(-6, 0, -3), hi |-> At(9, 9, 15)]
SomeBoxes == {NoBox, UserBox}

Over(name, x, y, z, t) ==
  [readable |-> TRUE, cname |-> name, r |-> At(x, y, z), time |-> t, speed |-> 1]
Garbage == [Over("A", 0, 0, 0, 0) EXCEPT !.readable = FALSE]

SomePlanes ==
  {<<Over("A", -9, 0, 3, 0), Over("A", 0, 0, 0, 1), Over("A", 3, 3, 6, 5),
     Over("B", 33, 0, 0, -5), Garbage, Over("B", 33, 3, 3, 3), Over("B", 33, 0, 3, 5),
     Over("A", 3, 0, 3, 7), Over("A", 3, 0, 3, 8)>>}
=============================================================================

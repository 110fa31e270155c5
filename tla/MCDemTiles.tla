---------------------------- MODULE MCDemTiles ----------------------------
(* Three tiles on a circle of 24: two of one size, of which one goes over  *)
(* the meridian, one with fewer rows, and a gap of four between them.      *)
EXTENDS DemTiles

Says(w, c, r, n) == [west |-> w, corner |-> c, nrows |-> r, ncols |-> n, d |-> 2]

ThreeTiles == [t \in 0 .. 2 |-> CASE t = 0 -> Says(6, 4, 4, 4)
                                  [] t = 1 -> Says(14, 4, 2, 2)
                                  [] t = 2 -> Says(-2, 4, 4, 4)]

SomeLats == {-3, 1, 4, 7}
SomeLons == {-1, 0, 4, 7, 11, 15, 25}
=============================================================================

--------------------------- MODULE MCWindLookup ---------------------------
(* Two grids of different sizes, one ascending and one descending, and     *)
(* coordinates on, between and beyond their values.                        *)
EXTENDS WindLookup

TwoGrids  == {"U", "T"}
TwoSizes  == [g \in TwoGrids |-> IF g = "U" THEN 4 ELSE 3]
TwoVals   == [g \in TwoGrids |->
                IF g = "U" THEN [p \in 0 .. 3 |-> 2 * p]
                ELSE [p \in 0 .. 2 |-> 5 - 2 * p]]
AllPoints == -1 .. 7
=============================================================================

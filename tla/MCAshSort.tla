----------------------------- MODULE MCAshSort -----------------------------
(* An instance of AshSort: of its keys only the least and the greatest are *)
(* floats, so that one is rounded down and one up.                         *)
EXTENDS AshSort

Doubles == 0 .. 3
Rounded == [v \in Doubles |-> IF v < 2 THEN 0 ELSE 3]
=============================================================================

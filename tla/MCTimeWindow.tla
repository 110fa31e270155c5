--------------------------- MODULE MCTimeWindow ---------------------------
(* Files of up to three records in any order, with equal times and with    *)
(* one time that no float holds, and of seven, for which shellsort begins  *)
(* with an offset of two; runs that begin and end on, between, before and  *)
(* after the records.                                                      *)
EXTENDS TimeWindow

SomeTimes  == 0 .. 3
SomeFloats == [t \in SomeTimes |-> IF t = 3 THEN 2 ELSE t]
Seconds    == [t \in SomeTimes |-> 2 * t]
SomeSizes  == {0, 1, 2, 3, 7}
SomeFiles  == [m \in SomeSizes |->
                 IF m < 7 THEN [0 .. m - 1 -> SomeTimes]
                 ELSE {f \in [0 .. 6 -> 0 .. 2] :
                         Cardinality({r \in 0 .. 6 : f[r] = 1}) = 2}]
RunStarts  == {-1, 0, 2, 3, 5}
RunEnds    == {0, 2, 3, 5}
=============================================================================

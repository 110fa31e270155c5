---------------------------- MODULE MCInitialAsh ----------------------------
(* Outlines of every kind the checks tell apart, with vertices at even     *)
(* longitudes so that the odd ones are free of them, and elevation points  *)
(* inside and outside of them.                                             *)
EXTENDS InitialAsh

Notched == <<<<-2, 0>>, <<14, 0>>, <<14, 6>>, <<8, 6>>, <<6, 1>>, <<4, 6>>, <<-2, 6>>>>
Diamond == <<<<0, 4>>, <<4, 0>>, <<8, 4>>, <<4, 8>>>>
BowTie  == <<<<0, 0>>, <<6, 4>>, <<6, 0>>, <<0, 4>>>>
Twisted == <<<<0, 0>>, <<8, 2>>, <<2, 4>>, <<4, -2>>, <<-2, 2>>>>
Square4 == <<<<0, 0>>, <<4, 0>>, <<4, 4>>, <<0, 4>>>>

SomeOutlines == {Notched, Diamond, BowTie, Twisted, Square4}

SomeElevations ==
  {<<<<3, 2>>, <<5, 2>>>>, <<<<3, 3>>>>, <<<<3, 4>>, <<9, 4>>, <<5, 3>>>>,
   <<<<5, 5>>, <<7, 5>>>>}

Class(p, n) == [mass |-> p, many |-> n]
SomeClasses ==
  {<<>>, <<Class(1, 1)>>, <<Class(60, 1), Class(80, 1), Class(60, 1)>>,
   <<Class(80, 1), Class(10, 8)>>, <<Class(60, 1), Class(40, 8), Class(0, 64)>>,
   <<Class(10, 8), Class(20, 1)>>}
=============================================================================

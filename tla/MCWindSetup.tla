--------------------------- MODULE MCWindSetup ---------------------------
(* Four series of files: "gfs" has winds and temperature, "hgt" their      *)
(* geopotential, "sfc" winds in meters, "nam" everything for a larger grid,*)
(* with a unit that is misread and names that begin with the day.  Some    *)
(* lines ask for variables that are not in the files.  The files of "hgt"  *)
(* leave out an hour that those of "gfs" have, so that whether the two     *)
(* keep as many records depends on the eruption.                           *)
EXTENDS WindSetup

Holding(these, hours, shape, levels, zunits) ==
  [vars |-> these, hours |-> hours, shape |-> shape, levels |-> levels,
   zunits |-> zunits]

SomeMasks == {"gfs", "hgt", "sfc", "nam"}
SomeRuns  == 0 .. 2
SomeEruptions == {1, 2}

SomeContent == [m \in SomeMasks |->
  CASE m = "gfs" -> Holding({"u", "v", "T"}, 0 .. 2, 1, "millibars", "none")
    [] m = "hgt" -> Holding({"z"}, {0, 2}, 1, "millibars", "gpm")
    [] m = "sfc" -> Holding({"u", "v"}, {0, 2}, 1, "meters", "none")
    [] m = "nam" -> Holding(Variables, 0 .. 3, 2, "millibars", "m")]

SomeNames == [m \in SomeMasks |->
  [r \in SomeRuns \union SomeEruptions |-> IF m = "nam" THEN (r + 1) % 3 ELSE r]]

mask(m) == [mask |-> m, vars |-> {}]
var(these) == [mask |-> NoMask, vars |-> these]

SomeLines == {
  <<mask("gfs"), var({"u", "v", "T"}), mask("hgt"), var({"z"})>>,
  <<mask("gfs"), var({"u", "T"}), mask("sfc"), var({"v"})>>,
  <<mask("sfc"), var({"u", "v"}), mask("gfs"), var({"v", "T"})>>,
  <<mask("sfc"), var({"u", "v"})>>,
  <<mask("hgt"), var({"u"})>>,
  <<mask("gfs"), var({"u"}), mask("hgt"), var({"v"})>>,
  <<mask("gfs"), var({"u", "v", "z"}), mask("sfc"), var({"T"})>>,
  <<mask("nam"), var({"u", "v", "z"})>>,
  <<var({"u", "v"}), mask("gfs"), var({"T"})>>,
  <<mask("nam"), var(Variables), mask("gfs"), var({"u"}), var({"v"})>>}

Named(x, f) == [y \in Variables |-> IF y = x THEN f ELSE NoFile]

SomeOptions == {
  [file |-> Named("", NoFile), path |-> FALSE, needT |-> TRUE],
  [file |-> Named("", NoFile), path |-> FALSE, needT |-> FALSE],
  [file |-> Named("u", [mask |-> "gfs", run |-> 1]), path |-> TRUE, needT |-> TRUE],
  [file |-> Named("z", [mask |-> "hgt", run |-> 1]), path |-> FALSE, needT |-> TRUE],
  [file |-> Named("z", [mask |-> "hgt", run |-> 1]), path |-> TRUE, needT |-> FALSE]}

SomeDirs == {d \in SUBSET AllFiles : Cardinality(d) \in 1 .. 3}
=============================================================================

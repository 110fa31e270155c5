---------------------------- MODULE WindSetup ----------------------------
(***************************************************************************)
(* Atmosphere::make_winds: which files become the winds of a run, and what *)
(* their levels become.  PuffRC gives each variable the mask of its file   *)
(* names (loadResources) and looks for the newest such file not after the  *)
(* eruption (mostRecentFile), each time in the directory as it then is:    *)
(* files arrive there while Puff starts.  Levels in millibars are turned   *)
(* into heights with the geopotential of a file (PtoH), or with a formula. *)
(*                                                                         *)
(* A file is known by its mask and by the time of the forecast run in its  *)
(* name, which is also its reference time.  A Grid is what is remembered   *)
(* of one: its file, whether it has data, the unit its levels claim        *)
(* ("label") and what they are ("level").  A file has its records at the   *)
(* hours of its forecast; a grid keeps those that cover the run, and PtoH  *)
(* compares how many they are, not their times.  The values, the rotated   *)
(* and the regional grids, and the vertical wind itself are left out.      *)
(*                                                                         *)
(* A definition named after another with a suffix is a plausible mistake   *)
(* in that operator, there to show which property notices it.              *)
(***************************************************************************)
EXTENDS Integers, Sequences, FiniteSets

CONSTANTS
  Masks,      \* the masks a resource file may give
  Runs,       \* the times of forecast runs
  Eruptions,  \* argument.eruptDate
  RunHours,   \* argument.runHours
  Content,    \* what the files of each mask hold
  Name,       \* the order of the names made from a mask and a time
  Lines,      \* the pairs of the resource lines of a model, in their order
  Options,    \* the files given by options
  FirstDirs,  \* what dataPath may hold when Puff starts
  MaxFiles    \* bounds the files in dataPath

NoMask == ""
NoRun  == -1
NoFile == [mask |-> NoMask, run |-> NoRun]

Variables == {"u", "v", "T", "z"}
AllFiles  == [mask : Masks, run : Runs]

ASSUME SetupAssumption ==
  /\ NoMask \notin Masks
  /\ Runs \subseteq Nat /\ Eruptions \subseteq Nat /\ RunHours \in Nat \ {0}
  /\ Content \in [Masks -> [vars : SUBSET Variables, hours : SUBSET Nat, shape : Nat,
                            levels : {"millibars", "meters"}, zunits : STRING]]
  /\ Name \in [Masks -> [Runs \union Eruptions -> Int]]
  /\ Lines \subseteq Seq([mask : Masks \union {NoMask}, vars : SUBSET Variables])
  /\ Options \subseteq [file : [Variables -> AllFiles \union {NoFile}],
                        path : BOOLEAN, needT : BOOLEAN]
  /\ FirstDirs \subseteq SUBSET AllFiles

VARIABLES
  pc,       \* the variable to be read next, or how make_winds ended
  erupt, line, option,       \* the run
  dir,      \* the files of dataPath
  listed,   \* dir as it was when the file of u was chosen
  U, V, T, Z, P              \* the grids

vars == <<pc, erupt, line, option, dir, listed, U, V, T, Z, P>>

-----------------------------------------------------------------------------
(* PuffRC.  A pair of the line is mask=... or var=...; a mask counts for   *)
(* the var pairs that follow it, also on later lines.                      *)

TakePair(rc, pair) ==
  [mask |-> IF pair.mask = NoMask THEN rc.mask ELSE pair.mask,
   of   |-> [x \in Variables |-> IF x \in pair.vars THEN rc.mask ELSE rc.of[x]]]

Blank == [mask |-> NoMask, of |-> [x \in Variables |-> NoMask]]

\* What PuffRC remembers after so many pairs of the line.
Taken(l) ==
  LET rc[n \in 0 .. Len(l)] == IF n = 0 THEN Blank ELSE TakePair(rc[n - 1], l[n])
  IN rc

Loaded == [l \in Lines |-> Taken(l)[Len(l)].of]

MaskOf(x) == Loaded[line][x]

\* The files whose name is not after the one made from the eruption date.
Candidates(m) == {f \in dir : f.mask = m /\ Name[m][f.run] <= Name[m][erupt]}

MostRecent(m) ==
  IF m = NoMask \/ Candidates(m) = {} THEN NoFile
  ELSE CHOOSE f \in Candidates(m) :
         \A g \in Candidates(m) : Name[m][g.run] <= Name[m][f.run]

\* The file of a variable, or NoFile if it has no name or does not open.
\* -path is put before the files of u and v only.
FileFor(x) ==
  IF option.file[x] = NoFile THEN MostRecent(MaskOf(x))
  ELSE IF option.file[x] \in dir /\ (x \in {"u", "v"} \/ ~option.path)
       THEN option.file[x] ELSE NoFile

-----------------------------------------------------------------------------
(* Grids.                                                                  *)

NoGrid == [file |-> NoFile, data |-> FALSE, label |-> "none",
           level |-> "none", by |-> NoRun]

Times(f) == {f.run + h : h \in Content[f.mask].hours}

\* The records read_cdf keeps: from the last not after the start of the run to
\* the first not before its end, or to the first or last there is.
Window(f, start) ==
  {t \in Times(f) : /\ \A s \in Times(f) : t < s => start < s
                    /\ \A s \in Times(f) : s < t => s < start + RunHours}

Records(f) == Cardinality(Window(f, erupt))

\* One record is no better than none.
HasRecords(f) == Records(f) > 1

Raw(f) == IF Content[f.mask].levels = "meters" THEN "height" ELSE "pressure"

GridOf(f) == [file |-> f, data |-> HasRecords(f),
              label |-> Content[f.mask].levels, level |-> Raw(f), by |-> NoRun]

StandardT == [NoGrid EXCEPT !.data = TRUE, !.label = "meters", !.level = "height"]

\* A level in meters goes through the formula for millibars as well.
ByFormula(g) ==
  [g EXCEPT !.label = "meters",
            !.level = CASE g.level = "pressure" -> "height"
                        [] g.level = "none"     -> "none"
                        [] OTHER                -> "nonsense"]

(* The units of the geopotential are looked for inside two lists of units, *)
(* and then inside "gpDekameters".                                         *)
Divided == {"m2/s2", "m", ""}
Scaled  == {"gpDekameters", "meters", "m", ""}
Known   == Divided \union {"gpm", "meters", "gpDekameters"}

HeightsOf(units) ==
  IF (units \in Divided <=> units = "m2/s2") /\ units \notin Scaled
  THEN "height" ELSE "off"

\* The tests of PtoH; when one fails the grid stays as it is.
Fits(g, z) == /\ Content[z.file.mask].shape = Content[g.file.mask].shape
              /\ Records(z.file) = Records(g.file)
              /\ z.file.run = g.file.run
              /\ Content[z.file.mask].zunits \in Known

ByGeopotential(g, z) ==
  IF g.label = "meters" \/ ~g.data \/ ~Fits(g, z) THEN g
  ELSE [g EXCEPT !.label = "meters", !.by = z.file.run,
                 !.level = HeightsOf(Content[z.file.mask].zunits)]

\* pressureGridFromZ: the levels of z as values, with no unit for the levels.
PressureGrid(z) == [z EXCEPT !.label = "none"]

\* failedZfileRead is never reset.
LevelsOfBoth(g, z) == ByFormula(IF z.data THEN ByGeopotential(g, z) ELSE g)

LevelsOf(g, z) == IF z.data THEN ByGeopotential(g, z) ELSE ByFormula(g)

-----------------------------------------------------------------------------
Init ==
  /\ pc = "u"
  /\ erupt \in Eruptions /\ line \in Lines /\ option \in Options
  /\ dir \in FirstDirs /\ listed = {}
  /\ U = NoGrid /\ V = NoGrid /\ T = NoGrid /\ Z = NoGrid /\ P = NoGrid

Same == UNCHANGED <<erupt, line, option, dir>>

\* A variable that is not in its file ends the program.
Missing(x) == FileFor(x) # NoFile /\ x \notin Content[FileFor(x).mask].vars
Found(x)   == FileFor(x) # NoFile /\ x \in Content[FileFor(x).mask].vars

StopIfMissing(x) ==
  /\ pc = x /\ Missing(x)
  /\ pc' = "exit"
  /\ Same /\ UNCHANGED <<listed, U, V, T, Z, P>>

\* No file: the end for u and v.
StopIfUnread(x) ==
  /\ pc = x /\ FileFor(x) = NoFile
  /\ pc' = "error"
  /\ Same /\ UNCHANGED <<listed, U, V, T, Z, P>>

ReadU ==
  /\ pc = "u" /\ Found("u")
  /\ U' = GridOf(FileFor("u")) /\ listed' = dir
  /\ pc' = IF U'.data THEN "v" ELSE "exit"
  /\ Same /\ UNCHANGED <<V, T, Z, P>>

SameReferenceUntested(v) == TRUE

SameReference(v) == v.file.run = U.file.run

\* Records of v are asked for only at the end.
ReadV ==
  /\ pc = "v" /\ Found("v")
  /\ V' = GridOf(FileFor("v"))
  /\ pc' = IF SameReference(V') THEN "T" ELSE "error"
  /\ Same /\ UNCHANGED <<listed, U, T, Z, P>>

SkipT ==
  /\ pc = "T" /\ ~option.needT
  /\ pc' = "z"
  /\ Same /\ UNCHANGED <<listed, U, V, T, Z, P>>

\* A file without records for the run is no better than none.
ReadT ==
  /\ pc = "T" /\ option.needT /\ ~Missing("T")
  /\ T' = IF FileFor("T") # NoFile /\ GridOf(FileFor("T")).data
          THEN GridOf(FileFor("T")) ELSE StandardT
  /\ pc' = "z"
  /\ Same /\ UNCHANGED <<listed, U, V, Z, P>>

(* How make_winds ends: wind_create_W takes the components of v with the   *)
(* indices of u, in space and in time.                                     *)
End(u, v) ==
  IF ~u.data \/ ~v.data THEN "error"
  ELSE IF \/ Content[u.file.mask].shape # Content[v.file.mask].shape
          \/ Records(v.file) < Records(u.file)
       THEN "undefined" ELSE "made"

InMeters ==
  /\ pc = "z" /\ U.label = "meters"
  /\ pc' = End(U, V)
  /\ Same /\ UNCHANGED <<listed, U, V, T, Z, P>>

\* Whether PtoH could convert anything is not asked.
Convert ==
  /\ pc = "z" /\ U.label # "meters" /\ ~Missing("z")
  /\ Z' = IF FileFor("z") = NoFile THEN NoGrid ELSE GridOf(FileFor("z"))
  /\ P' = IF Z'.data THEN ByGeopotential(PressureGrid(Z'), Z') ELSE P
  /\ U' = LevelsOf(U, Z') /\ V' = LevelsOf(V, Z') /\ T' = LevelsOf(T, Z')
  /\ pc' = End(U', V')
  /\ Same /\ UNCHANGED listed

\* A file of the newest forecast run arrives in the directory.
Arrive ==
  /\ pc \in Variables /\ Cardinality(dir) < MaxFiles
  /\ \E f \in AllFiles \ dir : /\ \A g \in dir : g.run <= f.run
                               /\ dir' = dir \union {f}
  /\ UNCHANGED <<pc, erupt, line, option, listed, U, V, T, Z, P>>

Ended == pc \in {"made", "error", "exit", "undefined"} /\ UNCHANGED vars

Next ==
  \/ StopIfMissing("u") \/ StopIfMissing("v")
  \/ (option.needT /\ StopIfMissing("T"))
  \/ (U.label # "meters" /\ StopIfMissing("z"))
  \/ StopIfUnread("u") \/ StopIfUnread("v")
  \/ ReadU \/ ReadV \/ SkipT \/ ReadT \/ InMeters \/ Convert
  \/ Arrive \/ Ended

Spec == Init /\ [][Next]_vars

-----------------------------------------------------------------------------
(* Properties.                                                             *)

Position == 1 .. Len(line)

\* The mask a reader of the resource file would see for x: the nearest one
\* before the last var that names x.
Given(x) ==
  LET named  == {i \in Position : x \in line[i].vars}
      last   == CHOOSE i \in named : \A j \in named : j <= i
      before == {i \in Position : i < last /\ line[i].mask # NoMask}
  IN IF named = {} \/ before = {} THEN NoMask
     ELSE line[CHOOSE i \in before : \A j \in before : j <= i].mask

Dates == Runs \union Eruptions
Chronological(m) == \A d, e \in Dates : d < e => Name[m][d] < Name[m][e]

\* Whatever arrives while make_winds runs, winds are made of one forecast run:
\* u and v, and the geopotential that gave them heights, have one reference
\* time, and reach the run.  If no file was named, and names sort as
\* dates do, it is the newest run not after the eruption that the directory
\* held for u.  (Atmosphere::make_winds, PuffRC::mostRecentFile)
OneRun ==
  pc = "made" =>
    /\ V.file.run = U.file.run
    /\ \A g \in {U, V} : HasRecords(g.file) /\ g.by \in {NoRun, U.file.run}
    /\ option.file["u"] = NoFile /\ Chronological(Given("u")) =>
         /\ U.file.mask = Given("u") /\ U.file.run <= erupt
         /\ \A f \in listed : f.mask = Given("u") /\ f.run <= erupt
                                => f.run <= U.file.run

\* What cannot become right: any grid in millibars beside a u in meters, one in
\* meters beside a u in millibars, a geopotential of another run, shape or
\* number of records or of unknown unit, and one whose unit is misread.
Aside    == Content[U.file.mask].levels = "meters"
Twice(g) == /\ ~Z.data /\ Content[U.file.mask].levels = "millibars"
            /\ g.file = NoFile \/ Content[g.file.mask].levels = "meters"
Unfit(g) == Z.data /\ ~Fits(g, Z)
Misread  == Z.data /\ HeightsOf(Content[Z.file.mask].zunits) = "off"

\* When winds are made the levels of u, v, temperature and pressure are
\* heights, and a grid is converted once, except in the cases above; and u and
\* v from files alike have come to the same levels in the same way.
\* (Atmosphere::make_winds, Grid::PtoH)
LevelsTrue ==
  pc = "made" =>
    /\ \A g \in {U, V, T, P} : g.data =>
         \/ g.level = "height" /\ (g.label = "meters" \/ Unfit(g))
         \/ g.level = "pressure" /\ g.label # "meters" /\ (Aside \/ Unfit(g))
         \/ g.level = "off" /\ g.label = "meters" /\ Misread
         \/ g.level = "nonsense" /\ Twice(g)
    /\ Content[U.file.mask] = Content[V.file.mask] =>
         V.level = U.level /\ V.by = U.by
=============================================================================

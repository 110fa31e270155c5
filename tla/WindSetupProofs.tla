------------------------- MODULE WindSetupProofs -------------------------
(* Proofs about make_winds: which files become the winds, whatever is in  *)
(* the directory and in the resource file, and what their levels become.   *)
EXTENDS WindSetup, WellFoundedInduction, TLAPS

Grid == [file : AllFiles \union {NoFile}, data : BOOLEAN,
         label : {"none", "millibars", "meters"},
         level : {"none", "pressure", "height", "off", "nonsense"},
         by : Runs \union {NoRun}]

-----------------------------------------------------------------------------
(* What the operators return.                                              *)

LEMMA RecordOfFile ==
  ASSUME NEW f \in AllFiles
  PROVE  /\ f.mask \in Masks /\ f.run \in Runs /\ f.run \in Nat
         /\ f # NoFile
         /\ Content[f.mask].levels \in {"millibars", "meters"}
<1>1. f.mask \in Masks /\ f.run \in Runs
  BY DEF AllFiles
<1>2. f.run \in Nat /\ f.mask # NoMask
  BY <1>1, SetupAssumption
<1>3. Content[f.mask] \in [vars : SUBSET Variables, hours : SUBSET Nat, shape : Nat,
                           levels : {"millibars", "meters"}, zunits : STRING]
  BY <1>1, SetupAssumption
<1>4. f # NoFile
  BY <1>2 DEF NoFile
<1>. QED  BY <1>1, <1>2, <1>3, <1>4

\* A file just read makes a grid.
LEMMA GridOfFile ==
  ASSUME NEW f \in AllFiles
  PROVE  GridOf(f) \in Grid /\ GridOf(f).file = f /\ GridOf(f).by = NoRun
<1>1. HasRecords(f) \in BOOLEAN
  BY DEF HasRecords, Records
<1>. QED  BY RecordOfFile, <1>1 DEF GridOf, Grid, Raw

LEMMA SpecialGrids ==
  /\ NoGrid \in Grid /\ ~NoGrid.data
  /\ StandardT \in Grid
  /\ StandardT.level = "height" /\ StandardT.label = "meters"
  BY DEF NoGrid, StandardT, Grid, NoFile

\* A conversion keeps the file and its data, and takes heights from nowhere
\* but the geopotential.
LEMMA LevelsKeep ==
  ASSUME NEW g \in Grid, NEW z \in Grid, z.data => z.file \in AllFiles
  PROVE  /\ LevelsOf(g, z) \in Grid
         /\ LevelsOf(g, z).file = g.file /\ LevelsOf(g, z).data = g.data
         /\ \/ LevelsOf(g, z).by = g.by
            \/ Fits(g, z) /\ LevelsOf(g, z).by = z.file.run
<1>1. CASE z.data
  <2>1. HeightsOf(Content[z.file.mask].zunits) \in {"height", "off"}
    BY DEF HeightsOf
  <2>2. z.file.run \in Runs
    BY <1>1, RecordOfFile
  <2>3. LevelsOf(g, z) = ByGeopotential(g, z)
    BY <1>1 DEF LevelsOf
  <2>4. g \in [file : AllFiles \union {NoFile}, data : BOOLEAN,
                label : {"none", "millibars", "meters"},
                level : {"none", "pressure", "height", "off", "nonsense"},
                by : Runs \union {NoRun}]
    BY DEF Grid
  <2>. DEFINE new == [g EXCEPT !.label = "meters", !.by = z.file.run,
                               !.level = HeightsOf(Content[z.file.mask].zunits)]
  <2>5. new \in Grid /\ new.file = g.file /\ new.data = g.data /\ new.by = z.file.run
    BY <2>1, <2>2, <2>4 DEF Grid
  <2>6. ByGeopotential(g, z) = IF g.label = "meters" \/ ~g.data \/ ~Fits(g, z)
                               THEN g ELSE new
    BY DEF ByGeopotential
  <2>. HIDE DEF new
  <2>. QED  BY <2>3, <2>5, <2>6
<1>2. CASE ~z.data
  <2>1. LevelsOf(g, z) = ByFormula(g)
    BY <1>2 DEF LevelsOf
  <2>. QED  BY <2>1 DEF ByFormula, Grid
<1>. QED  BY <1>1, <1>2

-----------------------------------------------------------------------------
(* The choice of a file.                                                   *)

Types ==
  /\ pc \in Variables \union {"made", "error", "exit", "undefined"}
  /\ erupt \in Eruptions /\ line \in Lines /\ option \in Options
  /\ dir \subseteq AllFiles /\ listed \subseteq AllFiles

\* The names of the candidates are bounded, so one of them is the last.
LEMMA LastExists ==
  ASSUME Types, NEW m, Candidates(m) # {}
  PROVE  \E f \in Candidates(m) :
           \A g \in Candidates(m) : Name[m][g.run] <= Name[m][f.run]
<1>. DEFINE bound == Name[m][erupt]
            D == {bound - Name[m][f.run] : f \in Candidates(m)}
<1>1. ASSUME NEW f \in Candidates(m)
      PROVE  Name[m][f.run] \in Int /\ Name[m][f.run] <= bound /\ bound \in Int
  <2>1. f \in AllFiles /\ f.mask = m /\ Name[m][f.run] <= Name[m][erupt]
    BY DEF Candidates, Types
  <2>2. m \in Masks /\ f.run \in Runs /\ erupt \in Eruptions
    BY <2>1, RecordOfFile DEF Types
  <2>3. Name[m] \in [Runs \union Eruptions -> Int]
    BY <2>2, SetupAssumption
  <2>. QED  BY <2>1, <2>2, <2>3
<1>2. D \subseteq Nat /\ D # {}
  BY <1>1
<1>3. PICK n \in D : \A y \in D : ~(<<y, n>> \in OpToRel(<, Nat))
  <2>. HIDE DEF D
  <2>. QED  BY <1>2, WFMin, NatLessThanWellFounded, Zenon
<1>4. \A y \in D : ~(y < n)
  <2>. HIDE DEF D
  <2>. QED  BY <1>2, <1>3 DEF OpToRel
<1>5. PICK f \in Candidates(m) : n = bound - Name[m][f.run]
  OBVIOUS
<1>6. ASSUME NEW g \in Candidates(m)
      PROVE  Name[m][g.run] <= Name[m][f.run]
  <2>1. ~(bound - Name[m][g.run] < bound - Name[m][f.run])
    BY <1>4, <1>5
  <2>. QED  BY <2>1, <1>1
<1>. QED  BY <1>6

LEMMA MostRecentLast ==
  ASSUME Types, NEW m, MostRecent(m) # NoFile
  PROVE  /\ MostRecent(m) \in Candidates(m)
         /\ \A g \in Candidates(m) : Name[m][g.run] <= Name[m][MostRecent(m).run]
<1>1. m # NoMask /\ Candidates(m) # {}
  BY DEF MostRecent
<1>2. MostRecent(m) = CHOOSE f \in Candidates(m) :
                        \A g \in Candidates(m) : Name[m][g.run] <= Name[m][f.run]
  BY <1>1 DEF MostRecent
<1>. QED  BY <1>1, <1>2, LastExists

LEMMA FileForFound ==
  ASSUME Types, NEW x, FileFor(x) # NoFile
  PROVE  FileFor(x) \in dir /\ FileFor(x) \in AllFiles
<1>1. CASE option.file[x] = NoFile
  <2>1. FileFor(x) = MostRecent(MaskOf(x))
    BY <1>1 DEF FileFor
  <2>2. MostRecent(MaskOf(x)) \in Candidates(MaskOf(x))
    BY <2>1, MostRecentLast
  <2>. QED  BY <2>1, <2>2 DEF Candidates, Types
<1>2. CASE option.file[x] # NoFile
  BY <1>2 DEF FileFor, Types
<1>. QED  BY <1>1, <1>2

-----------------------------------------------------------------------------
(* The inductive invariant.  While the files are read every grid is what   *)
(* its file holds: u the last candidate of the directory it was looked for *)
(* in, v a file of the same run.                                           *)

Reading == {"v", "T", "z"}

Chosen ==
  pc \in Reading \union {"made"} =>
    /\ U.file \in AllFiles /\ HasRecords(U.file)
    /\ option.file["u"] = NoFile =>
         LET m == MaskOf("u")
         IN /\ U.file.mask = m
            /\ Name[m][U.file.run] <= Name[m][erupt]
            /\ \A f \in listed : f.mask = m /\ Name[m][f.run] <= Name[m][erupt]
                                   => Name[m][f.run] <= Name[m][U.file.run]

Agreed ==
  pc \in {"T", "z", "made"} => V.file \in AllFiles /\ V.file.run = U.file.run

AsRead ==
  /\ pc \in Reading => U = GridOf(U.file)
  /\ pc \in {"T", "z"} => V = GridOf(V.file)
  /\ pc \in {"u", "v", "T"} => T = NoGrid
  /\ pc = "z" => T \in {NoGrid, StandardT}
                  \/ (T.file \in AllFiles /\ T = GridOf(T.file))
  /\ pc \in Variables => Z = NoGrid /\ P = NoGrid

\* Made winds have records for the run, and heights of their own run.
Sound ==
  pc = "made" => HasRecords(V.file)
                   /\ \A g \in {U, V} : g.by \in {NoRun, U.file.run}

IInv == Types /\ Chosen /\ Agreed /\ AsRead /\ Sound

LEMMA Begin == Init => IInv /\ LevelsTrue
  BY SetupAssumption
  DEF Init, IInv, Types, Chosen, Agreed, AsRead, Sound, LevelsTrue, Variables,
      Reading

\* A step to one of the stops changes nothing these speak of.
LEMMA StopKeeps ==
  ASSUME IInv, LevelsTrue, pc' \in {"error", "exit"}, Same,
         UNCHANGED <<listed, U, V, T, Z, P>>
  PROVE  IInv' /\ LevelsTrue'
  BY DEF IInv, Types, Chosen, Agreed, AsRead, Sound, LevelsTrue, Variables,
         Reading, Same
LEMMA ReadUKeeps ==
  ASSUME IInv, ReadU
  PROVE  IInv' /\ LevelsTrue'
<1>. DEFINE f == FileFor("u")
<1>1. Types /\ Same /\ pc = "u" /\ f # NoFile
  BY DEF IInv, ReadU, Found
<1>2. f \in dir /\ f \in AllFiles
  BY <1>1, FileForFound
<1>3. U' = GridOf(f) /\ listed' = dir /\ UNCHANGED <<V, T, Z, P>>
  BY DEF ReadU
<1>4. U'.file = f /\ U'.data = HasRecords(f) /\ U'.by = NoRun
  BY <1>3 DEF GridOf
<1>5. pc' \in {"v", "exit"} /\ (pc' = "v" => HasRecords(f))
  BY <1>4 DEF ReadU
<1>6. Types'
  BY <1>1, <1>3, <1>5 DEF Types, Same, Variables
<1>7. Chosen'
  <2>. DEFINE m == MaskOf("u")
  <2>1. SUFFICES ASSUME pc' = "v"
                 PROVE  Chosen'
    BY <1>5 DEF Chosen, Reading
  <2>2. HasRecords(U.file)' /\ U'.file \in AllFiles
    BY <1>1, <1>2, <1>4, <1>5, <2>1 DEF HasRecords, Records, Same
  <2>3. ASSUME option.file["u"] = NoFile
        PROVE  /\ f.mask = m /\ Name[m][f.run] <= Name[m][erupt]
               /\ \A g \in dir : g.mask = m /\ Name[m][g.run] <= Name[m][erupt]
                                   => Name[m][g.run] <= Name[m][f.run]
    <3>1. f = MostRecent(m)
      BY <2>3 DEF FileFor
    <3>2. f \in Candidates(m) /\ \A g \in Candidates(m) : Name[m][g.run] <= Name[m][f.run]
      BY <1>1, <3>1, MostRecentLast
    <3>. QED  BY <3>2 DEF Candidates
  <2>4. MaskOf("u")' = MaskOf("u")
    BY <1>1 DEF MaskOf, Same
  <2>. HIDE DEF f
  <2>. QED  BY <1>1, <1>3, <1>4, <2>2, <2>3, <2>4 DEF Chosen, Same
<1>8. AsRead'
  <2>1. GridOf(f)' = GridOf(f)
    BY <1>1 DEF GridOf, HasRecords, Records, Same, Raw, FileFor, MostRecent, MaskOf, Candidates
  <2>. HIDE DEF f
  <2>. QED  BY <1>1, <1>3, <1>4, <1>5 DEF IInv, AsRead, Reading, Variables, Same, GridOf, HasRecords, Records, Raw
<1>. QED  BY <1>5, <1>6, <1>7, <1>8 DEF IInv, Agreed, Sound, LevelsTrue

LEMMA ReadVKeeps ==
  ASSUME IInv, ReadV
  PROVE  IInv' /\ LevelsTrue'
<1>. DEFINE f == FileFor("v")
<1>1. Types /\ Same /\ pc = "v" /\ f # NoFile /\ UNCHANGED <<listed, U, T, Z, P>>
  BY DEF IInv, ReadV, Found
<1>2. f \in AllFiles
  BY <1>1, FileForFound
<1>3. V' = GridOf(f) /\ V'.file = f
  BY DEF ReadV, GridOf
<1>4. pc' \in {"T", "error"} /\ (pc' = "T" => f.run = U.file.run)
  BY <1>3 DEF ReadV, SameReference
<1>. HIDE DEF f
<1>5. Types'
  BY <1>1, <1>4 DEF Types, Same, Variables
<1>6. Chosen'
  BY <1>1, <1>4 DEF IInv, Chosen, Reading, Same, MaskOf, HasRecords, Records
<1>7. AsRead'
  BY <1>1, <1>3, <1>4 DEF IInv, AsRead, Reading, Variables, Same, GridOf, HasRecords, Records, Raw
<1>. QED  BY <1>1, <1>2, <1>3, <1>4, <1>5, <1>6, <1>7 DEF IInv, Agreed, Sound, LevelsTrue

LEMMA ReadTKeeps ==
  ASSUME IInv, SkipT \/ ReadT
  PROVE  IInv' /\ LevelsTrue'
<1>1. Types /\ Same /\ pc = "T" /\ pc' = "z" /\ UNCHANGED <<listed, U, V, Z, P>>
  BY DEF IInv, SkipT, ReadT
<1>2. T' \in {NoGrid, StandardT} \/ (T'.file \in AllFiles /\ T' = GridOf(T'.file))
  <2>1. CASE SkipT
    BY <2>1, <1>1 DEF SkipT, IInv, AsRead
  <2>2. CASE ReadT
    <3>. DEFINE f == FileFor("T")
    <3>1. f # NoFile => f \in AllFiles
      BY <1>1, FileForFound
    <3>2. T' = StandardT \/ (f # NoFile /\ T' = GridOf(f))
      BY <2>2 DEF ReadT
    <3>3. GridOf(f).file = f
      BY DEF GridOf
    <3>. QED  BY <3>1, <3>2, <3>3
  <2>. QED  BY <2>1, <2>2
<1>3. Types'
  BY <1>1 DEF Types, Same, Variables
<1>4. Chosen'
  BY <1>1 DEF IInv, Chosen, Reading, Same, MaskOf, HasRecords, Records
<1>5. AsRead'
  BY <1>1, <1>2 DEF IInv, AsRead, Reading, Variables, Same, GridOf, HasRecords, Records, Raw,
     NoGrid, StandardT
<1>. QED  BY <1>1, <1>3, <1>4, <1>5 DEF IInv, Agreed, Sound, LevelsTrue
-----------------------------------------------------------------------------
(* The levels.                                                             *)

\* What becomes of the levels of a file.
LEMMA FileConverted ==
  ASSUME NEW f \in AllFiles, NEW z \in Grid, HasRecords(f)
  PROVE  LET h == LevelsOf(GridOf(f), z)
         IN \/ h.level = "height" /\ h.label = "meters"
            \/ h.level = "pressure" /\ h.label # "meters" /\ z.data /\ ~Fits(h, z)
            \/ /\ h.level = "off" /\ h.label = "meters" /\ z.data
               /\ HeightsOf(Content[z.file.mask].zunits) = "off"
            \/ h.level = "nonsense" /\ ~z.data /\ Content[f.mask].levels = "meters"
<1>. DEFINE g == GridOf(f)
<1>1. /\ g \in Grid /\ g.file = f /\ g.data /\ g.label = Content[f.mask].levels
      /\ g.level = Raw(f)
  BY GridOfFile DEF GridOf
<1>2. \/ g.label = "meters" /\ g.level = "height"
      \/ g.label = "millibars" /\ g.level = "pressure"
  BY <1>1, RecordOfFile DEF Raw
<1>3. CASE z.data /\ (g.label = "meters" \/ ~Fits(g, z))
  <2>1. LevelsOf(g, z) = g
    BY <1>3 DEF LevelsOf, ByGeopotential
  <2>. QED  BY <1>2, <1>3, <2>1
<1>4. CASE z.data /\ g.label # "meters" /\ Fits(g, z)
  <2>1. LevelsOf(g, z) = [g EXCEPT !.label = "meters", !.by = z.file.run,
                                   !.level = HeightsOf(Content[z.file.mask].zunits)]
    BY <1>1, <1>4 DEF LevelsOf, ByGeopotential
  <2>2. /\ LevelsOf(g, z).label = "meters"
        /\ LevelsOf(g, z).level = HeightsOf(Content[z.file.mask].zunits)
    BY <1>1, <2>1 DEF Grid
  <2>. QED  BY <1>4, <2>2 DEF HeightsOf
<1>5. CASE ~z.data
  <2>1. LevelsOf(g, z) = ByFormula(g)
    BY <1>5 DEF LevelsOf
  <2>2. /\ LevelsOf(g, z).label = "meters"
        /\ g.level = "pressure" => LevelsOf(g, z).level = "height"
        /\ g.level = "height" => LevelsOf(g, z).level = "nonsense"
    BY <1>1, <2>1 DEF Grid, ByFormula
  <2>. QED  BY <1>1, <1>2, <1>5, <2>2
<1>. QED  BY <1>3, <1>4, <1>5

\* Files alike, of one run, come to the same levels.
LEMMA AlikeConverted ==
  ASSUME NEW e \in AllFiles, NEW f \in AllFiles, NEW z \in Grid,
         HasRecords(e), HasRecords(f), e.run = f.run,
         Content[e.mask] = Content[f.mask]
  PROVE  /\ LevelsOf(GridOf(f), z).level = LevelsOf(GridOf(e), z).level
         /\ LevelsOf(GridOf(f), z).by = LevelsOf(GridOf(e), z).by
<1>1. /\ GridOf(f).label = GridOf(e).label /\ GridOf(f).level = GridOf(e).level
      /\ GridOf(f).by = GridOf(e).by
      /\ GridOf(f).data /\ GridOf(e).data
      /\ GridOf(f).file = f /\ GridOf(e).file = e
      /\ GridOf(f) \in Grid /\ GridOf(e) \in Grid
  BY GridOfFile DEF GridOf, Raw
<1>2. Fits(GridOf(f), z) <=> Fits(GridOf(e), z)
  <2>1. Times(f) = Times(e)
    BY DEF Times
  <2>2. Records(f) = Records(e)
    BY <2>1 DEF Records, Window
  <2>. QED  BY <1>1, <2>2 DEF Fits
<1>3. CASE z.data
  <2>. DEFINE Fitted(g) == [g EXCEPT !.label = "meters", !.by = z.file.run,
                                     !.level = HeightsOf(Content[z.file.mask].zunits)]
  <2>1. ASSUME NEW g \in {GridOf(e), GridOf(f)}
        PROVE  LevelsOf(g, z) = IF g.label = "meters" \/ ~Fits(g, z) THEN g ELSE Fitted(g)
    BY <1>1, <1>3 DEF LevelsOf, ByGeopotential
  <2>2. ASSUME NEW g \in {GridOf(e), GridOf(f)}
        PROVE  /\ Fitted(g).by = z.file.run
               /\ Fitted(g).level = HeightsOf(Content[z.file.mask].zunits)
    BY <1>1 DEF Grid
  <2>. HIDE DEF Fitted
  <2>. QED  BY <1>1, <1>2, <2>1, <2>2
<1>4. CASE ~z.data
  <2>1. ASSUME NEW g \in {GridOf(e), GridOf(f)}
        PROVE  /\ LevelsOf(g, z).by = g.by
               /\ LevelsOf(g, z).level = CASE g.level = "pressure" -> "height"
                                           [] g.level = "none"     -> "none"
                                           [] OTHER                -> "nonsense"
    BY <1>1, <1>4 DEF LevelsOf, ByFormula, Grid
  <2>. QED  BY <1>1, <2>1
<1>. QED  BY <1>3, <1>4
LEMMA EndMade ==
  ASSUME NEW u, NEW v
  PROVE  /\ End(u, v) \in {"made", "error", "undefined"}
         /\ End(u, v) = "made" => u.data /\ v.data
  BY DEF End

LEMMA InMetersKeeps ==
  ASSUME IInv, InMeters
  PROVE  IInv' /\ LevelsTrue'
<1>1. Types /\ Same /\ pc = "z" /\ UNCHANGED <<listed, U, V, T, Z, P>>
  BY DEF IInv, InMeters
<1>2. pc' \in {"made", "error", "undefined"} /\ (pc' = "made" => U.data /\ V.data)
  BY EndMade DEF InMeters
<1>3. /\ U = GridOf(U.file) /\ V = GridOf(V.file) /\ P = NoGrid
      /\ T \in {NoGrid, StandardT} \/ (T.file \in AllFiles /\ T = GridOf(T.file))
      /\ U.file \in AllFiles /\ V.file \in AllFiles
  BY <1>1 DEF IInv, AsRead, Chosen, Agreed, Reading, Variables
<1>4. Types' /\ AsRead'
  BY <1>1, <1>2 DEF Types, AsRead, Same, Variables, Reading
<1>5. Chosen' /\ Agreed'
  BY <1>1, <1>2 DEF IInv, Chosen, Agreed, Reading, Same, MaskOf, HasRecords, Records
<1>6. Sound'
  <2>1. V.data = HasRecords(V.file) /\ U.by = NoRun /\ V.by = NoRun
    BY <1>3 DEF GridOf
  <2>2. pc' = "made" => HasRecords(V.file)
    BY <1>2, <2>1
  <2>. QED  BY <1>1, <2>1, <2>2 DEF Sound, HasRecords, Records, Same
<1>7. LevelsTrue'
  <2>1. Content[U.file.mask].levels = "meters"
    <3>1. U.label = Content[U.file.mask].levels
      BY <1>3 DEF GridOf
    <3>. QED  BY <3>1 DEF InMeters
  <2>2. ASSUME NEW g \in {U, V, T, P}, g.data
        PROVE  \/ g.level = "height" /\ g.label = "meters"
               \/ g.level = "pressure" /\ g.label # "meters"
    <3>1. CASE g = NoGrid \/ g = StandardT
      BY <2>2, <3>1, SpecialGrids
    <3>2. CASE g.file \in AllFiles /\ g = GridOf(g.file)
      <4>1. /\ g.label = Content[g.file.mask].levels
            /\ g.level = Raw(g.file)
        BY <3>2 DEF GridOf
      <4>. QED  BY <3>2, <4>1, RecordOfFile DEF Raw
    <3>. QED  BY <1>3, <3>1, <3>2
  <2>3. Content[U.file.mask] = Content[V.file.mask] => V.level = U.level /\ V.by = U.by
    BY <1>3 DEF GridOf, Raw
  <2>. QED  BY <1>1, <2>1, <2>2, <2>3 DEF LevelsTrue, Aside
<1>. QED  BY <1>4, <1>5, <1>6, <1>7 DEF IInv

LEMMA ConvertKeeps ==
  ASSUME IInv, Convert
  PROVE  IInv' /\ LevelsTrue'
<1>. DEFINE f == FileFor("z")
<1>1. Types /\ Same /\ pc = "z" /\ listed' = listed
  BY DEF IInv, Convert
<1>2. pc' \in {"made", "error", "undefined"} /\ (pc' = "made" => U'.data /\ V'.data)
  BY EndMade DEF Convert
<1>3. /\ U = GridOf(U.file) /\ V = GridOf(V.file) /\ P = NoGrid
      /\ T \in {NoGrid, StandardT} \/ (T.file \in AllFiles /\ T = GridOf(T.file))
      /\ U.file \in AllFiles /\ V.file \in AllFiles /\ V.file.run = U.file.run
  BY <1>1 DEF IInv, AsRead, Chosen, Agreed, Reading, Variables
<1>4. Z' \in Grid /\ (Z'.data => Z'.file \in AllFiles /\ Z' = GridOf(Z'.file))
  <2>1. f # NoFile => f \in AllFiles
    BY <1>1, FileForFound
  <2>2. Z' = NoGrid \/ (f # NoFile /\ Z' = GridOf(f))
    BY DEF Convert
  <2>3. NoGrid \in Grid /\ ~NoGrid.data
    BY SpecialGrids DEF NoGrid
  <2>. QED  BY <2>1, <2>2, <2>3, GridOfFile
<1>. HIDE DEF f
<1>5. /\ U' = LevelsOf(U, Z') /\ V' = LevelsOf(V, Z') /\ T' = LevelsOf(T, Z')
      /\ P' = IF Z'.data THEN ByGeopotential(PressureGrid(Z'), Z') ELSE P
  BY DEF Convert
<1>6. U \in Grid /\ V \in Grid /\ U.by = NoRun /\ V.by = NoRun
      /\ U.data = HasRecords(U.file) /\ V.data = HasRecords(V.file)
      /\ U.label = Content[U.file.mask].levels
  <2>1. U \in Grid /\ V \in Grid /\ U.by = NoRun /\ V.by = NoRun
    BY <1>3, GridOfFile
  <2>2. U.data = HasRecords(U.file) /\ U.label = Content[U.file.mask].levels
    BY <1>3 DEF GridOf
  <2>3. V.data = HasRecords(V.file)
    BY <1>3 DEF GridOf
  <2>. QED  BY <2>1, <2>2, <2>3
<1>7. /\ U'.file = U.file /\ V'.file = V.file
      /\ U'.data = U.data /\ V'.data = V.data
      /\ U'.by \in {NoRun, U.file.run} /\ V'.by \in {NoRun, U.file.run}
  <2>1. ASSUME NEW g \in Grid
        PROVE  /\ LevelsOf(g, Z').file = g.file /\ LevelsOf(g, Z').data = g.data
               /\ \/ LevelsOf(g, Z').by = g.by
                  \/ Fits(g, Z') /\ LevelsOf(g, Z').by = Z'.file.run
    BY <1>4, LevelsKeep
  <2>2. \A g \in {U, V} : Fits(g, Z') => Z'.file.run = g.file.run
    BY DEF Fits
  <2>. QED  BY <1>3, <1>5, <1>6, <2>1, <2>2
<1>8. Types' /\ AsRead'
  BY <1>1, <1>2 DEF Types, AsRead, Same, Variables, Reading
<1>9. Chosen' /\ Agreed'
  BY <1>1, <1>2, <1>3, <1>7 DEF IInv, Chosen, Agreed, Reading, Same, MaskOf, HasRecords, Records
<1>10. Sound'
  <2>1. pc' = "made" => HasRecords(V.file)
    BY <1>2, <1>6, <1>7
  <2>. QED  BY <1>1, <1>7, <2>1 DEF Sound, HasRecords, Records, Same
<1>11. LevelsTrue'
  <2>. DEFINE Good(h) == \/ h.level = "height" /\ h.label = "meters"
                         \/ h.level = "pressure" /\ h.label # "meters"
                              /\ Z'.data /\ ~Fits(h, Z')
                         \/ h.level = "height" /\ Z'.data /\ ~Fits(h, Z')
                         \/ /\ h.level = "off" /\ h.label = "meters" /\ Z'.data
                            /\ HeightsOf(Content[Z'.file.mask].zunits) = "off"
                         \/ /\ h.level = "nonsense" /\ ~Z'.data
                            /\ h.file = NoFile \/ Content[h.file.mask].levels = "meters"
  <2>1. SUFFICES ASSUME pc' = "made"
                 PROVE  LevelsTrue'
    BY DEF LevelsTrue
  <2>2. Content[U.file.mask].levels = "millibars"
    <3>1. U.label # "meters"
      BY DEF Convert
    <3>. QED  BY <1>3, <1>6, <3>1, RecordOfFile
  <2>3. ASSUME NEW g, g.file \in AllFiles, g = GridOf(g.file), LevelsOf(g, Z').data
        PROVE  Good(LevelsOf(g, Z'))
    <3>1. g \in Grid
      BY <2>3, GridOfFile
    <3>2. LevelsOf(g, Z').file = g.file /\ LevelsOf(g, Z').data = g.data
      BY <1>4, <3>1, LevelsKeep
    <3>3. HasRecords(g.file)
      <4>1. g.data = HasRecords(g.file)
        BY <2>3 DEF GridOf
      <4>. QED  BY <2>3, <3>2, <4>1
    <3>. QED  BY <1>4, <2>3, <3>2, <3>3, FileConverted
  <2>4. Good(U') /\ Good(V')
    BY <1>2, <1>3, <1>5, <2>1, <2>3
  <2>5. T'.data => Good(T')
    <3>1. CASE T = NoGrid
      BY <1>5, <3>1 DEF NoGrid, LevelsOf, ByGeopotential, ByFormula
    <3>2. CASE T = StandardT
      BY <1>5, <3>2 DEF StandardT, NoGrid, LevelsOf, ByGeopotential, ByFormula
    <3>3. CASE T.file \in AllFiles /\ T = GridOf(T.file)
      BY <1>5, <2>3, <3>3
    <3>. QED  BY <1>3, <3>1, <3>2, <3>3
  <2>6. P'.data => Good(P')
    <3>1. CASE ~Z'.data
      BY <1>3, <1>5, <3>1 DEF NoGrid
    <3>2. CASE Z'.data
      <4>. DEFINE p == PressureGrid(Z')
      <4>1. p.file = Z'.file /\ p.data /\ p.label = "none" /\ p.level = Z'.level /\ p \in Grid
        BY <1>4, <3>2 DEF PressureGrid, Grid
      <4>2. p.level \in {"height", "pressure"}
        BY <1>4, <3>2, <4>1 DEF GridOf, Raw
      <4>3. P' = ByGeopotential(p, Z')
        BY <1>5, <3>2
      <4>. HIDE DEF p
      <4>4. CASE Fits(p, Z')
        <5>1. P' = [p EXCEPT !.label = "meters", !.by = Z'.file.run,
                             !.level = HeightsOf(Content[Z'.file.mask].zunits)]
          BY <4>1, <4>3, <4>4 DEF ByGeopotential
        <5>2. P'.label = "meters" /\ P'.level = HeightsOf(Content[Z'.file.mask].zunits)
          BY <4>1, <5>1 DEF Grid
        <5>. QED  BY <3>2, <5>2 DEF HeightsOf
      <4>5. CASE ~Fits(p, Z')
        <5>1. P' = p
          BY <4>3, <4>5 DEF ByGeopotential
        <5>. QED  BY <3>2, <4>1, <4>2, <4>5, <5>1
      <4>. QED  BY <4>4, <4>5
    <3>. QED  BY <3>1, <3>2
  <2>7. Content[U.file.mask] = Content[V.file.mask] => V'.level = U'.level /\ V'.by = U'.by
    <3>1. HasRecords(U.file) /\ HasRecords(V.file)
      BY <1>2, <1>6, <1>7, <2>1
    <3>. QED  BY <1>3, <1>4, <1>5, <3>1, AlikeConverted
  <2>8. \A g \in {U', V', T', P'} : g.data => Good(g)
    BY <2>4, <2>5, <2>6
  <2>. HIDE DEF Good
  <2>9. \A g \in {U', V', T', P'} : g.data =>
          \/ g.level = "height" /\ (g.label = "meters" \/ (Z'.data /\ ~Fits(g, Z')))
          \/ g.level = "pressure" /\ g.label # "meters" /\ Z'.data /\ ~Fits(g, Z')
          \/ /\ g.level = "off" /\ g.label = "meters" /\ Z'.data
             /\ HeightsOf(Content[Z'.file.mask].zunits) = "off"
          \/ /\ g.level = "nonsense" /\ ~Z'.data
             /\ g.file = NoFile \/ Content[g.file.mask].levels = "meters"
    BY <2>8 DEF Good
  <2>. QED  BY <1>1, <1>7, <2>2, <2>7, <2>9
       DEF LevelsTrue, Unfit, Misread, Twice, Aside, Fits, Records, Same
<1>. QED  BY <1>8, <1>9, <1>10, <1>11 DEF IInv

-----------------------------------------------------------------------------
(* The theorems.                                                           *)

LEMMA ArriveKeeps ==
  ASSUME IInv, LevelsTrue, Arrive
  PROVE  IInv' /\ LevelsTrue'
<1>1. pc \in Variables /\ UNCHANGED <<pc, erupt, line, option, listed, U, V, T, Z, P>>
  BY DEF Arrive
<1>2. Types'
  BY <1>1 DEF IInv, Types, Arrive
<1>. QED  BY <1>1, <1>2
     DEF IInv, Chosen, Agreed, AsRead, Sound, Reading, Variables, LevelsTrue,
         MaskOf, HasRecords, Records, GridOf, Raw

LEMMA StutterKeeps ==
  ASSUME IInv, LevelsTrue, UNCHANGED vars
  PROVE  IInv' /\ LevelsTrue'
<1>1. UNCHANGED <<pc, erupt, line, option, dir, listed, U, V, T, Z, P>>
  BY DEF vars
<1>2. Types' /\ Chosen'
  BY <1>1 DEF IInv, Types, Chosen, MaskOf, HasRecords, Records
<1>3. Agreed' /\ AsRead'
  BY <1>1 DEF IInv, Agreed, AsRead, Reading, GridOf, Raw, HasRecords, Records
<1>4. Sound'
  BY <1>1 DEF IInv, Sound, HasRecords, Records
<1>5. LevelsTrue'
  BY <1>1 DEF LevelsTrue, Aside, Unfit, Misread, Twice, Fits, Records
<1>. QED  BY <1>2, <1>3, <1>4, <1>5 DEF IInv

LEMMA NextKeeps ==
  ASSUME IInv, LevelsTrue, [Next]_vars
  PROVE  IInv' /\ LevelsTrue'
<1>1. ASSUME NEW x \in Variables, StopIfMissing(x) \/ StopIfUnread(x)
      PROVE  IInv' /\ LevelsTrue'
  BY <1>1, StopKeeps DEF StopIfMissing, StopIfUnread
<1>2. CASE ReadU
  BY <1>2, ReadUKeeps
<1>3. CASE ReadV
  BY <1>3, ReadVKeeps
<1>4. CASE SkipT \/ ReadT
  BY <1>4, ReadTKeeps
<1>5. CASE InMeters
  BY <1>5, InMetersKeeps
<1>6. CASE Convert
  BY <1>6, ConvertKeeps
<1>7. CASE Arrive
  BY <1>7, ArriveKeeps
<1>8. CASE Ended \/ UNCHANGED vars
  BY <1>8, StutterKeeps DEF Ended
<1>. QED  BY <1>1, <1>2, <1>3, <1>4, <1>5, <1>6, <1>7, <1>8 DEF Next, Variables

-----------------------------------------------------------------------------
(* The resource line: Taken is a function on the pairs read so far.        *)

\* Induction over the pairs goes by the least number for which it fails.
LEMMA LeastOf ==
  ASSUME NEW S \in SUBSET Nat, S # {}
  PROVE  \E m \in S : \A y \in S : m <= y
<1>1. PICK m \in S : \A y \in S : ~(<<y, m>> \in OpToRel(<, Nat))
  BY WFMin, NatLessThanWellFounded, Zenon
<1>2. \A y \in S : ~(y < m)
  BY <1>1 DEF OpToRel
<1>. QED  BY <1>2

Pair  == [mask : Masks \union {NoMask}, vars : SUBSET Variables]
State == [mask : Masks \union {NoMask}, of : [Variables -> Masks \union {NoMask}]]

LEMMA TakePairType ==
  ASSUME NEW rc \in State, NEW pair \in Pair
  PROVE  TakePair(rc, pair) \in State
BY DEF TakePair, State, Pair

\* What is remembered begins blank, and each pair is taken into it.
LEMMA TakenSteps ==
  ASSUME NEW l \in Seq(Pair)
  PROVE  /\ Taken(l)[0] = Blank
         /\ \A n \in 1 .. Len(l) : Taken(l)[n] = TakePair(Taken(l)[n - 1], l[n])
         /\ \A n \in 0 .. Len(l) : Taken(l)[n] \in State
<1>. DEFINE R == 0 .. Len(l)
            rc[n \in 0 .. Len(l)] == IF n = 0 THEN Blank ELSE TakePair(rc[n - 1], l[n])
            Good(g, n) == /\ g \in [0 .. n -> State] /\ g[0] = Blank
                          /\ \A m \in 1 .. n : g[m] = TakePair(g[m - 1], l[m])
            Bad == {n \in R : ~\E g : Good(g, n)}
<1>1. Len(l) \in Nat /\ Blank \in State
  BY DEF Blank, State
<1>2. \E g : Good(g, Len(l))
  <2>1. SUFFICES ASSUME Bad # {} PROVE FALSE
    <3>1. Len(l) \in R
      BY <1>1
    <3>. HIDE DEF R, Good
    <3>. QED  BY <3>1
  <2>2. PICK m \in Bad : \A n \in Bad : m <= n
    <3>1. Bad \in SUBSET Nat
      OBVIOUS
    <3>. HIDE DEF Bad
    <3>. QED  BY <2>1, <3>1, LeastOf
  <2>3. m # 0
    <3>1. Good([i \in 0 .. 0 |-> Blank], 0)
      BY <1>1
    <3>. QED  BY <2>2, <3>1
  <2>4. m \in 1 .. Len(l) /\ m - 1 \in R /\ m - 1 \notin Bad
    <3>1. m \in R
      BY <2>2
    <3>2. m \in 1 .. Len(l) /\ m - 1 \in R /\ ~(m <= m - 1)
      BY <1>1, <2>3, <3>1
    <3>. HIDE DEF Bad
    <3>. QED  BY <2>2, <3>2
  <2>5. PICK g : Good(g, m - 1)
    BY <2>4
  <2>. DEFINE h == [i \in 0 .. m |-> IF i = m THEN TakePair(g[m - 1], l[m]) ELSE g[i]]
  <2>6. g[m - 1] \in State /\ l[m] \in Pair
    BY <1>1, <2>4, <2>5
  <2>7. TakePair(g[m - 1], l[m]) \in State
    BY <2>6, TakePairType
  <2>8. ASSUME NEW i \in 0 .. m PROVE h[i] \in State
    <3>1. i # m => i \in 0 .. m - 1
      BY <2>4
    <3>. QED  BY <2>5, <2>7, <3>1
  <2>9. h \in [0 .. m -> State]
    BY <2>8
  <2>10. h[0] = Blank
    BY <2>4, <2>5
  <2>11. ASSUME NEW i \in 1 .. m PROVE h[i] = TakePair(h[i - 1], l[i])
    <3>1. i - 1 \in 0 .. m /\ i - 1 # m /\ i \in 0 .. m
      BY <2>4
    <3>2. h[i - 1] = g[i - 1]
      BY <3>1
    <3>3. CASE i = m
      BY <3>1, <3>2, <3>3
    <3>4. CASE i # m
      <4>1. i \in 1 .. m - 1 /\ h[i] = g[i]
        BY <2>4, <3>1, <3>4
      <4>. QED  BY <2>5, <3>2, <4>1
    <3>. QED  BY <3>3, <3>4
  <2>12. Good(h, m)
    <3>. HIDE DEF h
    <3>. QED  BY <2>9, <2>10, <2>11
  <2>. QED  BY <2>2, <2>12
<1>3. PICK g : Good(g, Len(l))
  BY <1>2
<1>4. g = [n \in R |-> IF n = 0 THEN Blank ELSE TakePair(g[n - 1], l[n])]
  <2>1. ASSUME NEW n \in R
        PROVE  g[n] = IF n = 0 THEN Blank ELSE TakePair(g[n - 1], l[n])
    BY <1>1, <1>3
  <2>. QED  BY <1>3, <2>1
<1>5. rc = [n \in R |-> IF n = 0 THEN Blank ELSE TakePair(rc[n - 1], l[n])]
  BY <1>4
<1>6. Taken(l) = rc
  BY DEF Taken
<1>. HIDE DEF rc
<1>7. rc[0] = Blank /\ \A n \in 1 .. Len(l) : rc[n] = TakePair(rc[n - 1], l[n])
  BY <1>1, <1>5
<1>8. ASSUME NEW n \in R PROVE rc[n] \in State
  <2>. DEFINE Wrong == {i \in R : rc[i] \notin State}
  <2>1. SUFFICES ASSUME Wrong # {} PROVE FALSE
    OBVIOUS
  <2>2. PICK m \in Wrong : \A i \in Wrong : m <= i
    <3>1. Wrong \in SUBSET Nat
      OBVIOUS
    <3>. HIDE DEF Wrong
    <3>. QED  BY <2>1, <3>1, LeastOf
  <2>3. m # 0 /\ m \in 1 .. Len(l) /\ m - 1 \in R /\ ~(m <= m - 1)
    BY <1>1, <1>7, <2>2
  <2>4. rc[m - 1] \in State /\ l[m] \in Pair
    BY <2>2, <2>3
  <2>. QED  BY <1>7, <2>2, <2>3, <2>4, TakePairType
<1>. QED  BY <1>6, <1>7, <1>8

\* The mask that holds after n pairs is the last that was given.
MaskAfter(l, n, m) ==
  \/ m = NoMask /\ \A i \in 1 .. n : l[i].mask = NoMask
  \/ \E i \in 1 .. n : /\ l[i].mask = m /\ m # NoMask
                       /\ \A j \in i + 1 .. n : l[j].mask = NoMask

\* The mask of x is that which held before the last pair that names x.
NameAfter(l, n, x, m) ==
  \/ m = NoMask /\ \A i \in 1 .. n : x \notin l[i].vars
  \/ \E i \in 1 .. n : /\ x \in l[i].vars /\ MaskAfter(l, i - 1, m)
                       /\ \A j \in i + 1 .. n : x \notin l[j].vars

\* One more pair.
LEMMA PairTaken ==
  ASSUME NEW l \in Seq(Pair), NEW n \in 1 .. Len(l), NEW rc \in State,
         NEW x \in Variables,
         MaskAfter(l, n - 1, rc.mask), NameAfter(l, n - 1, x, rc.of[x])
  PROVE  /\ MaskAfter(l, n, TakePair(rc, l[n]).mask)
         /\ NameAfter(l, n, x, TakePair(rc, l[n]).of[x])
<1>1. /\ n \in Nat /\ n - 1 \in Nat /\ Len(l) \in Nat
      /\ \A i \in 1 .. n : i = n \/ i \in 1 .. n - 1
      /\ \A i \in 1 .. n - 1 : i \in 1 .. n
      /\ n \in 1 .. n /\ n + 1 .. n = {}
  OBVIOUS
<1>2. \A i \in 1 .. n - 1 : \A j \in i + 1 .. n : j = n \/ j \in i + 1 .. n - 1
  OBVIOUS
<1>3. MaskAfter(l, n, TakePair(rc, l[n]).mask)
  <2>1. CASE l[n].mask = NoMask
    <3>1. TakePair(rc, l[n]).mask = rc.mask
      BY <2>1 DEF TakePair
    <3>. QED  BY <1>1, <1>2, <2>1, <3>1 DEF MaskAfter
  <2>2. CASE l[n].mask # NoMask
    <3>1. TakePair(rc, l[n]).mask = l[n].mask
      BY <2>2 DEF TakePair
    <3>. QED  BY <1>1, <2>2, <3>1 DEF MaskAfter
  <2>. QED  BY <2>1, <2>2
<1>4. NameAfter(l, n, x, TakePair(rc, l[n]).of[x])
  <2>1. CASE x \in l[n].vars
    <3>1. TakePair(rc, l[n]).of[x] = rc.mask
      BY <2>1 DEF TakePair
    <3>. QED  BY <1>1, <2>1, <3>1 DEF NameAfter
  <2>2. CASE x \notin l[n].vars
    <3>1. TakePair(rc, l[n]).of[x] = rc.of[x]
      BY <2>2 DEF TakePair
    <3>. QED  BY <1>1, <1>2, <2>2, <3>1 DEF NameAfter
  <2>. QED  BY <2>1, <2>2
<1>. QED  BY <1>3, <1>4

LEMMA PairsTaken ==
  ASSUME NEW l \in Seq(Pair), NEW x \in Variables
  PROVE  \A n \in 0 .. Len(l) : /\ MaskAfter(l, n, Taken(l)[n].mask)
                                /\ NameAfter(l, n, x, Taken(l)[n].of[x])
<1>. DEFINE Right(n) == /\ MaskAfter(l, n, Taken(l)[n].mask)
                        /\ NameAfter(l, n, x, Taken(l)[n].of[x])
            Wrong == {n \in 0 .. Len(l) : ~Right(n)}
<1>1. SUFFICES ASSUME Wrong # {} PROVE FALSE
  OBVIOUS
<1>2. PICK m \in Wrong : \A i \in Wrong : m <= i
  <2>1. Wrong \in SUBSET Nat
    OBVIOUS
  <2>. HIDE DEF Wrong
  <2>. QED  BY <1>1, <2>1, LeastOf
<1>3. Right(0)
  <2>1. Taken(l)[0].mask = NoMask /\ Taken(l)[0].of[x] = NoMask
    BY TakenSteps DEF Blank
  <2>. QED  BY <2>1 DEF MaskAfter, NameAfter
<1>4. /\ m \in 1 .. Len(l) /\ m - 1 \in 0 .. Len(l) /\ ~(m <= m - 1)
  <2>1. Len(l) \in Nat /\ m \in 0 .. Len(l) /\ ~Right(m)
    BY <1>2
  <2>2. m # 0
    BY <1>3, <2>1
  <2>. HIDE DEF Right
  <2>. QED  BY <2>1, <2>2
<1>5. Right(m - 1)
  BY <1>2, <1>4
<1>6. Right(m)
  <2>1. Taken(l)[m - 1] \in State /\ Taken(l)[m] = TakePair(Taken(l)[m - 1], l[m])
    BY <1>4, TakenSteps
  <2>. QED  BY <1>4, <1>5, <2>1, PairTaken
<1>. QED  BY <1>2, <1>6

\* PuffRC gives each variable the mask a reader of the line would see.
LEMMA MaskRead ==
  ASSUME line \in Lines, NEW x \in Variables
  PROVE  MaskOf(x) = Given(x)
<1>. DEFINE named  == {i \in Position : x \in line[i].vars}
            last   == CHOOSE i \in named : \A j \in named : j <= i
            before == {i \in Position : i < last /\ line[i].mask # NoMask}
            near   == CHOOSE i \in before : \A j \in before : j <= i
            m      == MaskOf(x)
<1>1. line \in Seq(Pair) /\ Len(line) \in Nat
  <2>1. Lines \subseteq Seq(Pair)
    BY SetupAssumption DEF Pair
  <2>. QED  BY <2>1
<1>2. NameAfter(line, Len(line), x, m)
  BY <1>1, PairsTaken DEF MaskOf, Loaded
<1>3. Given(x) = IF named = {} \/ before = {} THEN NoMask ELSE line[near].mask
  BY DEF Given
<1>4. CASE m = NoMask /\ \A i \in 1 .. Len(line) : x \notin line[i].vars
  <2>1. named = {}
    BY <1>4 DEF Position
  <2>. QED  BY <1>3, <1>4, <2>1
<1>5. ASSUME NEW k \in 1 .. Len(line), x \in line[k].vars,
             MaskAfter(line, k - 1, m),
             \A j \in k + 1 .. Len(line) : x \notin line[j].vars
      PROVE  m = Given(x)
  <2>1. k \in named /\ \A j \in named : j <= k
    BY <1>1, <1>5 DEF Position
  <2>2. last = k
    <3>1. named \subseteq Int
      BY <1>1 DEF Position
    <3>2. last = CHOOSE i \in named : \A j \in named : j <= i
      OBVIOUS
    <3>. HIDE DEF named, last
    <3>3. last \in named /\ \A j \in named : j <= last
      BY <2>1, <3>2
    <3>. QED  BY <2>1, <3>1, <3>3
  <2>3. before = {i \in 1 .. k - 1 : line[i].mask # NoMask}
    <3>1. k \in Int /\ Len(line) \in Nat /\ k <= Len(line)
      BY <1>1
    <3>. HIDE DEF last
    <3>2. before = {i \in 1 .. Len(line) : i < k /\ line[i].mask # NoMask}
      BY <2>2 DEF Position
    <3>. HIDE DEF before
    <3>. QED  BY <3>1, <3>2
  <2>0. near = CHOOSE i \in before : \A j \in before : j <= i
    OBVIOUS
  <2>. HIDE DEF before, named, last, m, near
  <2>4. CASE m = NoMask /\ \A i \in 1 .. k - 1 : line[i].mask = NoMask
    BY <1>3, <2>3, <2>4
  <2>5. ASSUME NEW i \in 1 .. k - 1, line[i].mask = m, m # NoMask,
               \A j \in i + 1 .. k - 1 : line[j].mask = NoMask
        PROVE  m = Given(x)
    <3>1. i \in before /\ \A j \in before : j <= i
      BY <1>1, <2>3, <2>5
    <3>2. near \in before /\ \A j \in before : j <= near
      BY <2>0, <3>1
    <3>3. before \subseteq Int
      BY <2>3
    <3>4. near = i
      BY <3>1, <3>2, <3>3
    <3>. QED  BY <1>3, <2>1, <2>5, <3>1, <3>4
  <2>. QED  BY <1>5, <2>4, <2>5 DEF MaskAfter
<1>. QED  BY <1>2, <1>4, <1>5 DEF NameAfter

\* The names of a mask in the order of the dates: the last name that is not
\* after that of the eruption is the newest run not after it.
LEMMA OneRunFromInv ==
  ASSUME IInv
  PROVE  OneRun
<1>1. SUFFICES ASSUME pc = "made"
               PROVE  OneRun
  BY DEF OneRun
<1>2. /\ V.file.run = U.file.run /\ U.file \in AllFiles
      /\ \A g \in {U, V} : HasRecords(g.file) /\ g.by \in {NoRun, U.file.run}
  BY <1>1 DEF IInv, Agreed, Chosen, Sound
<1>3. ASSUME option.file["u"] = NoFile, Chronological(Given("u"))
      PROVE  /\ U.file.mask = Given("u") /\ U.file.run <= erupt
             /\ \A f \in listed : f.mask = Given("u") /\ f.run <= erupt
                                    => f.run <= U.file.run
  <2>. DEFINE m == Given("u")
  <2>0. MaskOf("u") = m
    BY MaskRead DEF IInv, Types, Variables
  <2>1. /\ U.file.mask = m /\ Name[m][U.file.run] <= Name[m][erupt]
        /\ \A f \in listed : f.mask = m /\ Name[m][f.run] <= Name[m][erupt]
                               => Name[m][f.run] <= Name[m][U.file.run]
    BY <1>1, <1>3, <2>0 DEF IInv, Chosen
  <2>. HIDE DEF m
  <2>2. /\ m \in Masks /\ U.file.run \in Runs /\ erupt \in Eruptions
        /\ listed \subseteq AllFiles
    BY <1>2, <2>1, RecordOfFile DEF IInv, Types
  <2>3. /\ Name[m] \in [Dates -> Int] /\ Dates \subseteq Nat
        /\ U.file.run \in Dates /\ erupt \in Dates
    BY <2>2, SetupAssumption DEF Dates
  <2>4. \A d, e \in Dates : d < e => Name[m][d] < Name[m][e]
    BY <1>3 DEF Chronological, m
  <2>5. \A d, e \in Dates : Name[m][d] <= Name[m][e] => d <= e
    BY <2>3, <2>4
  <2>6. ASSUME NEW f \in listed, f.mask = m, f.run <= erupt
        PROVE  f.run <= U.file.run
    <3>1. f.run \in Dates
      BY <2>2, RecordOfFile DEF Dates
    <3>2. f.run \in Nat /\ erupt \in Nat /\ f.run <= erupt
      BY <2>3, <2>6, <3>1
    <3>3. Name[m][f.run] \in Int /\ Name[m][erupt] \in Int
      BY <2>3, <3>1
    <3>4. f.run < erupt => Name[m][f.run] < Name[m][erupt]
      BY <2>3, <2>4, <3>1
    <3>5. f.run < erupt \/ f.run = erupt
      BY <3>2
    <3>6. Name[m][f.run] <= Name[m][erupt]
      BY <3>3, <3>4, <3>5
    <3>. QED  BY <2>1, <2>3, <2>5, <2>6, <3>1, <3>6
  <2>. QED  BY <2>1, <2>3, <2>5, <2>6 DEF m
<1>. QED  BY <1>1, <1>2, <1>3 DEF OneRun

LEMMA InvHolds == Spec => [](IInv /\ LevelsTrue)
<1>1. Init => IInv /\ LevelsTrue
  BY Begin
<1>2. (IInv /\ LevelsTrue) /\ [Next]_vars => (IInv /\ LevelsTrue)'
  BY NextKeeps
<1>. QED  BY <1>1, <1>2, PTL DEF Spec

\* Winds are of one forecast run and take no heights from another; and if the
\* file of u was not named, and names sort as dates do, they are of the newest
\* run, whatever files arrive, for any masks, files, names, resource lines and
\* options.  (Atmosphere::make_winds, PuffRC::mostRecentFile)
THEOREM WindsOfOneRun == Spec => []OneRun
<1>1. IInv /\ LevelsTrue => OneRun
  BY OneRunFromInv
<1>. QED  BY <1>1, InvHolds, PTL

\* The levels of made winds are heights, converted once, except in the named
\* cases, for any contents of the files.  (Grid::PtoH)
THEOREM LevelsCorrect == Spec => []LevelsTrue
<1>1. IInv /\ LevelsTrue => LevelsTrue
  OBVIOUS
<1>. QED  BY <1>1, InvHolds, PTL
=============================================================================

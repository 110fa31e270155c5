---------------------------- MODULE TimeWindow ----------------------------
(***************************************************************************)
(* Grid::read_cdf: which records of a netCDF wind file become the data of  *)
(* a Grid.  The values of the time variable are sorted (shellsort), cut to *)
(* the records around the run, moved to the front of their array, and the  *)
(* data of each is then read from the record the library finds for it by   *)
(* its value.                                                              *)
(*                                                                         *)
(* The time variable may be of doubles, and fgData[FRTIME].val is an array *)
(* of floats: Float says what a time becomes there.  Times are compared    *)
(* with the run after a product with 3600 in float arithmetic: Clock.  The *)
(* other dimensions are cut independently and are left out.                *)
(*                                                                         *)
(* A definition named after another with a suffix is a plausible mistake   *)
(* in that operation, there to show which property notices it.             *)
(***************************************************************************)
EXTENDS Integers, Sequences, FiniteSets

CONSTANTS
  Times,        \* the values a time variable can have
  Sizes,        \* the numbers of records of a file
  Files,        \* the time variables of the files with so many records
  Float,        \* their conversion to float
  Clock,        \* the time_t computed from a float
  Starts,       \* eruptDate as time_t
  Ends          \* eruptDate + runHours

ASSUME WindowAssumption ==
  /\ Sizes \subseteq Nat
  /\ \A m \in Sizes : Files[m] \subseteq [0 .. m - 1 -> Times]
  /\ Times \subseteq Int /\ Starts \subseteq Int /\ Ends \subseteq Int
  /\ Float \in [Times -> Times] /\ Clock \in [Times -> Int]
  /\ \A s, t \in Times : s <= t => Float[s] <= Float[t] /\ Clock[s] <= Clock[t]
  /\ \A t \in Times : Float[Float[t]] = Float[t]

VARIABLES
  pc,         \* "gap", "sweep", "first", "second", "shift", "read", "done"
  n,          \* the records of the file
  file,       \* the time of each record, in the order of the file
  start, end, \* the run
  val, size,  \* fgData[FRTIME]
  offset, i, isSorted,   \* locals of shellsort; i also counts the shift
  index1, index2,        \* the window
  rec,        \* the record each part of fgData[VAR] was read from
  warned      \* "does not contain data covering the eruption"

vars == <<pc, n, file, start, end, val, size, offset, i, isSorted, index1,
          index2, rec, warned>>

Index == 0 .. n - 1

-----------------------------------------------------------------------------
Init ==
  /\ pc = "gap"
  /\ n \in Sizes /\ file \in Files[n]
  /\ start \in Starts /\ end \in Ends /\ start <= end
  /\ val = [k \in Index |-> Float[file[k]]] /\ size = n
  /\ offset = n /\ i = 0 /\ isSorted = FALSE
  /\ index1 = 0 /\ index2 = 0 /\ rec = <<>> /\ warned = FALSE

\* The next offset of the outer loop of shellsort; no less than 1.
NextOffset == IF (offset - 1) \div 3 = 0 THEN 1 ELSE (offset - 1) \div 3

NextGapOnce ==
  /\ pc = "gap"
  /\ IF offset > 1 /\ i = 0
     THEN offset' = NextOffset /\ isSorted' = TRUE /\ pc' = "sweep"
     ELSE pc' = "first" /\ UNCHANGED <<offset, isSorted>>
  /\ i' = 0
  /\ UNCHANGED <<n, file, start, end, val, size, index1, index2, rec, warned>>

NextGap ==
  /\ pc = "gap"
  /\ IF offset > 1
     THEN offset' = NextOffset /\ isSorted' = TRUE /\ pc' = "sweep"
     ELSE pc' = "first" /\ UNCHANGED <<offset, isSorted>>
  /\ i' = 0
  /\ UNCHANGED <<n, file, start, end, val, size, index1, index2, rec, warned>>

\* Order two elements that are offset apart.
Compare ==
  /\ pc = "sweep" /\ i < n - offset
  /\ IF val[i] > val[i + offset]
     THEN /\ isSorted' = FALSE
          /\ val' = [val EXCEPT ![i] = val[i + offset], ![i + offset] = val[i]]
     ELSE UNCHANGED <<val, isSorted>>
  /\ i' = i + 1
  /\ UNCHANGED <<pc, n, file, start, end, size, offset, index1, index2, rec,
                 warned>>

EndSweepNoReset ==
  /\ pc = "sweep" /\ i = n - offset
  /\ IF isSorted
     THEN pc' = "gap" /\ UNCHANGED <<i, isSorted>>
     ELSE pc' = "sweep" /\ i' = 0 /\ UNCHANGED isSorted
  /\ UNCHANGED <<n, file, start, end, val, size, offset, index1, index2, rec,
                 warned>>

\* Sweep again until a sweep swaps nothing.
EndSweep ==
  /\ pc = "sweep" /\ i = n - offset
  /\ IF isSorted
     THEN pc' = "gap" /\ UNCHANGED <<i, isSorted>>
     ELSE pc' = "sweep" /\ i' = 0 /\ isSorted' = TRUE
  /\ UNCHANGED <<n, file, start, end, val, size, offset, index1, index2, rec,
                 warned>>

\* Go up to the first time not before the eruption, and one back if it is after
\* it; with no such time index1 ends at size.
FirstIndexLate ==
  /\ pc = "first"
  /\ IF index1 < size /\ Clock[val[index1]] < start
     THEN index1' = index1 + 1 /\ UNCHANGED <<pc, index2>>
     ELSE pc' = "second" /\ UNCHANGED index1 /\ index2' = index1
  /\ UNCHANGED <<n, file, start, end, val, size, offset, i, isSorted, rec,
                 warned>>

FirstIndex ==
  /\ pc = "first"
  /\ IF index1 < size /\ Clock[val[index1]] < start
     THEN index1' = index1 + 1 /\ UNCHANGED <<pc, index2>>
     ELSE /\ pc' = "second"
          /\ index1' = IF /\ 0 < index1 /\ index1 < size
                          /\ Clock[val[index1]] > start
                       THEN index1 - 1 ELSE index1
          /\ index2' = index1'
  /\ UNCHANGED <<n, file, start, end, val, size, offset, i, isSorted, rec,
                 warned>>

\* Does the window have to go on after index2?
MoreThrough == index2 < size /\ Clock[val[index2]] <= end

More == index2 < size /\ Clock[val[index2]] < end

SecondIndex ==
  /\ pc = "second" /\ More
  /\ index2' = index2 + 1
  /\ UNCHANGED <<pc, n, file, start, end, val, size, offset, i, isSorted,
                 index1, rec, warned>>

LastIndexBeyond == index2

\* The last index to keep.  For a file without records size - 1 is the largest
\* unsigned number, so index2 stays.
LastIndex == IF size # 0 /\ index2 > size - 1 THEN index2 - 1 ELSE index2

\* One value is no good.
Cut ==
  /\ pc = "second" /\ ~More
  /\ index2' = LastIndex
  /\ size' = IF index2' > index1 THEN index2' - index1 + 1 ELSE 0
  /\ warned' = (size' = 0) /\ i' = 0 /\ pc' = "shift"
  /\ UNCHANGED <<n, file, start, end, val, offset, isSorted, index1, rec>>

\* Move the window to the front of the array, one value at a time.
ShiftDown ==
  /\ pc = "shift"
  /\ IF i < size
     THEN /\ val' = [val EXCEPT ![i] = val[index1]]
          /\ index1' = index1 + 1 /\ i' = i + 1 /\ UNCHANGED pc
     ELSE pc' = "read" /\ UNCHANGED <<val, index1, i>>
  /\ UNCHANGED <<n, file, start, end, size, offset, isSorted, index2, rec,
                 warned>>

GetIndexInOrder(t) == {Len(rec)}

\* NcVar::get_index of the library: the first record with the time asked for.
\* There is none when the conversion to float lost something; the index is then
\* -1, and where set_cur goes with that is left open.
GetIndex(t) ==
  LET hits == {r \in Index : file[r] = t}
  IN  IF hits = {} THEN Index
      ELSE {r \in hits : \A q \in hits : r <= q}

ReadRecord ==
  /\ pc = "read"
  /\ IF Len(rec) < size
     THEN /\ \E r \in GetIndex(val[Len(rec)]) : rec' = Append(rec, r)
          /\ UNCHANGED pc
     ELSE pc' = "done" /\ UNCHANGED rec
  /\ UNCHANGED <<n, file, start, end, val, size, offset, i, isSorted, index1,
                 index2, warned>>

Returned == pc = "done" /\ UNCHANGED vars

Step == NextGap \/ Compare \/ EndSweep \/ FirstIndex \/ SecondIndex \/ Cut
        \/ ShiftDown \/ ReadRecord

Next == Step \/ Returned

Spec == Init /\ [][Next]_vars

\* One thread: read_cdf goes on until it returns.
FairSpec == Spec /\ WF_vars(Step)

-----------------------------------------------------------------------------
(* Properties.                                                             *)

\* Types; every index used on an array lies inside it.
TypeOK ==
  /\ pc \in {"gap", "sweep", "first", "second", "shift", "read", "done"}
  /\ n \in Sizes /\ file \in [Index -> Times]
  /\ start \in Starts /\ end \in Ends
  /\ val \in [Index -> Times] /\ size \in 0 .. n
  /\ offset \in 0 .. n /\ i \in 0 .. n /\ isSorted \in BOOLEAN
  /\ index1 \in 0 .. n /\ index2 \in 0 .. n
  /\ pc = "sweep" => offset > 0 /\ i + offset <= n
  /\ pc = "shift" => index1 + size <= n + i
  /\ rec \in Seq(Index) /\ Len(rec) <= size /\ warned \in BOOLEAN

\* After shellsort, whatever offsets it went through, neighbours are in order
\* and the times are those of the file: none lost, none repeated.
SortedTimes ==
  /\ pc \in {"first", "second"} =>
       \A k \in Index : k > 0 => val[k - 1] <= val[k]
  /\ pc \in {"gap", "sweep", "first", "second"} =>
       \A t \in Times : Cardinality({k \in Index : val[k] = t}) =
                        Cardinality({r \in Index : Float[file[r]] = t})

Loaded == pc \in {"read", "done"} /\ size > 0

\* What the sort, the two searches and the shift in place leave: the times of
\* the file from one of them to another, in order and with none left out, of
\* which only the first may lie before the run and only the last after it.
Window ==
  Loaded =>
    /\ \A k \in 1 .. size - 1 : val[k - 1] <= val[k] /\ Clock[val[k]] >= start
    /\ \A k \in 0 .. size - 2 : Clock[val[k]] < end
    /\ \A r \in Index : \/ \E k \in 0 .. size - 1 : val[k] = Float[file[r]]
                        \/ Float[file[r]] < val[0]
                        \/ Float[file[r]] > val[size - 1]

\* Data that complete cover the run are found if the file has them.
Covers ==
  /\ pc \in {"read", "done"} /\ start < end
  /\ \E r \in Index : Clock[Float[file[r]]] <= start
  /\ \E r \in Index : Clock[Float[file[r]]] >= end
  => size > 0 /\ Clock[val[0]] <= start /\ Clock[val[size - 1]] >= end

\* The data are read in the order of the sorted times, not of the file: each
\* part comes from a record of its own time, unless the file has a time that a
\* float cannot hold.
RecordsMatch ==
  (\A r \in Index : Float[file[r]] = file[r]) =>
    \A k \in 1 .. Len(rec) : file[rec[k]] = val[k - 1]

\* shellsort and the loops after it end.
ReadEnds == <>(pc = "done")
=============================================================================

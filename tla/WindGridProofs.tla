-------------------------- MODULE WindGridProofs --------------------------
(***************************************************************************)
(* Theorems about the Grid objects of the winds: how read_cdf fills one    *)
(* with a window of a file (TimeWindow, for files of any size and times in *)
(* any order, any run and any conversions that keep order), and how nnint  *)
(* looks a coordinate up in one (WindLookup, for grids of any sizes and    *)
(* values and any coordinate, at integer values).                          *)
(***************************************************************************)
EXTENDS TimeWindow, WindLookup, FiniteSetTheorems, FunctionTheorems, TLAPS

-----------------------------------------------------------------------------
(* TimeWindow: reading the file.                                           *)

\* val is the file rearranged by p.
Arranges(p) ==
  /\ p \in [Index -> Index]
  /\ \A j, k \in Index : j # k => p[j] # p[k]
  /\ \A r \in Index : \E k \in Index : p[k] = r
  /\ \A k \in Index : val[k] = Float[file[p[k]]]

Early == pc \in {"gap", "sweep", "first", "second"}

ArrangeInv == Early => size = n /\ rec = <<>> /\ \E p : Arranges(p)

OrderedTo(m) == \A j, k \in Index : j <= k /\ k <= m => val[j] <= val[k]

\* The last sweep leaves order behind it as long as it has not swapped.
OrderInv ==
  /\ pc = "gap" /\ offset <= 1 => OrderedTo(n)
  /\ pc = "sweep" /\ offset = 1 /\ isSorted => OrderedTo(i)
  /\ pc \in {"first", "second"} => OrderedTo(n)

\* What the searches have passed is before the run, or within it.
SearchInv ==
  /\ pc \in {"gap", "sweep"} => index1 = 0
  /\ pc = "first" => \A k \in Index : k < index1 => Clock[val[k]] < start
  /\ pc = "second" =>
       /\ index1 <= index2
       /\ \A k \in Index : k > index1 => Clock[val[k]] >= start
       /\ \/ index1 \in Index /\ Clock[val[index1]] <= start
          \/ \A k \in Index : Clock[val[k]] > start
          \/ \A k \in Index : Clock[val[k]] < start
       /\ \A k \in Index : index1 <= k /\ k < index2 => Clock[val[k]] < end

\* The window, part of it already moved to the front.
Win == [k \in 0 .. size - 1 |->
          IF k < i THEN val[k] ELSE val[index1 - i + k]]

GoodWindow(w) ==
  /\ \A k \in 1 .. size - 1 : w[k - 1] <= w[k] /\ Clock[w[k]] >= start
  /\ \A k \in 0 .. size - 2 : Clock[w[k]] < end
  /\ \A k \in 0 .. size - 1 : \E r \in Index : w[k] = Float[file[r]]
  /\ size > 0 =>
       \A r \in Index : \/ \E k \in 0 .. size - 1 : w[k] = Float[file[r]]
                        \/ Float[file[r]] < w[0]
                        \/ Float[file[r]] > w[size - 1]

GoodCover(w) ==
  /\ start < end
  /\ \E r \in Index : Clock[Float[file[r]]] <= start
  /\ \E r \in Index : Clock[Float[file[r]]] >= end
  => size > 0 /\ Clock[w[0]] <= start /\ Clock[w[size - 1]] >= end

ShiftInv ==
  ~Early =>
    /\ i <= index1 /\ i <= size /\ (pc # "shift" => i = size)
    /\ pc = "shift" => rec = <<>>
    /\ GoodWindow(Win) /\ GoodCover(Win)

WindowInv ==
  TypeOK /\ ArrangeInv /\ OrderInv /\ SearchInv /\ ShiftInv /\ RecordsMatch

LEMMA Facts ==
  ASSUME TypeOK
  PROVE  /\ n \in Nat /\ Index = 0 .. n - 1 /\ start \in Int /\ end \in Int
         /\ size \in Nat /\ size <= n
         /\ \A t \in Times : t \in Int /\ Clock[t] \in Int
         /\ \A s, t \in Times : s <= t => Clock[s] <= Clock[t]
         /\ \A k \in Index : /\ val[k] \in Times /\ val[k] \in Int
                              /\ file[k] \in Times /\ Float[file[k]] \in Times
<1>1. /\ n \in Nat /\ Index = 0 .. n - 1 /\ start \in Int /\ end \in Int
      /\ size \in Nat /\ size <= n
  BY WindowAssumption DEF TypeOK, Index
<1>2. /\ \A t \in Times : t \in Int /\ Clock[t] \in Int
      /\ \A s, t \in Times : s <= t => Clock[s] <= Clock[t]
  BY WindowAssumption
<1>3. \A k \in Index : val[k] \in Times /\ file[k] \in Times
  BY DEF TypeOK
<1>4. \A k \in Index : Float[file[k]] \in Times
  BY <1>3, WindowAssumption
<1>5. \A k \in Index : val[k] \in Int
  BY <1>2, <1>3
<1> QED
  BY <1>1, <1>2, <1>3, <1>4, <1>5

LEMMA InitHolds == Init => WindowInv
<1> SUFFICES ASSUME Init PROVE WindowInv
  OBVIOUS
<1>1. n \in Nat /\ Index = 0 .. n - 1 /\ file \in [Index -> Times]
  BY WindowAssumption DEF Init, Index
<1>a. val \in [Index -> Times]
  BY <1>1, WindowAssumption DEF Init
<1>b. rec \in Seq(Index) /\ Len(rec) = 0
  BY DEF Init
<1>2. TypeOK
  <2>1. n \in Sizes /\ file \in [Index -> Times] /\ pc = "gap"
    BY <1>1 DEF Init
  <2>2. /\ start \in Starts /\ end \in Ends
        /\ isSorted \in BOOLEAN /\ warned \in BOOLEAN
    BY DEF Init
  <2>3. size = n /\ offset = n /\ i = 0 /\ index1 = 0 /\ index2 = 0
    BY DEF Init
  <2> QED
    BY <1>1, <1>a, <1>b, <2>1, <2>2, <2>3 DEF TypeOK
<1>3. Arranges([k \in Index |-> k])
  BY <1>1, WindowAssumption DEF Init, Arranges
<1>4. ArrangeInv
  BY <1>3 DEF ArrangeInv, Init
<1>5. OrderInv
  BY <1>1, <1>2, Facts DEF OrderInv, OrderedTo, Init
<1> QED
  BY <1>2, <1>4, <1>5 DEF WindowInv, SearchInv, ShiftInv, Early, RecordsMatch, Init

\* A swap of shellsort keeps val a rearrangement of the file.
LEMMA SwapArranges ==
  ASSUME TypeOK, NEW p, Arranges(p), NEW a \in Index, NEW b \in Index, a # b,
         val' = [val EXCEPT ![a] = val[b], ![b] = val[a]],
         UNCHANGED <<n, file>>
  PROVE  (\E q : Arranges(q))'
<1> DEFINE q == [p EXCEPT ![a] = p[b], ![b] = p[a]]
<1>1. Index' = Index
  BY DEF Index
<1>2. q \in [Index -> Index] /\ p \in [Index -> Index]
  BY DEF Arranges
<1>3. \A k \in Index : q[k] = IF k = b THEN p[a] ELSE IF k = a THEN p[b] ELSE p[k]
  BY <1>2
<1>4. \A k \in Index :
        val'[k] = IF k = b THEN val[a] ELSE IF k = a THEN val[b] ELSE val[k]
  BY DEF TypeOK
<1>5. \A j, k \in Index : j # k => q[j] # q[k]
  BY <1>3 DEF Arranges
<1>6. \A r \in Index : \E k \in Index : q[k] = r
  <2> SUFFICES ASSUME NEW r \in Index PROVE \E k \in Index : q[k] = r
    OBVIOUS
  <2>1. PICK k \in Index : p[k] = r
    BY DEF Arranges
  <2>2. q[IF k = a THEN b ELSE IF k = b THEN a ELSE k] = r
    BY <2>1, <1>3
  <2> QED
    BY <2>2
<1>7. \A k \in Index : val'[k] = Float[file[q[k]]]
  BY <1>3, <1>4 DEF Arranges
<1>8. Arranges(q)'
  BY <1>1, <1>2, <1>5, <1>6, <1>7 DEF Arranges
<1> QED
  BY <1>8

\* A step that leaves the array and the window alone, before the records are
\* cut, keeps the arrangement.
LEMMA SameArrangement ==
  ASSUME ArrangeInv, Early, UNCHANGED <<n, file, val, size, rec>>
  PROVE  ArrangeInv'
<1>1. Index' = Index
  BY DEF Index
<1>2. PICK p : Arranges(p)
  BY DEF ArrangeInv
<1>3. Arranges(p)'
  BY <1>1, <1>2 DEF Arranges
<1> QED
  BY <1>3 DEF ArrangeInv

LEMMA OrderedToZero ==
  ASSUME TypeOK
  PROVE  OrderedTo(0)
<1> SUFFICES ASSUME NEW j \in Index, NEW k \in Index, j <= k, k <= 0
             PROVE  val[j] <= val[k]
  BY DEF OrderedTo
<1>1. j \in Int /\ k \in Int /\ 0 <= j /\ val[k] \in Int
  BY Facts
<1>2. j = k
  BY <1>1
<1> QED
  BY <1>1, <1>2

LEMMA NextGapKeeps ==
  ASSUME WindowInv, NextGap
  PROVE  WindowInv'
<1>0. TypeOK /\ ArrangeInv /\ OrderInv /\ Index' = Index
  BY DEF WindowInv, NextGap, Index
<1>1. pc = "gap" /\ Early /\ pc' \in {"sweep", "first"} /\ i' = 0
  BY DEF NextGap, Early
<1>2. UNCHANGED <<n, file, start, end, val, size, index1, index2, rec, warned>>
  BY DEF NextGap
<1>3. /\ pc' = "sweep" => offset' \in 1 .. n - 1
      /\ offset' \in 0 .. n
      /\ pc' = "first" => offset <= 1
  BY <1>0, Facts DEF NextGap, NextOffset, TypeOK
<1>4. isSorted' \in BOOLEAN
  BY <1>0 DEF NextGap, TypeOK
<1>5. TypeOK'
  BY <1>0, <1>1, <1>2, <1>3, <1>4, Facts DEF TypeOK
<1>6. ArrangeInv'
  BY <1>0, <1>1, <1>2, SameArrangement
<1>7. OrderInv'
  <2>1. pc' = "first" => OrderedTo(n)'
    BY <1>0, <1>1, <1>2, <1>3 DEF OrderInv, OrderedTo
  <2>3. OrderedTo(i)'
    BY <1>0, <1>1, <1>2, OrderedToZero DEF OrderedTo
  <2> QED
    BY <1>1, <2>1, <2>3 DEF OrderInv
<1>8. SearchInv'
  <2>1. index1 = 0
    BY <1>0, <1>1 DEF WindowInv, SearchInv, TypeOK
  <2> QED
    BY <1>0, <1>1, <1>2, <2>1, Facts DEF SearchInv
<1> QED
  BY <1>1, <1>2, <1>5, <1>6, <1>7, <1>8
  DEF WindowInv, ShiftInv, Early, RecordsMatch, ArrangeInv

LEMMA CompareKeeps ==
  ASSUME WindowInv, Compare
  PROVE  WindowInv'
<1>0. TypeOK /\ ArrangeInv /\ OrderInv /\ SearchInv /\ Index' = Index
  BY DEF WindowInv, Compare, Index
<1>1. pc = "sweep" /\ pc' = pc /\ Early /\ i < n - offset /\ i' = i + 1
  BY DEF Compare, Early
<1>2. UNCHANGED <<n, file, start, end, size, offset, index1, index2, rec, warned>>
  BY DEF Compare
<1>3. /\ offset \in 1 .. n /\ i \in 0 .. n /\ i + 1 + offset <= n
      /\ i \in Index /\ i + offset \in Index /\ i # i + offset /\ n \in Nat
  BY <1>0, <1>1, Facts DEF TypeOK
<1>4. CASE val[i] > val[i + offset]
  <2>1. /\ isSorted' = FALSE
        /\ val' = [val EXCEPT ![i] = val[i + offset], ![i + offset] = val[i]]
    BY <1>4 DEF Compare
  <2>2. val' \in [Index -> Times]
    BY <2>1, <1>0, <1>3 DEF TypeOK
  <2>b. isSorted' \in BOOLEAN
    BY <2>1
  <2>3. TypeOK'
    BY <1>0, <1>1, <1>2, <1>3, <2>b, <2>2 DEF TypeOK
  <2>4. ArrangeInv'
    <3>1. PICK p : Arranges(p)
      BY <1>0, <1>1 DEF ArrangeInv
    <3>2. (\E q : Arranges(q))'
      BY <3>1, <1>0, <1>2, <1>3, <2>1, SwapArranges
    <3> QED
      BY <1>0, <1>1, <1>2, <3>2 DEF ArrangeInv
  <2>5. OrderInv'
    BY <1>1, <2>1 DEF OrderInv
  <2> QED
    BY <1>0, <1>1, <1>2, <2>3, <2>4, <2>5
    DEF WindowInv, SearchInv, ShiftInv, Early, RecordsMatch, ArrangeInv
<1>5. CASE ~(val[i] > val[i + offset])
  <2>a. val[i] \in Int /\ val[i + offset] \in Int
    BY <1>0, <1>3, Facts
  <2>b. UNCHANGED <<val, isSorted>>
    BY <1>5 DEF Compare
  <2>1. UNCHANGED <<val, isSorted>> /\ val[i] <= val[i + offset]
    BY <1>5, <2>a, <2>b
  <2>2. TypeOK'
    BY <1>0, <1>1, <1>2, <1>3, <2>1 DEF TypeOK
  <2>3. ArrangeInv'
    BY <1>0, <1>1, <1>2, <2>1, SameArrangement
  <2>4. OrderInv'
    <3>1. ASSUME offset = 1, OrderedTo(i) PROVE OrderedTo(i + 1)
      <4> SUFFICES ASSUME NEW j \in Index, NEW k \in Index, j <= k, k <= i + 1
                   PROVE  val[j] <= val[k]
        BY DEF OrderedTo
      <4>1. val[j] \in Int /\ val[k] \in Int /\ val[i] \in Int
        BY <1>0, <1>3, Facts
      <4>2. CASE k <= i
        BY <3>1, <4>2 DEF OrderedTo
      <4>3. CASE k = i + 1 /\ j <= i
        BY <3>1, <4>1, <4>3, <2>1, <1>0, <1>3, Facts DEF OrderedTo
      <4>4. CASE k = i + 1 /\ j = i + 1
        BY <4>1, <4>4
      <4> QED
        BY <4>2, <4>3, <4>4, <1>0, <1>3, Facts
    <3> QED
      BY <3>1, <1>0, <1>1, <1>2, <2>1 DEF OrderInv, OrderedTo
  <2> QED
    BY <1>0, <1>1, <1>2, <2>1, <2>2, <2>3, <2>4
    DEF WindowInv, SearchInv, ShiftInv, Early, RecordsMatch, ArrangeInv
<1> QED
  BY <1>4, <1>5

LEMMA EndSweepKeeps ==
  ASSUME WindowInv, EndSweep
  PROVE  WindowInv'
<1>0. TypeOK /\ ArrangeInv /\ OrderInv /\ SearchInv /\ Index' = Index
  BY DEF WindowInv, EndSweep, Index
<1>1. pc = "sweep" /\ pc' \in {"gap", "sweep"} /\ Early /\ i = n - offset
  BY DEF EndSweep, Early
<1>2. UNCHANGED <<n, file, start, end, val, size, offset, index1, index2, rec, warned>>
  BY DEF EndSweep
<1>a. i' \in {0, i} /\ (pc' = "sweep" => i' = 0)
  BY DEF EndSweep
<1>3. i' \in 0 .. n /\ (pc' = "sweep" => i' = 0) /\ offset \in 1 .. n
  <2>1. n \in Nat /\ i \in 0 .. n /\ offset \in 1 .. n
    BY <1>0, <1>1, Facts DEF TypeOK
  <2> QED
    BY <1>a, <2>1
<1>4. isSorted' \in BOOLEAN
  BY <1>0 DEF EndSweep, TypeOK
<1>5. TypeOK'
  BY <1>0, <1>1, <1>2, <1>3, <1>4, Facts DEF TypeOK
<1>6. ArrangeInv'
  BY <1>0, <1>1, <1>2, SameArrangement
<1>7. OrderInv'
  <2>1. pc' = "gap" => isSorted
    BY <1>1 DEF EndSweep
  <2>2. ASSUME isSorted, offset = 1 PROVE OrderedTo(n)
    BY <2>2, <1>0, <1>1, Facts DEF OrderInv, OrderedTo
  <2>4. pc' = "sweep" => OrderedTo(i)'
    BY <1>0, <1>2, <1>3, OrderedToZero DEF OrderedTo
  <2>5. pc' = "gap" /\ offset' <= 1 => OrderedTo(n)'
    BY <1>0, <1>2, <1>3, <2>1, <2>2 DEF OrderedTo
  <2> QED
    BY <1>1, <2>4, <2>5 DEF OrderInv
<1> QED
  BY <1>0, <1>1, <1>2, <1>5, <1>6, <1>7
  DEF WindowInv, SearchInv, ShiftInv, Early, RecordsMatch, ArrangeInv

LEMMA FirstIndexKeeps ==
  ASSUME WindowInv, FirstIndex
  PROVE  WindowInv'
<1>0. TypeOK /\ ArrangeInv /\ OrderInv /\ SearchInv /\ Index' = Index
  BY DEF WindowInv, FirstIndex, Index
<1>1. pc = "first" /\ pc' \in {"first", "second"} /\ Early /\ size = n
  BY <1>0 DEF FirstIndex, Early, ArrangeInv
<1>2. UNCHANGED <<n, file, start, end, val, size, offset, i, isSorted, rec, warned>>
  BY DEF FirstIndex
<1>3. /\ n \in Nat /\ Index = 0 .. n - 1 /\ index1 \in 0 .. n
      /\ start \in Int /\ end \in Int
      /\ \A k \in Index : val[k] \in Int /\ Clock[val[k]] \in Int
  BY <1>0, Facts DEF TypeOK
<1>4. \A j, k \in Index : j <= k => Clock[val[j]] <= Clock[val[k]]
  BY <1>0, <1>1, <1>3, Facts DEF OrderInv, OrderedTo
<1>5. \A k \in Index : k < index1 => Clock[val[k]] < start
  BY <1>0, <1>1 DEF SearchInv
<1>6. index1' \in 0 .. n /\ index2' \in 0 .. n
  BY <1>0, <1>1, <1>3 DEF FirstIndex, TypeOK
<1>7. TypeOK'
  BY <1>0, <1>1, <1>2, <1>6 DEF TypeOK
<1>8. ArrangeInv'
  BY <1>0, <1>1, <1>2, SameArrangement
<1>9. OrderInv'
  BY <1>0, <1>1, <1>2 DEF OrderInv, OrderedTo
<1>10. SearchInv'
  <2>1. CASE index1 < size /\ Clock[val[index1]] < start
    <3>1. pc' = "first" /\ index1' = index1 + 1
      BY <1>1, <2>1 DEF FirstIndex
    <3>2. \A k \in Index : k < index1 + 1 => Clock[val[k]] < start
      BY <1>3, <1>5, <2>1
    <3> QED
      BY <1>0, <1>2, <3>1, <3>2 DEF SearchInv
  <2>2. CASE ~(index1 < size /\ Clock[val[index1]] < start)
    <3>1. pc' = "second" /\ index2' = index1'
      BY <2>2 DEF FirstIndex
    <3>2. index1' = IF 0 < index1 /\ index1 < size /\ Clock[val[index1]] > start
                    THEN index1 - 1 ELSE index1
      BY <2>2 DEF FirstIndex
    <3>3. index1 < n => index1 \in Index /\ Clock[val[index1]] >= start
      BY <1>1, <1>3, <2>2
    <3>4. \A k \in Index : index1 <= k => Clock[val[k]] >= start
      BY <1>3, <1>4, <3>3
    <3>5. \A k \in Index : k > index1' => Clock[val[k]] >= start
      BY <1>3, <3>2, <3>4
    <3>6. \/ index1' \in Index /\ Clock[val[index1']] <= start
          \/ \A k \in Index : Clock[val[k]] > start
          \/ \A k \in Index : Clock[val[k]] < start
      <4>1. CASE index1 = n
        BY <1>3, <1>5, <4>1
      <4>2. CASE index1 < n /\ Clock[val[index1]] = start
        BY <1>1, <1>3, <3>2, <3>3, <4>2
      <4>3. CASE index1 < n /\ Clock[val[index1]] > start /\ 0 < index1
        <5>1. index1' = index1 - 1 /\ index1 - 1 \in Index
          BY <1>1, <1>3, <3>2, <4>3
        <5>2. Clock[val[index1 - 1]] < start
          BY <1>3, <1>5, <5>1
        <5> QED
          BY <1>3, <5>1, <5>2
      <4>4. CASE index1 < n /\ Clock[val[index1]] > start /\ index1 = 0
        BY <1>3, <1>4, <3>3, <4>4
      <4> QED
        BY <1>3, <3>3, <4>1, <4>2, <4>3, <4>4
    <3>7. \A k \in Index : index1' <= k /\ k < index2' => Clock[val[k]] < end
      BY <1>3, <1>6, <3>1
    <3> QED
      BY <1>0, <1>2, <1>6, <3>1, <3>5, <3>6, <3>7 DEF SearchInv
  <2> QED
    BY <2>1, <2>2
<1> QED
  BY <1>1, <1>2, <1>7, <1>8, <1>9, <1>10
  DEF WindowInv, ShiftInv, Early, RecordsMatch, ArrangeInv

LEMMA SecondIndexKeeps ==
  ASSUME WindowInv, SecondIndex
  PROVE  WindowInv'
<1>0. TypeOK /\ ArrangeInv /\ OrderInv /\ SearchInv /\ Index' = Index
  BY DEF WindowInv, SecondIndex, Index
<1>1. /\ pc = "second" /\ pc' = pc /\ Early /\ size = n
      /\ index2 < size /\ Clock[val[index2]] < end /\ index2' = index2 + 1
  BY <1>0 DEF SecondIndex, More, Early, ArrangeInv
<1>2. UNCHANGED <<n, file, start, end, val, size, offset, i, isSorted, index1, rec, warned>>
  BY DEF SecondIndex
<1>3. n \in Nat /\ Index = 0 .. n - 1 /\ index1 \in 0 .. n /\ index2 \in 0 .. n
  BY <1>0, Facts DEF TypeOK
<1>4. TypeOK'
  BY <1>0, <1>1, <1>2, <1>3 DEF TypeOK
<1>5. ArrangeInv'
  BY <1>0, <1>1, <1>2, SameArrangement
<1>6. OrderInv'
  BY <1>0, <1>1, <1>2 DEF OrderInv, OrderedTo
<1>7. \A k \in Index : index1 <= k /\ k < index2 + 1 => Clock[val[k]] < end
  BY <1>0, <1>1, <1>3 DEF SearchInv
<1>8. index1 <= index2 + 1
  BY <1>0, <1>1, <1>3 DEF SearchInv
<1>9. SearchInv'
  BY <1>0, <1>1, <1>2, <1>7, <1>8 DEF SearchInv
<1> QED
  BY <1>1, <1>2, <1>4, <1>5, <1>6, <1>9
  DEF WindowInv, ShiftInv, Early, RecordsMatch, ArrangeInv

LEMMA CutKeeps ==
  ASSUME WindowInv, Cut
  PROVE  WindowInv'
<1> DEFINE w == Win'
           last == index2'
           sz == size'
<1>0. TypeOK /\ ArrangeInv /\ OrderInv /\ SearchInv /\ Index' = Index
  BY DEF WindowInv, Cut, Index
<1>1. pc = "second" /\ pc' = "shift" /\ Early /\ ~Early' /\ size = n /\ i' = 0
  BY <1>0 DEF Cut, Early, ArrangeInv
<1>2. UNCHANGED <<n, file, start, end, val, offset, isSorted, index1, rec>>
  BY DEF Cut
<1>3. /\ n \in Nat /\ Index = 0 .. n - 1 /\ index1 \in 0 .. n
      /\ index2 \in 0 .. n /\ index1 <= index2
      /\ start \in Int /\ end \in Int
      /\ \A k \in Index : val[k] \in Int /\ Clock[val[k]] \in Int
  BY <1>0, <1>1, Facts DEF TypeOK, SearchInv
<1>4. /\ last = IF n # 0 /\ index2 > n - 1 THEN index2 - 1 ELSE index2
      /\ sz = IF last > index1 THEN last - index1 + 1 ELSE 0
  BY <1>1 DEF Cut, LastIndex
<1>5. /\ last \in 0 .. n /\ sz \in 0 .. n /\ index1 + sz <= n
      /\ sz > 0 => last = index1 + sz - 1 /\ sz >= 2 /\ last \in Index
      /\ sz > 0 => last <= index2
  BY <1>3, <1>4
<1>6. /\ \A k \in Index : k > index1 => Clock[val[k]] >= start
      /\ \A k \in Index : index1 <= k /\ k < index2 => Clock[val[k]] < end
      /\ \A j, k \in Index : j <= k => val[j] <= val[k]
  BY <1>0, <1>1, <1>3 DEF SearchInv, OrderInv, OrderedTo
<1>7. PICK p : Arranges(p)
  BY <1>0, <1>1 DEF ArrangeInv
<1>8. \A r \in Index : \E k \in Index : val[k] = Float[file[r]]
  BY <1>7 DEF Arranges
<1>9. TypeOK'
  <2>1. warned' \in BOOLEAN
    BY DEF Cut
  <2>2. rec = <<>>
    BY <1>0, <1>1 DEF ArrangeInv
  <2>3. Len(rec') <= sz
    BY <1>2, <1>5, <2>2
  <2>4. size' \in 0 .. n /\ index2' \in 0 .. n /\ index1 + size' <= n
    BY <1>5
  <2>5. /\ n' \in Sizes /\ file' \in [Index' -> Times]
        /\ start' \in Starts /\ end' \in Ends /\ val' \in [Index' -> Times]
        /\ isSorted' \in BOOLEAN /\ rec' \in Seq(Index')
    BY <1>0, <1>2 DEF TypeOK
  <2>6. offset' \in 0 .. n' /\ i' \in 0 .. n' /\ index1' \in 0 .. n'
    BY <1>0, <1>1, <1>2, <1>3 DEF TypeOK
  <2>7. size' \in 0 .. n' /\ index2' \in 0 .. n' /\ index1' + size' <= n' + i'
    <3>1. n' = n /\ index1' = index1 /\ i' = 0 /\ n \in Nat
      BY <1>1, <1>2, <1>3
    <3>2. n + 0 = n
      BY <3>1
    <3> QED
      BY <2>4, <3>1, <3>2
  <2> QED
    BY <1>1, <2>1, <2>3, <2>5, <2>6, <2>7 DEF TypeOK
<1>10. \A k \in 0 .. sz - 1 : index1 + k \in Index /\ w[k] = val[index1 + k]
  <2>1. w = [k \in 0 .. sz - 1 |-> IF k < 0 THEN val[k] ELSE val[index1 - 0 + k]]
    BY <1>1, <1>2 DEF Win
  <2> SUFFICES ASSUME NEW k \in 0 .. sz - 1
               PROVE  index1 + k \in Index /\ w[k] = val[index1 + k]
    OBVIOUS
  <2> HIDE DEF w, last, sz
  <2>2. index1 + k \in Index /\ index1 - 0 + k = index1 + k /\ ~(k < 0)
    <3>1. /\ n \in Int /\ index1 \in Int /\ sz \in Int /\ 0 <= index1
          /\ index1 + sz <= n /\ k \in Int /\ 0 <= k /\ k < sz
      BY <1>3, <1>5
    <3> QED
      BY <1>3, <3>1
  <2> QED
    BY <2>1, <2>2
<1> HIDE DEF w, last, sz
<1>12. GoodWindow(Win)'
  <2>1. ASSUME NEW k \in 1 .. sz - 1
        PROVE  w[k - 1] <= w[k] /\ Clock[w[k]] >= start
    <3>1. /\ index1 + k \in Index /\ index1 + (k - 1) \in Index
          /\ index1 + (k - 1) <= index1 + k /\ index1 + k > index1
          /\ w[k] = val[index1 + k] /\ w[k - 1] = val[index1 + (k - 1)]
      BY <1>3, <1>5, <1>10
    <3> QED
      BY <3>1, <1>6
  <2>2. ASSUME NEW k \in 0 .. sz - 2 PROVE Clock[w[k]] < end
    <3>1. /\ index1 + k \in Index /\ index1 <= index1 + k /\ index1 + k < index2
          /\ w[k] = val[index1 + k]
      BY <1>3, <1>5, <1>10
    <3> QED
      BY <3>1, <1>6
  <2>3. ASSUME NEW k \in 0 .. sz - 1
        PROVE  \E r \in Index : w[k] = Float[file[r]]
    <3>1. w[k] = val[index1 + k] /\ index1 + k \in Index
      BY <1>10
    <3> QED
      BY <1>7, <3>1 DEF Arranges
  <2>4. ASSUME sz > 0, NEW r \in Index
        PROVE  \/ \E k \in 0 .. sz - 1 : w[k] = Float[file[r]]
               \/ Float[file[r]] < w[0]
               \/ Float[file[r]] > w[sz - 1]
    <3>1. PICK k \in Index : val[k] = Float[file[r]]
      BY <1>8
    <3>2. /\ w[0] = val[index1] /\ w[sz - 1] = val[last]
          /\ 0 \in 0 .. sz - 1 /\ sz - 1 \in 0 .. sz - 1
          /\ index1 \in Index /\ last \in Index
      <4>1. /\ 0 \in 0 .. sz - 1 /\ sz - 1 \in 0 .. sz - 1
            /\ index1 + 0 = index1 /\ index1 + (sz - 1) = last
        BY <1>3, <1>5, <2>4
      <4> QED
        BY <4>1, <1>5, <1>10
    <3>3. CASE index1 <= k /\ k <= last
      <4>1. k - index1 \in 0 .. sz - 1 /\ index1 + (k - index1) = k
        BY <1>3, <1>5, <2>4, <3>3
      <4>2. w[k - index1] = val[k]
        BY <4>1, <1>10
      <4> QED
        BY <4>1, <4>2, <3>1
    <3>4. CASE k < index1
      <4>1. val[k] <= val[index1] /\ val[k] \in Int /\ val[index1] \in Int
        BY <1>3, <1>6, <3>2, <3>4
      <4> QED
        BY <4>1, <3>1, <3>2
    <3>5. CASE k > last
      <4>1. val[last] <= val[k] /\ val[k] \in Int /\ val[last] \in Int
        BY <1>3, <1>6, <3>2, <3>5
      <4> QED
        BY <4>1, <3>1, <3>2
    <3> QED
      BY <1>3, <1>5, <3>3, <3>4, <3>5
  <2> QED
    BY <1>0, <1>2, <2>1, <2>2, <2>3, <2>4 DEF GoodWindow, w, sz
<1>13. GoodCover(Win)'
  <2> SUFFICES ASSUME start < end,
                      NEW a \in Index, Clock[Float[file[a]]] <= start,
                      NEW b \in Index, Clock[Float[file[b]]] >= end
               PROVE  sz > 0 /\ Clock[w[0]] <= start /\ Clock[w[sz - 1]] >= end
    BY <1>0, <1>2 DEF GoodCover, w, sz
  <2>1. PICK j \in Index : Clock[val[j]] <= start
    BY <1>8
  <2>2. PICK k \in Index : Clock[val[k]] >= end
    BY <1>8
  <2>3. index1 \in Index /\ Clock[val[index1]] <= start
    BY <1>0, <1>1, <1>3, <2>1, <2>2 DEF SearchInv
  <2>4. \A c, d \in Index : c <= d => Clock[val[c]] <= Clock[val[d]]
    BY <1>0, <1>6, Facts
  <2>5. index2 < n /\ Clock[val[index2]] >= end
    <3>1. ~(index2 < n /\ Clock[val[index2]] < end)
      BY <1>1 DEF Cut, More
    <3>2. ASSUME index2 = n PROVE FALSE
      <4>1. CASE k <= index1
        <5>1. Clock[val[k]] <= Clock[val[index1]]
          BY <2>3, <2>4, <4>1
        <5> QED
          BY <1>3, <2>2, <2>3, <5>1
      <4>2. CASE k > index1
        <5>0. index1 <= k /\ k < index2
          BY <1>3, <3>2, <4>2
        <5>1. Clock[val[k]] < end
          BY <5>0, <1>6
        <5> QED
          BY <1>3, <2>2, <5>1
      <4> QED
        BY <1>3, <4>1, <4>2
    <3> QED
      BY <1>3, <3>1, <3>2
  <2>6. last = index2 /\ index2 > index1
    <3>1. last = index2
      BY <1>3, <1>4, <2>5
    <3>2. index2 # index1
      BY <1>3, <2>3, <2>5
    <3> QED
      BY <1>3, <3>1, <3>2
  <2>7. sz = index2 - index1 + 1 /\ sz > 0
    BY <1>3, <1>4, <2>6
  <2>8. w[0] = val[index1] /\ w[sz - 1] = val[index2]
    BY <1>3, <1>10, <2>7
  <2> QED
    BY <2>3, <2>5, <2>7, <2>8
<1>14. ShiftInv'
  <2>1. rec' = <<>>
    BY <1>0, <1>1, <1>2 DEF ArrangeInv
  <2> QED
    BY <1>1, <1>2, <1>3, <1>5, <1>12, <1>13, <2>1 DEF ShiftInv, sz
<1>15. RecordsMatch'
  BY <1>0, <1>1, <1>2 DEF RecordsMatch, ArrangeInv
<1> QED
  BY <1>1, <1>9, <1>14, <1>15
  DEF WindowInv, ArrangeInv, OrderInv, SearchInv

\* The window as a whole does not change once it is cut.
LEMMA SameWindow ==
  ASSUME ShiftInv, ~Early, Win' = Win, UNCHANGED <<n, file, start, end, size>>
  PROVE  GoodWindow(Win)' /\ GoodCover(Win)'
<1>1. Index' = Index
  BY DEF Index
<1>2. GoodWindow(Win) /\ GoodCover(Win)
  BY DEF ShiftInv
<1>3. GoodWindow(Win)'
  BY <1>1, <1>2 DEF GoodWindow
<1> QED
  BY <1>1, <1>2, <1>3 DEF GoodCover

LEMMA ShiftDownKeeps ==
  ASSUME WindowInv, ShiftDown
  PROVE  WindowInv'
<1>0. TypeOK /\ ShiftInv /\ RecordsMatch /\ Index' = Index
  BY DEF WindowInv, ShiftDown, Index
<1>1. pc = "shift" /\ pc' \in {"shift", "read"} /\ ~Early /\ ~Early'
  BY DEF ShiftDown, Early
<1>2. UNCHANGED <<n, file, start, end, size, offset, isSorted, index2, rec, warned>>
  BY DEF ShiftDown
<1>3. /\ n \in Nat /\ Index = 0 .. n - 1 /\ size \in 0 .. n /\ i \in 0 .. n
      /\ index1 \in 0 .. n /\ i <= index1 /\ i <= size /\ index1 + size <= n + i
  BY <1>0, <1>1, Facts DEF TypeOK, ShiftInv
<1>4. rec = <<>>
  BY <1>0, <1>1 DEF ShiftInv
<1>5. RecordsMatch'
  BY <1>2, <1>4 DEF RecordsMatch
<1>6. CASE i < size
  <2>1. /\ pc' = pc /\ index1' = index1 + 1 /\ i' = i + 1
        /\ val' = [val EXCEPT ![i] = val[index1]]
    BY <1>6 DEF ShiftDown
  <2>2. i \in Index /\ index1 \in Index
    BY <1>3, <1>6
  <2>3. val' \in [Index -> Times] /\ val \in [Index -> Times]
    BY <1>0, <2>1, <2>2 DEF TypeOK
  <2>4. Win' = Win
    <3>1. Win' = [k \in 0 .. size - 1 |->
                    IF k < i + 1 THEN val'[k] ELSE val'[(index1 + 1) - (i + 1) + k]]
      BY <1>2, <2>1 DEF Win
    <3>2. ASSUME NEW k \in 0 .. size - 1
          PROVE  (IF k < i + 1 THEN val'[k] ELSE val'[(index1 + 1) - (i + 1) + k])
                 = (IF k < i THEN val[k] ELSE val[index1 - i + k])
      <4>1. CASE k < i
        <5>1. k \in Index /\ k # i /\ k < i + 1
          BY <1>3, <4>1
        <5> QED
          BY <2>1, <2>3, <4>1, <5>1
      <4>2. CASE k = i
        <5>1. k < i + 1 /\ ~(k < i) /\ index1 - i + k = index1
          BY <1>3, <4>2
        <5> QED
          BY <2>1, <2>2, <2>3, <4>2, <5>1
      <4>3. CASE i < k
        <5>1. /\ ~(k < i + 1) /\ ~(k < i)
              /\ (index1 + 1) - (i + 1) + k = index1 - i + k
              /\ index1 - i + k \in Index /\ index1 - i + k # i
          BY <1>3, <4>3
        <5> QED
          BY <2>1, <2>3, <5>1
      <4> QED
        BY <1>3, <4>1, <4>2, <4>3
    <3> QED
      BY <3>1, <3>2 DEF Win
  <2>5. TypeOK'
    <3>1. /\ i' \in 0 .. n /\ index1' \in 0 .. n /\ index1' + size <= n + i'
      BY <1>3, <1>6, <2>1, <2>2
    <3> QED
      BY <1>0, <1>1, <1>2, <1>3, <2>1, <2>3, <3>1 DEF TypeOK
  <2>6. i' <= index1' /\ i' <= size
    BY <1>3, <1>6, <2>1
  <2>7. ShiftInv'
    BY <1>0, <1>1, <1>2, <1>4, <2>1, <2>4, <2>6, SameWindow DEF ShiftInv
  <2> QED
    BY <1>1, <1>5, <2>5, <2>7 DEF WindowInv, ArrangeInv, OrderInv, SearchInv, Early
<1>7. CASE ~(i < size)
  <2>1. pc' = "read" /\ UNCHANGED <<val, index1, i>> /\ i = size
    BY <1>3, <1>7 DEF ShiftDown
  <2>2. Win' = Win
    BY <1>2, <2>1 DEF Win
  <2>3. TypeOK'
    BY <1>0, <1>1, <1>2, <2>1 DEF TypeOK
  <2>4. ShiftInv'
    BY <1>0, <1>1, <1>2, <1>3, <2>1, <2>2, SameWindow DEF ShiftInv
  <2> QED
    BY <1>1, <1>5, <2>1, <2>3, <2>4 DEF WindowInv, ArrangeInv, OrderInv, SearchInv, Early
<1> QED
  BY <1>6, <1>7

\* In the place i = size the window is the front of the array.
LEMMA WindowIsFront ==
  ASSUME TypeOK, ShiftInv, pc \in {"read", "done"}
  PROVE  \A k \in 0 .. size - 1 : Win[k] = val[k]
<1>1. i = size /\ size \in Nat
  BY Facts DEF ShiftInv, Early
<1>2. \A k \in 0 .. size - 1 : k < size
  BY <1>1
<1> QED
  BY <1>1, <1>2 DEF Win

LEMMA ReadRecordKeeps ==
  ASSUME WindowInv, ReadRecord
  PROVE  WindowInv'
<1>0. TypeOK /\ ShiftInv /\ RecordsMatch /\ Index' = Index
  BY DEF WindowInv, ReadRecord, Index
<1>1. pc = "read" /\ pc' \in {"read", "done"} /\ ~Early /\ ~Early'
  BY DEF ReadRecord, Early
<1>2. UNCHANGED <<n, file, start, end, val, size, offset, i, isSorted, index1, index2, warned>>
  BY DEF ReadRecord
<1>3. Win' = Win
  BY <1>2 DEF Win
<1>4. ShiftInv'
  BY <1>0, <1>1, <1>2, <1>3, SameWindow DEF ShiftInv
<1>5. CASE Len(rec) < size
  <2>1. PICK r \in GetIndex(val[Len(rec)]) : rec' = Append(rec, r) /\ pc' = pc
    BY <1>5 DEF ReadRecord
  <2>2. r \in Index
    BY <2>1 DEF GetIndex
  <2>3. rec \in Seq(Index) /\ Len(rec) \in Nat /\ size \in Nat
    BY <1>0, Facts DEF TypeOK
  <2>4. /\ rec' \in Seq(Index) /\ Len(rec') = Len(rec) + 1
        /\ \A k \in 1 .. Len(rec) : rec'[k] = rec[k]
        /\ rec'[Len(rec) + 1] = r
    BY <2>1, <2>2, <2>3
  <2>5. TypeOK'
    <3>1. Len(rec') <= size
      BY <1>5, <2>3, <2>4
    <3> QED
      BY <1>0, <1>1, <1>2, <2>1, <2>4, <3>1 DEF TypeOK
  <2>6. RecordsMatch'
    <3> SUFFICES ASSUME \A q \in Index : Float[file[q]] = file[q],
                        NEW k \in 1 .. Len(rec')
                 PROVE  file[rec'[k]] = val[k - 1]
      BY <1>0, <1>2 DEF RecordsMatch
    <3>1. CASE k \in 1 .. Len(rec)
      BY <1>0, <2>4, <3>1 DEF RecordsMatch
    <3>2. CASE k = Len(rec) + 1
      <4>1. Len(rec) \in 0 .. size - 1 /\ k - 1 = Len(rec)
        BY <1>5, <2>3, <3>2
      <4>2. PICK q \in Index : val[Len(rec)] = Float[file[q]]
        BY <1>0, <1>1, <4>1, WindowIsFront DEF ShiftInv, GoodWindow
      <4>3. file[q] = val[Len(rec)]
        BY <4>2
      <4>4. file[r] = val[Len(rec)]
        BY <2>1, <4>3 DEF GetIndex
      <4> QED
        BY <2>4, <3>2, <4>1, <4>4
    <3> QED
      BY <2>3, <2>4, <3>1, <3>2
  <2> QED
    BY <1>1, <1>4, <2>5, <2>6 DEF WindowInv, ArrangeInv, OrderInv, SearchInv
<1>6. CASE ~(Len(rec) < size)
  <2>1. pc' = "done" /\ rec' = rec
    BY <1>6 DEF ReadRecord
  <2>2. TypeOK'
    BY <1>0, <1>2, <2>1 DEF TypeOK
  <2>3. RecordsMatch'
    BY <1>0, <1>2, <2>1 DEF RecordsMatch
  <2> QED
    BY <1>1, <1>4, <2>1, <2>2, <2>3 DEF WindowInv, ArrangeInv, OrderInv, SearchInv
<1> QED
  BY <1>5, <1>6

LEMMA StutterKeeps ==
  ASSUME WindowInv, UNCHANGED vars
  PROVE  WindowInv'
<1>0. TypeOK /\ ArrangeInv /\ OrderInv /\ SearchInv /\ ShiftInv /\ RecordsMatch
  BY DEF WindowInv
<1>1. /\ UNCHANGED <<pc, n, file, start, end, val, size, offset, i, isSorted>>
      /\ UNCHANGED <<index1, index2, rec, warned>>
  BY DEF vars
<1>2. Index' = Index /\ Win' = Win
  BY <1>1 DEF Index, Win
<1>3. TypeOK'
  BY <1>0, <1>1, <1>2 DEF TypeOK
<1>4. OrderInv' /\ SearchInv'
  BY <1>0, <1>1, <1>2 DEF OrderInv, OrderedTo, SearchInv
<1>5. ArrangeInv'
  <2>1. Early => ArrangeInv'
    BY <1>0, <1>1, SameArrangement
  <2> QED
    BY <1>1, <2>1 DEF ArrangeInv, Early
<1>6. ShiftInv'
  <2>1. ~Early => GoodWindow(Win)' /\ GoodCover(Win)'
    BY <1>0, <1>1, <1>2, SameWindow
  <2> QED
    BY <1>0, <1>1, <2>1 DEF ShiftInv, Early
<1>7. RecordsMatch'
  BY <1>0, <1>1, <1>2 DEF RecordsMatch
<1> QED
  BY <1>3, <1>4, <1>5, <1>6, <1>7 DEF WindowInv

LEMMA InvHolds == Spec => []WindowInv
<1>1. WindowInv /\ [Next]_vars => WindowInv'
  BY NextGapKeeps, CompareKeeps, EndSweepKeeps, FirstIndexKeeps, SecondIndexKeeps,
     CutKeeps, ShiftDownKeeps, ReadRecordKeeps, StutterKeeps
  DEF Next, Step, Returned
<1> QED
  BY InitHolds, <1>1, PTL DEF Spec

\* Every index that read_cdf and shellsort use on an array lies inside it.
THEOREM WindowTypes == Spec => []TypeOK
<1>1. WindowInv => TypeOK
  BY DEF WindowInv
<1> QED
  BY InvHolds, <1>1, PTL

\* A rearrangement has every value as often as the file.
LEMMA SameCounts ==
  ASSUME TypeOK, NEW p, Arranges(p), NEW t
  PROVE  Cardinality({k \in Index : val[k] = t}) =
         Cardinality({r \in Index : Float[file[r]] = t})
<1> DEFINE S == {k \in Index : val[k] = t}
           T == {r \in Index : Float[file[r]] = t}
           f == [k \in S |-> p[k]]
<1>1. IsFiniteSet(Index)
  BY Facts, FS_Interval
<1>2. IsFiniteSet(S)
  BY <1>1, FS_Subset
<1>3. f \in [S -> T]
  BY DEF Arranges
<1>4. \A j, k \in S : f[j] = f[k] => j = k
  BY DEF Arranges
<1>5. \A r \in T : \E k \in S : f[k] = r
  BY DEF Arranges
<1>6. f \in Bijection(S, T)
  BY <1>3, <1>4, <1>5, Fun_IsBij
<1>7. ExistsBijection(S, T)
  BY <1>6, Fun_ExistsBij
<1> QED
  BY <1>2, <1>7, FS_Bijection

\* shellsort sorts: for any number of records, in any order.
THEOREM SortCorrect == Spec => []SortedTimes
<1>1. ASSUME WindowInv PROVE SortedTimes
  <2>0. TypeOK /\ ArrangeInv /\ OrderInv
    BY <1>1 DEF WindowInv
  <2>1. ASSUME pc \in {"first", "second"}, NEW k \in Index, k > 0
        PROVE  val[k - 1] <= val[k]
    <3>1. k - 1 \in Index /\ k - 1 <= k /\ k <= n
      BY <2>0, <2>1, Facts
    <3> QED
      BY <2>0, <2>1, <3>1 DEF OrderInv, OrderedTo
  <2>2. ASSUME pc \in {"gap", "sweep", "first", "second"}, NEW t \in Times
        PROVE  Cardinality({k \in Index : val[k] = t}) =
               Cardinality({r \in Index : Float[file[r]] = t})
    <3>1. PICK p : Arranges(p)
      BY <2>0, <2>2 DEF ArrangeInv, Early
    <3> QED
      BY <2>0, <3>1, SameCounts
  <2> QED
    BY <2>1, <2>2 DEF SortedTimes
<1> QED
  BY InvHolds, <1>1, PTL

\* The window is a run of the sorted times of which only the ends stick out.
THEOREM WindowCorrect == Spec => []Window
<1>1. ASSUME WindowInv PROVE Window
  <2> SUFFICES ASSUME Loaded
               PROVE  /\ \A k \in 1 .. size - 1 :
                            val[k - 1] <= val[k] /\ Clock[val[k]] >= start
                      /\ \A k \in 0 .. size - 2 : Clock[val[k]] < end
                      /\ \A r \in Index : \/ \E k \in 0 .. size - 1 : val[k] = Float[file[r]]
                                          \/ Float[file[r]] < val[0]
                                          \/ Float[file[r]] > val[size - 1]
    BY DEF Window
  <2>0. TypeOK /\ ShiftInv /\ pc \in {"read", "done"} /\ size > 0 /\ size \in Nat
    BY <1>1, Facts DEF WindowInv, Loaded
  <2>1. \A k \in 0 .. size - 1 : Win[k] = val[k]
    BY <2>0, WindowIsFront
  <2>2. GoodWindow(Win)
    BY <2>0 DEF ShiftInv, Early
  <2>3. /\ \A k \in 1 .. size - 1 : k - 1 \in 0 .. size - 1 /\ k \in 0 .. size - 1
        /\ \A k \in 0 .. size - 2 : k \in 0 .. size - 1
        /\ 0 \in 0 .. size - 1 /\ size - 1 \in 0 .. size - 1
    BY <2>0
  <2>4. /\ \A k \in 1 .. size - 1 : Win[k - 1] <= Win[k] /\ Clock[Win[k]] >= start
        /\ \A k \in 0 .. size - 2 : Clock[Win[k]] < end
    BY <2>2 DEF GoodWindow
  <2>5. /\ \A k \in 1 .. size - 1 : val[k - 1] <= val[k] /\ Clock[val[k]] >= start
        /\ \A k \in 0 .. size - 2 : Clock[val[k]] < end
    BY <2>1, <2>3, <2>4
  <2>6. \A r \in Index : \/ \E k \in 0 .. size - 1 : val[k] = Float[file[r]]
                          \/ Float[file[r]] < val[0]
                          \/ Float[file[r]] > val[size - 1]
    BY <2>0, <2>1, <2>2, <2>3 DEF GoodWindow
  <2> QED
    BY <2>5, <2>6
<1> QED
  BY InvHolds, <1>1, PTL

\* Whenever the file covers the run, so does the window.
THEOREM CoverCorrect == Spec => []Covers
<1>1. ASSUME WindowInv PROVE Covers
  <2> SUFFICES ASSUME pc \in {"read", "done"}, start < end,
                      \E r \in Index : Clock[Float[file[r]]] <= start,
                      \E r \in Index : Clock[Float[file[r]]] >= end
               PROVE  /\ size > 0 /\ Clock[val[0]] <= start
                      /\ Clock[val[size - 1]] >= end
    BY DEF Covers
  <2>0. TypeOK /\ ShiftInv /\ size \in Nat
    BY <1>1, Facts DEF WindowInv
  <2>1. /\ size > 0 /\ Clock[Win[0]] <= start /\ Clock[Win[size - 1]] >= end
    BY <2>0 DEF ShiftInv, Early, GoodCover
  <2>2. Win[0] = val[0] /\ Win[size - 1] = val[size - 1]
    BY <2>0, <2>1, WindowIsFront
  <2> QED
    BY <2>1, <2>2
<1> QED
  BY InvHolds, <1>1, PTL

\* The data of every time are read from a record of that time.
THEOREM RecordsCorrect == Spec => []RecordsMatch
<1>1. WindowInv => RecordsMatch
  BY DEF WindowInv
<1> QED
  BY InvHolds, <1>1, PTL

-----------------------------------------------------------------------------
(* WindLookup: looking a coordinate up.                                    *)

\* The loop of fg_locate keeps the coordinate between the values at jl and ju.
Bracket ==
  stage = "locate" =>
    /\ jl \in Indices(grid) => (x > Val[grid][jl]) <=> Ascending(grid)
    /\ ju \in Indices(grid) => (x > Val[grid][ju]) <=> ~Ascending(grid)

\* Above the last value the bisection may stop one past the array.
LocateInv ==
  stage = "locate" =>
    /\ jl < ju
    /\ jl >= Size[grid] - 1 => (x > Last(grid)) <=> Ascending(grid)

LookupInv ==
  LookupTypeOK /\ Bracket /\ LocateInv /\ InsideExact /\ ClampedExact /\ Neighbours

LEMMA GridFacts ==
  ASSUME NEW g \in Grids
  PROVE  /\ Size[g] \in Nat /\ Size[g] >= 2 /\ Indices(g) = 0 .. Size[g] - 1
         /\ 0 \in Indices(g) /\ Size[g] - 1 \in Indices(g)
         /\ \A p \in Indices(g) : Val[g][p] \in Int
         /\ Last(g) = Val[g][Size[g] - 1] /\ Last(g) \in Int
         /\ Ascending(g) \in BOOLEAN
         /\ Ascending(g) =>
              \A p, q \in Indices(g) : p < q => Val[g][p] < Val[g][q]
         /\ ~Ascending(g) =>
              \A p, q \in Indices(g) : p < q => Val[g][p] > Val[g][q]
<1>1. /\ Size[g] \in Nat /\ Size[g] >= 2 /\ Indices(g) = 0 .. Size[g] - 1
      /\ 0 \in Indices(g) /\ Size[g] - 1 \in Indices(g) /\ 0 < Size[g] - 1
      /\ \A p \in Indices(g) : Val[g][p] \in Int
  BY GridAssumption DEF Indices
<1>2. \/ \A p, q \in Indices(g) : p < q => Val[g][p] < Val[g][q]
      \/ \A p, q \in Indices(g) : p < q => Val[g][p] > Val[g][q]
  BY GridAssumption
<1>3. Last(g) = Val[g][Size[g] - 1] /\ (Ascending(g) <=> Last(g) > Val[g][0])
  BY DEF Last, Ascending
<1>4. Ascending(g) \in BOOLEAN
  BY <1>1, <1>3 DEF Ascending
<1>5. Last(g) \in Int
  BY <1>1, <1>3
<1>6. ASSUME Ascending(g)
      PROVE  \A p, q \in Indices(g) : p < q => Val[g][p] < Val[g][q]
  <2>1. ~(Val[g][0] > Val[g][Size[g] - 1])
    BY <1>1, <1>3, <1>6
  <2> QED
    BY <1>1, <1>2, <2>1
<1>7. ASSUME ~Ascending(g)
      PROVE  \A p, q \in Indices(g) : p < q => Val[g][p] > Val[g][q]
  <2>1. ~(Val[g][0] < Val[g][Size[g] - 1])
    BY <1>1, <1>3, <1>7
  <2> QED
    BY <1>1, <1>2, <2>1
<1> QED
  BY <1>1, <1>3, <1>4, <1>5, <1>6, <1>7

\* Where the bisection has stopped, for each place the coordinate can be at.
LEMMA Stopped ==
  ASSUME LookupTypeOK, Bracket, LocateInv, stage = "locate", ju - jl <= 1
  PROVE  /\ Inside => /\ Located \in 0 .. Size[grid] - 2
                      /\ Between(x, Val[grid][Located], Val[grid][Located + 1])
         /\ Below => Located < 0
         /\ ~Below /\ ~Inside => \/ Located >= Size[grid] - 1
                                 \/ Located = Size[grid] - 2 /\ x = Last(grid)
         /\ Located \in -1 .. Size[grid]
<1> DEFINE top == Size[grid]
           vals == Val[grid]
<1>1. /\ grid \in Grids /\ x \in Int /\ jl \in -1 .. top /\ ju \in 0 .. top + 1
      /\ ju = jl + 1
  BY GridAssumption DEF LookupTypeOK, LocateInv
<1>2. /\ jl \in Indices(grid) => (x > vals[jl]) <=> Ascending(grid)
      /\ ju \in Indices(grid) => (x > vals[ju]) <=> ~Ascending(grid)
      /\ jl >= top - 1 => (x > Last(grid)) <=> Ascending(grid)
  BY DEF Bracket, LocateInv
<1>3. /\ top \in Nat /\ top >= 2 /\ Indices(grid) = 0 .. top - 1
      /\ \A p \in Indices(grid) : vals[p] \in Int
      /\ Last(grid) = vals[top - 1] /\ Last(grid) \in Int
      /\ Ascending(grid) \in BOOLEAN
      /\ Ascending(grid) => \A p, q \in Indices(grid) : p < q => vals[p] < vals[q]
      /\ ~Ascending(grid) => \A p, q \in Indices(grid) : p < q => vals[p] > vals[q]
  BY <1>1, GridFacts
<1>4. /\ Inside <=> IF Ascending(grid) THEN vals[0] <= x /\ x <= Last(grid)
                    ELSE Last(grid) < x /\ x <= vals[0]
      /\ Below <=> IF Ascending(grid) THEN x < vals[0] ELSE x > vals[0]
  BY DEF Inside, Below
<1>5. /\ ~Ascending(grid) /\ jl = top /\ x = Last(grid) => Located = top - 2
      /\ ~(~Ascending(grid) /\ jl = top /\ x = Last(grid)) =>
           Located = IF jl < 0 /\ x = vals[0] THEN 0 ELSE jl
  BY <1>1, <1>3 DEF Located
<1> HIDE DEF top, vals
<1>6. CASE jl = -1
  <2>1. ju = 0 /\ 0 \in Indices(grid) /\ ((x > vals[0]) <=> ~Ascending(grid))
    BY <1>1, <1>2, <1>3, <1>6
  <2>2. Located = IF x = vals[0] THEN 0 ELSE -1
    BY <1>1, <1>3, <1>5, <1>6
  <2>3. vals[0] \in Int /\ vals[1] \in Int /\ vals[top - 1] \in Int /\ 1 \in Indices(grid)
        /\ top - 1 \in Indices(grid)
    BY <1>3
  <2>4. CASE Ascending(grid)
    <3>1. x <= vals[0]
      BY <2>1, <2>3, <2>4, <1>1
    <3>3. vals[0] < vals[1]
      BY <2>1, <2>3, <2>4, <1>3
    <3>2. vals[0] < vals[top - 1]
      BY <1>3, <2>3, <2>4
    <3>4. CASE x = vals[0]
      <4>1. Located = 0 /\ ~Below /\ Inside
        BY <3>2, <3>4, <2>2, <2>3, <2>4, <1>1, <1>3, <1>4
      <4> QED
        BY <4>1, <3>3, <3>4, <2>3, <1>3 DEF Between, top, vals
    <3>5. CASE x # vals[0]
      <4>1. Located = -1 /\ ~Inside /\ Below
        BY <3>1, <3>5, <2>2, <2>3, <2>4, <1>1, <1>4
      <4> QED
        BY <4>1, <1>3 DEF top
    <3> QED
      BY <3>4, <3>5
  <2>5. CASE ~Ascending(grid)
    <3>1. x > vals[0]
      BY <2>1, <2>3, <2>5, <1>1
    <3> QED
      BY <3>1, <2>2, <2>3, <2>5, <1>1, <1>3, <1>4 DEF Between, top, vals
  <2> QED
    BY <2>4, <2>5, <1>3
<1>7. CASE jl \in 0 .. top - 2
  <2>1. /\ jl \in Indices(grid) /\ ju \in Indices(grid) /\ 0 \in Indices(grid)
        /\ top - 1 \in Indices(grid) /\ Located = jl
    BY <1>1, <1>3, <1>5, <1>7
  <2>2. vals[jl] \in Int /\ vals[ju] \in Int /\ vals[0] \in Int /\ vals[top - 1] \in Int
    BY <2>1, <1>3
  <2>3. CASE Ascending(grid)
    <3>1. vals[jl] < x /\ x <= vals[ju]
      BY <2>1, <2>2, <2>3, <1>1, <1>2
    <3>2. vals[0] <= vals[jl] /\ vals[ju] <= vals[top - 1]
      BY <2>1, <2>2, <2>3, <1>1, <1>3, <1>7
    <3>3. Inside /\ ~Below
      BY <3>1, <3>2, <2>2, <2>3, <1>1, <1>3, <1>4
    <3>4. jl \in 0 .. top - 2 /\ ju = jl + 1
      BY <1>1, <1>3, <1>7
    <3>5. Between(x, vals[jl], vals[jl + 1])
      BY <3>1, <3>4, <1>1, <2>2 DEF Between, vals
    <3> QED
      BY <1>3, <2>1, <3>3, <3>4, <3>5 DEF top, vals
  <2>4. CASE ~Ascending(grid)
    <3>1. vals[jl] >= x /\ x > vals[ju]
      BY <2>1, <2>2, <2>4, <1>1, <1>2
    <3>2. vals[0] >= vals[jl] /\ vals[ju] >= vals[top - 1]
      BY <2>1, <2>2, <2>4, <1>1, <1>3, <1>7
    <3>3. Inside /\ ~Below
      BY <3>1, <3>2, <2>2, <2>4, <1>1, <1>3, <1>4
    <3>4. jl \in 0 .. top - 2 /\ ju = jl + 1
      BY <1>1, <1>3, <1>7
    <3>5. Between(x, vals[jl], vals[jl + 1])
      BY <3>1, <3>4, <1>1, <2>2 DEF Between, vals
    <3> QED
      BY <1>3, <2>1, <3>3, <3>4, <3>5 DEF top, vals
  <2> QED
    BY <2>3, <2>4, <1>3
<1>8. CASE jl \in top - 1 .. top
  <2>1. /\ (x > Last(grid)) <=> Ascending(grid)
        /\ vals[0] \in Int /\ 0 \in Indices(grid) /\ top - 1 \in Indices(grid)
    BY <1>2, <1>3, <1>8
  <2>2. ~Inside /\ ~Below
    <3>1. CASE Ascending(grid)
      BY <3>1, <2>1, <1>1, <1>3, <1>4
    <3>2. CASE ~Ascending(grid)
      <4>1. x <= Last(grid) /\ vals[0] > vals[top - 1]
        BY <3>2, <2>1, <1>1, <1>3
      <4> QED
        BY <4>1, <3>2, <2>1, <1>1, <1>3, <1>4
    <3> QED
      BY <3>1, <3>2, <1>3
  <2>3. \/ Located = top - 2 /\ x = Last(grid)
        \/ Located = jl
    BY <1>1, <1>3, <1>5, <1>8
  <2> QED
    BY <2>2, <2>3, <1>1, <1>3, <1>8 DEF top
<1> QED
  BY <1>1, <1>3, <1>6, <1>7, <1>8

-----------------------------------------------------------------------------
LEMMA Middle ==
  ASSUME NEW p \in Int, NEW q \in Int, q - p > 1
  PROVE  /\ (q + p) \div 2 \in Int /\ 2 * ((q + p) \div 2) <= q + p
         /\ p < (q + p) \div 2 /\ (q + p) \div 2 < q
OBVIOUS

LEMMA LookupStart == LookupInit => LookupInv
<1> SUFFICES ASSUME LookupInit PROVE LookupInv
  OBVIOUS
<1>1. grid \in Grids /\ x \in Points /\ x \in Int /\ stage = "idle"
  BY GridAssumption DEF LookupInit
<1>2. Size[grid] \in Nat
  BY <1>1, GridFacts
<1>3. LookupTypeOK
  BY <1>1, <1>2 DEF LookupInit, LookupTypeOK
<1> QED
  BY <1>1, <1>3
     DEF LookupInv, Bracket, LocateInv, InsideExact, ClampedExact, Neighbours

LEMMA LookupStep == LookupInv /\ [LookupNext]_lookupVars => LookupInv'
<1> SUFFICES ASSUME LookupInv, [LookupNext]_lookupVars PROVE LookupInv'
  OBVIOUS
<1> USE DEF LookupInv
<1>1. /\ grid \in Grids /\ x \in Int
      /\ Size[grid] \in Nat /\ Size[grid] >= 2 /\ Indices(grid) = 0 .. Size[grid] - 1
      /\ \A p \in Indices(grid) : Val[grid][p] \in Int
  BY GridAssumption, GridFacts DEF LookupTypeOK
<1>2. ASSUME NEW g \in Grids, NEW d \in Dims, NEW p \in Points, Call(g, d, p)
      PROVE  LookupInv'
  <2>1. Size[g] \in Nat /\ Size[g] >= 2 /\ Indices(g) = 0 .. Size[g] - 1
    BY GridFacts
  <2>2. /\ stage' = "locate" /\ grid' = g /\ jl' = -1 /\ ju' = Size[g] + 1
        /\ dim' = d /\ x' = p /\ UNCHANGED <<jlo, jhi, yy>>
    BY <1>2 DEF Call
  <2>3. LookupTypeOK'
    BY <2>1, <2>2 DEF LookupTypeOK
  <2>4. Bracket' /\ LocateInv'
    BY <2>1, <2>2 DEF Bracket, LocateInv
  <2>5. InsideExact' /\ ClampedExact' /\ Neighbours'
    BY <2>2 DEF InsideExact, ClampedExact, Neighbours
  <2> QED
    BY <2>3, <2>4, <2>5
<1>3. CASE Bisect
  <2> DEFINE jm == (ju + jl) \div 2
  <2>1. PICK up \in GoesUp(jm) :
          IF up THEN jl' = jm /\ UNCHANGED ju ELSE ju' = jm /\ UNCHANGED jl
    BY <1>3 DEF Bisect
  <2>2. /\ stage = "locate" /\ stage' = stage /\ ju - jl > 1
        /\ UNCHANGED <<grid, dim, x, jlo, jhi, yy>>
    BY <1>3 DEF Bisect
  <2>3. /\ jl \in -1 .. Size[grid] /\ ju \in 0 .. Size[grid] + 1
        /\ jm \in 0 .. Size[grid] /\ jl < jm /\ jm < ju
        /\ jm = Size[grid] => jl = Size[grid] - 1
    <3>1. jl \in -1 .. Size[grid] /\ ju \in 0 .. Size[grid] + 1
      BY DEF LookupTypeOK
    <3>2. jl \in Int /\ ju \in Int
      BY <3>1, <1>1
    <3>3. jm \in Int /\ 2 * jm <= ju + jl /\ jl < jm /\ jm < ju
      BY <3>2, <2>2, Middle
    <3> HIDE DEF jm
    <3> QED
      BY <3>1, <3>3, <1>1
  <2> HIDE DEF jm
  <2>4. jm \in Indices(grid) => (up <=> ((x > Val[grid][jm]) <=> Ascending(grid)))
    BY <2>1, <2>3 DEF GoesUp
  <2>5. up \in BOOLEAN
    BY <2>1 DEF GoesUp
  <2>6. LookupTypeOK'
    <3>1. jl' \in -1 .. Size[grid] /\ ju' \in 0 .. Size[grid] + 1
      BY <2>1, <2>3, <1>1
    <3> QED
      BY <3>1, <2>2 DEF LookupTypeOK
  <2>7. Bracket'
    <3>1. /\ jl \in Indices(grid) => (x > Val[grid][jl]) <=> Ascending(grid)
          /\ ju \in Indices(grid) => (x > Val[grid][ju]) <=> ~Ascending(grid)
      BY <2>2 DEF Bracket
    <3>2. CASE up
      BY <3>1, <3>2, <2>1, <2>2, <2>4 DEF Bracket
    <3>3. CASE ~up
      BY <3>1, <3>3, <2>1, <2>2, <2>4 DEF Bracket
    <3> QED
      BY <3>2, <3>3
  <2>8. LocateInv'
    <3>1. jl' < ju'
      BY <2>1, <2>3
    <3>2. Last(grid) = Val[grid][Size[grid] - 1]
      BY DEF Last
    <3>3. ASSUME jl' >= Size[grid] - 1
          PROVE  (x > Last(grid)) <=> Ascending(grid)
      <4>1. CASE jl >= Size[grid] - 1
        BY <4>1, <2>2 DEF LocateInv
      <4>2. CASE jl < Size[grid] - 1
        <5>1. up /\ jm = Size[grid] - 1 /\ jm \in Indices(grid)
          BY <4>2, <3>3, <2>1, <2>3, <1>1
        <5> QED
          BY <5>1, <2>4, <3>2
      <4> QED
        BY <4>1, <4>2, <2>3, <1>1
    <3> QED
      BY <3>1, <3>3, <2>2 DEF LocateInv
  <2>9. InsideExact' /\ ClampedExact' /\ Neighbours'
    BY <2>2 DEF InsideExact, ClampedExact, Neighbours
  <2> QED
    BY <2>6, <2>7, <2>8, <2>9
<1>4. CASE Clamp
  <2>1. /\ stage = "locate" /\ ju - jl <= 1 /\ stage' = "ready" /\ dim \in Dims
        /\ UNCHANGED <<grid, dim, x, jl, ju>>
        /\ yy' = Clamped
        /\ jlo' = [jlo EXCEPT ![dim] = Lower]
        /\ jhi' = [jhi EXCEPT ![dim] = Lower + 1]
        /\ jlo \in [Dims -> Int] /\ jhi \in [Dims -> Int]
    BY <1>4 DEF Clamp, LookupTypeOK
  <2>2. /\ Inside => /\ Located \in 0 .. Size[grid] - 2
                     /\ Between(x, Val[grid][Located], Val[grid][Located + 1])
        /\ Below => Located < 0
        /\ ~Below /\ ~Inside => \/ Located >= Size[grid] - 1
                                \/ Located = Size[grid] - 2 /\ x = Last(grid)
        /\ Located \in -1 .. Size[grid]
    BY <2>1, Stopped
  <2>3. /\ OffBottom <=> Located < 0
        /\ OffTop <=> Located >= Size[grid] - 1
        /\ ~(OffBottom /\ OffTop)
    BY <1>1, <2>2 DEF OffBottom, OffTop
  <2>4. /\ OffBottom => Lower = 0 /\ Clamped = Val[grid][0]
        /\ OffTop => /\ Lower = Size[grid] - 2
                     /\ Clamped = IF dim = "FRTIME" THEN Last(grid)
                                  ELSE Read(grid, jhi[dim])
        /\ ~OffBottom /\ ~OffTop => Lower = Located /\ Clamped = x
    BY <2>3 DEF Lower, Clamped
  <2>5. Lower \in 0 .. Size[grid] - 2
    BY <1>1, <2>2, <2>3, <2>4
  <2>6. jlo'[dim] = Lower /\ jhi'[dim] = Lower + 1
        /\ jlo' \in [Dims -> Int] /\ jhi' \in [Dims -> Int]
    BY <2>1, <2>5
  <2>7. Lower \in Indices(grid) /\ Lower + 1 \in Indices(grid)
    BY <1>1, <2>5
  <2>8. Clamped \in Int \cup {Wild}
    <3>1. Read(grid, jhi[dim]) \in Int \cup {Wild}
      BY <1>1 DEF Read
    <3>2. Val[grid][0] \in Int /\ Last(grid) \in Int
      BY <1>1, GridFacts
    <3> QED
      BY <3>1, <3>2, <2>4, <1>1
  <2>9. LookupTypeOK'
    BY <2>1, <2>6, <2>8 DEF LookupTypeOK
  <2>10. Neighbours'
    BY <2>1, <2>6, <2>7 DEF Neighbours
  <2>11. InsideExact'
    <3> SUFFICES ASSUME Inside
                 PROVE  /\ yy' = x
                        /\ Between(x, Read(grid, Lower), Read(grid, Lower + 1))
      BY <2>1, <2>6 DEF InsideExact, Inside
    <3>1. ~OffBottom /\ ~OffTop
      BY <1>1, <2>2, <2>3
    <3> QED
      BY <3>1, <2>1, <2>2, <2>4, <2>7 DEF Read
  <2>12. ClampedExact'
    <3>1. ASSUME Below PROVE Lower = 0 /\ yy' = Val[grid][0]
      BY <3>1, <2>1, <2>2, <2>3, <2>4
    <3>2. ASSUME ~Below, ~Inside, dim = "FRTIME"
          PROVE  Lower + 1 = Size[grid] - 1 /\ yy' = Last(grid)
      <4>1. CASE Located >= Size[grid] - 1
        BY <4>1, <3>2, <2>1, <2>3, <2>4, <1>1
      <4>2. CASE Located = Size[grid] - 2 /\ x = Last(grid)
        BY <4>2, <2>1, <2>3, <2>4, <1>1
      <4> QED
        BY <4>1, <4>2, <3>2, <2>2
    <3> QED
      BY <3>1, <3>2, <2>1, <2>6 DEF ClampedExact, Below, Inside
  <2> QED
    BY <2>1, <2>9, <2>10, <2>11, <2>12 DEF Bracket, LocateInv
<1>5. CASE UNCHANGED lookupVars
  BY <1>5 DEF lookupVars, LookupTypeOK, Bracket, LocateInv, InsideExact, ClampedExact,
              Neighbours, Inside, Below
<1> QED
  BY <1>2, <1>3, <1>4, <1>5 DEF LookupNext

-----------------------------------------------------------------------------
\* The bisection of fg_locate stays within one of the array.
THEOREM LookupTypes == LookupSpec => []LookupTypeOK
BY LookupStart, LookupStep, PTL DEF LookupSpec, LookupInv

\* fg_locate keeps the coordinate bracketed, in either order of the values.
THEOREM BracketCorrect == LookupSpec => []Bracket
BY LookupStart, LookupStep, PTL DEF LookupSpec, LookupInv

\* Inside a grid of any size the interpolation is exact and owes nothing to
\* the calls before it.
THEOREM InsideCorrect == LookupSpec => []InsideExact
BY LookupStart, LookupStep, PTL DEF LookupSpec, LookupInv

\* Outside, the first value, and in time the last, are taken.
THEOREM ClampCorrect == LookupSpec => []ClampedExact
BY LookupStart, LookupStep, PTL DEF LookupSpec, LookupInv

\* The values read for the weights are neighbours inside the array, always.
THEOREM NeighboursCorrect == LookupSpec => []Neighbours
BY LookupStart, LookupStep, PTL DEF LookupSpec, LookupInv
=============================================================================

--------------------------- MODULE AshSortProofs ---------------------------
(***************************************************************************)
(* Theorems about AshSort, for any number of particles, any keys and any   *)
(* rounding that FloatAssumption allows.                                   *)
(***************************************************************************)
EXTENDS AshSort, SequenceTheorems, WellFoundedInduction, TLAPS

\* What every exchange preserves of the two arrays.
Paired(ar, or) ==
  /\ ar \in [Index -> Keys] /\ or \in [Index -> Index]
  /\ \A x, y \in Index : x # y => or[x] # or[y]
  /\ \A x \in Index : ar[x] \in {key[or[x]], Float[key[or[x]]]}

\* While a range is partitioned the pivot waits next to the left end.
PivotInv ==
  pc = "scan" => /\ l + 1 \in Index /\ l + 1 <= i
                 /\ o = order[l + 1] /\ a = Float[arr[l + 1]]

SortInv == TypeOK /\ Permutation /\ KeysFollow /\ PivotInv

\* The loop of insertion begins with the second element of its range.
RangeInv == RangeSorted /\ (pc = "insert" => l + 1 <= j)

\* With insertion alone there is one range, the whole array.
SmallInv ==
  /\ l = 0 /\ ir = N - 1 /\ istack = <<>>
  /\ pc \in {"idle", "select", "insert"}
  /\ pc = "idle" /\ Protocol # "never" =>
       \A x, y \in Index : x < y => arr[x] <= arr[y]

LEMMA FloatFacts ==
  /\ Keys \subseteq Int /\ N \in Nat \ {0} /\ M \in Nat \ {0} /\ 0 \in Index
  /\ \A v \in Keys : Float[v] \in Keys /\ Float[Float[v]] = Float[v]
  /\ \A v, w \in Keys : v <= w => Float[v] <= Float[w]
  /\ M >= 2 \/ M = N
  /\ N <= Small => M = N
<1>1. N \in Nat \ {0} /\ Small \in Nat /\ Share \in Nat \ {0} /\ Keys \subseteq Int
      /\ (N > Small => N \div Share >= 2)
  BY SortAssumption
<1>2. N \div Share \in Nat
  BY <1>1
<1>3. M \in Nat \ {0} /\ (M >= 2 \/ M = N) /\ (N <= Small => M = N)
  BY <1>1, <1>2 DEF M
<1>4. /\ \A v \in Keys : Float[v] \in Keys /\ Float[Float[v]] = Float[v]
      /\ \A v, w \in Keys : v <= w => Float[v] <= Float[w]
  BY FloatAssumption
<1> QED
  BY <1>1, <1>3, <1>4 DEF Index

\* SWAP and ISWAP together keep the arrays paired.
LEMMA SwapPaired ==
  ASSUME NEW s, NEW x \in Index, NEW y \in Index,
         key \in [Index -> Keys], Paired(s.arr, s.order)
  PROVE  Paired(Swap(s, x, y).arr, Swap(s, x, y).order)
<1> DEFINE ar == [s.arr EXCEPT ![x] = s.arr[y], ![y] = Float[s.arr[x]]]
           or == [s.order EXCEPT ![x] = s.order[y], ![y] = s.order[x]]
<1>1. Swap(s, x, y).arr = ar /\ Swap(s, x, y).order = or
  BY DEF Swap
<1>2. s.arr \in [Index -> Keys] /\ s.order \in [Index -> Index]
  BY DEF Paired
<1>3. ar \in [Index -> Keys] /\ or \in [Index -> Index]
  BY <1>2, FloatFacts
<1>4. /\ \A z \in Index : z # x /\ z # y => ar[z] = s.arr[z] /\ or[z] = s.order[z]
      /\ x # y => ar[x] = s.arr[y] /\ or[x] = s.order[y]
      /\ ar[y] = Float[s.arr[x]] /\ or[y] = s.order[x]
  BY <1>2
<1>5. \A z, w \in Index : z # w => or[z] # or[w]
  BY <1>2, <1>4 DEF Paired
<1>6. ASSUME NEW z \in Index PROVE ar[z] \in {key[or[z]], Float[key[or[z]]]}
  <2>1. CASE z = y
    <3>1. s.arr[x] \in {key[s.order[x]], Float[key[s.order[x]]]}
          /\ key[s.order[x]] \in Keys
      BY <1>2 DEF Paired
    <3>2. Float[s.arr[x]] = Float[key[s.order[x]]]
      BY <3>1, FloatFacts
    <3> QED
      BY <3>2, <2>1, <1>4
  <2>2. CASE z = x /\ x # y
    BY <2>2, <1>2, <1>4 DEF Paired
  <2>3. CASE z # x /\ z # y
    BY <2>3, <1>2, <1>4 DEF Paired
  <2> QED
    BY <2>1, <2>2, <2>3
<1>7. Paired(ar, or)
  <2> HIDE DEF ar, or
  <2> QED
    BY <1>3, <1>5, <1>6 DEF Paired
<1> QED
  BY <1>1, <1>7

LEMMA SwapIfPaired ==
  ASSUME NEW c, NEW s, NEW x \in Index, NEW y \in Index,
         key \in [Index -> Keys], Paired(s.arr, s.order)
  PROVE  Paired(SwapIf(c, s, x, y).arr, SwapIf(c, s, x, y).order)
BY SwapPaired DEF SwapIf

LEMMA MedianPaired ==
  ASSUME key \in [Index -> Keys], Paired(arr, order),
         l \in Index, l + 1 \in Index, ir \in Index, l <= ir
  PROVE  Paired(MedianOfThree.arr, MedianOfThree.order)
<1> DEFINE s0 == [arr |-> arr, order |-> order]
           s1 == Swap(s0, (l + ir) \div 2, l + 1)
           s2 == SwapIf(s1.arr[l] > s1.arr[ir], s1, l, ir)
           s3 == SwapIf(s2.arr[l + 1] > s2.arr[ir], s2, l + 1, ir)
           s4 == SwapIf(MedianThird(s3), s3, l, l + 1)
<1>1. (l + ir) \div 2 \in Index
  BY FloatFacts DEF Index
<1>2. Paired(s1.arr, s1.order)
  <2>1. Paired(s0.arr, s0.order)
    OBVIOUS
  <2> HIDE DEF s0
  <2> QED
    BY <2>1, <1>1, SwapPaired
<1> HIDE DEF s1
<1>3. Paired(s2.arr, s2.order)
  BY <1>2, SwapIfPaired
<1> HIDE DEF s2
<1>4. Paired(s3.arr, s3.order)
  BY <1>3, SwapIfPaired
<1> HIDE DEF s3
<1>5. Paired(s4.arr, s4.order)
  BY <1>4, SwapIfPaired
<1> QED
  BY <1>5 DEF MedianOfThree, s1, s2, s3

\* Insertion moves both arrays alike: a rotation of at .. from.
LEMMA ShiftPaired ==
  ASSUME key \in [Index -> Keys], Paired(arr, order),
         NEW at \in Index, NEW from \in Index, at <= from
  PROVE  Paired(Shifted(arr, at, from, Float[arr[from]]),
                Shifted(order, at, from, order[from]))
<1> DEFINE ar == Shifted(arr, at, from, Float[arr[from]])
           or == Shifted(order, at, from, order[from])
<1>1. /\ arr \in [Index -> Keys] /\ order \in [Index -> Index]
      /\ N \in Nat \ {0} /\ Index = 0 .. N - 1
  BY FloatFacts DEF Paired, Index
<1>2. \A x \in Index : at < x /\ x <= from => x - 1 \in Index
  BY <1>1
<1>3. /\ ar = [x \in Index |-> IF x = at THEN Float[arr[from]]
                   ELSE IF at < x /\ x <= from THEN arr[x - 1] ELSE arr[x]]
      /\ or = [x \in Index |-> IF x = at THEN order[from]
                   ELSE IF at < x /\ x <= from THEN order[x - 1] ELSE order[x]]
  BY DEF Shifted
<1>4. ar \in [Index -> Keys] /\ or \in [Index -> Index]
  BY <1>1, <1>2, <1>3, FloatFacts
<1> DEFINE src(x) == IF x = at THEN from
                     ELSE IF at < x /\ x <= from THEN x - 1 ELSE x
<1>5. \A x \in Index : src(x) \in Index /\ or[x] = order[src(x)]
  BY <1>1, <1>2, <1>3
<1>6. \A x, y \in Index : x # y => src(x) # src(y)
  BY <1>1
<1>7. \A x, y \in Index : x # y => or[x] # or[y]
  <2> HIDE DEF src, or
  <2> QED
    BY <1>5, <1>6 DEF Paired
<1>8. ASSUME NEW x \in Index PROVE ar[x] \in {key[or[x]], Float[key[or[x]]]}
  <2>1. CASE x = at
    <3>1. /\ arr[from] \in {key[order[from]], Float[key[order[from]]]}
          /\ key[order[from]] \in Keys
      BY <1>1 DEF Paired
    <3>2. Float[arr[from]] = Float[key[order[from]]]
      BY <3>1, FloatFacts
    <3> QED
      BY <3>2, <2>1, <1>3
  <2>2. CASE at < x /\ x <= from
    <3>1. x - 1 \in Index /\ x # at
      BY <2>2, <1>1, <1>2
    <3> HIDE DEF ar, or
    <3>2. ar[x] = arr[x - 1] /\ or[x] = order[x - 1]
      BY <2>2, <3>1, <1>3
    <3> QED
      BY <3>1, <3>2 DEF Paired
  <2>3. CASE x # at /\ ~(at < x /\ x <= from)
    <3>1. ar[x] = arr[x] /\ or[x] = order[x]
      BY <2>3, <1>1, <1>3
    <3> QED
      BY <3>1 DEF Paired
  <2> QED
    BY <2>1, <2>2, <2>3
<1> QED
  <2> HIDE DEF ar, or
  <2>1. Paired(ar, or)
    BY <1>4, <1>7, <1>8 DEF Paired
  <2> QED
    BY <2>1 DEF ar, or

LEMMA LastPopped ==
  ASSUME NEW S, NEW q \in Seq(S), q # <<>>
  PROVE  q[Len(q)] \in S /\ SubSeq(q, 1, Len(q) - 1) \in Seq(S)
OBVIOUS

LEMMA SwapType ==
  ASSUME NEW x, NEW y
  PROVE  /\ Swap([arr |-> arr, order |-> order], x, y).arr =
              [arr EXCEPT ![x] = arr[y], ![y] = Float[arr[x]]]
         /\ Swap([arr |-> arr, order |-> order], x, y).order =
              [order EXCEPT ![x] = order[y], ![y] = order[x]]
BY DEF Swap

-----------------------------------------------------------------------------
\* Each step keeps the arrays paired and the pivot in its place.
LEMMA SortInvInit == Init => SortInv
<1> SUFFICES ASSUME Init PROVE SortInv
  OBVIOUS
<1> USE FloatFacts DEF Init, Index
<1>1. PICK v \in Keys : key = [x \in Index |-> v]
  OBVIOUS
<1>2. TypeOK
  BY <1>1 DEF TypeOK
<1>3. Permutation /\ KeysFollow /\ PivotInv
  BY <1>1 DEF Permutation, KeysFollow, PivotInv
<1> QED
  BY <1>2, <1>3 DEF SortInv

LEMMA SortInvNext == SortInv /\ [Next]_vars => SortInv'
<1> SUFFICES ASSUME SortInv, [Next]_vars PROVE SortInv'
  OBVIOUS
<1>0. /\ TypeOK /\ Paired(arr, order) /\ key \in [Index -> Keys]
      /\ N \in Nat \ {0} /\ Index = 0 .. N - 1
  BY FloatFacts DEF SortInv, TypeOK, Permutation, KeysFollow, Paired, Index
<1>1. CASE Load
  <2>1. /\ key' \in [Index -> Keys] /\ arr' \in [Index -> Keys]
        /\ order' \in [Index -> Index]
    BY <1>0, <1>1, FloatFacts DEF TypeOK, Load
  <2>3. TypeOK'
    BY <1>0, <1>1, <2>1, FloatFacts DEF TypeOK, Load
  <2>2. Permutation' /\ KeysFollow' /\ PivotInv'
    BY <1>0, <1>1 DEF Load, Permutation, KeysFollow, PivotInv
  <2> QED
    BY <2>2, <2>3 DEF SortInv
<1>2. CASE StartInsertion
  <2>1. l \in 0 .. N - 1 /\ j' = l + 1
    BY <1>0, <1>2 DEF StartInsertion, TypeOK
  <2>2. TypeOK'
    BY <1>0, <1>2, <2>1 DEF StartInsertion, TypeOK
  <2> QED
    BY <2>2, <1>2 DEF StartInsertion, SortInv, Permutation, KeysFollow, PivotInv
<1>3. CASE Insert
  <2>1. PICK x \in l - 1 .. j - 1 :
          /\ arr' = Shifted(arr, x + 1, j, Float[arr[j]])
          /\ order' = Shifted(order, x + 1, j, order[j])
    BY <1>3 DEF Insert
  <2>2. j \in Index /\ x + 1 \in Index /\ x + 1 <= j /\ j + 1 \in 0 .. N
    <3>1. j \in 0 .. N /\ j <= ir /\ ir \in -1 .. N - 1 /\ l \in 0 .. N - 1
      BY <1>0, <1>3 DEF Insert, TypeOK
    <3> QED
      BY <1>0, <2>1, <3>1
  <2>3. Paired(arr', order')
    BY <1>0, <2>1, <2>2, ShiftPaired
  <2>4. key' = key /\ j' = j + 1 /\ pc' = "insert"
    BY <1>3 DEF Insert
  <2>5. TypeOK'
    BY <1>0, <1>3, <2>2, <2>3, <2>4 DEF Insert, TypeOK, Paired
  <2>6. PivotInv'
    BY <2>4 DEF PivotInv
  <2> QED
    BY <2>3, <2>4, <2>5, <2>6 DEF SortInv, Paired, Permutation, KeysFollow
<1>4. CASE Pop
  <2>1. l' \in Index /\ ir' \in -1 .. N - 1
        /\ istack' \in Seq(Ranges) /\ pc' \in {"idle", "select"}
    <3>1. CASE istack = <<>>
      BY <3>1, <1>0, <1>4 DEF Pop, TypeOK
    <3>2. CASE istack # <<>>
      <4>1. istack[Len(istack)] \in Ranges
            /\ SubSeq(istack, 1, Len(istack) - 1) \in Seq(Ranges)
        BY <3>2, <1>0, LastPopped DEF TypeOK
      <4>2. istack[Len(istack)].l \in Index /\ istack[Len(istack)].ir \in -1 .. N - 1
        BY <4>1 DEF Ranges
      <4> QED
        BY <3>2, <4>1, <4>2, <1>4 DEF Pop
    <3> QED
      BY <3>1, <3>2
  <2>2. TypeOK'
    BY <1>0, <1>4, <2>1 DEF Pop, TypeOK
  <2> QED
    BY <2>1, <2>2, <1>4 DEF Pop, SortInv, Permutation, KeysFollow, PivotInv
<1>5. CASE StartPartition
  <2>1. /\ l \in Index /\ ir \in Index /\ l + 1 \in Index /\ l <= ir
    BY <1>0, <1>5, FloatFacts DEF StartPartition, TypeOK
  <2>2. Paired(arr', order')
    BY <1>0, <1>5, <2>1, MedianPaired DEF StartPartition
  <2>3. /\ key' = key /\ l' = l /\ ir' = ir /\ i' = l + 1 /\ j' = ir /\ pc' = "scan"
        /\ a' = Float[arr'[l + 1]] /\ o' = order'[l + 1]
        /\ istack' = istack /\ sorts' = sorts
    BY <1>5 DEF StartPartition
  <2>4. arr'[l + 1] \in Keys /\ order'[l + 1] \in Index
    BY <2>1, <2>2 DEF Paired
  <2>5. TypeOK'
    <3>1. a' \in Keys /\ o' \in Index
      BY <2>3, <2>4, FloatFacts
    <3>2. arr' \in [Index -> Keys] /\ order' \in [Index -> Index]
      BY <2>2 DEF Paired
    <3>3. i' \in 0 .. N /\ j' \in 0 .. N
      BY <1>0, <2>1, <2>3
    <3> QED
      BY <1>0, <2>3, <3>1, <3>2, <3>3 DEF TypeOK
  <2>6. PivotInv'
    BY <1>0, <2>1, <2>3 DEF PivotInv, TypeOK
  <2> QED
    BY <2>2, <2>3, <2>5, <2>6 DEF SortInv, Paired, Permutation, KeysFollow
<1>6. CASE Exchange
  <2>1. PICK x, y \in Index :
          /\ UpEndsAt(x) /\ x <= y
          /\ arr' = Swap([arr |-> arr, order |-> order], x, y).arr
          /\ order' = Swap([arr |-> arr, order |-> order], x, y).order
          /\ i' = x /\ j' = y
    BY <1>6 DEF Exchange
  <2>2. Paired(arr', order')
    BY <1>0, <2>1, SwapPaired
  <2>3. /\ key' = key /\ pc = "scan" /\ pc' = pc /\ l' = l /\ o' = o /\ a' = a
        /\ ir' = ir /\ istack' = istack /\ sorts' = sorts
    BY <1>6 DEF Exchange
  <2>4. l + 1 \in Index /\ l + 1 < x /\ l + 1 < y
    BY <1>0, <2>1, <2>3 DEF SortInv, PivotInv, UpEndsAt, TypeOK
  <2>5. arr'[l + 1] = arr[l + 1] /\ order'[l + 1] = order[l + 1]
    <3>1. /\ arr' = [arr EXCEPT ![x] = arr[y], ![y] = Float[arr[x]]]
          /\ order' = [order EXCEPT ![x] = order[y], ![y] = order[x]]
      BY <2>1, SwapType
    <3>2. l + 1 # x /\ l + 1 # y
      BY <1>0, <2>4
    <3> QED
      BY <3>1, <3>2, <2>4, <1>0 DEF Paired
  <2>6. TypeOK'
    <3>1. i' \in 0 .. N /\ j' \in 0 .. N
      BY <1>0, <2>1
    <3> QED
      BY <1>0, <2>2, <2>3, <3>1 DEF TypeOK, Paired
  <2>7. PivotInv'
    <3>1. o = order[l + 1] /\ a = Float[arr[l + 1]]
      BY <2>3 DEF SortInv, PivotInv
    <3>2. l + 1 <= i'
      BY <1>0, <2>1, <2>4
    <3> QED
      BY <3>1, <3>2, <2>3, <2>4, <2>5 DEF PivotInv
  <2> QED
    BY <2>2, <2>3, <2>6, <2>7 DEF SortInv, Paired, Permutation, KeysFollow
<1>7. CASE Place
  <2>1. PICK x, y \in Index :
          /\ i' = x /\ j' = y
          /\ arr' = [arr EXCEPT ![l + 1] = arr[y], ![y] = a]
          /\ order' = [order EXCEPT ![l + 1] = order[y], ![y] = o]
          /\ \/ pc' = "overflow" /\ UNCHANGED <<l, ir, istack>>
             \/ /\ pc' = "select"
                /\ \/ /\ istack' = Append(istack, [l |-> x, ir |-> ir])
                      /\ ir' = y - 1 /\ UNCHANGED l
                   \/ /\ istack' = Append(istack, [l |-> l, ir |-> y - 1])
                      /\ l' = x /\ UNCHANGED ir
    BY <1>7 DEF Place
  <2>2. key' = key /\ a' = a /\ o' = o /\ sorts' = sorts /\ pc = "scan"
    BY <1>7 DEF Place
  <2>3. l + 1 \in Index /\ o = order[l + 1] /\ a = Float[arr[l + 1]]
    BY <2>2 DEF SortInv, PivotInv
  \* Putting the pivot in its place is an exchange.
  <2>4. Paired(arr', order')
    <3>1. Paired(Swap([arr |-> arr, order |-> order], l + 1, y).arr,
                 Swap([arr |-> arr, order |-> order], l + 1, y).order)
      BY <1>0, <2>3, SwapPaired
    <3> QED
      BY <3>1, <2>1, <2>3, SwapType
  <2>5. /\ l' \in Index /\ ir' \in -1 .. N - 1
        /\ istack' \in Seq(Ranges)
    <3>1. l \in Index /\ ir \in -1 .. N - 1 /\ y - 1 \in -1 .. N - 1
          /\ istack \in Seq(Ranges)
      BY <1>0 DEF TypeOK
    <3>2. /\ [l |-> x, ir |-> ir] \in Ranges
          /\ [l |-> l, ir |-> y - 1] \in Ranges
      BY <3>1 DEF Ranges
    <3>3. /\ Append(istack, [l |-> x, ir |-> ir]) \in Seq(Ranges)
          /\ Append(istack, [l |-> l, ir |-> y - 1]) \in Seq(Ranges)
      BY <3>1, <3>2
    <3> QED
      BY <2>1, <3>1, <3>3
  <2>6. TypeOK'
    <3>1. i' \in 0 .. N /\ j' \in 0 .. N /\ pc' \in {"select", "overflow"}
      BY <1>0, <2>1
    <3> QED
      BY <1>0, <2>2, <2>4, <2>5, <3>1 DEF TypeOK, Paired
  <2>7. PivotInv'
    BY <2>1 DEF PivotInv
  <2> QED
    BY <2>2, <2>4, <2>6, <2>7, <1>0 DEF SortInv, Paired, Permutation, KeysFollow
<1>8. CASE RunOff
  <2>1. TypeOK'
    BY <1>0, <1>8 DEF RunOff, TypeOK
  <2> QED
    BY <2>1, <1>8 DEF RunOff, SortInv, Permutation, KeysFollow, PivotInv
<1>9. CASE UNCHANGED vars
  <2>1. TypeOK'
    BY <1>0, <1>9 DEF vars, TypeOK
  <2> QED
    BY <2>1, <1>9 DEF vars, SortInv, Permutation, KeysFollow, PivotInv
<1> QED
  BY <1>1, <1>2, <1>3, <1>4, <1>5, <1>6, <1>7, <1>8, <1>9
     DEF Next, Step, Returned

-----------------------------------------------------------------------------
\* Insertion puts each element where it belongs among those before it.
LEMMA RangeInvNext == SortInv /\ RangeInv /\ [Next]_vars => RangeInv'
<1> SUFFICES ASSUME SortInv, RangeInv, [Next]_vars PROVE RangeInv'
  OBVIOUS
<1>0. /\ TypeOK /\ N \in Nat \ {0} /\ Index = 0 .. N - 1 /\ Keys \subseteq Int
  BY FloatFacts DEF SortInv, Index
<1>1. CASE Load
  BY <1>1 DEF Load, RangeInv, RangeSorted
<1>2. CASE StartInsertion
  BY <1>0, <1>2 DEF StartInsertion, RangeInv, RangeSorted, TypeOK
<1>3. CASE Insert
  <2>1. PICK x \in l - 1 .. j - 1 :
          /\ StopsAt(x) /\ arr' = Shifted(arr, x + 1, j, Float[arr[j]])
    BY <1>3 DEF Insert
  <2> DEFINE v == Float[arr[j]]
  <2>2. /\ l \in Index /\ j \in Index /\ l < j /\ x + 1 \in Index /\ x < j
        /\ l <= x + 1 /\ x \in Int /\ v \in Int /\ arr \in [Index -> Int]
    <3>1. l \in Index /\ j \in Index /\ l < j /\ x \in l - 1 .. j - 1
      BY <1>0, <1>3, <2>1 DEF Insert, TypeOK, RangeInv
    <3>2. arr \in [Index -> Keys]
      BY <1>0 DEF TypeOK
    <3>3. v \in Int /\ arr \in [Index -> Int]
      BY <3>1, <3>2, <1>0, FloatFacts
    <3>4. x + 1 \in Index /\ x < j /\ l <= x + 1 /\ x \in Int
      BY <3>1, <1>0
    <3> QED
      BY <3>1, <3>3, <3>4
  <2>3. /\ x >= l => arr[x] <= v
        /\ \A z \in x + 1 .. j - 1 : arr[z] > v
    BY <2>1 DEF StopsAt
  <2>4. \A z, w \in l .. j - 1 : z < w => arr[z] <= arr[w]
    BY <1>3 DEF Insert, RangeInv, RangeSorted
  <2>5. /\ \A z \in l .. x : arr'[z] = arr[z] /\ arr[z] <= v
        /\ arr'[x + 1] = v
        /\ \A z \in x + 2 .. j : arr'[z] = arr[z - 1] /\ v < arr[z - 1]
                                 /\ z - 1 \in Index
    <3>1. arr' = [z \in Index |-> IF z = x + 1 THEN v
                    ELSE IF x + 1 < z /\ z <= j THEN arr[z - 1] ELSE arr[z]]
      BY <2>1 DEF Shifted
    <3> HIDE DEF v
    <3>2. \A z \in l .. x : arr'[z] = arr[z] /\ arr[z] <= v
      <4>1. \A z \in l .. x : z \in Index /\ x \in Index /\ arr'[z] = arr[z]
        BY <3>1, <2>2, <1>0
      <4>2. \A z \in l .. x : z < x => arr[z] <= arr[x]
        BY <2>2, <2>4, <1>0
      <4>3. \A z \in l .. x : arr[z] \in Int /\ arr[x] \in Int
        BY <4>1, <2>2
      <4> QED
        BY <4>1, <4>2, <4>3, <2>2, <2>3, <1>0
    <3>3. arr'[x + 1] = v
      BY <3>1, <2>2
    <3>4. \A z \in x + 2 .. j : arr'[z] = arr[z - 1] /\ v < arr[z - 1]
                                 /\ z - 1 \in Index
      <4>1. \A z \in x + 2 .. j : z \in Index /\ z - 1 \in Index
                                  /\ z - 1 \in x + 1 .. j - 1
        BY <2>2, <1>0
      <4>2. \A z \in x + 2 .. j : arr'[z] = arr[z - 1]
        BY <4>1, <3>1, <2>2, <1>0
      <4> QED
        BY <4>1, <4>2, <2>3
    <3> QED
      BY <3>2, <3>3, <3>4
  <2>6. ASSUME NEW z \in l .. j, NEW w \in l .. j, z < w
        PROVE  arr'[z] <= arr'[w]
    <3> HIDE DEF v
    <3>1. CASE w \in l .. x
      BY <3>1, <2>2, <2>4, <2>5, <2>6, <1>0
    <3>2. CASE z \in l .. x /\ w = x + 1
      BY <3>2, <2>5
    <3>3. CASE z \in l .. x /\ w \in x + 2 .. j
      <4>1. arr[z] \in Int /\ arr[w - 1] \in Int
        BY <2>2, <2>5, <3>3, <1>0
      <4> QED
        BY <4>1, <3>3, <2>2, <2>5
    <3>4. CASE z = x + 1 /\ w \in x + 2 .. j
      <4>1. arr[w - 1] \in Int
        BY <2>2, <2>5, <3>4
      <4> QED
        BY <4>1, <3>4, <2>2, <2>5
    <3>5. CASE z \in x + 2 .. j /\ w \in x + 2 .. j
      <4>1. z - 1 \in l .. j - 1 /\ w - 1 \in l .. j - 1 /\ z - 1 < w - 1
        BY <3>5, <2>2, <2>6, <1>0
      <4>2. arr[z - 1] <= arr[w - 1]
        BY <4>1, <2>4
      <4> QED
        BY <4>2, <3>5, <2>5
    <3> QED
      BY <3>1, <3>2, <3>3, <3>4, <3>5, <2>2, <2>6, <1>0
  <2>7. pc' = "insert" /\ j' = j + 1 /\ l' = l
    BY <1>3 DEF Insert
  <2>8. l' .. j' - 1 = l .. j /\ l' + 1 <= j'
    BY <2>2, <2>7, <1>0
  <2> QED
    BY <2>6, <2>8 DEF RangeInv, RangeSorted
<1>4. CASE Pop
  BY <1>4 DEF Pop, RangeInv, RangeSorted
<1>5. CASE StartPartition \/ RunOff
  BY <1>5 DEF StartPartition, RunOff, RangeInv, RangeSorted
<1>6. CASE Exchange
  BY <1>6 DEF Exchange, RangeInv, RangeSorted
<1>7. CASE Place
  <2>1. pc' # "insert"
    BY <1>7 DEF Place
  <2> QED
    BY <2>1 DEF RangeInv, RangeSorted
<1>8. CASE UNCHANGED vars
  BY <1>8 DEF vars, RangeInv, RangeSorted
<1> QED
  BY <1>1, <1>2, <1>3, <1>4, <1>5, <1>6, <1>7, <1>8 DEF Next, Step, Returned

LEMMA RangeInvInit == Init => RangeInv
BY DEF Init, RangeInv, RangeSorted

\* With insertion alone, what has been inserted is the whole array in the end.
LEMMA SmallInvInit == Init => SmallInv
<1> SUFFICES ASSUME Init PROVE SmallInv
  OBVIOUS
<1>1. PICK v \in Keys : key = [x \in Index |-> v]
  BY DEF Init
<1>2. \A x \in Index : arr[x] = v
  BY <1>1 DEF Init
<1>3. \A x, y \in Index : arr[x] <= arr[y]
  BY <1>2, FloatFacts
<1> QED
  BY <1>3 DEF Init, SmallInv

LEMMA SmallInvNext ==
  ASSUME N <= Small
  PROVE  SortInv /\ RangeInv /\ SmallInv /\ [Next]_vars => SmallInv'
<1> SUFFICES ASSUME SortInv, RangeInv, SmallInv, [Next]_vars PROVE SmallInv'
  OBVIOUS
<1>0. /\ TypeOK /\ M = N /\ N \in Nat \ {0} /\ Index = 0 .. N - 1
  BY FloatFacts DEF SortInv, Index
<1>1. CASE Load
  BY <1>1 DEF Load, SmallInv
<1>2. CASE StartInsertion \/ UNCHANGED vars
  BY <1>2 DEF StartInsertion, vars, SmallInv
<1>3. CASE Insert
  BY <1>3 DEF Insert, SmallInv
<1>4. CASE Pop
  <2>1. /\ pc = "insert" /\ j > N - 1 /\ pc' = "idle"
        /\ UNCHANGED <<l, ir, istack, arr>> /\ l = 0
    BY <1>4 DEF Pop, SmallInv
  <2>2. l .. j - 1 = Index
    BY <1>0, <2>1 DEF TypeOK
  <2>3. \A x, y \in Index : x < y => arr[x] <= arr[y]
    BY <2>1, <2>2 DEF RangeInv, RangeSorted
  <2> QED
    BY <2>1, <2>3 DEF SmallInv
<1>5. CASE StartPartition
  BY <1>0, <1>5 DEF StartPartition, SmallInv
<1>6. CASE Exchange \/ Place \/ RunOff
  BY <1>6 DEF Exchange, Place, RunOff, SmallInv
<1> QED
  BY <1>1, <1>2, <1>3, <1>4, <1>5, <1>6 DEF Next, Step, Returned

-----------------------------------------------------------------------------
\* In every state of Ash::quicksort the ranges and indices stay in the array.
THEOREM SortTypes == Spec => []TypeOK
<1>1. SortInv => TypeOK
  BY DEF SortInv
<1> QED
  BY <1>1, SortInvInit, SortInvNext, PTL DEF Spec

\* No particle is lost from the file or written twice, whatever the keys, even
\* where the scans go wrong.
THEOREM OrderCorrect == Spec => []Permutation
<1>1. SortInv => Permutation
  BY DEF SortInv
<1> QED
  BY <1>1, SortInvInit, SortInvNext, PTL DEF Spec

\* The copy of the keys and Particle::order never come apart.
THEOREM KeysCorrect == Spec => []KeysFollow
<1>1. SortInv => KeysFollow
  BY DEF SortInv
<1> QED
  BY <1>1, SortInvInit, SortInvNext, PTL DEF Spec

\* Every range that is left to insertion ends in order, wherever it was cut off.
THEOREM RangeCorrect == Spec => []RangeSorted
<1>1. RangeInv => RangeSorted
  BY DEF RangeInv
<1> QED
  BY <1>1, SortInvInit, SortInvNext, RangeInvInit, RangeInvNext, PTL DEF Spec

\* Up to Small particles insertion does everything, and the file is written in
\* the order of the keys: what SortUnsorted shows is a fault of the partition.
THEOREM SmallCorrect ==
  ASSUME N <= Small
  PROVE  Spec => []Sorted
<1>1. SortInv /\ SmallInv => Sorted
  <2> SUFFICES ASSUME SortInv, SmallInv,
                      pc = "idle", Protocol # "never",
                      NEW x \in Index, NEW y \in Index, x < y
               PROVE  Float[key[order[x]]] <= Float[key[order[y]]]
    BY DEF Sorted
  <2>1. arr[x] <= arr[y]
    BY DEF SmallInv
  <2>2. /\ arr[x] \in Keys /\ arr[y] \in Keys
        /\ key[order[x]] \in Keys /\ key[order[y]] \in Keys
    BY DEF SortInv, TypeOK
  <2>3. Float[arr[x]] = Float[key[order[x]]] /\ Float[arr[y]] = Float[key[order[y]]]
    BY <2>2, FloatFacts DEF SortInv, KeysFollow
  <2>4. Float[arr[x]] <= Float[arr[y]]
    BY <2>1, <2>2, FloatFacts
  <2> QED
    BY <2>3, <2>4
<1>2. SortInv /\ RangeInv /\ SmallInv /\ [Next]_vars => SmallInv'
  BY SmallInvNext
<1> QED
  BY <1>1, <1>2, SortInvInit, SortInvNext, RangeInvInit, RangeInvNext,
     SmallInvInit, PTL DEF Spec

-----------------------------------------------------------------------------
(* The scans and the stack of ranges.  Every range that is put aside costs *)
(* the current one at least two elements; the last element of a range, and *)
(* later the place of the last exchange, stop the scan upwards, the pivot   *)
(* next to the left end the one downwards.                                  *)

StackInv ==
  /\ pc # "overflow" /\ 2 * Len(istack) < N
  /\ 2 * Len(istack) + (ir - l + 1) <= N
  /\ \A p \in 1 .. Len(istack) :
       /\ 2 * (p - 1) + (istack[p].ir - istack[p].l + 1) <= N
       /\ istack[p].ir < l \/ ir < istack[p].l
  /\ \A p, q \in 1 .. Len(istack) :
       p # q => istack[p].ir < istack[q].l \/ istack[q].ir < istack[p].l

SentinelInv ==
  pc = "scan" =>
    /\ l + 1 \in Index /\ l + 1 <= i /\ l + 1 < j /\ j <= ir
    /\ a = Float[arr[l + 1]]
    /\ a <= arr[l + 1] => a <= arr[j] /\ \E z \in Index : i < z /\ a <= arr[z]

LEMMA LeastIndex ==
  ASSUME NEW S \in SUBSET Index, S # {}
  PROVE  \E m \in S : \A x \in S : m <= x
<1>1. S \subseteq Nat
  BY FloatFacts DEF Index
<1>2. PICK m \in S : \A y \in S : ~(<<y, m>> \in OpToRel(<, Nat))
  BY <1>1, WFMin, NatLessThanWellFounded, Zenon
<1>3. \A y \in S : ~(y < m)
  BY <1>1, <1>2 DEF OpToRel
<1> QED
  BY <1>1, <1>3

LEMMA GreatestIndex ==
  ASSUME NEW S \in SUBSET Index, S # {}
  PROVE  \E m \in S : \A x \in S : x <= m
<1> DEFINE T == {N - 1 - x : x \in S}
<1>1. N \in Nat \ {0} /\ \A x \in S : x \in 0 .. N - 1
  BY FloatFacts DEF Index
<1>2. T \in SUBSET Index /\ T # {}
  <2>1. ASSUME NEW x \in S PROVE N - 1 - x \in 0 .. N - 1
    BY <1>1
  <2> QED
    BY <2>1 DEF Index
<1>3. PICK m \in T : \A y \in T : m <= y
  <2> HIDE DEF T
  <2> QED
    BY <1>2, LeastIndex
<1>4. PICK x \in S : m = N - 1 - x
  OBVIOUS
<1>5. ASSUME NEW y \in S PROVE y <= x
  <2>1. N - 1 - x <= N - 1 - y
    BY <1>3, <1>4
  <2>2. x \in 0 .. N - 1 /\ y \in 0 .. N - 1
    BY <1>1
  <2> QED
    BY <1>1, <2>1, <2>2
<1> QED
  BY <1>5

\* Both scans end at the first element that stops them, if there is one.
LEMMA UpEnds ==
  ASSUME TypeOK, NEW z \in Index, i < z, a <= arr[z]
  PROVE  \E x \in Index : UpEndsAt(x)
<1> DEFINE S == {x \in Index : i < x /\ a <= arr[x]}
<1>0. arr \in [Index -> Keys] /\ a \in Keys /\ i \in 0 .. N /\ Keys \subseteq Int
  BY FloatFacts DEF TypeOK
<1>1. /\ Index = 0 .. N - 1 /\ N \in Nat \ {0} /\ i \in Int /\ a \in Int
      /\ \A x \in Index : arr[x] \in Int
  <2>1. \A x \in Index : arr[x] \in Int
    BY <1>0
  <2> QED
    BY <1>0, <2>1, FloatFacts DEF Index
<1>2. PICK m \in S : \A x \in S : m <= x
  BY LeastIndex
<1>3. ASSUME NEW y \in i + 1 .. m - 1, 0 <= i PROVE arr[y] < a
  BY <1>1, <1>2, <1>3
<1>4. 0 <= i
  BY FloatFacts DEF TypeOK
<1> QED
  BY <1>1, <1>2, <1>3, <1>4 DEF UpEndsAt

LEMMA DownEnds ==
  ASSUME TypeOK, NEW z \in Index, z < j, arr[z] <= a
  PROVE  \E x \in Index : DownEndsAt(x)
<1> DEFINE S == {x \in Index : x < j /\ arr[x] <= a}
<1>0. arr \in [Index -> Keys] /\ a \in Keys /\ j \in 0 .. N /\ Keys \subseteq Int
  BY FloatFacts DEF TypeOK
<1>1. /\ Index = 0 .. N - 1 /\ N \in Nat \ {0} /\ j \in 0 .. N /\ a \in Int
      /\ \A x \in Index : arr[x] \in Int
  BY <1>0, FloatFacts DEF Index
<1>2. PICK m \in S : \A x \in S : x <= m
  BY GreatestIndex
<1>3. ASSUME NEW y \in m + 1 .. j - 1 PROVE arr[y] > a
  BY <1>1, <1>2, <1>3
<1> QED
  BY <1>1, <1>2, <1>3 DEF DownEndsAt

\* A pivot that rounding did not raise has an element to its right that stops
\* the scan.
LEMMA MedianOrders ==
  ASSUME TypeOK, l + 1 \in Index, ir \in Index, l + 1 < ir
  PROVE  LET m == MedianOfThree.arr
         IN  Float[m[l + 1]] <= m[l + 1] => Float[m[l + 1]] <= m[ir]
<1> DEFINE s0 == [arr |-> arr, order |-> order]
           s1 == Swap(s0, (l + ir) \div 2, l + 1)
           s2 == SwapIf(s1.arr[l] > s1.arr[ir], s1, l, ir)
           s3 == SwapIf(s2.arr[l + 1] > s2.arr[ir], s2, l + 1, ir)
           m  == MedianOfThree.arr
<1>0. /\ arr \in [Index -> Keys] /\ l \in Index /\ Index = 0 .. N - 1
      /\ N \in Nat \ {0}
  BY FloatFacts DEF TypeOK, Index
<1>1. (l + ir) \div 2 \in Index
  BY <1>0, FloatFacts
<1>2. s1.arr \in [Index -> Keys]
  <2>1. s1.arr = [arr EXCEPT ![(l + ir) \div 2] = arr[l + 1],
                             ![l + 1] = Float[arr[(l + ir) \div 2]]]
    BY DEF Swap
  <2>2. \A x \in Index : arr[x] \in Keys /\ Float[arr[x]] \in Keys
    BY <1>0, FloatFacts
  <2> HIDE DEF s1
  <2> QED
    BY <1>0, <1>1, <2>1, <2>2
<1> HIDE DEF s1
<1>3. s2.arr \in [Index -> Keys]
  BY <1>0, <1>2, FloatFacts DEF Swap, SwapIf
<1> HIDE DEF s2
<1>4. s3.arr \in [Index -> Keys]
  BY <1>0, <1>3, FloatFacts DEF Swap, SwapIf
<1>5. m = s3.arr
  <2>1. ~MedianThird(s3)
    <3>1. s3.arr[l] \in Int
      BY <1>0, <1>4, FloatFacts
    <3> QED
      BY <3>1 DEF MedianThird
  <2> QED
    BY <2>1 DEF MedianOfThree, SwapIf, s1, s2
<1> DEFINE u == s2.arr[ir]
           v == s2.arr[l + 1]
<1>6. u \in Keys /\ v \in Keys /\ u \in Int /\ v \in Int /\ l + 1 # ir
  <2>1. u \in Keys /\ v \in Keys
    BY <1>3
  <2>2. l + 1 # ir
    BY <1>0
  <2> QED
    BY <2>1, <2>2, FloatFacts
<1>7. CASE v > u
  <2>1. s3.arr[l + 1] = u /\ s3.arr[ir] = Float[v]
    BY <1>3, <1>6, <1>7 DEF Swap, SwapIf
  <2>2. Float[u] <= Float[v]
    BY <1>6, <1>7, FloatFacts
  <2> QED
    BY <1>5, <2>1, <2>2
<1>8. CASE ~(v > u)
  <2>1. s3.arr[l + 1] = v /\ s3.arr[ir] = u
    BY <1>8 DEF SwapIf
  <2>2. Float[v] \in Int
    BY <1>6, FloatFacts
  <2> QED
    BY <1>5, <1>6, <1>8, <2>1, <2>2
<1> QED
  BY <1>7, <1>8

LEMMA SentinelNext == SortInv /\ SentinelInv /\ [Next]_vars => SentinelInv'
<1> SUFFICES ASSUME SortInv, SentinelInv, [Next]_vars PROVE SentinelInv'
  OBVIOUS
<1>0. /\ TypeOK /\ N \in Nat \ {0} /\ Index = 0 .. N - 1 /\ Keys \subseteq Int
      /\ arr \in [Index -> Keys] /\ a \in Keys /\ l \in Index
  BY FloatFacts DEF SortInv, TypeOK, Index
<1>1. CASE pc' # "scan"
  BY <1>1 DEF SentinelInv
<1>2. CASE StartPartition
  <2>1. /\ l + 1 \in Index /\ ir \in Index /\ l + 1 < ir
    BY <1>0, <1>2, FloatFacts DEF StartPartition, TypeOK
  <2>2. /\ l' = l /\ ir' = ir /\ i' = l + 1 /\ j' = ir
        /\ arr' = MedianOfThree.arr /\ a' = Float[arr'[l + 1]]
    BY <1>2 DEF StartPartition
  <2>3. a' <= arr'[l + 1] => a' <= arr'[ir]
    BY <1>0, <2>1, <2>2, MedianOrders
  <2>4. l + 1 <= l + 1 /\ ir <= ir
    BY <2>1, <1>0
  <2>5. a' <= arr'[l + 1] =>
          a' <= arr'[j'] /\ \E z \in Index : i' < z /\ a' <= arr'[z]
    BY <2>1, <2>2, <2>3
  <2> QED
    BY <2>1, <2>2, <2>4, <2>5 DEF SentinelInv
<1>3. CASE Exchange
  <2>1. PICK x, y \in Index :
          /\ UpEndsAt(x) /\ DownEndsAt(y) /\ x <= y
          /\ arr' = Swap([arr |-> arr, order |-> order], x, y).arr
          /\ i' = x /\ j' = y
    BY <1>3 DEF Exchange
  <2>2. /\ pc = "scan" /\ l' = l /\ ir' = ir /\ a' = a
    BY <1>3 DEF Exchange
  <2>3. /\ l + 1 \in Index /\ l + 1 <= i /\ l + 1 < j /\ j <= ir
        /\ a = Float[arr[l + 1]]
        /\ (a <= arr[l + 1] => a <= arr[j])
    BY <2>2 DEF SentinelInv
  <2>4. /\ i < x /\ y < j /\ i \in Int /\ j \in Int /\ ir \in -1 .. N - 1
        /\ a <= arr[x]
    BY <1>0, <2>1 DEF UpEndsAt, DownEndsAt, TypeOK
  <2>5. /\ l + 1 < x /\ l + 1 < y /\ x < j /\ y <= ir /\ j \in Index
    BY <1>0, <2>1, <2>3, <2>4
  <2>6. arr' = [arr EXCEPT ![x] = arr[y], ![y] = Float[arr[x]]]
    BY <2>1, SwapType
  <2>7. arr'[l + 1] = arr[l + 1] /\ arr'[j] = arr[j] /\ arr'[y] = Float[arr[x]]
    BY <1>0, <2>3, <2>4, <2>5, <2>6
  <2>8. a <= Float[arr[x]]
    <3>1. arr[l + 1] \in Keys /\ arr[x] \in Keys
      BY <1>0, <2>3
    <3>2. Float[a] = a
      BY <2>3, <3>1, FloatFacts
    <3> QED
      BY <1>0, <2>4, <3>1, <3>2, FloatFacts
  <2> QED
    BY <2>1, <2>2, <2>3, <2>5, <2>7, <2>8, <1>0 DEF SentinelInv
<1>4. CASE UNCHANGED vars
  BY <1>4 DEF vars, SentinelInv
<1>5. CASE Load \/ StartInsertion \/ Insert \/ Pop \/ Place \/ RunOff
  BY <1>1, <1>5 DEF Load, StartInsertion, Insert, Pop, Place, RunOff
<1> QED
  BY <1>1, <1>2, <1>3, <1>4, <1>5 DEF Next, Step, Returned

LEMMA WildNext == SortInv /\ SentinelInv /\ ScanInside /\ [Next]_vars => ScanInside'
<1> SUFFICES ASSUME SortInv, SentinelInv, ScanInside, [Next]_vars, pc' = "wild"
             PROVE  ScanInside'
  BY DEF ScanInside
<1>0. TypeOK /\ Index = 0 .. N - 1 /\ Keys \subseteq Int
  BY FloatFacts DEF SortInv, Index
<1>1. UNCHANGED <<l, i, j, a, arr>> => \A x : /\ UpEndsAt(x)' = UpEndsAt(x)
                                              /\ DownEndsAt(x)' = DownEndsAt(x)
  BY DEF UpEndsAt, DownEndsAt
<1>2. CASE RunOff
  <2>1. /\ UNCHANGED <<l, i, j, a, arr>> /\ l' = l /\ arr' = arr /\ pc = "scan"
        /\ \/ \A x \in Index : ~UpEndsAt(x)
           \/ \A y \in Index : ~DownEndsAt(y)
    BY <1>2 DEF RunOff
  <2>2. /\ l + 1 \in Index /\ a = Float[arr[l + 1]] /\ l + 1 < j
        /\ (a <= arr[l + 1] => \E z \in Index : i < z /\ a <= arr[z])
    BY <2>1 DEF SentinelInv
  <2>3. arr[l + 1] \in Int /\ a \in Int
    BY <1>0, <2>2 DEF TypeOK
  <2>4. a <= arr[l + 1] => \E x \in Index : UpEndsAt(x)
    BY <1>0, <2>2, UpEnds
  <2>5. arr[l + 1] <= a => \E y \in Index : DownEndsAt(y)
    BY <1>0, <2>2, DownEnds
  <2>6. \/ a < arr[l + 1] /\ \E x \in Index : UpEndsAt(x)
        \/ a > arr[l + 1] /\ \E y \in Index : DownEndsAt(y)
    BY <2>1, <2>3, <2>4, <2>5
  <2>7. \/ Float[arr'[l' + 1]] < arr'[l' + 1] /\ \E x \in Index : UpEndsAt(x)'
        \/ Float[arr'[l' + 1]] > arr'[l' + 1] /\ \E y \in Index : DownEndsAt(y)'
    BY <1>1, <2>1, <2>2, <2>6
  <2> QED
    BY <2>7 DEF ScanInside
<1>3. CASE UNCHANGED vars
  BY <1>3 DEF vars, ScanInside, UpEndsAt, DownEndsAt
<1>4. CASE Load \/ StartInsertion \/ Insert \/ Pop \/ StartPartition \/ Exchange \/ Place
  BY <1>4 DEF Load, StartInsertion, Insert, Pop, StartPartition, Exchange, Place,
              ScanInside
<1> QED
  BY <1>2, <1>3, <1>4 DEF Next, Step, Returned

LEMMA RangesLess ==
  ASSUME NEW q \in Seq(Ranges), q # <<>>
  PROVE  /\ Len(q) \in Nat \ {0}
         /\ Len(SubSeq(q, 1, Len(q) - 1)) = Len(q) - 1
         /\ \A p \in 1 .. Len(q) - 1 : SubSeq(q, 1, Len(q) - 1)[p] = q[p]
<1>1. Len(q) \in Nat \ {0}
  OBVIOUS
<1>2. PICK n \in Nat : n = Len(q) - 1
  BY <1>1
<1>3. /\ SubSeq(q, 1, n) \in Seq(Ranges) /\ Len(SubSeq(q, 1, n)) = n
      /\ \A p \in 1 .. n : SubSeq(q, 1, n)[p] = q[p]
  BY <1>1, <1>2, SubSeqProperties
<1> QED
  BY <1>1, <1>2, <1>3

LEMMA RangesMore ==
  ASSUME NEW q \in Seq(Ranges), NEW r
  PROVE  /\ Len(Append(q, r)) = Len(q) + 1
         /\ \A p \in 1 .. Len(q) : Append(q, r)[p] = q[p]
         /\ Append(q, r)[Len(q) + 1] = r
         /\ 1 .. Len(q) + 1 = 1 .. Len(q) \cup {Len(q) + 1}
<1>1. q \in Seq(Ranges \cup {r}) /\ r \in Ranges \cup {r} /\ Len(q) \in Nat
  OBVIOUS
<1> QED
  BY <1>1

LEMMA StackNext == SortInv /\ SentinelInv /\ StackInv /\ [Next]_vars => StackInv'
<1> SUFFICES ASSUME SortInv, SentinelInv, StackInv, [Next]_vars PROVE StackInv'
  OBVIOUS
<1>0. /\ TypeOK /\ N \in Nat \ {0} /\ Index = 0 .. N - 1
      /\ l \in Index /\ ir \in -1 .. N - 1 /\ istack \in Seq(Ranges)
      /\ Len(istack) \in Nat
      /\ \A p \in 1 .. Len(istack) : istack[p].l \in Int /\ istack[p].ir \in Int
  <2>1. TypeOK /\ N \in Nat \ {0} /\ Index = 0 .. N - 1 /\ istack \in Seq(Ranges)
    BY FloatFacts DEF SortInv, TypeOK, Index
  <2>2. \A p \in 1 .. Len(istack) : istack[p] \in Ranges
    BY <2>1
  <2>3. \A p \in 1 .. Len(istack) : istack[p].l \in Int /\ istack[p].ir \in Int
    BY <2>1, <2>2 DEF Ranges
  <2> QED
    BY <2>1, <2>3 DEF TypeOK
<1>1. CASE Load
  BY <1>0, <1>1 DEF Load, StackInv
<1>2. CASE StartInsertion \/ Insert \/ StartPartition \/ Exchange \/ RunOff
  BY <1>2 DEF StartInsertion, Insert, StartPartition, Exchange, RunOff, StackInv
<1>3. CASE Pop
  <2>1. CASE istack = <<>>
    BY <1>3, <2>1 DEF Pop, StackInv
  <2>2. CASE istack # <<>>
    <3> DEFINE n == Len(istack)
    <3>1. /\ pc' = "select" /\ l' = istack[n].l /\ ir' = istack[n].ir
          /\ istack' = SubSeq(istack, 1, n - 1)
      BY <1>3, <2>2 DEF Pop
    <3>2. /\ n \in Nat \ {0} /\ Len(istack') = n - 1
          /\ \A p \in 1 .. n - 1 : istack'[p] = istack[p]
      BY <1>0, <2>2, <3>1, RangesLess
    <3> HIDE DEF n
    <3>3. /\ 1 .. n - 1 \subseteq 1 .. n /\ n \in 1 .. n
          /\ \A p \in 1 .. n - 1 : p # n
      BY <3>2
    <3>4. /\ 2 * n < N /\ 2 * (n - 1) + (istack[n].ir - istack[n].l + 1) <= N
      BY <3>3 DEF StackInv, n
    <3>5. \A p \in 1 .. n - 1 :
            /\ 2 * (p - 1) + (istack[p].ir - istack[p].l + 1) <= N
            /\ istack[p].ir < istack[n].l \/ istack[n].ir < istack[p].l
            /\ \A q \in 1 .. n - 1 :
                 p # q => istack[p].ir < istack[q].l \/ istack[q].ir < istack[p].l
      BY <3>3 DEF StackInv, n
    <3>6. 2 * (n - 1) < N
      BY <3>2, <3>4, <1>0
    <3> QED
      BY <3>1, <3>2, <3>4, <3>5, <3>6 DEF StackInv
  <2> QED
    BY <2>1, <2>2
<1>4. CASE Place
  <2>1. pc = "scan"
    BY <1>4 DEF Place
  <2>2. PICK x, y \in Index :
          /\ UpEndsAt(x) /\ DownEndsAt(y) /\ y < x
          /\ IF 2 * (Len(istack) + 1) > NSTACK
             THEN pc' = "overflow" /\ UNCHANGED <<l, ir, istack>>
             ELSE /\ pc' = "select"
                  /\ \/ /\ istack' = Append(istack, [l |-> x, ir |-> ir])
                        /\ ir' = y - 1 /\ UNCHANGED l
                     \/ /\ istack' = Append(istack, [l |-> l, ir |-> y - 1])
                        /\ l' = x /\ UNCHANGED ir
    BY <1>4 DEF Place
  <2>3. l + 2 <= x /\ y - 1 <= ir - 2 /\ l + 2 <= ir
    <3>1. l + 1 <= i /\ l + 1 < j /\ j <= ir
      BY <2>1 DEF SentinelInv
    <3>2. i < x /\ y < j /\ i \in Int /\ j \in Int
      BY <1>0, <2>2 DEF UpEndsAt, DownEndsAt, TypeOK
    <3> QED
      BY <1>0, <2>2, <3>1, <3>2
  <2> DEFINE n == Len(istack)
  <2>4. n \in Nat /\ 2 * n + (ir - l + 1) <= N
    BY <1>0 DEF StackInv
  <2>5. 2 * (n + 1) < N /\ ~(2 * (n + 1) > NSTACK)
    BY <1>0, <2>3, <2>4, SortAssumption DEF NSTACK
  \* Of the two parts, lo .. hi goes on the stack and nl .. nh is next.
  <2>6. ASSUME NEW lo \in Int, NEW hi \in Int, NEW nl \in Int, NEW nh \in Int,
               pc' = "select", istack' = Append(istack, [l |-> lo, ir |-> hi]),
               l' = nl, ir' = nh, l <= lo, l <= nl, hi <= ir, nh <= ir,
               hi - lo <= ir - l - 2, nh - nl <= ir - l - 2,
               hi < nl \/ nh < lo
        PROVE  StackInv'
    <3>1. /\ Len(istack') = n + 1
          /\ \A p \in 1 .. n : istack'[p] = istack[p]
          /\ istack'[n + 1] = [l |-> lo, ir |-> hi]
          /\ 1 .. n + 1 = 1 .. n \cup {n + 1}
      <4> DEFINE top == [l |-> lo, ir |-> hi]
      <4>1. istack \in Seq(Ranges) /\ istack' = Append(istack, top)
        BY <1>0, <2>6
      <4> HIDE DEF top
      <4>2. /\ Len(istack') = n + 1
            /\ \A p \in 1 .. n : istack'[p] = istack[p]
            /\ istack'[n + 1] = top
            /\ 1 .. n + 1 = 1 .. n \cup {n + 1}
        BY <4>1, RangesMore
      <4> QED
        BY <4>2 DEF top
    <3>2. /\ 2 * (n + 1) + (nh - nl + 1) <= N
          /\ 2 * (n + 1 - 1) + (hi - lo + 1) <= N
      <4>1. l \in Int /\ ir \in Int /\ N \in Int
        BY <1>0
      <4>2. n \in Nat /\ 2 * n + (ir - l + 1) <= N
        BY <2>4
      <4>3. hi - lo <= ir - l - 2 /\ nh - nl <= ir - l - 2
        BY <2>6
      <4> HIDE DEF n
      <4> QED
        BY <4>1, <4>2, <4>3
    <3>3. ASSUME NEW p \in 1 .. n
          PROVE  /\ 2 * (p - 1) + (istack[p].ir - istack[p].l + 1) <= N
                 /\ istack[p].ir < nl \/ nh < istack[p].l
                 /\ istack[p].ir < lo \/ hi < istack[p].l
      <4>1. /\ istack[p].ir < l \/ ir < istack[p].l
            /\ istack[p].l \in Int /\ istack[p].ir \in Int
            /\ 2 * (p - 1) + (istack[p].ir - istack[p].l + 1) <= N
        BY <1>0, <3>3 DEF StackInv
      <4>2. PICK b \in Int, e \in Int : b = istack[p].l /\ e = istack[p].ir
        BY <4>1
      <4>3. l \in Int /\ ir \in Int /\ (e < l \/ ir < b)
        BY <1>0, <4>1, <4>2
      <4>4. (e < nl \/ nh < b) /\ (e < lo \/ hi < b)
        BY <2>6, <4>3
      <4> QED
        BY <4>1, <4>2, <4>4
    <3>4. \A p, q \in 1 .. n :
            p # q => istack[p].ir < istack[q].l \/ istack[q].ir < istack[p].l
      BY DEF StackInv
    <3> HIDE DEF n
    <3>5. ASSUME NEW p \in 1 .. n + 1
          PROVE  /\ 2 * (p - 1) + (istack'[p].ir - istack'[p].l + 1) <= N
                 /\ istack'[p].ir < nl \/ nh < istack'[p].l
      <4>1. CASE p \in 1 .. n
        BY <3>1, <3>3, <4>1
      <4>2. CASE p = n + 1
        <5>1. istack'[p].l = lo /\ istack'[p].ir = hi
          BY <3>1, <4>2
        <5>2. 2 * (p - 1) + (hi - lo + 1) <= N
          BY <2>4, <3>2, <4>2
        <5>3. hi < nl \/ nh < lo
          BY <2>6
        <5> QED
          BY <5>1, <5>2, <5>3
      <4> QED
        BY <3>1, <4>1, <4>2
    <3>6. ASSUME NEW p \in 1 .. n + 1, NEW q \in 1 .. n + 1, p # q
          PROVE  istack'[p].ir < istack'[q].l \/ istack'[q].ir < istack'[p].l
      <4>1. CASE p \in 1 .. n /\ q \in 1 .. n
        BY <3>1, <3>4, <3>6, <4>1
      <4>2. CASE p = n + 1 /\ q \in 1 .. n
        BY <3>1, <3>3, <4>2
      <4>3. CASE p \in 1 .. n /\ q = n + 1
        BY <3>1, <3>3, <4>3
      <4>4. p \in 1 .. n \/ p = n + 1
        BY <3>1, <3>6
      <4>5. q \in 1 .. n \/ q = n + 1
        BY <3>1, <3>6
      <4> QED
        BY <3>6, <4>1, <4>2, <4>3, <4>4, <4>5
    <3> QED
      BY <2>5, <2>6, <3>1, <3>2, <3>5, <3>6 DEF StackInv
  <2>7. /\ pc' = "select"
        /\ \/ /\ istack' = Append(istack, [l |-> x, ir |-> ir])
              /\ ir' = y - 1 /\ l' = l
           \/ /\ istack' = Append(istack, [l |-> l, ir |-> y - 1])
              /\ l' = x /\ ir' = ir
    BY <2>2, <2>5
  <2>8. /\ x \in Int /\ y - 1 \in Int /\ l \in Int /\ ir \in Int
        /\ l <= l /\ ir <= ir /\ l <= x /\ y - 1 <= ir /\ y - 1 < x
        /\ ir - x <= ir - l - 2 /\ y - 1 - l <= ir - l - 2
    BY <1>0, <2>2, <2>3
  <2> QED
    BY <2>6, <2>7, <2>8
<1>5. CASE UNCHANGED vars
  BY <1>5 DEF vars, StackInv
<1> QED
  BY <1>1, <1>2, <1>3, <1>4, <1>5 DEF Next, Step, Returned

\* The partition of Ash::quicksort leaves neither istack nor, where rounding does
\* not move a pivot, the array: for any number of particles, any keys and any
\* rounding.
THEOREM InsideCorrect == Spec => []StaysInside
<1>1. Init => SentinelInv /\ ScanInside /\ StackInv
  BY FloatFacts DEF Init, SentinelInv, ScanInside, StackInv
<1>2. SortInv /\ StackInv => StackFits
  <2> SUFFICES ASSUME SortInv, StackInv PROVE StackFits
    OBVIOUS
  <2>1. N \in Nat /\ MinStack \in Nat /\ N <= NSTACK /\ NSTACK \in Nat
    BY SortAssumption DEF NSTACK
  <2>2. Len(istack) \in Nat
    BY DEF SortInv, TypeOK
  <2>3. 2 * Len(istack) < NSTACK
    BY <2>1, <2>2 DEF StackInv
  <2> QED
    BY <2>3 DEF StackInv, StackFits
<1> QED
  BY <1>1, <1>2, SortInvInit, SortInvNext, SentinelNext, WildNext, StackNext,
     PTL DEF Spec, StaysInside
=============================================================================

------------------------------ MODULE AshSort ------------------------------
(***************************************************************************)
(* Ash::quicksort: the order in which write() puts the particles into the  *)
(* ash file.  A copy of the sort key of every particle is sorted together  *)
(* with Particle::order, by quicksort with an explicit stack that leaves   *)
(* short ranges to insertion.  The sort runs again for every file.         *)
(*                                                                         *)
(* The keys are doubles and pass through variables of type float.  What is *)
(* lost there decides how far the scans run, so it is kept: Float maps a   *)
(* key to the nearest float.  A scan that leaves the array is undefined;   *)
(* the model stops in "wild".                                              *)
(*                                                                         *)
(* A definition named after another with a suffix is a plausible mistake   *)
(* in that operation, there to show which property notices it.             *)
(***************************************************************************)
EXTENDS Integers, Sequences

CONSTANTS
  N,          \* ashN
  Small,      \* 100: up to this size insertion does everything
  Share,      \* 20: above it ranges of N/Share are left to insertion
  MinStack,   \* 20: the least size of istack
  Keys,       \* the keys particles can have
  Float,      \* the conversion of a key to float, on Keys
  Protocol    \* -sorted: "yes" (for each file), "no" (once) or "never"

ASSUME SortAssumption ==
  /\ N \in Nat \ {0} /\ Small \in Nat /\ Share \in Nat \ {0}
  /\ N > Small => N \div Share >= 2
  /\ MinStack \in Nat
  /\ Keys \subseteq Int /\ Keys # {}
  /\ Protocol \in {"yes", "no", "never"}

\* Conversion to float keeps order and is exact on floats.
ASSUME FloatAssumption ==
  /\ Float \in [Keys -> Keys]
  /\ \A v, w \in Keys : v <= w => Float[v] <= Float[w]
  /\ \A v \in Keys : Float[Float[v]] = Float[v]

Index  == 0 .. N - 1
M      == IF N > Small THEN N \div Share ELSE N
NSTACK == IF N > MinStack THEN N ELSE MinStack

VARIABLES
  pc,        \* "idle", "select", "insert", "scan", "wild", "overflow"
  key,       \* the particles' own coordinate or time
  arr,       \* the copy being sorted
  order,     \* Particle::order
  l, ir, i, j, a, o,   \* the locals of quicksort
  istack,    \* istack[1..jstack] as a sequence of <<l, ir>>
  sorts      \* history: sorts so far, none, one or more

vars == <<pc, key, arr, order, l, ir, i, j, a, o, istack, sorts>>

-----------------------------------------------------------------------------
\* SWAP goes through a float, ISWAP does not.
SwapKeysOnly(s, x, y) ==
  [arr   |-> [s.arr EXCEPT ![x] = s.arr[y], ![y] = Float[s.arr[x]]],
   order |-> s.order]

Swap(s, x, y) ==
  [arr   |-> [s.arr EXCEPT ![x] = s.arr[y], ![y] = Float[s.arr[x]]],
   order |-> [s.order EXCEPT ![x] = s.order[y], ![y] = s.order[x]]]

SwapIf(c, s, x, y) == IF c THEN Swap(s, x, y) ELSE s

\* The third comparison is written arr[l] > arr[l]+1 in the code.
MedianThird(s) == s.arr[l] > s.arr[l] + 1

\* The median of three: moves the middle element next to the left end and
\* orders the ends around it.
MedianOfThree ==
  LET k  == (l + ir) \div 2
      s1 == Swap([arr |-> arr, order |-> order], k, l + 1)
      s2 == SwapIf(s1.arr[l] > s1.arr[ir], s1, l, ir)
      s3 == SwapIf(s2.arr[l + 1] > s2.arr[ir], s2, l + 1, ir)
  IN  SwapIf(MedianThird(s3), s3, l, l + 1)

\* Shift f[at .. from - 1] right by one place and put v at its start.
Shifted(f, at, from, v) ==
  [x \in Index |-> IF x = at THEN v
                   ELSE IF at < x /\ x <= from THEN f[x - 1] ELSE f[x]]

\* Is x where the insertion of arr[j] stops: arr[x] <= a, all between above it?
StopsAtSecond(x) ==
  /\ x \in l .. j - 1
  /\ x > l => arr[x] <= Float[arr[j]]
  /\ \A y \in x + 1 .. j - 1 : arr[y] > Float[arr[j]]

StopsAt(x) ==
  /\ x \in l - 1 .. j - 1
  /\ x >= l => arr[x] <= Float[arr[j]]
  /\ \A y \in x + 1 .. j - 1 : arr[y] > Float[arr[j]]

\* Do "do i++; while (arr[i] < a)" and "do j--; while (arr[j] > a)" end at x?
UpEndsAbove(x) == x > i /\ arr[x] > a /\ \A y \in i + 1 .. x - 1 : arr[y] <= a
UpEndsAt(x)   == x > i /\ arr[x] >= a /\ \A y \in i + 1 .. x - 1 : arr[y] < a
DownEndsAt(x) == x < j /\ arr[x] <= a /\ \A y \in x + 1 .. j - 1 : arr[y] > a

-----------------------------------------------------------------------------
Init ==
  /\ pc = "idle" /\ sorts = "none"
  /\ \E v \in Keys : key = [x \in Index |-> v]
  /\ arr = key /\ order = [x \in Index |-> x]
  /\ l = 0 /\ ir = N - 1 /\ i = 0 /\ j = 0 /\ a = key[0] /\ o = 0
  /\ istack = <<>>

\* The call, with the coordinates the particles have reached.
LoadPastEnd ==
  /\ pc = "idle" /\ (sorts = "none" \/ Protocol = "yes")
  /\ key' \in [Index -> Keys]
  /\ arr' = key' /\ order' = [x \in Index |-> x]
  /\ l' = 0 /\ ir' = N /\ istack' = <<>>
  /\ pc' = IF Protocol = "never" THEN "idle" ELSE "select"
  /\ sorts' = IF sorts = "none" THEN "one" ELSE "more"
  /\ UNCHANGED <<i, j, a, o>>

LoadKeepOrder ==
  /\ pc = "idle" /\ (sorts = "none" \/ Protocol = "yes")
  /\ key' \in [Index -> Keys]
  /\ arr' = key'
  /\ l' = 0 /\ ir' = N - 1 /\ istack' = <<>>
  /\ pc' = IF Protocol = "never" THEN "idle" ELSE "select"
  /\ sorts' = IF sorts = "none" THEN "one" ELSE "more"
  /\ UNCHANGED <<order, i, j, a, o>>

Load ==
  /\ pc = "idle" /\ (sorts = "none" \/ Protocol = "yes")
  /\ key' \in [Index -> Keys]
  /\ arr' = key' /\ order' = [x \in Index |-> x]
  /\ l' = 0 /\ ir' = N - 1 /\ istack' = <<>>
  /\ pc' = IF Protocol = "never" THEN "idle" ELSE "select"
  /\ sorts' = IF sorts = "none" THEN "one" ELSE "more"
  /\ UNCHANGED <<i, j, a, o>>

StartInsertion ==
  /\ pc = "select" /\ ir - l < M
  /\ j' = l + 1 /\ pc' = "insert"
  /\ UNCHANGED <<key, arr, order, l, ir, i, a, o, istack, sorts>>

\* One pass of the insertion loop.
Insert ==
  /\ pc = "insert" /\ j <= ir
  /\ \E x \in l - 1 .. j - 1 :
       /\ StopsAt(x)
       /\ arr' = Shifted(arr, x + 1, j, Float[arr[j]])
       /\ order' = Shifted(order, x + 1, j, order[j])
  /\ j' = j + 1
  /\ UNCHANGED <<pc, key, l, ir, i, a, o, istack, sorts>>

\* A range is done: take the next from the stack, or return.
PopStays ==
  /\ pc = "insert" /\ j > ir
  /\ IF istack = <<>>
     THEN pc' = "idle" /\ UNCHANGED <<l, ir, istack>>
     ELSE /\ pc' = "select"
          /\ l' = istack[Len(istack)].l /\ ir' = istack[Len(istack)].ir
          /\ istack' = istack
  /\ UNCHANGED <<key, arr, order, i, j, a, o, sorts>>

Pop ==
  /\ pc = "insert" /\ j > ir
  /\ IF istack = <<>>
     THEN pc' = "idle" /\ UNCHANGED <<l, ir, istack>>
     ELSE /\ pc' = "select"
          /\ l' = istack[Len(istack)].l /\ ir' = istack[Len(istack)].ir
          /\ istack' = SubSeq(istack, 1, Len(istack) - 1)
  /\ UNCHANGED <<key, arr, order, i, j, a, o, sorts>>

StartPartition ==
  /\ pc = "select" /\ ir - l >= M
  /\ arr' = MedianOfThree.arr /\ order' = MedianOfThree.order
  /\ i' = l + 1 /\ j' = ir
  /\ a' = Float[arr'[l + 1]] /\ o' = order'[l + 1]
  /\ pc' = "scan"
  /\ UNCHANGED <<key, l, ir, istack, sorts>>

\* Both scans end and have not crossed.
Exchange ==
  /\ pc = "scan"
  /\ \E x, y \in Index :
       /\ UpEndsAt(x) /\ DownEndsAt(y) /\ x <= y
       /\ LET s == Swap([arr |-> arr, order |-> order], x, y)
          IN  arr' = s.arr /\ order' = s.order
       /\ i' = x /\ j' = y
  /\ UNCHANGED <<pc, key, l, ir, a, o, istack, sorts>>

\* The range put aside: code compares with j - 1.
RightFirst(x, y) == ir - x + 1 >= y - 1

\* They have crossed: put the pivot in its place, stack one side and go on
\* with the other.
PlaceKeyOnly ==
  /\ pc = "scan"
  /\ \E x, y \in Index :
       /\ UpEndsAt(x) /\ DownEndsAt(y) /\ y < x
       /\ i' = x /\ j' = y
       /\ arr' = [arr EXCEPT ![l + 1] = arr[y], ![y] = a]
       /\ order' = [order EXCEPT ![l + 1] = order[y]]
       /\ pc' = "select" /\ istack' = Append(istack, [l |-> x, ir |-> ir])
       /\ ir' = y - 1 /\ UNCHANGED l
  /\ UNCHANGED <<key, a, o, sorts>>

PlaceKeepEnd ==
  /\ pc = "scan"
  /\ \E x, y \in Index :
       /\ UpEndsAt(x) /\ DownEndsAt(y) /\ y < x
       /\ i' = x /\ j' = y
       /\ arr' = [arr EXCEPT ![l + 1] = arr[y], ![y] = a]
       /\ order' = [order EXCEPT ![l + 1] = order[y], ![y] = o]
       /\ pc' = "select" /\ istack' = Append(istack, [l |-> x, ir |-> ir])
       /\ UNCHANGED <<l, ir>>
  /\ UNCHANGED <<key, a, o, sorts>>

Place ==
  /\ pc = "scan"
  /\ \E x, y \in Index :
       /\ UpEndsAt(x) /\ DownEndsAt(y) /\ y < x
       /\ i' = x /\ j' = y
       /\ arr' = [arr EXCEPT ![l + 1] = arr[y], ![y] = a]
       /\ order' = [order EXCEPT ![l + 1] = order[y], ![y] = o]
       /\ IF 2 * (Len(istack) + 1) > NSTACK
          THEN pc' = "overflow" /\ UNCHANGED <<l, ir, istack>>
          ELSE /\ pc' = "select"
               /\ IF RightFirst(x, y)
                  THEN /\ istack' = Append(istack, [l |-> x, ir |-> ir])
                       /\ ir' = y - 1 /\ UNCHANGED l
                  ELSE /\ istack' = Append(istack, [l |-> l, ir |-> y - 1])
                       /\ l' = x /\ UNCHANGED ir
  /\ UNCHANGED <<key, a, o, sorts>>

\* A scan runs off the array.
RunOff ==
  /\ pc = "scan"
  /\ (\A x \in Index : ~UpEndsAt(x)) \/ (\A y \in Index : ~DownEndsAt(y))
  /\ pc' = "wild"
  /\ UNCHANGED <<key, arr, order, l, ir, i, j, a, o, istack, sorts>>

Returned == /\ \/ pc \in {"wild", "overflow"}
               \/ pc = "idle" /\ sorts # "none" /\ Protocol # "yes"
            /\ UNCHANGED vars

Step == StartInsertion \/ Insert \/ Pop \/ StartPartition \/ Exchange \/ Place
        \/ RunOff

Next == Load \/ Step \/ Returned

Spec == Init /\ [][Next]_vars

\* One thread: a sort that has begun goes on.
FairSpec == Spec /\ WF_vars(Step)

-----------------------------------------------------------------------------
(* Properties.                                                             *)

\* What istack holds.
Ranges == [l : Index, ir : -1 .. N - 1]

\* Types; the bounds of a range and of the insertion loop stay in the array.
TypeOK ==
  /\ pc \in {"idle", "select", "insert", "scan", "wild", "overflow"}
  /\ key \in [Index -> Keys] /\ arr \in [Index -> Keys]
  /\ order \in [Index -> Index] /\ o \in Index /\ a \in Keys
  /\ l \in Index /\ ir \in -1 .. N - 1 /\ i \in 0 .. N /\ j \in 0 .. N
  /\ istack \in Seq(Ranges)
  /\ sorts \in {"none", "one", "more"}

\* Every particle is written to the file, and none twice: order stays a
\* permutation through every exchange.
Permutation == \A x, y \in Index : x # y => order[x] # order[y]

\* The two arrays that are sorted in step stay together: an entry of arr is the
\* key of the particle its order names, perhaps rounded.
KeysFollow ==
  \A x \in Index : arr[x] \in {key[order[x]], Float[key[order[x]]]}

\* A sort ends with the particles in the order of their keys, as far as floats
\* tell the keys apart.
Sorted ==
  pc = "idle" /\ Protocol # "never" =>
    \A x, y \in Index : x < y => Float[key[order[x]]] <= Float[key[order[y]]]

\* What insertion has gone through is sorted: a short range ends up in order
\* whatever happened before it was cut off.
RangeSorted ==
  pc = "insert" => \A x, y \in l .. j - 1 : x < y => arr[x] <= arr[y]

\* The elements that the median of three put at the ends stop the scans, which
\* leave the array only where rounding moved the pivot: by the left end if it
\* became less, by the right end if it became more.
ScanInside ==
  pc = "wild" =>
    \/ Float[arr[l + 1]] < arr[l + 1] /\ \E x \in Index : UpEndsAt(x)
    \/ Float[arr[l + 1]] > arr[l + 1] /\ \E y \in Index : DownEndsAt(y)

\* The stack of ranges never outgrows istack, and the ranges wait in it
\* without overlapping each other or the one being sorted.
StackFits ==
  /\ pc # "overflow" /\ 2 * Len(istack) < NSTACK
  /\ \A p, q \in 1 .. Len(istack) :
       p # q => istack[p].ir < istack[q].l \/ istack[q].ir < istack[p].l
  /\ pc = "select" =>
       \A p \in 1 .. Len(istack) : istack[p].ir < l \/ ir < istack[p].l

\* Neither the scans, which have no bound of their own, nor the ranges that wait
\* leave the memory they have, but for a scan after rounding moved a pivot.
StaysInside == ScanInside /\ StackFits

\* Every sort that has begun returns, or has left the array.
SortEnds == pc = "select" ~> pc \in {"idle", "wild", "overflow"}
=============================================================================

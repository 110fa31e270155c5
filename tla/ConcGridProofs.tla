--------------------------- MODULE ConcGridProofs ---------------------------
(***************************************************************************)
(* The theorems of ConcGrid.  GridInv says where the grid of a pass comes  *)
(* from: the box of the first pass, or that box as "%f" prints it, and     *)
(* SteadyGrid when the two have one grid; CountInv says what the flat      *)
(* arrays hold while the copies are being counted.                         *)
(***************************************************************************)
EXTENDS Planes, FiniteSetTheorems, WellFoundedInduction, TLAPS

-----------------------------------------------------------------------------
(* Arithmetic.                                                             *)

\* What \div computes.
LEMMA DivFacts ==
  ASSUME NEW v \in Int, NEW by \in Nat \ {0}
  PROVE  /\ v \div by \in Int
         /\ (v \div by) * by <= v
         /\ v < (v \div by) * by + by
  OBVIOUS

\* A multiple of by that is at most another one is so factor by factor.
LEMMA Factors ==
  ASSUME NEW by \in Nat \ {0}, NEW p \in Int, NEW q \in Int, p * by < q * by + by
  PROVE  p <= q
<1>1. SUFFICES ASSUME p >= q + 1 PROVE FALSE
  OBVIOUS
<1>2. PICK e \in Nat : p = q + 1 + e
  <2>1. p - q - 1 \in Nat /\ p = q + 1 + (p - q - 1)
    BY <1>1
  <2>. QED  BY <2>1
<1>3. p * by = q * by + by + e * by
  BY <1>2
<1>4. e * by \in Nat
  BY <1>2
<1>. QED  BY <1>3, <1>4

\* The quotient is the number of the cell that holds v.
LEMMA DivIs ==
  ASSUME NEW v \in Int, NEW by \in Nat \ {0}, NEW q \in Int
  PROVE  v \div by = q <=> q * by <= v /\ v < (q + 1) * by
<1>. DEFINE w == v \div by
<1>1. w \in Int /\ w * by <= v /\ v < w * by + by
  BY DivFacts
<1>2. (q + 1) * by = q * by + by
  OBVIOUS
<1>3. q * by \in Int /\ w * by \in Int
  BY <1>1
<1>4. ASSUME q * by <= v, v < q * by + by PROVE w = q
  <2>. HIDE DEF w
  <2>1. w <= q
    BY <1>1, <1>3, <1>4, Factors
  <2>2. q <= w
    BY <1>1, <1>3, <1>4, Factors
  <2>. QED  BY <1>1, <2>1, <2>2
<1>. QED  BY <1>1, <1>2, <1>4

\* Two digits base n determine each other.
LEMMA Digits ==
  ASSUME NEW n \in Nat, NEW i \in 0 .. n - 1, NEW j \in 0 .. n - 1,
         NEW p \in Int, NEW q \in Int, i + n * p = j + n * q
  PROVE  i = j /\ p = q
<1>0. n \in Nat \ {0}
  OBVIOUS
<1>1. p * n = n * p /\ q * n = n * q /\ p * n \in Int /\ q * n \in Int
  OBVIOUS
<1>2. p * n < q * n + n /\ q * n < p * n + n
  BY <1>1
<1>3. p <= q /\ q <= p
  BY <1>0, <1>2, Factors
<1>4. p = q
  BY <1>3
<1>. QED  BY <1>4

LEMMA StepPositive ==
  ASSUME NEW a \in Axes
  PROVE  d(a) \in Nat \ {0}
  BY GridAssumption DEF d, dHorz, dVert, Swapped

-----------------------------------------------------------------------------
(* The limits of a stash and the grid of a box.                            *)

\* A set of bounded integers has a least and a greatest element.
LEMMA LeastExists ==
  ASSUME NEW F \in Nat, NEW S \in SUBSET (-F .. F), S # {}
  PROVE  Min(S) \in S /\ \A x \in S : Min(S) <= x
<1>. DEFINE T == {x + F : x \in S}
<1>1. T \subseteq Nat /\ T # {}
  <2>1. ASSUME NEW x \in S PROVE x + F \in Nat
    <3>1. x \in Int /\ -F <= x /\ x <= F
      OBVIOUS
    <3>. QED  BY <3>1
  <2>2. PICK x \in S : TRUE
    OBVIOUS
  <2>3. x + F \in T
    OBVIOUS
  <2>. QED  BY <2>1, <2>3
<1>2. PICK m \in T : \A y \in T : ~(<<y, m>> \in OpToRel(<, Nat))
  BY <1>1, WFMin, NatLessThanWellFounded, Zenon
<1>3. \A y \in T : ~(y < m)
  <2>. HIDE DEF T
  <2>. QED  BY <1>1, <1>2 DEF OpToRel
<1>4. PICK x \in S : m = x + F
  OBVIOUS
<1>5. ASSUME NEW y \in S PROVE x <= y
  <2>1. y + F \in T /\ x \in Int /\ y \in Int
    OBVIOUS
  <2>2. ~(y + F < m)
    BY <1>3, <2>1
  <2>. QED  BY <1>4, <2>1, <2>2
<1>. QED  BY <1>5 DEF Min

LEMMA GreatestExists ==
  ASSUME NEW F \in Nat, NEW S \in SUBSET (-F .. F), S # {}
  PROVE  Max(S) \in S /\ \A x \in S : x <= Max(S)
<1>. DEFINE T == {F - x : x \in S}
<1>1. T \subseteq Nat /\ T # {}
  <2>1. ASSUME NEW x \in S PROVE F - x \in Nat
    <3>1. x \in Int /\ -F <= x /\ x <= F
      OBVIOUS
    <3>. QED  BY <3>1
  <2>2. PICK x \in S : TRUE
    OBVIOUS
  <2>3. F - x \in T
    OBVIOUS
  <2>. QED  BY <2>1, <2>3
<1>2. PICK m \in T : \A y \in T : ~(<<y, m>> \in OpToRel(<, Nat))
  BY <1>1, WFMin, NatLessThanWellFounded, Zenon
<1>3. \A y \in T : ~(y < m)
  <2>. HIDE DEF T
  <2>. QED  BY <1>1, <1>2 DEF OpToRel
<1>4. PICK x \in S : m = F - x
  OBVIOUS
<1>5. ASSUME NEW y \in S PROVE x >= y
  <2>1. F - y \in T /\ x \in Int /\ y \in Int
    OBVIOUS
  <2>2. ~(F - y < m)
    BY <1>3, <2>1
  <2>. QED  BY <1>4, <2>1, <2>2
<1>. QED  BY <1>5 DEF Max

Around(F) == [Index -> [r : [Axes -> -F .. F], exists : BOOLEAN, grounded : BOOLEAN]]

\* The limits of a stash are a box that holds all of it.
LEMMA LimitsFacts ==
  ASSUME NEW F \in Nat, NEW s \in Around(F)
  PROVE  /\ Limits(s) \in Box
         /\ \A p \in Index, a \in Axes :
              Limits(s).lo[a] <= s[p].r[a] /\ s[p].r[a] <= Limits(s).hi[a]
<1>1. ASSUME NEW a \in Axes
      PROVE  /\ Min(Coords(s, a)) \in Int /\ Max(Coords(s, a)) \in Int
             /\ \A p \in Index : /\ Min(Coords(s, a)) <= s[p].r[a]
                                 /\ s[p].r[a] <= Max(Coords(s, a))
  <2>1. Coords(s, a) \in SUBSET (-F .. F)
    BY DEF Coords, Around
  <2>2. 0 \in Index
    <3>1. ashN * Records >= 1
      <4>1. ashN \in Nat \ {0} /\ Records \in Nat \ {0}
        BY GridAssumption
      <4>. QED  BY <4>1
    <3>2. ashN * Records \in Nat
      BY GridAssumption
    <3>. QED  BY <3>1, <3>2 DEF Index
  <2>3. Coords(s, a) # {}
    BY <2>2 DEF Coords
  <2>4. Min(Coords(s, a)) \in Coords(s, a) /\ \A x \in Coords(s, a) : Min(Coords(s, a)) <= x
    BY <2>1, <2>3, LeastExists
  <2>5. Max(Coords(s, a)) \in Coords(s, a) /\ \A x \in Coords(s, a) : x <= Max(Coords(s, a))
    BY <2>1, <2>3, GreatestExists
  <2>6. \A p \in Index : s[p].r[a] \in Coords(s, a)
    BY DEF Coords
  <2>. QED  BY <2>1, <2>4, <2>5, <2>6
<1>2. 0 \in Index
  <2>1. ashN \in Nat \ {0} /\ Records \in Nat \ {0}
    BY GridAssumption
  <2>2. ashN * Records >= 1 /\ ashN * Records \in Nat
    BY <2>1
  <2>. QED  BY <2>2 DEF Index
<1>3. \A a \in Axes : s[0].r[a] \in Int
  BY <1>2 DEF Around
<1>4. ASSUME NEW a \in Axes
      PROVE  Min(Coords(s, a)) <= Max(Coords(s, a))
  BY <1>1, <1>2, <1>3
<1>. QED  BY <1>1, <1>4 DEF Limits, Box

\* The grid of a box starts at or below its lower limits and reaches its upper.
LEMMA GridFacts ==
  ASSUME NEW box \in Box
  PROVE  /\ Origin(box) \in [Axes -> Int] /\ SizeOf(box) \in [Axes -> Nat]
         /\ \A a \in Axes : /\ Origin(box)[a] <= box.lo[a]
                            /\ box.hi[a] <= Origin(box)[a] + SizeOf(box)[a] * d(a)
<1>. SUFFICES ASSUME NEW a \in Axes
              PROVE  /\ Origin(box)[a] \in Int /\ SizeOf(box)[a] \in Nat
                     /\ Origin(box)[a] <= box.lo[a]
                     /\ box.hi[a] <= Origin(box)[a] + SizeOf(box)[a] * d(a)
  BY DEF Origin, SizeOf
<1>. DEFINE by == d(a)
            u  == box.lo[a] \div by
            v  == (-box.hi[a]) \div by
<1>1. by \in Nat \ {0}
  BY StepPositive
<1>2. box.lo[a] \in Int /\ box.hi[a] \in Int /\ box.lo[a] <= box.hi[a]
  BY DEF Box
<1>. HIDE DEF by
<1>3. u \in Int /\ u * by <= box.lo[a] /\ box.lo[a] < u * by + by
  BY <1>1, <1>2, DivFacts
<1>4. v \in Int /\ v * by <= -box.hi[a] /\ -box.hi[a] < v * by + by
  <2>1. -box.hi[a] \in Int
    BY <1>2
  <2>. QED  BY <1>1, <2>1, DivFacts
<1>5. Origin(box)[a] = u * by
  BY DEF Origin, RoundDown, by
<1>6. SizeOf(box)[a] = (-(v * by) - u * by) \div by
  BY DEF SizeOf, RoundUp, RoundDown, by
<1>. HIDE DEF u, v
<1>7. -(v * by) - u * by = (-v - u) * by
  BY <1>1, <1>3, <1>4
<1>8. ((-v - u) * by) \div by = -v - u
  <2>1. -v - u \in Int /\ (-v - u) * by \in Int /\ (-v - u + 1) * by = (-v - u) * by + by
    BY <1>1, <1>3, <1>4
  <2>. QED  BY <1>1, <2>1, DivIs
<1>9. u <= -v
  <2>1. u * by <= (-v) * by
    <3>1. (-v) * by = -(v * by) /\ v * by \in Int /\ u * by \in Int
      BY <1>1, <1>3, <1>4
    <3>. QED  BY <1>2, <1>3, <1>4, <3>1
  <2>2. u * by < (-v) * by + by
    BY <1>1, <1>3, <1>4, <2>1
  <2>. QED  BY <1>1, <1>3, <1>4, <2>2, Factors
<1>10. u * by + (-v - u) * by = -(v * by)
  BY <1>1, <1>3, <1>4
<1>11. SizeOf(box)[a] = -v - u
  BY <1>6, <1>7, <1>8
<1>12. u * by \in Int /\ v * by \in Int
  BY <1>1, <1>3, <1>4
<1>13. box.hi[a] <= Origin(box)[a] + SizeOf(box)[a] * by
  BY <1>2, <1>4, <1>5, <1>10, <1>11, <1>12
<1>. QED  BY <1>3, <1>4, <1>5, <1>9, <1>11, <1>12, <1>13 DEF by

-----------------------------------------------------------------------------
(* What "%f" does to a box.                                                *)

\* A limit is printed within half of the last decimal.
LEMMA PrintedFacts ==
  ASSUME NEW v \in Int
  PROVE  /\ Printed(v) \in Int
         /\ 2 * v - Decimal <= 2 * Printed(v) /\ 2 * Printed(v) <= 2 * v + Decimal
<1>. DEFINE w == 2 * v + Decimal
            by == 2 * Decimal
            q == w \div by
<1>1. w \in Int /\ by \in Nat \ {0} /\ Decimal \in Nat \ {0}
  BY GridAssumption
<1>2. q \in Int /\ q * by <= w /\ w < q * by + by
  <2>. HIDE DEF w, by
  <2>. QED  BY <1>1, DivFacts
<1>3. Printed(v) = q * Decimal
  BY DEF Printed
<1>. HIDE DEF q
<1>4. q * Decimal \in Int /\ q * by = 2 * (q * Decimal)
  BY <1>1, <1>2
<1>. QED  BY <1>1, <1>2, <1>3, <1>4

\* Limits that are in order stay so.
LEMMA PrintedOrder ==
  ASSUME NEW u \in Int, NEW v \in Int, u <= v
  PROVE  Printed(u) <= Printed(v)
<1>. DEFINE x == 2 * u + Decimal
            y == 2 * v + Decimal
            by == 2 * Decimal
            p == x \div by
            q == y \div by
<1>1. x \in Int /\ y \in Int /\ x <= y /\ by \in Nat \ {0} /\ Decimal \in Nat \ {0}
  BY GridAssumption
<1>2. /\ p \in Int /\ p * by <= x /\ x < p * by + by
      /\ q \in Int /\ q * by <= y /\ y < q * by + by
  <2>. HIDE DEF x, y, by
  <2>. QED  BY <1>1, DivFacts
<1>3. Printed(u) = p * Decimal /\ Printed(v) = q * Decimal
  BY DEF Printed
<1>. HIDE DEF x, y, by, p, q
<1>4. p <= q
  <2>1. p * by < q * by + by
    <3>1. p * by \in Int /\ q * by \in Int
      BY <1>1, <1>2
    <3>. QED  BY <1>1, <1>2, <3>1
  <2>. QED  BY <1>1, <1>2, <2>1, Factors
<1>5. p * Decimal <= q * Decimal
  <2>1. PICK e \in Nat : q = p + e
    <3>1. q - p \in Nat /\ q = p + (q - p)
      BY <1>2, <1>4
    <3>. QED  BY <3>1
  <2>2. q * Decimal = p * Decimal + e * Decimal /\ e * Decimal \in Nat /\ p * Decimal \in Int
    BY <1>1, <1>2, <2>1
  <2>. QED  BY <2>2
<1>. QED  BY <1>3, <1>5

LEMMA PrintedBoxFacts ==
  ASSUME NEW b \in Box
  PROVE  PrintedBox(b) \in Box
<1>1. b.lo \in [Axes -> Int] /\ b.hi \in [Axes -> Int] /\ \A a \in Axes : b.lo[a] <= b.hi[a]
  BY DEF Box
<1>2. ASSUME NEW a \in Axes
      PROVE  /\ Printed(b.lo[a]) \in Int /\ Printed(b.hi[a]) \in Int
             /\ Printed(b.lo[a]) <= Printed(b.hi[a])
  BY <1>1, PrintedFacts, PrintedOrder
<1>. QED  BY <1>2 DEF PrintedBox, Box

\* A steady limit is in the same cell as the printed one, and not on its faces.
LEMMA SteadyFacts ==
  ASSUME NEW v \in Int, NEW a \in Axes, NEW w \in {v, Printed(v)}, Steady(v, w, a)
  PROVE  RoundDown(w, d(a)) = RoundDown(v, d(a)) /\ RoundUp(w, d(a)) = RoundUp(v, d(a))
<1>1. CASE w = v
  BY <1>1
<1>2. CASE w # v
  <2>. DEFINE by == d(a)
              m == v % by
              q == v \div by
  <2>1. by \in Nat \ {0} /\ Decimal \in Nat \ {0}
    BY StepPositive, GridAssumption
  <2>2. 2 * m > Decimal /\ 2 * (by - m) > Decimal
    BY <1>2 DEF Steady
  <2>3. w \in Int /\ 2 * v - Decimal <= 2 * w /\ 2 * w <= 2 * v + Decimal
    BY <1>2, PrintedFacts
  <2>. HIDE DEF by
  <2>4. q \in Int /\ m \in Int /\ q * by \in Int /\ v = q * by + m
    BY <2>1
  <2>. HIDE DEF m, q
  <2>5. /\ q * by < w /\ w < q * by + by
        /\ q * by < v /\ v < q * by + by
    BY <2>1, <2>2, <2>3, <2>4
  <2>6. (q + 1) * by = q * by + by /\ (-q - 1) * by = -(q * by) - by
        /\ (-q - 1 + 1) * by = -(q * by) /\ -q - 1 \in Int
    BY <2>1, <2>4
  <2>7. v \div by = q /\ w \div by = q
    BY <2>1, <2>3, <2>4, <2>5, <2>6, DivIs
  <2>8. (-v) \div by = -q - 1 /\ (-w) \div by = -q - 1
    <3>1. -v \in Int /\ -w \in Int
      BY <2>3
    <3>2. /\ (-q - 1) * by <= -v /\ -v < (-q - 1 + 1) * by
          /\ (-q - 1) * by <= -w /\ -w < (-q - 1 + 1) * by
      <4>. DEFINE x == q * by
                  y == (-q - 1) * by
                  z == (-q - 1 + 1) * by
      <4>1. /\ x \in Int /\ y = -x - by /\ z = -x /\ v \in Int /\ w \in Int
            /\ x < w /\ w < x + by /\ x < v /\ v < x + by
        BY <2>3, <2>4, <2>5, <2>6
      <4>. HIDE DEF x, y, z
      <4>2. y <= -v /\ -v < z /\ y <= -w /\ -w < z
        BY <2>1, <4>1
      <4>. QED  BY <4>2 DEF x, y, z
    <3>. QED  BY <2>1, <2>6, <3>1, <3>2, DivIs
  <2>. QED  BY <2>7, <2>8 DEF RoundDown, RoundUp, by
<1>. QED  BY <1>1, <1>2

-----------------------------------------------------------------------------
(* The flat index.                                                         *)

\* A digit and a number of digits make a number.
LEMMA DigitRange ==
  ASSUME NEW n \in Nat, NEW m \in Nat, NEW i \in 0 .. n - 1, NEW q \in 0 .. m - 1
  PROVE  i + n * q \in 0 .. n * m - 1
<1>1. n * m = n * q + n * (m - q)
  OBVIOUS
<1>2. PICK e \in Nat : m - q = 1 + e
  <2>1. m - q - 1 \in Nat /\ m - q = 1 + (m - q - 1)
    OBVIOUS
  <2>. QED  BY <2>1
<1>3. n * (m - q) = n + n * e /\ n * e \in Nat /\ n * q \in Nat /\ n * m \in Nat
  BY <1>2
<1>. QED  BY <1>1, <1>3

\* The index read as a number with one digit per axis.
LEMMA CellHorner ==
  ASSUME size \in [Axes -> Nat], NEW b \in [Axes -> Int], NEW t \in Int, NEW k \in Kinds
  PROVE  Cell(k, b, t) = b["x"] + size["x"] *
           (b["y"] + size["y"] * (IF k = "fo" THEN t ELSE b["z"] + size["z"] * t))
<1>1. /\ size["x"] \in Nat /\ size["y"] \in Nat /\ size["z"] \in Nat
      /\ b["x"] \in Int /\ b["y"] \in Int /\ b["z"] \in Int
  BY DEF Axes
<1>2. CASE k = "fo"
  <2>1. Cell(k, b, t) = b["x"] + b["y"] * size["x"] + t * size["x"] * size["y"]
    BY <1>2 DEF Cell
  <2>2. b["x"] + b["y"] * size["x"] + t * size["x"] * size["y"]
          = b["x"] + size["x"] * (b["y"] + size["y"] * t)
    BY <1>1
  <2>. QED  BY <1>2, <2>1, <2>2
<1>3. CASE k # "fo"
  <2>1. Cell(k, b, t) = b["x"] + b["y"] * size["x"]
          + (b["z"] * size["x"] * size["y"] + t * size["x"] * size["y"] * size["z"])
    BY <1>3 DEF Cell
  <2>2. b["x"] + b["y"] * size["x"]
          + (b["z"] * size["x"] * size["y"] + t * size["x"] * size["y"] * size["z"])
          = b["x"] + size["x"] * (b["y"] + size["y"] * (b["z"] + size["z"] * t))
    BY <1>1
  <2>. QED  BY <1>3, <2>1, <2>2
<1>. QED  BY <1>2, <1>3

\* The index of a bin on the grid is inside the array: the last conjunct of the
\* "sanity check" never decides.
LEMMA CellRange ==
  ASSUME size \in [Axes -> Nat], NEW b \in [Axes -> Int], OnGrid(b),
         NEW t \in 0 .. Records - 1, NEW k \in Kinds
  PROVE  Cell(k, b, t) \in CellsOf(k, size)
<1>. DEFINE X == size["x"]
            Y == size["y"]
            Z == size["z"]
            M == IF k = "fo" THEN Records ELSE Z * Records
            q == IF k = "fo" THEN t ELSE b["z"] + Z * t
<1>1. /\ X \in Nat /\ Y \in Nat /\ Z \in Nat /\ Records \in Nat
      /\ b["x"] \in 0 .. X - 1 /\ b["y"] \in 0 .. Y - 1 /\ b["z"] \in 0 .. Z - 1
  BY GridAssumption DEF Axes, OnGrid
<1>2. Cell(k, b, t) = b["x"] + X * (b["y"] + Y * q)
  BY CellHorner
<1>3. M \in Nat /\ Y * M \in Nat /\ X * (Y * M) \in Nat
  BY <1>1
<1>. HIDE DEF X, Y, Z
<1>4. q \in 0 .. M - 1
  <2>1. b["z"] + Z * t \in 0 .. Z * Records - 1
    BY <1>1, DigitRange
  <2>. QED  BY <2>1
<1>. HIDE DEF q, M
<1>5. b["y"] + Y * q \in 0 .. Y * M - 1
  BY <1>1, <1>3, <1>4, DigitRange
<1>6. b["x"] + X * (b["y"] + Y * q) \in 0 .. X * (Y * M) - 1
  BY <1>1, <1>3, <1>5, DigitRange
<1>7. CellsOf(k, size) = 0 .. X * (Y * M) - 1
  <2>1. CASE k = "fo"
    <3>1. CellsOf(k, size) = 0 .. X * Y * Records - 1 /\ M = Records
      BY <2>1 DEF CellsOf, X, Y, M
    <3>2. X * Y * Records = X * (Y * Records)
      BY <1>1
    <3>. QED  BY <3>1, <3>2
  <2>2. CASE k = "air"
    <3>1. CellsOf(k, size) = 0 .. X * Y * Records * Z - 1 /\ M = Z * Records
      BY <2>2 DEF CellsOf, X, Y, Z, M
    <3>2. X * Y * Records * Z = X * (Y * (Z * Records))
      BY <1>1
    <3>. QED  BY <3>1, <3>2
  <2>. QED  BY <2>1, <2>2 DEF Kinds
<1>. QED  BY <1>2, <1>6, <1>7

\* No two cells of an array share an index.
LEMMA CellInjective ==
  ASSUME size \in [Axes -> Nat], NEW b \in [Axes -> Int], NEW f \in [Axes -> Int],
         OnGrid(b), OnGrid(f), NEW t \in Int, NEW u \in Int, NEW k \in Kinds,
         Cell(k, b, t) = Cell(k, f, u)
  PROVE  /\ b["x"] = f["x"] /\ b["y"] = f["y"] /\ t = u
         /\ k = "air" => b["z"] = f["z"]
<1>. DEFINE X == size["x"]
            Y == size["y"]
            Z == size["z"]
            p == IF k = "fo" THEN t ELSE b["z"] + Z * t
            q == IF k = "fo" THEN u ELSE f["z"] + Z * u
<1>1. /\ X \in Nat /\ Y \in Nat /\ Z \in Nat
      /\ b["x"] \in 0 .. X - 1 /\ b["y"] \in 0 .. Y - 1 /\ b["z"] \in 0 .. Z - 1
      /\ f["x"] \in 0 .. X - 1 /\ f["y"] \in 0 .. Y - 1 /\ f["z"] \in 0 .. Z - 1
  BY DEF Axes, OnGrid
<1>2. Cell(k, b, t) = b["x"] + X * (b["y"] + Y * p)
  BY CellHorner
<1>3. Cell(k, f, u) = f["x"] + X * (f["y"] + Y * q)
  BY CellHorner
<1>. HIDE DEF X, Y, Z
<1>4. p \in Int /\ q \in Int
  BY <1>1
<1>. HIDE DEF p, q
<1>5. b["y"] + Y * p \in Int /\ f["y"] + Y * q \in Int
  BY <1>1, <1>4
<1>6. b["x"] = f["x"] /\ b["y"] + Y * p = f["y"] + Y * q
  <2>. DEFINE P == b["y"] + Y * p
              Q == f["y"] + Y * q
  <2>1. b["x"] + X * P = f["x"] + X * Q /\ P \in Int /\ Q \in Int
    BY <1>2, <1>3, <1>5
  <2>. DEFINE i == b["x"]
              j == f["x"]
  <2>3. i + X * P = j + X * Q /\ i \in 0 .. X - 1 /\ j \in 0 .. X - 1 /\ X \in Nat
    BY <1>1, <2>1
  <2>. HIDE DEF P, Q, i, j
  <2>4. i = j /\ P = Q
    BY <2>1, <2>3, Digits
  <2>2. b["x"] = f["x"] /\ P = Q
    BY <2>4 DEF i, j
  <2>. QED  BY <2>2 DEF P, Q
<1>7. b["y"] = f["y"] /\ p = q
  BY <1>1, <1>4, <1>6, Digits
<1>8. CASE k = "fo"
  BY <1>6, <1>7, <1>8 DEF p, q
<1>9. CASE k = "air"
  <2>1. b["z"] + Z * t = f["z"] + Z * u
    BY <1>7, <1>9 DEF p, q
  <2>2. b["z"] = f["z"] /\ t = u
    BY <1>1, <2>1, Digits
  <2>. QED  BY <1>6, <1>7, <2>2
<1>. QED  BY <1>8, <1>9 DEF Kinds

-----------------------------------------------------------------------------
(* Cells and copies.                                                       *)

GridTypes ==
  /\ rec \in [Index -> [r : [Axes -> Int], exists : BOOLEAN, grounded : BOOLEAN]]
  /\ min \in [Axes -> Int] /\ size \in [Axes -> Nat]

LEMMA BinFacts ==
  ASSUME GridTypes, NEW p \in Index
  PROVE  Bin(rec[p].r) \in [Axes -> Int]
<1>1. \A a \in Axes : rec[p].r[a] - min[a] \in Int /\ d(a) \in Nat \ {0}
  BY StepPositive DEF GridTypes
<1>2. \A a \in Axes : (rec[p].r[a] - min[a]) \div d(a) \in Int
  BY <1>1, DivFacts
<1>. QED  BY <1>2 DEF Bin

\* The copies of record t, and no others, have time index t.
LEMMA RecordFacts ==
  ASSUME NEW p \in Index, NEW t \in Int
  PROVE  /\ tIdx(p) \in 0 .. Records - 1
         /\ tIdx(p) = t <=> t * ashN <= p /\ p < (t + 1) * ashN
<1>. DEFINE w == tIdx(p)
<1>1. ashN \in Nat \ {0} /\ Records \in Nat /\ ashN * Records \in Nat
  BY GridAssumption
<1>2. p \in Int /\ 0 <= p /\ p < ashN * Records
  BY <1>1 DEF Index
<1>3. w \in Int /\ w * ashN <= p /\ p < w * ashN + ashN
  BY <1>1, <1>2, DivFacts DEF tIdx
<1>4. tIdx(p) = t <=> t * ashN <= p /\ p < (t + 1) * ashN
  BY <1>1, <1>2, DivIs DEF tIdx
<1>. HIDE DEF w
<1>5. 0 <= w
  <2>1. 0 * ashN < w * ashN + ashN
    BY <1>1, <1>2, <1>3
  <2>. QED  BY <1>1, <1>3, <2>1, Factors
<1>6. w <= Records - 1
  <2>1. (Records - 1) * ashN + ashN = ashN * Records /\ w * ashN \in Int
    BY <1>1, <1>3
  <2>2. w * ashN < (Records - 1) * ashN + ashN
    BY <1>1, <1>2, <1>3, <2>1
  <2>. QED  BY <1>1, <1>3, <2>2, Factors
<1>. QED  BY <1>1, <1>3, <1>4, <1>5, <1>6 DEF w

\* On each axis, the bins of the grid are the positions of the grid.
LEMMA BinRange ==
  ASSUME GridTypes, NEW p \in Index, NEW a \in Axes
  PROVE  0 <= Bin(rec[p].r)[a] /\ Bin(rec[p].r)[a] < size[a]
           <=> /\ min[a] <= rec[p].r[a]
               /\ rec[p].r[a] < min[a] + size[a] * d(a)
<1>. DEFINE r == rec[p].r
            g == Bin(r)
<1>1. d(a) \in Nat \ {0} /\ r[a] \in Int /\ min[a] \in Int /\ size[a] \in Nat
  BY StepPositive DEF GridTypes
<1>. DEFINE w == g[a]
            s == size[a]
            v == r[a] - min[a]
            by == d(a)
<1>2. w \in Int /\ w * by <= v /\ v < w * by + by
  <2>1. w = v \div by /\ v \in Int /\ by \in Nat \ {0}
    BY <1>1 DEF Bin
  <2>. HIDE DEF w, v, by
  <2>. QED  BY <2>1, DivFacts
<1>3. v \in Int /\ s \in Nat /\ by \in Nat \ {0}
  BY <1>1
<1>. HIDE DEF w, v, s, by
<1>4. 0 <= w <=> 0 <= v
  <2>1. ASSUME 0 <= v PROVE 0 <= w
    <3>1. 0 * by < w * by + by
      BY <1>2, <1>3, <2>1
    <3>. QED  BY <1>2, <1>3, <3>1, Factors
  <2>2. ASSUME 0 <= w PROVE 0 <= v
    <3>1. w * by \in Nat
      BY <1>2, <1>3, <2>2
    <3>. QED  BY <1>2, <1>3, <3>1
  <2>. QED  BY <2>1, <2>2
<1>5. w < s <=> v < s * by
  <2>1. ASSUME v < s * by PROVE w < s
    <3>1. s * by = (s - 1) * by + by /\ w * by \in Int /\ s * by \in Int
      BY <1>2, <1>3
    <3>2. w * by < (s - 1) * by + by
      BY <1>2, <1>3, <2>1, <3>1
    <3>3. w <= s - 1
      BY <1>2, <1>3, <3>2, Factors
    <3>. QED  BY <1>2, <1>3, <3>3
  <2>2. ASSUME w < s, ~(v < s * by) PROVE FALSE
    <3>1. s * by \in Int /\ w * by \in Int
      BY <1>2, <1>3
    <3>2. s * by < w * by + by
      BY <1>2, <1>3, <2>2, <3>1
    <3>3. s <= w
      BY <1>2, <1>3, <3>2, Factors
    <3>. QED  BY <1>2, <1>3, <2>2, <3>3
  <2>. QED  BY <2>1, <2>2
<1>6. s * by \in Int
  BY <1>3
<1>7. r[a] = v + min[a]
  BY <1>1 DEF v
<1>8. /\ min[a] <= r[a] <=> 0 <= v
      /\ r[a] < min[a] + s * by <=> v < s * by
  <2>1. min[a] \in Int
    BY <1>1
  <2>. QED  BY <1>3, <1>6, <1>7, <2>1
<1>. QED  BY <1>4, <1>5, <1>8 DEF w, s, by, g, r

\* A copy is inside a cell exactly when it is counted, at that cell's bin.
LEMMA WithinIsCounted ==
  ASSUME GridTypes, NEW p \in Index, NEW k \in Kinds, NEW t \in 0 .. Records - 1,
         NEW b \in [Axes -> Int], OnGrid(b)
  PROVE  Within(p, k, b, t)
           <=> /\ Counted(p) /\ KindOf(p) = k /\ tIdx(p) = t
               /\ \A a \in Axes : (k = "fo" /\ a = "z") \/ Bin(rec[p].r)[a] = b[a]
<1>. DEFINE r == rec[p].r
            g == Bin(r)
<1>1. g \in [Axes -> Int]
  BY BinFacts
<1>2. tIdx(p) \in 0 .. Records - 1 /\ (tIdx(p) = t <=> t * ashN <= p /\ p < (t + 1) * ashN)
  BY RecordFacts
<1>3. ASSUME NEW a \in Axes, NEW q \in Int
      PROVE  g[a] = q <=> min[a] + q * d(a) <= r[a] /\ r[a] < min[a] + (q + 1) * d(a)
  <2>1. d(a) \in Nat \ {0} /\ r[a] \in Int /\ min[a] \in Int
    BY StepPositive DEF GridTypes
  <2>2. g[a] = (r[a] - min[a]) \div d(a)
    BY DEF Bin
  <2>3. g[a] = q <=> q * d(a) <= r[a] - min[a] /\ r[a] - min[a] < (q + 1) * d(a)
    <3>. DEFINE v == r[a] - min[a]
    <3>1. v \in Int /\ g[a] = v \div d(a)
      BY <2>1, <2>2
    <3>. HIDE DEF v
    <3>2. v \div d(a) = q <=> q * d(a) <= v /\ v < (q + 1) * d(a)
      BY <2>1, <3>1, DivIs
    <3>. QED  BY <3>1, <3>2 DEF v
  <2>4. q * d(a) \in Int /\ (q + 1) * d(a) \in Int
    BY <2>1
  <2>. QED  BY <2>1, <2>3, <2>4
<1>4. ASSUME NEW a \in Axes
      PROVE  0 <= g[a] /\ g[a] < size[a]
               <=> min[a] + 0 * d(a) <= r[a] /\ r[a] < min[a] + size[a] * d(a)
  <2>1. 0 * d(a) = 0 /\ min[a] \in Int
    BY StepPositive DEF GridTypes
  <2>. QED  BY <2>1, BinRange
<1>5. ASSUME Within(p, k, b, t)
      PROVE  /\ Counted(p) /\ KindOf(p) = k /\ tIdx(p) = t
             /\ \A a \in Axes : (k = "fo" /\ a = "z") \/ g[a] = b[a]
  <2>1. rec[p].exists /\ KindOf(p) = k /\ tIdx(p) = t
    BY <1>2, <1>5 DEF Within
  <2>2. ASSUME NEW a \in Axes, ~(k = "fo" /\ a = "z") PROVE g[a] = b[a]
    <3>1. min[a] + b[a] * d(a) <= r[a] /\ r[a] < min[a] + (b[a] + 1) * d(a)
      BY <1>5, <2>2 DEF Within
    <3>. QED  BY <1>3, <3>1
  <2>3. ASSUME NEW a \in Axes PROVE 0 <= g[a] /\ g[a] < size[a]
    <3>1. CASE k = "fo" /\ a = "z"
      <4>1. min[a] + 0 * d(a) <= r[a] /\ r[a] < min[a] + size[a] * d(a)
        BY <1>5, <3>1 DEF Within
      <4>. QED  BY <1>4, <4>1
    <3>2. CASE ~(k = "fo" /\ a = "z")
      BY <2>2, <3>2 DEF OnGrid
    <3>. QED  BY <3>1, <3>2
  <2>4. OnGrid(g)
    BY <2>3 DEF OnGrid
  <2>5. Cell(KindOf(p), g, tIdx(p)) \in CellsOf(KindOf(p), size)
    BY <1>1, <2>1, <2>4, CellRange DEF GridTypes
  <2>. QED  BY <2>1, <2>2, <2>4, <2>5 DEF Counted
<1>6. ASSUME Counted(p), KindOf(p) = k, tIdx(p) = t,
             \A a \in Axes : (k = "fo" /\ a = "z") \/ g[a] = b[a]
      PROVE  Within(p, k, b, t)
  <2>1. rec[p].exists /\ t * ashN <= p /\ p < (t + 1) * ashN
    BY <1>2, <1>6 DEF Counted
  <2>2. OnGrid(g)
    BY <1>6 DEF Counted
  <2>3. ASSUME NEW a \in Axes, k = "fo", a = "z"
        PROVE  min[a] + 0 * d(a) <= r[a] /\ r[a] < min[a] + size[a] * d(a)
    BY <1>4, <2>2 DEF OnGrid
  <2>4. ASSUME NEW a \in Axes, ~(k = "fo" /\ a = "z")
        PROVE  min[a] + b[a] * d(a) <= r[a] /\ r[a] < min[a] + (b[a] + 1) * d(a)
    BY <1>3, <1>6, <2>4
  <2>. QED  BY <1>6, <2>1, <2>3, <2>4 DEF Within
<1>. QED  BY <1>5, <1>6

-----------------------------------------------------------------------------
(* Types, and the grid all passes share.                                   *)

\* gridBox is the box of the first pass, or that box printed.
HomeInv ==
  /\ gridBox \in Box /\ home.box \in Box
  /\ home.min = Origin(home.box) /\ home.size = SizeOf(home.box)
  /\ gridBox = home.box \/ gridBox = PrintedBox(home.box)

\* The grid of a pass is that of the first, or that of gridBox.
OwnInv ==
  \/ min = home.min /\ size = home.size
  \/ wgt > 0 /\ min = Origin(gridBox) /\ size = SizeOf(gridBox)

\* The averages are as large as the grid of the first pass.
ArraysInv ==
  \A k \in Kinds : /\ avg[k] \in [CellsOf(k, home.size) -> Nat]
                   /\ total[k] \in [CellsOf(k, home.size) -> Nat]

GridInv ==
  /\ pc # "done" => wgt <= Repeat
  /\ pc = "limits" => rec \in Around(Far)
  /\ pc = "count" => rec \in Around(Far + Circle)
  /\ DOMAIN conc = Kinds
  /\ pc # "limits" \/ wgt > 0 => HomeInv
  /\ pc # "limits" => OwnInv
  /\ wgt > 0 => ArraysInv
  /\ pc = "outside" => size # home.size

LEMMA UnwrappedFacts ==
  ASSUME NEW s \in Around(Far)
  PROVE  Unwrapped(s) \in Around(Far + Circle)
<1>1. Far \in Nat /\ Circle \in Nat
  BY GridAssumption
<1>2. ASSUME NEW p \in Index
      PROVE  /\ s[p] \in [r : [Axes -> -(Far + Circle) .. Far + Circle],
                          exists : BOOLEAN, grounded : BOOLEAN]
             /\ [s[p] EXCEPT !.r["x"] = West(@)]
                  \in [r : [Axes -> -(Far + Circle) .. Far + Circle],
                       exists : BOOLEAN, grounded : BOOLEAN]
  <2>1. s[p] \in [r : [Axes -> -Far .. Far], exists : BOOLEAN, grounded : BOOLEAN]
    BY DEF Around
  <2>2. \A a \in Axes : s[p].r[a] \in -(Far + Circle) .. Far + Circle
    BY <1>1, <2>1
  <2>3. s[p].r["x"] \in -Far .. Far
    BY <2>1 DEF Axes
  <2>4. West(s[p].r["x"]) \in -(Far + Circle) .. Far + Circle
    BY <1>1, <2>3 DEF West
  <2>. QED  BY <2>1, <2>2, <2>4
<1>3. s \in Around(Far + Circle)
  BY <1>2 DEF Around
<1>4. [p \in Index |-> [s[p] EXCEPT !.r["x"] = West(@)]] \in Around(Far + Circle)
  BY <1>2 DEF Around
<1>. QED  BY <1>3, <1>4 DEF Unwrapped

LEMMA StashFacts ==
  ASSUME NEW s \in Stashes
  PROVE  s \in Around(Far)
  BY GridAssumption DEF Around, Copy

LEMMA AroundTypes ==
  ASSUME NEW F \in Nat, NEW s \in Around(F)
  PROVE  s \in [Index -> [r : [Axes -> Int], exists : BOOLEAN, grounded : BOOLEAN]]
  BY DEF Around

LEMMA ZeroTypes ==
  ASSUME NEW sz
  PROVE  /\ DOMAIN ZeroesOf(sz) = Kinds
         /\ \A k \in Kinds : ZeroesOf(sz)[k] \in [CellsOf(k, sz) -> Nat]
  BY DEF ZeroesOf

LEMMA InitGrid ==
  ASSUME Init
  PROVE  TypeOK /\ GridInv
<1>1. rec \in Around(Far) /\ Far \in Nat
  BY StashFacts, GridAssumption DEF Init
<1>2. rec \in [Index -> [r : [Axes -> Int], exists : BOOLEAN, grounded : BOOLEAN]]
  BY <1>1, AroundTypes
<1>3. gridBox \in Box \cup {NoBox}
  BY GridAssumption DEF Init
<1>4. DOMAIN conc = Kinds /\ \A k \in Kinds : conc[k] \in [CellsOf(k, size) -> Nat]
  BY ZeroTypes DEF Init
<1>5. ashN * Records \in Nat /\ Repeat \in Nat
  BY GridAssumption
<1>6. TypeOK
  BY <1>2, <1>3, <1>4, <1>5 DEF Init, TypeOK
<1>7. GridInv
  <2>1. pc = "limits" /\ wgt = 0 /\ ~(wgt > 0) /\ wgt <= Repeat
    BY <1>5 DEF Init
  <2>. QED  BY <1>1, <1>4, <2>1 DEF GridInv
<1>. QED  BY <1>6, <1>7

\* What a pass begins with.
LEMMA MakeGridFacts ==
  ASSUME TypeOK, GridInv, MakeGrid
  PROVE  /\ rec' \in Around(Far + Circle) /\ Used(rec') \in Box
         /\ min' = Origin(Used(rec')) /\ size' = SizeOf(Used(rec'))
         /\ wgt > 0 => /\ HomeInv /\ Used(rec') = gridBox
                       /\ gridBox' = gridBox /\ home' = home
         /\ ~(wgt > 0) =>
              /\ home' = [min |-> min', size |-> size', box |-> Used(rec')]
              /\ gridBox' = Used(rec') \/ gridBox' = PrintedBox(Used(rec'))
<1>1. rec' \in Around(Far + Circle) /\ Far + Circle \in Nat
  BY UnwrappedFacts, GridAssumption DEF MakeGrid, GridInv
<1>2. Limits(rec') \in Box
  BY <1>1, LimitsFacts
<1>3. Used(rec') = IF gridBox = NoBox THEN Limits(rec') ELSE gridBox
  BY DEF Used
<1>4. gridBox' = IF gridBox = NoBox THEN PrintedBox(Limits(rec')) ELSE gridBox
  BY DEF MakeGrid, Kept
<1>5. Used(rec') \in Box
  BY <1>2, <1>3 DEF TypeOK
<1>6. /\ min' = Origin(Used(rec')) /\ size' = SizeOf(Used(rec'))
      /\ home' = IF wgt = 0 THEN [min |-> min', size |-> size', box |-> Used(rec')]
                 ELSE home
  BY DEF MakeGrid
<1>7. wgt \in Nat
  BY GridAssumption DEF TypeOK
<1>8. ASSUME wgt > 0
      PROVE  HomeInv /\ Used(rec') = gridBox /\ gridBox' = gridBox /\ home' = home
  <2>1. HomeInv /\ gridBox # NoBox
    BY <1>8, GridAssumption DEF GridInv, HomeInv
  <2>. QED  BY <1>3, <1>4, <1>6, <1>7, <1>8, <2>1
<1>9. ASSUME ~(wgt > 0)
      PROVE  /\ home' = [min |-> min', size |-> size', box |-> Used(rec')]
             /\ gridBox' = Used(rec') \/ gridBox' = PrintedBox(Used(rec'))
  <2>1. wgt = 0
    BY <1>7, <1>9
  <2>. QED  BY <1>3, <1>4, <1>6, <2>1
<1>. QED  BY <1>1, <1>5, <1>6, <1>8, <1>9

LEMMA MakeGridStep ==
  ASSUME TypeOK, GridInv, MakeGrid
  PROVE  TypeOK' /\ GridInv'
<1>. DEFINE u == Used(rec')
<1>1. /\ rec' \in Around(Far + Circle) /\ u \in Box
      /\ min' = Origin(u) /\ size' = SizeOf(u)
      /\ wgt > 0 => HomeInv /\ u = gridBox /\ gridBox' = gridBox /\ home' = home
      /\ ~(wgt > 0) => /\ home' = [min |-> min', size |-> size', box |-> u]
                       /\ gridBox' = u \/ gridBox' = PrintedBox(u)
  BY MakeGridFacts
<1>. HIDE DEF u
<1>2. rec' \in [Index -> [r : [Axes -> Int], exists : BOOLEAN, grounded : BOOLEAN]]
  BY <1>1, AroundTypes, GridAssumption
<1>3. min' \in [Axes -> Int] /\ size' \in [Axes -> Nat]
  BY <1>1, GridFacts
<1>4. DOMAIN conc' = Kinds /\ \A k \in Kinds : conc'[k] \in [CellsOf(k, size') -> Nat]
  BY ZeroTypes DEF MakeGrid
<1>5. ashN * Records \in Nat
  BY GridAssumption
<1>6. /\ pc = "limits" /\ pc' = "count" /\ wgt' = wgt /\ avg' = avg /\ total' = total
      /\ pIdx' = 0 /\ den' = den
  BY DEF MakeGrid
<1>7. HomeInv' /\ OwnInv' /\ (wgt > 0 => home' = home)
  <2>1. CASE wgt > 0
    <3>1. HomeInv /\ u = gridBox /\ gridBox' = gridBox /\ home' = home
      BY <1>1, <2>1
    <3>2. HomeInv'
      BY <3>1 DEF HomeInv, Origin, SizeOf, PrintedBox
    <3>3. OwnInv'
      BY <1>1, <1>6, <2>1, <3>1 DEF OwnInv
    <3>. QED  BY <3>1, <3>2, <3>3
  <2>2. CASE ~(wgt > 0)
    <3>1. /\ home' = [min |-> min', size |-> size', box |-> u]
          /\ gridBox' = u \/ gridBox' = PrintedBox(u)
      BY <1>1, <2>2
    <3>2. home'.min = min' /\ home'.size = size' /\ home'.box = u
      BY <3>1
    <3>3. gridBox' \in Box
      BY <1>1, <3>1, PrintedBoxFacts
    <3>4. HomeInv'
      BY <1>1, <3>1, <3>2, <3>3 DEF HomeInv, Origin, SizeOf, PrintedBox
    <3>. QED  BY <2>2, <3>2, <3>4 DEF OwnInv
  <2>. QED  BY <2>1, <2>2
<1>8. TypeOK'
  <2>1. gridBox' \in Box
    BY <1>7 DEF HomeInv
  <2>. QED  BY <1>2, <1>3, <1>4, <1>5, <1>6, <2>1 DEF TypeOK
<1>9. wgt' > 0 => ArraysInv'
  BY <1>6, <1>7 DEF GridInv, ArraysInv, CellsOf
<1>10. GridInv'
  BY <1>1, <1>4, <1>6, <1>7, <1>9 DEF GridInv
<1>. QED  BY <1>8, <1>10

LEMMA CountStep ==
  ASSUME TypeOK, GridInv, Count
  PROVE  TypeOK' /\ GridInv'
<1>1. UNCHANGED <<pc, rec, gridBox, min, size, avg, den, wgt, total, home>>
  BY DEF Count
<1>2. KindOf(pIdx) \in Kinds
  BY DEF KindOf, Kinds
<1>3. DOMAIN conc' = Kinds /\ \A k \in Kinds : conc'[k] \in [CellsOf(k, size) -> Nat]
  <2>. DEFINE k0 == KindOf(pIdx)
              c0 == Cell(k0, Bin(rec[pIdx].r), tIdx(pIdx))
  <2>1. /\ DOMAIN conc = Kinds /\ k0 \in Kinds
        /\ \A k \in Kinds : conc[k] \in [CellsOf(k, size) -> Nat]
    BY <1>2 DEF TypeOK, GridInv
  <2>2. conc' = conc \/ conc' = [conc EXCEPT ![k0][c0] = @ + 1]
    BY DEF Count
  <2>. HIDE DEF k0, c0
  <2>. QED  BY <2>1, <2>2
<1>4. pIdx' \in 0 .. ashN * Records
  <2>1. ashN * Records \in Nat /\ pIdx \in 0 .. ashN * Records - 1 /\ pIdx' = pIdx + 1
    BY GridAssumption DEF Count, Index
  <2>. QED  BY <2>1
<1>5. TypeOK'
  BY <1>1, <1>3, <1>4 DEF TypeOK, CellsOf
<1>6. GridInv'
  BY <1>1, <1>3 DEF GridInv, HomeInv, OwnInv, ArraysInv, Origin, SizeOf, CellsOf, PrintedBox
<1>. QED  BY <1>5, <1>6

\* The old averages, or zeroes, fit the arrays of the first pass.
LEMMA AllocatedFacts ==
  ASSUME TypeOK, GridInv, pc = "count", NEW k \in Kinds
  PROVE  /\ Allocated(avg)[k] \in [CellsOf(k, home.size) -> Nat]
         /\ Allocated(total)[k] \in [CellsOf(k, home.size) -> Nat]
         /\ Held(k) = CellsOf(k, home.size)
<1>1. CASE wgt = 0
  <2>1. OwnInv /\ ~(wgt > 0)
    BY <1>1 DEF GridInv
  <2>2. size = home.size
    BY <2>1 DEF OwnInv
  <2>3. /\ Allocated(avg)[k] = ZeroesOf(home.size)[k]
        /\ Allocated(total)[k] = ZeroesOf(home.size)[k]
    BY <1>1, <2>2 DEF Allocated
  <2>4. ZeroesOf(home.size)[k] \in [CellsOf(k, home.size) -> Nat]
    BY ZeroTypes
  <2>. QED  BY <2>3, <2>4 DEF Held
<1>2. CASE wgt # 0
  <2>1. wgt > 0
    BY <1>2, GridAssumption DEF TypeOK
  <2>2. ArraysInv
    BY <2>1 DEF GridInv
  <2>3. Allocated(avg)[k] = avg[k] /\ Allocated(total)[k] = total[k]
    BY <1>2 DEF Allocated
  <2>. QED  BY <2>2, <2>3 DEF ArraysInv, Held
<1>. QED  BY <1>1, <1>2

\* A pass with the grid of the first needs no other cells.
LEMMA NotBeyond ==
  ASSUME TypeOK, GridInv, pc = "count", size = home.size
  PROVE  ~Beyond
<1>1. \A k \in Kinds : Held(k) = CellsOf(k, size)
  BY AllocatedFacts
<1>. QED  BY <1>1 DEF Beyond

\* A first pass whose box is steady gives every pass its grid.
LEMMA SteadyGrid ==
  ASSUME HomeInv, OwnInv, SteadyBox
  PROVE  min = home.min /\ size = home.size
<1>1. gridBox = home.box \/ gridBox = PrintedBox(home.box)
  BY DEF HomeInv
<1>2. \A a \in Axes : /\ home.box.lo[a] \in Int /\ home.box.hi[a] \in Int
                      /\ gridBox.lo[a] \in {home.box.lo[a], Printed(home.box.lo[a])}
                      /\ gridBox.hi[a] \in {home.box.hi[a], Printed(home.box.hi[a])}
  BY <1>1 DEF HomeInv, Box, PrintedBox
<1>3. ASSUME NEW a \in Axes
      PROVE  /\ RoundDown(gridBox.lo[a], d(a)) = RoundDown(home.box.lo[a], d(a))
             /\ RoundUp(gridBox.hi[a], d(a)) = RoundUp(home.box.hi[a], d(a))
  BY <1>2, SteadyFacts DEF SteadyBox
<1>4. Origin(gridBox) = Origin(home.box) /\ SizeOf(gridBox) = SizeOf(home.box)
  BY <1>3 DEF Origin, SizeOf
<1>. QED  BY <1>4 DEF HomeInv, OwnInv

\* What a cell of the averages becomes.
LEMMA AveragedCell ==
  ASSUME TypeOK, GridInv, Average, NEW k \in Kinds
  PROVE  LET x(c) == IF c \in CellsOf(k, size) THEN conc[k][c] ELSE 0
             H    == CellsOf(k, home.size)
         IN  /\ \A c \in H : /\ x(c) \in Nat /\ Allocated(avg)[k][c] \in Nat
                             /\ Allocated(total)[k][c] \in Nat
             /\ avg'[k] = [c \in H |-> IF c \in CellsOf(k, size)
                                        THEN wgt * Allocated(avg)[k][c] + den * conc[k][c]
                                        ELSE (wgt + 1) * avg[k][c]]
             /\ total'[k] = [c \in H |-> Allocated(total)[k][c] + x(c)]
<1>1. pc = "count" /\ conc[k] \in [CellsOf(k, size) -> Nat]
  BY DEF Average, TypeOK
<1>2. /\ Allocated(avg)[k] \in [CellsOf(k, home.size) -> Nat]
      /\ Allocated(total)[k] \in [CellsOf(k, home.size) -> Nat]
      /\ Held(k) = CellsOf(k, home.size)
  BY <1>1, AllocatedFacts
<1>. QED  BY <1>1, <1>2 DEF Average, Averaged, Weighted

LEMMA AverageStep ==
  ASSUME TypeOK, GridInv, Average
  PROVE  TypeOK' /\ GridInv'
<1>0. /\ pc = "count" /\ UNCHANGED <<gridBox, min, size, pIdx, conc, home>>
      /\ wgt' = wgt + 1 /\ den' = (wgt + 1) * den
  BY DEF Average
<1>1. wgt \in Nat /\ wgt <= Repeat /\ Repeat \in Nat /\ den \in Nat \ {0}
  BY <1>0, GridAssumption DEF TypeOK, GridInv
<1>2. wgt' \in 0 .. Repeat + 1 /\ den' \in Nat \ {0} /\ wgt' > 0
  BY <1>0, <1>1
<1>3. HomeInv' /\ OwnInv'
  <2>1. HomeInv /\ OwnInv
    BY <1>0 DEF GridInv
  <2>2. HomeInv'
    BY <1>0, <2>1 DEF HomeInv, Origin, SizeOf, PrintedBox
  <2>3. OwnInv'
    BY <1>0, <1>2, <2>1 DEF OwnInv, Origin, SizeOf
  <2>. QED  BY <2>2, <2>3
<1>4. ArraysInv'
  <2>. SUFFICES ASSUME NEW k \in Kinds
                PROVE  /\ avg'[k] \in [CellsOf(k, home.size) -> Nat]
                       /\ total'[k] \in [CellsOf(k, home.size) -> Nat]
    BY <1>0 DEF ArraysInv, CellsOf
  <2>. DEFINE H == CellsOf(k, home.size)
              C == CellsOf(k, size)
              i(c) == Allocated(avg)[k][c]
              j(c) == Allocated(total)[k][c]
              x(c) == IF c \in C THEN conc[k][c] ELSE 0
  <2>1. /\ \A c \in H : x(c) \in Nat /\ i(c) \in Nat /\ j(c) \in Nat
        /\ avg'[k] = [c \in H |-> IF c \in C THEN wgt * i(c) + den * conc[k][c]
                                  ELSE (wgt + 1) * avg[k][c]]
        /\ total'[k] = [c \in H |-> j(c) + x(c)]
    BY AveragedCell
  <2>2. ASSUME NEW c \in H PROVE avg'[k][c] \in Nat
    <3>1. CASE c \in C
      <4>1. i(c) \in Nat /\ conc[k][c] \in Nat
        BY <2>1, <3>1
      <4>2. wgt * i(c) \in Nat /\ den * conc[k][c] \in Nat
        BY <1>1, <4>1
      <4>3. avg'[k][c] = wgt * i(c) + den * conc[k][c]
        BY <2>1, <3>1
      <4>. QED  BY <4>2, <4>3
    <3>2. CASE c \notin C
      <4>1. wgt > 0
        <5>1. SUFFICES ASSUME wgt = 0 PROVE FALSE
          BY <1>1
        <5>2. size = home.size
          BY <1>0, <5>1 DEF GridInv, OwnInv
        <5>. QED  BY <3>2, <5>2
      <4>2. avg[k][c] \in Nat
        BY <4>1 DEF GridInv, ArraysInv
      <4>3. avg'[k][c] = (wgt + 1) * avg[k][c]
        BY <2>1, <3>2
      <4>. QED  BY <1>1, <4>2, <4>3
    <3>. QED  BY <3>1, <3>2
  <2>3. ASSUME NEW c \in H PROVE total'[k][c] \in Nat
    BY <2>1
  <2>. QED  BY <2>1, <2>2, <2>3
<1>5. DOMAIN conc' = Kinds
  BY <1>0 DEF GridInv
<1>6. CASE wgt < Repeat
  <2>1. pc' = "limits" /\ rec' \in Around(Far)
    BY <1>6, StashFacts DEF Average
  <2>2. rec' \in [Index -> [r : [Axes -> Int], exists : BOOLEAN, grounded : BOOLEAN]]
    BY <2>1, AroundTypes, GridAssumption
  <2>3. TypeOK'
    BY <1>0, <1>2, <2>1, <2>2 DEF TypeOK, CellsOf
  <2>4. wgt' <= Repeat
    BY <1>0, <1>1, <1>6
  <2>5. GridInv'
    BY <1>3, <1>4, <1>5, <2>1, <2>4 DEF GridInv
  <2>. QED  BY <2>3, <2>5
<1>7. CASE ~(wgt < Repeat)
  <2>1. pc' = "done" /\ rec' = rec
    BY <1>7 DEF Average
  <2>2. TypeOK'
    BY <1>0, <1>2, <2>1 DEF TypeOK, CellsOf
  <2>3. GridInv'
    BY <1>3, <1>4, <1>5, <2>1 DEF GridInv
  <2>. QED  BY <2>2, <2>3
<1>. QED  BY <1>6, <1>7

LEMMA BeyondStep ==
  ASSUME TypeOK, GridInv, AverageBeyond
  PROVE  TypeOK' /\ GridInv'
<1>1. /\ pc = "count" /\ pc' = "outside" /\ Beyond
      /\ UNCHANGED <<rec, gridBox, min, size, pIdx, conc, avg, den, wgt, total, home>>
  BY DEF AverageBeyond
<1>2. TypeOK'
  BY <1>1 DEF TypeOK, CellsOf
<1>3. size # home.size
  BY <1>1, NotBeyond
<1>4. GridInv'
  BY <1>1, <1>3 DEF GridInv, HomeInv, OwnInv, ArraysInv, Origin, SizeOf, CellsOf, PrintedBox
<1>. QED  BY <1>2, <1>4

LEMMA StutterStep ==
  ASSUME TypeOK, GridInv, UNCHANGED vars
  PROVE  TypeOK' /\ GridInv'
<1>1. TypeOK'
  BY DEF TypeOK, CellsOf, vars
<1>2. GridInv'
  BY DEF GridInv, HomeInv, OwnInv, ArraysInv, Origin, SizeOf, CellsOf, PrintedBox, vars
<1>. QED  BY <1>1, <1>2

LEMMA GridTypesHold ==
  ASSUME TypeOK
  PROVE  GridTypes
  BY DEF TypeOK, GridTypes

LEMMA GridAlways ==
  Spec => [](TypeOK /\ GridInv)
<1>1. Init => TypeOK /\ GridInv
  BY InitGrid
<1>2. TypeOK /\ GridInv /\ [Next]_vars => (TypeOK /\ GridInv)'
  BY MakeGridStep, CountStep, AverageStep, BeyondStep, StutterStep DEF Next, Returned
<1>. QED  BY <1>1, <1>2, PTL DEF Spec

\* Positions, sizes, indices and counts have their types in every pass, for any
\* stash and any ordered box: no size is negative.
THEOREM GridTypesCorrect == Spec => []TypeOK
  BY GridAlways, PTL

\* When no limit of the first pass is within half a decimal of a face, every
\* pass has the grid of the first, and Ash::averageGriddedData stays inside its
\* arrays.
THEOREM AlignCorrect == Spec => []AveragesAlign
<1>1. TypeOK /\ GridInv => AveragesAlign
  <2>. SUFFICES ASSUME GridInv, pc # "limits", SteadyBox
                PROVE  min = home.min /\ size = home.size /\ pc # "outside"
    BY DEF AveragesAlign
  <2>1. HomeInv /\ OwnInv
    BY DEF GridInv
  <2>2. min = home.min /\ size = home.size
    BY <2>1, SteadyGrid
  <2>. QED  BY <2>2 DEF GridInv
<1>. QED  BY <1>1, GridAlways, PTL

\* Only ash on an upper face of the box of the first pass is left out.
THEOREM EdgeCorrect == Spec => []OnlyEdgeLost
<1>1. TypeOK /\ GridInv => OnlyEdgeLost
  <2>. SUFFICES ASSUME TypeOK, GridInv, pc = "count", wgt = 0, home.box = Limits(rec),
                       NEW p \in Index, rec[p].exists,
                       \A a \in Axes : rec[p].r[a] # home.box.hi[a]
                PROVE  Counted(p)
    BY DEF OnlyEdgeLost
  <2>1. GridTypes
    BY GridTypesHold
  <2>2. rec \in Around(Far + Circle) /\ Far + Circle \in Nat
    BY GridAssumption DEF GridInv
  <2>3. home.box \in Box /\ \A a \in Axes :
          home.box.lo[a] <= rec[p].r[a] /\ rec[p].r[a] <= home.box.hi[a]
    BY <2>2, LimitsFacts
  <2>4. \A a \in Axes : min[a] <= home.box.lo[a] /\ home.box.hi[a] <= min[a] + size[a] * d(a)
    <3>1. HomeInv /\ OwnInv /\ ~(wgt > 0)
      BY DEF GridInv
    <3>2. min = Origin(home.box) /\ size = SizeOf(home.box)
      BY <3>1 DEF HomeInv, OwnInv
    <3>. QED  BY <2>3, <3>2, GridFacts
  <2>5. ASSUME NEW a \in Axes
        PROVE  min[a] <= rec[p].r[a] /\ rec[p].r[a] < min[a] + size[a] * d(a)
    <3>1. /\ min[a] \in Int /\ rec[p].r[a] \in Int /\ home.box.lo[a] \in Int
          /\ home.box.hi[a] \in Int /\ size[a] * d(a) \in Int
      BY <2>1, <2>3, StepPositive DEF GridTypes, Box
    <3>. QED  BY <2>3, <2>4, <3>1
  <2>6. OnGrid(Bin(rec[p].r))
    BY <2>1, <2>5, BinRange DEF OnGrid
  <2>7. Cell(KindOf(p), Bin(rec[p].r), tIdx(p)) \in CellsOf(KindOf(p), size)
    <3>1. Bin(rec[p].r) \in [Axes -> Int] /\ tIdx(p) \in 0 .. Records - 1
      BY <2>1, BinFacts, RecordFacts
    <3>2. KindOf(p) \in Kinds
      BY DEF KindOf, Kinds
    <3>. QED  BY <2>1, <2>6, <3>1, <3>2, CellRange DEF GridTypes
  <2>. QED  BY <2>6, <2>7 DEF Counted
<1>. QED  BY <1>1, GridAlways, PTL

-----------------------------------------------------------------------------
(* The counts.                                                             *)

\* While a pass counts, each element of the arrays holds the number of the
\* copies looked at so far that lie in its cell.
CountInv ==
  pc = "count" =>
    \A t \in 0 .. Records - 1 : \A b \in Bins : \A k \in Kinds :
      conc[k][Cell(k, b, t)]
        = Cardinality({p \in 0 .. pIdx - 1 : Within(p, k, b, t)})

LEMMA BinsFacts ==
  ASSUME TypeOK, NEW b \in Bins
  PROVE  b \in [Axes -> Int] /\ OnGrid(b)
<1>1. \A a \in Axes : 0 .. size[a] - 1 \subseteq Int
  BY DEF TypeOK
<1>. QED  BY <1>1 DEF Bins

Zeroed == pIdx = 0 /\ conc = ZeroesOf(size)

LEMMA CountInvZero == TypeOK /\ Zeroed => CountInv
<1>. SUFFICES ASSUME TypeOK, Zeroed,
                     NEW t \in 0 .. Records - 1, NEW b \in Bins, NEW k \in Kinds
              PROVE  conc[k][Cell(k, b, t)]
                       = Cardinality({p \in 0 .. pIdx - 1 : Within(p, k, b, t)})
  BY DEF CountInv
<1>1. {p \in 0 .. pIdx - 1 : Within(p, k, b, t)} = {}
  BY DEF Zeroed
<1>2. Cell(k, b, t) \in CellsOf(k, size)
  BY BinsFacts, CellRange DEF TypeOK
<1>3. conc[k] = [c \in CellsOf(k, size) |-> 0]
  BY DEF Zeroed, ZeroesOf
<1>4. conc[k][Cell(k, b, t)] = 0
  BY <1>2, <1>3
<1>. QED  BY <1>1, <1>4, FS_EmptySet

\* Looking at one more copy adds it to its cell, and changes no other.
LEMMA CountInvCount ==
  ASSUME TypeOK, GridInv, CountInv, Count
  PROVE  CountInv'
<1>0. /\ pc = "count" /\ pIdx \in Index /\ pIdx' = pIdx + 1
      /\ UNCHANGED <<pc, rec, min, size>>
  BY DEF Count
<1>. SUFFICES ASSUME NEW t \in 0 .. Records - 1, NEW b \in Bins, NEW k \in Kinds
              PROVE  conc'[k][Cell(k, b, t)]
                       = Cardinality({p \in 0 .. pIdx : Within(p, k, b, t)})
  <2>1. \A p, k, b, t : Within(p, k, b, t)' = Within(p, k, b, t)
    BY <1>0 DEF Within, KindOf
  <2>2. \A k, b, t : Cell(k, b, t)' = Cell(k, b, t)
    BY <1>0 DEF Cell
  <2>3. Bins' = Bins /\ pIdx' - 1 = pIdx
    BY <1>0 DEF Bins, OnGrid, Index
  <2>. QED  BY <1>0, <2>1, <2>2, <2>3 DEF CountInv
<1>. DEFINE Seen == {p \in 0 .. pIdx - 1 : Within(p, k, b, t)}
            c == Cell(k, b, t)
            k0 == KindOf(pIdx)
            b0 == Bin(rec[pIdx].r)
            c0 == Cell(k0, b0, tIdx(pIdx))
<1>1. GridTypes /\ pIdx \in Nat
  BY <1>0, GridTypesHold DEF Index
<1>2. b \in [Axes -> Int] /\ OnGrid(b)
  BY BinsFacts
<1>3. conc[k][c] = Cardinality(Seen) /\ conc[k] \in [CellsOf(k, size) -> Nat]
  BY <1>0 DEF CountInv, TypeOK
<1>4. c \in CellsOf(k, size)
  BY <1>1, <1>2, CellRange DEF GridTypes
<1>5. IsFiniteSet(Seen) /\ pIdx \notin Seen
  <2>1. IsFiniteSet(0 .. pIdx - 1)
    BY <1>1, FS_Interval
  <2>2. Seen \subseteq 0 .. pIdx - 1
    OBVIOUS
  <2>3. IsFiniteSet(Seen)
    BY <2>1, <2>2, FS_Subset
  <2>. QED  BY <1>1, <2>2, <2>3
<1>6. Within(pIdx, k, b, t)
        <=> /\ Counted(pIdx) /\ k0 = k /\ tIdx(pIdx) = t
            /\ \A a \in Axes : (k = "fo" /\ a = "z") \/ b0[a] = b[a]
  BY <1>0, <1>1, <1>2, WithinIsCounted
<1>7. b0 \in [Axes -> Int] /\ tIdx(pIdx) \in 0 .. Records - 1 /\ k0 \in Kinds
  BY <1>0, <1>1, BinFacts, RecordFacts DEF KindOf, Kinds
<1>8. DOMAIN conc = Kinds
  BY DEF GridInv
<1>9. conc' = IF Counted(pIdx) THEN [conc EXCEPT ![k0][c0] = @ + 1] ELSE conc
  BY DEF Count
<1>10. CASE Within(pIdx, k, b, t)
  <2>1. {p \in 0 .. pIdx : Within(p, k, b, t)} = Seen \cup {pIdx}
    BY <1>1, <1>10
  <2>2. Cardinality(Seen \cup {pIdx}) = Cardinality(Seen) + 1
    BY <1>5, FS_AddElement
  <2>3. Counted(pIdx) /\ k0 = k /\ tIdx(pIdx) = t
    BY <1>6, <1>10
  <2>4. b0["x"] = b["x"] /\ b0["y"] = b["y"] /\ (k = "fo" \/ b0["z"] = b["z"])
    BY <1>6, <1>10 DEF Axes
  <2>5. c0 = c
    BY <2>3, <2>4 DEF Cell
  <2>. HIDE DEF Seen, c, k0, c0
  <2>6. conc'[k][c] = conc[k][c] + 1
    BY <1>3, <1>4, <1>8, <1>9, <2>3, <2>5
  <2>. QED  BY <1>3, <2>1, <2>2, <2>6 DEF c
<1>11. CASE ~Within(pIdx, k, b, t)
  <2>1. {p \in 0 .. pIdx : Within(p, k, b, t)} = Seen
    BY <1>1, <1>11
  <2>2. conc'[k][c] = conc[k][c]
    <3>1. CASE ~Counted(pIdx)
      BY <1>9, <3>1
    <3>2. CASE Counted(pIdx) /\ k0 # k
      <4>. HIDE DEF c, k0, c0
      <4>. QED  BY <1>8, <1>9, <3>2
    <3>3. CASE Counted(pIdx) /\ k0 = k
      <4>1. c0 # c
        <5>1. SUFFICES ASSUME c0 = c PROVE FALSE
          OBVIOUS
        <5>2. OnGrid(b0)
          BY <3>3 DEF Counted
        <5>3. /\ b0["x"] = b["x"] /\ b0["y"] = b["y"] /\ tIdx(pIdx) = t
              /\ k = "air" => b0["z"] = b["z"]
          BY <1>1, <1>2, <1>7, <3>3, <5>1, <5>2, CellInjective DEF GridTypes
        <5>. QED  BY <1>6, <1>11, <3>3, <5>3 DEF Axes, Kinds
      <4>. HIDE DEF c, k0, c0
      <4>2. conc'[k] = [conc[k] EXCEPT ![c0] = @ + 1]
        BY <1>8, <1>9, <3>3
      <4>. QED  BY <1>3, <1>4, <4>1, <4>2
    <3>. QED  BY <3>1, <3>2, <3>3
  <2>. HIDE DEF Seen
  <2>. QED  BY <1>3, <2>1, <2>2
<1>. QED  BY <1>10, <1>11

\* The flat arrays count: every element holds the number of existing copies of
\* its record in its cell.
THEOREM CellsCorrect == Spec => []CellsRight
<1>1. Init => CountInv
  BY DEF Init, CountInv
<1>0. (TypeOK /\ Zeroed => CountInv)'
  BY CountInvZero, PTL
<1>2. TypeOK /\ GridInv /\ (TypeOK /\ GridInv)' /\ CountInv /\ [Next]_vars => CountInv'
  <2>. SUFFICES ASSUME TypeOK, GridInv, TypeOK', CountInv, [Next]_vars
                PROVE  CountInv'
    OBVIOUS
  <2>1. CASE MakeGrid
    BY <1>0, <2>1 DEF MakeGrid, Zeroed, ZeroesOf, CellsOf
  <2>2. CASE Count
    BY <2>2, CountInvCount
  <2>3. CASE Average
    BY <2>3 DEF Average, CountInv
  <2>4. CASE UNCHANGED vars
    BY <2>4 DEF vars, CountInv, Bins, OnGrid, Cell, Within, KindOf
  <2>5. CASE AverageBeyond
    BY <2>5 DEF AverageBeyond, CountInv
  <2>. QED  BY <2>1, <2>2, <2>3, <2>4, <2>5 DEF Next, Returned
<1>3. TypeOK /\ CountInv => CellsRight
  <2>. SUFFICES ASSUME TypeOK, pIdx \notin Index PROVE 0 .. pIdx - 1 = Index
    BY DEF CountInv, CellsRight
  <2>1. ashN * Records \in Nat
    BY GridAssumption
  <2>. QED  BY <2>1 DEF TypeOK, Index
<1>. QED  BY <1>1, <1>2, <1>3, GridAlways, PTL DEF Spec

\* After every pass, avg / den is the mean of the passes, total / wgt, if no
\* limit of the first is within half a decimal of a face.
THEOREM AverageCorrect == Spec => []AveragesExact
<1>1. Init => AveragesExact
  BY DEF Init, AveragesExact
<1>2. TypeOK /\ GridInv /\ AveragesExact /\ [Next]_vars => AveragesExact'
  <2>. SUFFICES ASSUME TypeOK, GridInv, AveragesExact, [Next]_vars
                PROVE  AveragesExact'
    OBVIOUS
  <2>1. CASE Average
    <3>1. /\ pc = "count" /\ wgt \in Nat /\ den \in Nat \ {0} /\ Repeat \in Nat
          /\ home' = home /\ gridBox' = gridBox
      BY <2>1, GridAssumption DEF Average, TypeOK
    <3>. SUFFICES ASSUME SteadyBox, NEW k \in Kinds, NEW c \in DOMAIN total'[k]
                  PROVE  avg'[k][c] * wgt' = total'[k][c] * den'
      BY <3>1 DEF AveragesExact, SteadyBox, Steady
    <3>. DEFINE i == Allocated(avg)[k][c]
                j == Allocated(total)[k][c]
                x == conc[k][c]
    <3>2. size = home.size
      BY <3>1, SteadyGrid DEF GridInv
    <3>3. /\ total'[k] = [e \in CellsOf(k, size) |->
                           Allocated(total)[k][e]
                             + IF e \in CellsOf(k, size) THEN conc[k][e] ELSE 0]
          /\ avg'[k] = [e \in CellsOf(k, size) |->
                         IF e \in CellsOf(k, size)
                         THEN wgt * Allocated(avg)[k][e] + den * conc[k][e]
                         ELSE (wgt + 1) * avg[k][e]]
      BY <2>1, <3>2, AveragedCell
    <3>4. c \in CellsOf(k, size)
      BY <3>3
    <3>5. i \in Nat /\ j \in Nat /\ x \in Nat
      BY <3>1, <3>2, <3>4, AllocatedFacts DEF TypeOK
    <3>6. i * wgt = j * den
      <4>1. CASE wgt = 0
        <5>1. j = 0
          BY <3>4, <4>1 DEF Allocated, ZeroesOf
        <5>. QED  BY <3>1, <3>5, <4>1, <5>1
      <4>2. CASE wgt > 0
        <5>1. i = avg[k][c] /\ j = total[k][c]
          BY <4>2 DEF Allocated
        <5>2. c \in DOMAIN total[k]
          BY <3>2, <3>4, <4>2 DEF GridInv, ArraysInv
        <5>. QED  BY <4>2, <5>1, <5>2 DEF AveragesExact
      <4>. QED  BY <3>1, <4>1, <4>2
    <3>7. avg'[k][c] = wgt * i + den * x /\ total'[k][c] = j + x
      BY <3>3, <3>4
    <3>8. wgt' = wgt + 1 /\ den' = (wgt + 1) * den
      BY <2>1 DEF Average
    <3>. HIDE DEF i, j, x
    <3>9. wgt * i + den * x = (j + x) * den
      BY <3>1, <3>5, <3>6
    <3>10. ((j + x) * den) * (wgt + 1) = (j + x) * ((wgt + 1) * den)
      BY <3>1, <3>5
    <3>. QED  BY <3>7, <3>8, <3>9, <3>10
  <2>2. CASE UNCHANGED <<avg, den, wgt, total, home, gridBox>>
    BY <2>2 DEF AveragesExact, SteadyBox, Steady
  <2>3. CASE MakeGrid
    <3>1. UNCHANGED <<avg, den, wgt, total>>
      BY <2>3 DEF MakeGrid
    <3>2. CASE wgt > 0
      <4>1. home' = home /\ gridBox' = gridBox
        BY <2>3, <3>2, MakeGridFacts
      <4>. QED  BY <3>1, <4>1 DEF AveragesExact, SteadyBox, Steady
    <3>3. CASE ~(wgt > 0)
      BY <3>1, <3>3 DEF AveragesExact
    <3>. QED  BY <3>2, <3>3
  <2>. QED  BY <2>1, <2>2, <2>3 DEF Next, Count, AverageBeyond, Returned, vars
<1>. QED  BY <1>1, <1>2, GridAlways, PTL DEF Spec
-----------------------------------------------------------------------------
(* Planes: the flights a file has, the place of a line in the averages, and *)
(* the sum over the legs.                                                   *)

FlightLines == Seq(Line) \ {<<>>}

\* A line more keeps the flights not empty.
LEMMA JoinedType ==
  ASSUME NEW flights \in Seq(FlightLines), NEW line \in Line
  PROVE  Joined(flights, line) \in Seq(FlightLines)
<1>1. <<line>> \in FlightLines
  BY DEF FlightLines
<1>2. CASE flights # <<>> /\ Last(flights)[1].cname = line.cname
  <2>1. Len(flights) \in 1 .. Len(flights) /\ flights[Len(flights)] \in Seq(Line)
    BY <1>2 DEF FlightLines
  <2>2. Append(flights[Len(flights)], line) \in FlightLines
    BY <2>1 DEF FlightLines
  <2> QED
    BY <1>2, <2>1, <2>2 DEF Joined
<1>3. CASE ~(flights # <<>> /\ Last(flights)[1].cname = line.cname)
  BY <1>1, <1>3 DEF Joined
<1> QED
  BY <1>2, <1>3

\* Every flight of a file has a line, and all its lines are lines of the file.
LEMMA FlightsType ==
  ASSUME NEW f \in Seq(Line)
  PROVE  Flights(f) \in Seq(FlightLines)
<1> DEFINE More(x, n) == IF f[n].readable THEN Joined(x, f[n]) ELSE x
           Good(g, n) == /\ g \in [0 .. n -> Seq(FlightLines)] /\ g[0] = <<>>
                         /\ \A m \in 1 .. n : g[m] = More(g[m - 1], m)
           Read[n \in 0 .. Len(f)] ==
             IF n = 0 THEN <<>>
             ELSE IF f[n].readable THEN Joined(Read[n - 1], f[n]) ELSE Read[n - 1]
           R == 0 .. Len(f)
<1>1. ASSUME NEW x \in Seq(FlightLines), NEW n \in 1 .. Len(f)
      PROVE  More(x, n) \in Seq(FlightLines)
  BY JoinedType
<1>2. Len(f) \in Nat /\ <<>> \in Seq(FlightLines)
  OBVIOUS
<1> HIDE DEF More
<1>3. \E g : Good(g, Len(f))
  <2> DEFINE Bad == {n \in R : ~\E g : Good(g, n)}
             m == Min(Bad)
  <2>1. SUFFICES ASSUME Bad # {} PROVE FALSE
    BY <1>2
  <2>2. m \in Bad /\ \A n \in Bad : m <= n
    <3>1. Bad \in SUBSET (-Len(f) .. Len(f))
      BY <1>2
    <3> HIDE DEF Bad
    <3> QED
      BY <1>2, <2>1, <3>1, LeastExists
  <2>3. m # 0
    <3>1. Good([i \in 0 .. 0 |-> <<>>], 0)
      BY <1>2
    <3> QED
      BY <2>2, <3>1
  <2>4. m \in 1 .. Len(f) /\ m - 1 \in R /\ m - 1 \notin Bad
    <3>1. m \in R
      BY <2>2
    <3> HIDE DEF m
    <3>2. m - 1 \in R /\ ~(m <= m - 1)
      BY <1>2, <2>3, <3>1
    <3> HIDE DEF Bad
    <3> QED
      BY <1>2, <2>2, <2>3, <3>1, <3>2
  <2>5. PICK g : Good(g, m - 1)
    BY <2>4
  <2> DEFINE h == [i \in 0 .. m |-> IF i = m THEN More(g[m - 1], m) ELSE g[i]]
  <2>6. Good(h, m)
    <3>1. m \in 1 .. Len(f)
      BY <2>4
    <3> HIDE DEF m
    <3>2. /\ g \in [0 .. m - 1 -> Seq(FlightLines)] /\ g[0] = <<>>
          /\ \A i \in 1 .. m - 1 : g[i] = More(g[i - 1], i)
      BY <2>5
    <3>3. g[m - 1] \in Seq(FlightLines)
      BY <1>2, <3>1, <3>2
    <3>4. More(g[m - 1], m) \in Seq(FlightLines)
      BY <1>1, <3>1, <3>3
    <3>5. ASSUME NEW i \in 0 .. m PROVE h[i] \in Seq(FlightLines)
      BY <1>2, <3>1, <3>2, <3>4, <3>5
    <3>6. ASSUME NEW i \in 1 .. m PROVE h[i] = More(h[i - 1], i)
      <4>1. CASE i = m
        <5>1. h[m] = More(g[m - 1], m) /\ h[m - 1] = g[m - 1]
          BY <1>2, <3>1
        <5> QED
          BY <4>1, <5>1
      <4>2. CASE i # m
        <5>1. i \in 1 .. m - 1 /\ i - 1 \in 0 .. m /\ i - 1 # m /\ i \in 0 .. m
          BY <1>2, <3>1, <3>6, <4>2
        <5>2. h[i] = g[i] /\ h[i - 1] = g[i - 1]
          BY <4>2, <5>1
        <5> QED
          BY <3>2, <5>1, <5>2
      <4> QED
        BY <4>1, <4>2
    <3>7. h[0] = <<>> /\ h \in [0 .. m -> Seq(FlightLines)]
      <4>1. 0 \in 0 .. m /\ 0 # m
        BY <1>2, <3>1
      <4>2. h[0] = <<>>
        BY <3>2, <4>1
      <4> QED
        BY <3>5, <4>2
    <3> HIDE DEF h
    <3> QED
      BY <3>6, <3>7
  <2> QED
    BY <2>2, <2>6
<1>4. PICK g : Good(g, Len(f))
  BY <1>3
<1>5. g = [n \in R |-> IF n = 0 THEN <<>> ELSE More(g[n - 1], n)]
  <2>1. ASSUME NEW n \in R PROVE g[n] = IF n = 0 THEN <<>> ELSE More(g[n - 1], n)
    BY <1>2, <1>4, <2>1
  <2> QED
    BY <1>4, <2>1
<1>6. Read = [n \in R |-> IF n = 0 THEN <<>> ELSE More(Read[n - 1], n)]
  BY <1>5 DEF More
<1> HIDE DEF Read
<1>7. ASSUME NEW n \in R PROVE Read[n] \in Seq(FlightLines)
  <2> DEFINE Bad == {i \in R : Read[i] \notin Seq(FlightLines)}
             m == Min(Bad)
  <2>1. SUFFICES ASSUME Bad # {} PROVE FALSE
    BY <1>7
  <2>2. m \in Bad /\ \A i \in Bad : m <= i
    <3>1. Bad \in SUBSET (-Len(f) .. Len(f))
      BY <1>2
    <3> HIDE DEF Bad
    <3> QED
      BY <1>2, <2>1, <3>1, LeastExists
  <2>3. m \in R /\ Read[m] \notin Seq(FlightLines)
    BY <2>2
  <2>4. ASSUME NEW i \in R, i < m PROVE Read[i] \in Seq(FlightLines)
    <3>1. ~(m <= i)
      BY <1>2, <2>3, <2>4
    <3> QED
      BY <2>2, <2>4, <3>1
  <2> HIDE DEF m, Bad
  <2>5. CASE m = 0
    BY <1>2, <1>6, <2>3, <2>5
  <2>6. CASE m # 0
    <3>1. m - 1 \in R /\ m - 1 < m /\ m \in 1 .. Len(f)
      BY <1>2, <2>3, <2>6
    <3>2. Read[m] = More(Read[m - 1], m)
      BY <1>6, <2>3, <2>6
    <3> QED
      BY <1>1, <2>3, <2>4, <3>1, <3>2
  <2> QED
    BY <2>5, <2>6
<1>8. Flights(f) = Read[Len(f)]
  BY DEF Flights, Read
<1> QED
  BY <1>2, <1>7, <1>8

\* Legs without ash add up to nothing.
LEMMA SummedZero ==
  ASSUME NEW f \in FlightLines, NEW c,
         \A k \in 2 .. Len(f) : c[k - 1] + c[k] = 0
  PROVE  Summed(f, c) = 0
<1> DEFINE K == 1 .. Len(f)
           Dose(k) == (c[k - 1] + c[k]) * (f[k].time - f[k - 1].time) * f[k - 1].speed
           Upto[k \in K] ==
             IF k = 1 THEN 0
             ELSE Upto[k - 1]
                  + (c[k - 1] + c[k]) * (f[k].time - f[k - 1].time) * f[k - 1].speed
<1>1. Len(f) \in Nat \ {0} /\ f \in Seq(Line)
  BY DEF FlightLines
<1>2. ASSUME NEW k \in 2 .. Len(f) PROVE Dose(k) = 0
  <2>1. f[k] \in Line /\ f[k - 1] \in Line
    BY <1>1, <1>2
  <2>2. f[k].time \in Int /\ f[k - 1].time \in Int /\ f[k - 1].speed \in Int
    BY <2>1 DEF Line
  <2> QED
    BY <2>2
<1> HIDE DEF Dose
<1>3. [k \in K |-> 0]
        = [k \in K |-> IF k = 1 THEN 0 ELSE [i \in K |-> 0][k - 1] + Dose(k)]
  <2>1. ASSUME NEW k \in K, k # 1 PROVE [i \in K |-> 0][k - 1] + Dose(k) = 0
    BY <1>1, <1>2, <2>1
  <2> QED
    BY <2>1
<1>4. Upto = [k \in K |-> IF k = 1 THEN 0 ELSE Upto[k - 1] + Dose(k)]
  BY <1>3 DEF Dose
<1> HIDE DEF Upto
<1> DEFINE Bad == {k \in K : Upto[k] # 0}
           m == Min(Bad)
<1>5. Bad = {}
  <2>1. SUFFICES ASSUME Bad # {} PROVE FALSE
    OBVIOUS
  <2>2. m \in Bad /\ \A i \in Bad : m <= i
    <3>1. Bad \in SUBSET (-Len(f) .. Len(f))
      BY <1>1
    <3> HIDE DEF Bad
    <3> QED
      BY <1>1, <2>1, <3>1, LeastExists
  <2>3. m \in K /\ Upto[m] # 0
    BY <2>2
  <2>4. ASSUME NEW i \in K, i < m PROVE Upto[i] = 0
    <3>1. ~(m <= i)
      BY <1>1, <2>3, <2>4
    <3> QED
      BY <2>2, <2>4, <3>1
  <2> HIDE DEF m, Bad
  <2>5. CASE m = 1
    BY <1>1, <1>4, <2>3, <2>5
  <2>6. CASE m # 1
    <3>1. m - 1 \in K /\ m - 1 < m /\ m \in 2 .. Len(f)
      BY <1>1, <2>3, <2>6
    <3>2. Upto[m] = Upto[m - 1] + Dose(m)
      BY <1>4, <2>3, <2>6
    <3> QED
      BY <1>2, <2>3, <2>4, <3>1, <3>2
  <2> QED
    BY <2>5, <2>6
<1>6. Summed(f, c) = Upto[Len(f)]
  BY DEF Summed, Upto
<1> QED
  BY <1>1, <1>5, <1>6

\* A quotient in range is the one position whose cell holds the value.
LEMMA SlotFacts ==
  ASSUME NEW by \in Nat \ {0}, NEW n \in Nat \ {0}, NEW low \in Int, NEW v \in Int
  PROVE  LET last == low + (n - 1) * by
         IN  {i \in 0 .. n - 1 : /\ low + i * by <= v /\ v < low + (i + 1) * by
                                 /\ v <= last}
               = IF low <= v /\ v <= last THEN {(v - low) \div by} ELSE {}
<1> DEFINE last == low + (n - 1) * by
           q == (v - low) \div by
           S == {i \in 0 .. n - 1 : /\ low + i * by <= v /\ v < low + (i + 1) * by
                                    /\ v <= last}
<1>1. /\ v - low \in Int /\ q \in Int
      /\ q * by \in Int /\ (n - 1) * by \in Int
      /\ q * by <= v - low /\ v - low < q * by + by
  BY DivFacts
<1>2. ASSUME NEW i \in S PROVE low <= v /\ v <= last /\ i = q
  <2>1. i \in Int /\ i * by \in Nat /\ (i + 1) * by \in Nat
    OBVIOUS
  <2>2. i * by <= v - low /\ v - low < (i + 1) * by
    BY <2>1
  <2>3. q = i
    BY <1>1, <2>1, <2>2, DivIs
  <2> QED
    BY <2>1, <2>3
<1>3. ASSUME low <= v, v <= last PROVE q \in S
  <2> HIDE DEF q
  <2>1. 0 * by < q * by + by /\ q * by < (n - 1) * by + by
    BY <1>1, <1>3
  <2>2. 0 <= q /\ q <= n - 1
    BY <1>1, <2>1, Factors
  <2>3. low + q * by <= v /\ v < low + (q + 1) * by
    BY <1>1
  <2> QED
    BY <1>1, <1>3, <2>2, <2>3
<1> HIDE DEF q, S, last
<1>4. S = IF low <= v /\ v <= last THEN {q} ELSE {}
  BY <1>2, <1>3
<1> QED
  BY <1>4 DEF S, q, last

LEMMA AxisSlots ==
  ASSUME TypeOK, NEW a \in Axes, size[a] # 0, NEW v \in Int
  PROVE  Slots(a, v) = IF min[a] <= v /\ v <= LastValue(a)
                       THEN {(v - min[a]) \div d(a)} ELSE {}
<1>1. min[a] \in Int /\ size[a] \in Nat \ {0} /\ d(a) \in Nat \ {0}
  BY StepPositive DEF TypeOK
<1> QED
  BY <1>1, SlotFacts DEF Slots, LastValue

LEMMA RecordSlots ==
  ASSUME NEW time \in Int
  PROVE  TimeSlots(time) = IF 0 <= time /\ time <= LastTime
                           THEN {time \div Spacing} ELSE {}
<1>1. Spacing \in Nat \ {0} /\ Records \in Nat \ {0}
  BY GridAssumption, PlanesAssumption
<1>2. PICK low \in Int : low = 0
  OBVIOUS
<1> DEFINE Filter == {i \in 0 .. Records - 1 :
                        /\ low + i * Spacing <= time /\ time < low + (i + 1) * Spacing
                        /\ time <= low + (Records - 1) * Spacing}
<1>3. Filter = IF low <= time /\ time <= low + (Records - 1) * Spacing
               THEN {(time - low) \div Spacing} ELSE {}
  BY <1>1, SlotFacts
<1>4. TimeSlots(time) = Filter
  <2>1. ASSUME NEW i \in 0 .. Records - 1
        PROVE  low + i * Spacing = i * Spacing /\ low + (i + 1) * Spacing = (i + 1) * Spacing
    BY <1>1, <1>2
  <2>2. low + (Records - 1) * Spacing = LastTime
    BY <1>1, <1>2 DEF LastTime
  <2> QED
    BY <2>1, <2>2 DEF TimeSlots
<1>5. time - low = time /\ low + (Records - 1) * Spacing = LastTime
  BY <1>1, <1>2 DEF LastTime
<1> QED
  BY <1>2, <1>3, <1>4, <1>5

\* The longitude that abs_conc looks for is the one under which the grid knows
\* the place.
LEMMA PlaceFacts ==
  ASSUME TypeOK, NEW r \in [Axes -> Int], NEW a \in Axes, size[a] # 0
  PROVE  LET v == Adjusted(r)[a]
         IN  /\ v \in Int
             /\ PlaceSlots(a, r[a]) = IF min[a] <= v /\ v <= LastValue(a)
                                      THEN {(v - min[a]) \div d(a)} ELSE {}
<1> DEFINE v == Adjusted(r)[a]
<1>1. /\ min[a] \in Int /\ size[a] \in Nat \ {0} /\ d(a) \in Nat \ {0}
      /\ LastValue(a) \in Int /\ Circle \in Nat /\ r[a] \in Int
      /\ r[a] - Circle \in Int
  BY StepPositive, GridAssumption DEF TypeOK, LastValue
<1>2. v = IF a = "x" THEN Lon(r["x"]) ELSE r[a]
  BY DEF Adjusted
<1>3. CASE a # "x"
  BY <1>1, <1>2, <1>3, AxisSlots DEF PlaceSlots
<1>4. CASE a = "x"
  <2>1. CASE r[a] > LastValue(a) /\ r[a] - Circle > min[a] /\ r[a] - Circle < LastValue(a)
    <3>1. v = r[a] - Circle
      BY <1>2, <1>4, <2>1 DEF Lon
    <3>2. Slots(a, r[a]) = {}
      BY <1>1, <2>1, AxisSlots
    <3>3. PlaceSlots(a, r[a]) = Slots(a, r[a] - Circle)
      BY <1>1, <1>4, <2>1, <3>2 DEF PlaceSlots
    <3> QED
      BY <1>1, <3>1, <3>3, AxisSlots
  <2>2. CASE ~(r[a] > LastValue(a) /\ r[a] - Circle > min[a] /\ r[a] - Circle < LastValue(a))
    <3>1. v = r[a]
      BY <1>2, <1>4, <2>2 DEF Lon
    <3>2. Slots(a, r[a]) = IF min[a] <= v /\ v <= LastValue(a)
                           THEN {(v - min[a]) \div d(a)} ELSE {}
      BY <1>1, <3>1, AxisSlots
    <3>3. ASSUME ~(min[a] <= v /\ v <= LastValue(a)) PROVE PlaceSlots(a, r[a]) = {}
      <4>1. ~(min[a] < r[a] - Circle /\ r[a] - Circle < LastValue(a))
        BY <1>1, <2>2, <3>1, <3>3
      <4> QED
        BY <3>2, <3>3, <4>1 DEF PlaceSlots
    <3>4. ASSUME min[a] <= v, v <= LastValue(a) PROVE PlaceSlots(a, r[a]) = Slots(a, r[a])
      BY <3>2, <3>4 DEF PlaceSlots
    <3> QED
      BY <1>1, <3>1, <3>2, <3>3, <3>4
  <2> QED
    BY <2>1, <2>2
<1> QED
  BY <1>3, <1>4

\* The index of abs_conc is that of the cell writeGriddedData filled.
LEMMA LookedUp ==
  ASSUME TypeOK, NEW l \in Line, ~Undefined(l)
  PROVE  abs_conc(l) = Concentration(l)
<1> DEFINE at == [a \in Axes |-> PlaceSlots(a, l.r[a])]
           i(a) == (Adjusted(l.r)[a] - min[a]) \div d(a)
           In(a) == min[a] <= Adjusted(l.r)[a] /\ Adjusted(l.r)[a] <= LastValue(a)
<1>1. l.r \in [Axes -> Int] /\ l.time \in Int
  BY DEF Line
<1>2. \A a \in Axes : size[a] # 0 /\ size[a] \in Nat
  BY DEF Undefined, TypeOK
<1>3. ASSUME NEW a \in Axes PROVE at[a] = IF In(a) THEN {i(a)} ELSE {}
  BY <1>1, <1>2, PlaceFacts
<1>4. TimeSlots(l.time) = IF 0 <= l.time /\ l.time <= LastTime
                          THEN {l.time \div Spacing} ELSE {}
  BY <1>1, RecordSlots
<1>5. Covered(l) <=> (\A a \in Axes : In(a)) /\ 0 <= l.time /\ l.time <= LastTime
  BY DEF Covered
<1>6. Concentration(l) =
        IF TimeSlots(l.time) = {} \/ \E a \in Axes : at[a] = {} THEN 0
        ELSE avg["air"][Cell("air", [a \in Axes |-> CHOOSE k \in at[a] : TRUE],
                             CHOOSE t \in TimeSlots(l.time) : TRUE)]
  BY DEF Concentration
<1> HIDE DEF at, In
<1>7. CASE ~Covered(l)
  BY <1>3, <1>4, <1>5, <1>6, <1>7 DEF abs_conc
<1>8. CASE Covered(l)
  <2>1. /\ \A a \in Axes : at[a] = {i(a)}
        /\ TimeSlots(l.time) = {l.time \div Spacing}
    BY <1>3, <1>4, <1>5, <1>8
  <2> DEFINE b == [a \in Axes |-> i(a)]
  <2>2. /\ \A a \in Axes : (CHOOSE k \in at[a] : TRUE) = i(a)
        /\ (CHOOSE t \in TimeSlots(l.time) : TRUE) = l.time \div Spacing
    BY <2>1
  <2>3. [a \in Axes |-> CHOOSE k \in at[a] : TRUE] = b
    BY <2>2
  <2>4. Concentration(l) = avg["air"][Cell("air", b, l.time \div Spacing)]
    BY <1>6, <2>1, <2>2, <2>3
  <2>5. Cell("air", b, l.time \div Spacing) = cIdx(l)
    <3>1. Cell("air", b, l.time \div Spacing)
            = b["x"] + b["y"] * size["x"]
              + (b["z"] * size["x"] * size["y"]
                 + (l.time \div Spacing) * size["x"] * size["y"] * size["z"])
      BY DEF Cell
    <3>2. cIdx(l) = b["x"] + b["y"] * size["x"] + b["z"] * size["x"] * size["y"]
                      + (l.time \div Spacing) * size["x"] * size["y"] * size["z"]
      BY DEF cIdx
    <3>3. \A a \in Axes : b[a] \in Int
      <4>1. ASSUME NEW a \in Axes PROVE i(a) \in Int
        <5>1. Adjusted(l.r)[a] \in Int /\ min[a] \in Int /\ d(a) \in Nat \ {0}
          BY <1>1, <1>2, PlaceFacts, StepPositive DEF TypeOK
        <5>2. Adjusted(l.r)[a] - min[a] \in Int
          BY <5>1
        <5> QED
          BY <5>1, <5>2, DivFacts
      <4> QED
        BY <4>1
    <3>4. l.time \div Spacing \in Int
      BY <1>1, PlanesAssumption, DivFacts
    <3> HIDE DEF b
    <3>5. /\ b["x"] \in Int /\ b["y"] \in Int /\ b["z"] \in Int
          /\ size["x"] \in Int /\ size["y"] \in Int /\ size["z"] \in Int
      BY <1>2, <3>3 DEF Axes
    <3> QED
      BY <3>1, <3>2, <3>4, <3>5
  <2>6. abs_conc(l) = avg["air"][cIdx(l)]
    BY <1>2, <1>8 DEF abs_conc
  <2> QED
    BY <2>4, <2>5, <2>6
<1> QED
  BY <1>7, <1>8

\* In a flight whose lines are in order the first is the earliest and the last
\* the latest.
LEMMA EndsOfFlight ==
  ASSUME NEW f \in FlightLines, InOrder(f), NEW k \in 1 .. Len(f)
  PROVE  f[1].time <= f[k].time /\ f[k].time <= f[Len(f)].time
<1> DEFINE K == 1 .. Len(f)
<1>0. f \in Seq(Line) /\ f # <<>>
  BY DEF FlightLines
<1>1. Len(f) \in Nat \ {0} /\ \A j \in K : f[j].time \in Int
  <2>1. Len(f) \in Nat \ {0} /\ \A j \in K : f[j] \in Line
    BY <1>0
  <2> QED
    BY <2>1 DEF Line
<1>2. \A j \in 1 .. Len(f) - 1 : f[j].time <= f[j + 1].time
  BY DEF InOrder
<1>3. \A j \in K : f[1].time <= f[j].time
  <2> DEFINE Bad == {j \in K : ~(f[1].time <= f[j].time)}
             m == Min(Bad)
  <2>1. SUFFICES ASSUME Bad # {} PROVE FALSE
    OBVIOUS
  <2>2. m \in Bad /\ \A j \in Bad : m <= j
    <3>1. Bad \in SUBSET (-Len(f) .. Len(f))
      BY <1>1
    <3> HIDE DEF Bad
    <3> QED
      BY <1>1, <2>1, <3>1, LeastExists
  <2>3. m \in K /\ ~(f[1].time <= f[m].time)
    BY <2>2
  <2>4. m # 1
    BY <1>1, <2>3
  <2> HIDE DEF m
  <2>5. m - 1 \in K /\ m - 1 \in 1 .. Len(f) - 1 /\ ~(m <= m - 1) /\ m - 1 + 1 = m
    BY <1>1, <2>3, <2>4
  <2>6. m - 1 \notin Bad
    BY <2>2, <2>5
  <2>7. f[1].time <= f[m - 1].time /\ f[m - 1].time <= f[m].time
    BY <1>2, <2>5, <2>6
  <2>8. f[1].time \in Int /\ f[m - 1].time \in Int /\ f[m].time \in Int
    BY <1>1, <2>3, <2>5
  <2> QED
    BY <2>3, <2>7, <2>8
<1>4. \A j \in K : f[j].time <= f[Len(f)].time
  <2> DEFINE Bad == {j \in K : ~(f[j].time <= f[Len(f)].time)}
             m == Max(Bad)
  <2>1. SUFFICES ASSUME Bad # {} PROVE FALSE
    OBVIOUS
  <2>2. m \in Bad /\ \A j \in Bad : j <= m
    <3>1. Bad \in SUBSET (-Len(f) .. Len(f))
      BY <1>1
    <3> HIDE DEF Bad
    <3> QED
      BY <1>1, <2>1, <3>1, GreatestExists
  <2>3. m \in K /\ ~(f[m].time <= f[Len(f)].time)
    BY <2>2
  <2>4. m # Len(f)
    BY <1>1, <2>3
  <2> HIDE DEF m
  <2>5. m + 1 \in K /\ m \in 1 .. Len(f) - 1 /\ ~(m + 1 <= m)
    BY <1>1, <2>3, <2>4
  <2>6. m + 1 \notin Bad
    BY <2>2, <2>5
  <2>7. f[m + 1].time <= f[Len(f)].time /\ f[m].time <= f[m + 1].time
    BY <1>2, <2>5, <2>6
  <2>8. /\ f[Len(f)].time \in Int /\ f[m + 1].time \in Int /\ f[m].time \in Int
    BY <1>1, <2>3, <2>5
  <2> QED
    BY <2>3, <2>7, <2>8
<1> QED
  BY <1>3, <1>4

\* What has been reported: the exposures of the flights in the time of the stash,
\* along which nothing was read beyond the arrays.
Met == {k \in DOMAIN flight : Overlaps(flight[k])}

ReportInv ==
  /\ report # "none" => pc = "done"
  /\ report = "printed" =>
       /\ flight \in Seq(FlightLines)
       /\ exposure = [k \in Met |-> Exposure(flight[k])]
       /\ \A k \in Met : ~UndefinedOn(flight[k])

\* The averages do not change after the last pass.
LEMMA AveragesStay ==
  ASSUME UNCHANGED vars
  PROVE  /\ \A f : Exposure(f)' = Exposure(f)
         /\ \A f : UndefinedOn(f)' = UndefinedOn(f)
<1>1. avg' = avg /\ min' = min /\ size' = size
  BY DEF vars
<1>2. \A a : LastValue(a)' = LastValue(a)
  BY <1>1 DEF LastValue
<1>3. \A x : Lon(x)' = Lon(x)
  BY <1>1, <1>2 DEF Lon
<1>4. \A r : Adjusted(r)' = Adjusted(r)
  BY <1>3 DEF Adjusted
<1>5. \A l : Covered(l)' = Covered(l) /\ cIdx(l)' = cIdx(l)
  BY <1>1, <1>2, <1>4 DEF Covered, cIdx
<1>6. \A l : abs_conc(l)' = abs_conc(l) /\ Undefined(l)' = Undefined(l)
  BY <1>1, <1>5 DEF abs_conc, Undefined
<1> QED
  BY <1>6 DEF Exposure, UndefinedOn

LEMMA ReportStep ==
  ASSUME ReportInv, [PlanesNext]_planesVars
  PROVE  ReportInv'
<1>1. CASE Grid
  <2>1. pc # "done" /\ report' = report
    BY <1>1 DEF Grid, MakeGrid, Count, Average, AverageBeyond
  <2> QED
    BY <2>1 DEF ReportInv
<1>2. CASE calculateExposure
  <2>1. /\ pc = "done" /\ UNCHANGED vars /\ pc' = pc
        /\ \E f \in PlanesFiles : flight' = Flights(f)
    BY <1>2 DEF calculateExposure, vars
  <2>2. flight' \in Seq(FlightLines)
    BY <2>1, FlightsType, PlanesAssumption
  <2>3. Met' = {k \in DOMAIN flight' : Overlaps(flight'[k])}
    BY DEF Met, Overlaps, LastTime
  <2>4. ASSUME report' = "printed"
        PROVE  /\ \A k \in Met' : ~UndefinedOn(flight'[k])
               /\ exposure' = [k \in Met' |-> Exposure(flight'[k])]
    BY <1>2, <2>3, <2>4 DEF calculateExposure
  <2>5. ASSUME report' = "printed"
        PROVE  /\ \A k \in Met' : ~UndefinedOn(flight[k])'
               /\ exposure' = [k \in Met' |-> Exposure(flight[k])']
    BY <2>1, <2>4, <2>5, AveragesStay
  <2> QED
    BY <2>1, <2>2, <2>5 DEF ReportInv
<1>3. CASE UNCHANGED planesVars
  <2>1. /\ UNCHANGED vars /\ pc' = pc /\ flight' = flight /\ report' = report
        /\ exposure' = exposure /\ Met' = Met
    BY <1>3 DEF planesVars, vars, Met, Overlaps, LastTime
  <2>2. ASSUME report = "printed"
        PROVE  /\ \A k \in Met' : ~UndefinedOn(flight[k])'
               /\ exposure' = [k \in Met' |-> Exposure(flight[k])']
    BY <2>1, <2>2, AveragesStay DEF ReportInv
  <2> QED
    BY <2>1, <2>2 DEF ReportInv
<1> QED
  BY <1>1, <1>2, <1>3 DEF PlanesNext, PlanesReturned

\* The calculation of exposures leaves the counting and averaging of
\* writeGriddedData and averageGriddedData alone, so that what is proved of the
\* grid holds with it as well.
THEOREM PlanesOverGrid == PlanesSpec => Spec
<1>1. PlanesInit => Init
  BY DEF PlanesInit
<1>2. [PlanesNext]_planesVars => [Next]_vars
  BY DEF PlanesNext, planesVars, Grid, calculateExposure, PlanesReturned, Next
<1> QED
  BY <1>1, <1>2, PTL DEF PlanesSpec, Spec

\* What Planes::calculateExposure reports of a flight with its lines in order of
\* time is the exposure to the averages of the cells it passes, on any grid, and
\* a flight it leaves out has none.
THEOREM ExposureCorrect == PlanesSpec => []ExposureRight
<1>1. PlanesInit => ReportInv
  BY DEF PlanesInit, ReportInv
<1>2. TypeOK /\ ReportInv => ExposureRight
  <2> SUFFICES ASSUME TypeOK, ReportInv, report = "printed",
                      NEW k \in DOMAIN flight, InOrder(flight[k])
               PROVE  Summed(flight[k], [i \in DOMAIN flight[k] |->
                                           Concentration(flight[k][i])])
                        = IF k \in DOMAIN exposure THEN exposure[k] ELSE 0
    BY DEF ExposureRight
  <2> DEFINE f == flight[k]
             c == [i \in DOMAIN f |-> Concentration(f[i])]
             a == [i \in DOMAIN f |-> abs_conc(f[i])]
  <2>1. f \in FlightLines
    BY DEF ReportInv
  <2>2. /\ Len(f) \in Nat \ {0} /\ DOMAIN f = 1 .. Len(f)
        /\ \A i \in 1 .. Len(f) : f[i] \in Line
    <3>1. f \in Seq(Line) /\ f # <<>>
      BY <2>1 DEF FlightLines
    <3> HIDE DEF f
    <3> QED
      BY <3>1
  <2>3. CASE Overlaps(f)
    <3>1. k \in DOMAIN exposure /\ exposure[k] = Summed(f, a) /\ ~UndefinedOn(f)
      BY <2>3 DEF ReportInv, Met, Exposure
    <3>2. CASE Len(f) = 1
      <4>1. Summed(f, a) = 0 /\ Summed(f, c) = 0
        <5> HIDE DEF f, a, c
        <5>1. 2 .. Len(f) = {}
          BY <3>2
        <5> QED
          BY <2>1, <5>1, SummedZero
      <4> QED
        BY <3>1, <4>1
    <3>3. CASE Len(f) # 1
      <4>1. \A i \in DOMAIN f : ~Undefined(f[i])
        BY <2>2, <3>1, <3>3 DEF UndefinedOn
      <4>2. \A i \in DOMAIN f : abs_conc(f[i]) = Concentration(f[i])
        BY <2>2, <4>1, LookedUp
      <4>3. a = c
        BY <4>2
      <4> QED
        BY <3>1, <4>3
    <3> QED
      BY <3>2, <3>3
  <2>4. CASE ~Overlaps(f)
    <3>1. k \notin DOMAIN exposure
      BY <2>4 DEF ReportInv, Met
    <3>2. ASSUME NEW i \in 1 .. Len(f) PROVE c[i] = 0
      <4>1. f[1].time <= f[i].time /\ f[i].time <= f[Len(f)].time
        BY <2>1, EndsOfFlight
      <4>2. f[1].time \in Int /\ f[i].time \in Int /\ f[Len(f)].time \in Int
        <5>1. f[1] \in Line /\ f[i] \in Line /\ f[Len(f)] \in Line
          BY <2>2
        <5> QED
          BY <5>1 DEF Line
      <4>3. LastTime \in Int
        BY GridAssumption, PlanesAssumption DEF LastTime
      <4>4. f[1].time > LastTime \/ f[Len(f)].time < 0
        BY <2>4, <4>2, <4>3 DEF Overlaps
      <4>5. TimeSlots(f[i].time) = {}
        <5>1. ~(0 <= f[i].time /\ f[i].time <= LastTime)
          BY <4>1, <4>2, <4>3, <4>4
        <5> QED
          BY <4>2, <5>1, RecordSlots
      <4>6. Concentration(f[i]) = 0
        BY <4>5 DEF Concentration
      <4> QED
        BY <2>2, <4>6
    <3>3. Summed(f, c) = 0
      <4> HIDE DEF f, c
      <4>1. ASSUME NEW i \in 2 .. Len(f) PROVE c[i - 1] + c[i] = 0
        <5>1. i \in 1 .. Len(f) /\ i - 1 \in 1 .. Len(f)
          BY <2>2, <4>1
        <5> QED
          BY <3>2, <5>1
      <4> QED
        BY <2>1, <4>1, SummedZero
    <3> QED
      BY <3>1, <3>3
  <2> QED
    BY <2>3, <2>4
<1> QED
  BY <1>1, <1>2, ReportStep, PlanesOverGrid, GridTypesCorrect, PTL DEF PlanesSpec
=============================================================================

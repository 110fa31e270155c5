----------------------------- MODULE InitialAsh -----------------------------
(***************************************************************************)
(* make_ash: how the particles of a pass come to their first place,        *)
(* height, size and start time.  A restart file, an ash file or a cloud    *)
(* file, brings the first ashNpart of them; an eruption gives the rest.    *)
(* The steps run one after the other, each in a loop of its own with its   *)
(* own idea of which particles are its business.                           *)
(*                                                                         *)
(* A value is the step it comes from.  A size given by -phiDist is the     *)
(* number of its class.  The code takes the shares of the option for       *)
(* shares of the mass and makes numbers of particles of them; a share is   *)
(* kept as a fraction of the sum, so that to normalise changes nothing.    *)
(*                                                                         *)
(* A definition named after another with a suffix is a plausible mistake   *)
(* in that operation, there to show which property notices it.             *)
(***************************************************************************)
EXTENDS CloudFill

CONSTANTS
  Counts,     \* the values of -nAsh
  NFile,      \* the particles an ash file holds
  MaxCloud,   \* bound: the largest of them used with a cloud file
  Classes     \* the classes -phiDist may give; << >> for the normal law.
              \* many: how many of the particles are one mass

ASSUME AshAssumption ==
  /\ Counts \subseteq Nat \ {0} /\ NFile \in Nat \ {0}
  /\ Classes \subseteq Seq([mass : Nat, many : Nat \ {0}])
  \* The code divides by their sum.
  /\ \A s \in Classes : s # <<>> => \E k \in 1 .. Len(s) : s[k].mass > 0

VARIABLES
  step,       \* the next step of make_ash
  restart,    \* "none", "ash" or "cloud"
  volcano,    \* is there an eruption?
  nAsh,
  percent,    \* the shares of -phiDist by number
  particle, ashN, ashNpart,
  first, next, class, thisSize,   \* locals of init_size; thisSize is that of
                                  \* a class, 0 when not yet set
  wild        \* has a place outside the array been written?

makeVars == <<step, restart, volcano, nAsh, percent, particle, ashN, ashNpart,
             first, next, class, thisSize, wild>>
allVars == <<cloudVars, makeVars>>
options == <<restart, volcano, nAsh>>
locals == <<percent, first, next, class, thisSize, wild>>

Raw == [place |-> "zero", height |-> "zero", size |-> "zero", class |-> 0,
        start |-> "zero"]
Filed == [place |-> "file", height |-> "file", size |-> "file", class |-> 0,
          start |-> "file"]

\* "convert mass percentages to number percentages"
ByNumber(s) == [k \in 1 .. Len(s) |-> s[k].mass * s[k].many]
SizeShares  == {ByNumber(s) : s \in Classes}

Array(n, V(_)) == [i \in 0 .. n - 1 |-> V(i)]
New  == ashNpart .. ashN - 1
\* The loops that give new particles a value.
Give(F(_)) == [i \in DOMAIN particle |->
                 IF i \in New THEN F(particle[i]) ELSE particle[i]]
GiveAll(F(_)) == [i \in DOMAIN particle |-> F(particle[i])]

-----------------------------------------------------------------------------
MakeInit ==
  /\ CloudInit
  /\ step = "restart" /\ restart \in {"none", "ash", "cloud"}
  /\ volcano \in BOOLEAN /\ nAsh \in Counts /\ percent = <<>>
  /\ restart = "cloud" => nAsh <= MaxCloud
  /\ particle = Array(0, LAMBDA i : Raw) /\ ashN = 0 /\ ashNpart = 0
  /\ first = 0 /\ next = 0 /\ class = 0 /\ thisSize = 0
  /\ wild = FALSE

\* init_site_custom with an ash file: its particles come first.
ReadAsh ==
  /\ step = "restart" /\ restart = "ash"
  /\ ashNpart' = NFile
  /\ ashN' = NFile + IF volcano THEN nAsh ELSE 0
  /\ \/ /\ step' = "site"
        /\ particle' = Array(ashN', LAMBDA i : IF i < NFile THEN Filed ELSE Raw)
     \/ /\ step' = "failed"
        /\ particle' = Array(ashN', LAMBDA i : Raw)
  /\ UNCHANGED <<cloudVars, options, locals>>

\* With a cloud file: half of them, when there is an eruption as well.
ReadCloud ==
  /\ step = "restart" /\ restart = "cloud"
  /\ ashN' = nAsh /\ particle' = Array(nAsh, LAMBDA i : Raw)
  /\ ashNpart' = IF volcano THEN nAsh \div 2 ELSE nAsh
  /\ ReadPoints(ashNpart')
  /\ UNCHANGED <<step, options, locals>>

Filling == CloudNext /\ UNCHANGED makeVars

\* A place of lonlatValues that the fill has not reached is not initialized.
CloudParticle(i) ==
  [place |-> IF i < Len(points) THEN "cloud" ELSE "junk",
   height |-> IF i < Len(points) THEN "cloud" ELSE "junk",
   size |-> "cloud", class |-> 0, start |-> "minusOne"]

LoadCloud ==
  /\ step = "restart" /\ Destroy
  /\ particle' = [i \in DOMAIN particle |->
                    IF i < ashNpart THEN CloudParticle(i) ELSE particle[i]]
  /\ step' = "site"
  /\ UNCHANGED <<options, ashN, ashNpart, locals>>

\* The checks of the cloud end the program.
CloudFails ==
  /\ step = "restart" /\ cloud \in {"crossing", "sides", "exhausted"}
  /\ step' = "failed"
  /\ UNCHANGED <<cloudVars, options, particle, ashN, ashNpart, locals>>

NoRestart ==
  /\ step = "restart" /\ restart = "none"
  /\ IF volcano
     THEN /\ step' = "site" /\ ashN' = nAsh
          /\ particle' = Array(nAsh, LAMBDA i : Raw)
     ELSE step' = "failed" /\ UNCHANGED <<ashN, particle>>
  /\ UNCHANGED <<cloudVars, options, ashNpart, locals>>

\* init_site and the column, for an eruption only.
Site ==
  /\ step = "site"
  /\ particle' = IF volcano THEN Give(LAMBDA p : [p EXCEPT !.place = "vent"])
                 ELSE particle
  /\ step' = IF volcano THEN "column" ELSE "spread"
  /\ UNCHANGED <<cloudVars, options, ashN, ashNpart, locals>>

Column ==
  /\ step = "column"
  /\ particle' = Give(LAMBDA p : [p EXCEPT !.height = "column"])
  /\ step' = "spread"
  /\ UNCHANGED <<cloudVars, options, ashN, ashNpart, locals>>

\* horiz_spread, unless -plumeHwidth is zero.  It spreads around the place by
\* the height, so both must be there.
Around1(p) ==
  [p EXCEPT !.place = IF p.place = "vent" /\ p.height = "column"
                      THEN "plume" ELSE "astray"]
SpreadAll ==
  /\ step = "spread"
  /\ particle' \in {particle, GiveAll(Around1)}
  /\ percent' \in SizeShares
  /\ step' = IF percent' = <<>> THEN "normal" ELSE "class"
  /\ first' = ashNpart /\ class' = 1
  /\ UNCHANGED <<cloudVars, options, ashN, ashNpart, next, thisSize, wild>>

Spread ==
  /\ step = "spread"
  /\ particle' \in {particle, Give(Around1)}
  /\ percent' \in SizeShares
  /\ step' = IF percent' = <<>> THEN "normal" ELSE "class"
  /\ first' = ashNpart /\ class' = 1
  /\ UNCHANGED <<cloudVars, options, ashN, ashNpart, next, thisSize, wild>>

\* init_size without -phiDist: the normal law.
NormalSizes ==
  /\ step = "normal"
  /\ particle' = Give(LAMBDA p : [p EXCEPT !.size = "normal"])
  /\ step' = "age"
  /\ UNCHANGED <<cloudVars, options, ashN, ashNpart, locals>>

-----------------------------------------------------------------------------
\* init_size with -phiDist.
totalSize == ashN - ashNpart
SharesTo[k \in 0 .. Len(percent)] == IF k = 0 THEN 0 ELSE SharesTo[k - 1] + percent[k]
Whole == SharesTo[Len(percent)]

\* floor(first + percent * totalSize): the product of a rounded share may fall
\* just below a whole number.
Reached ==
  LET q == percent[class] * totalSize IN
  {first + q \div Whole}
    \cup IF q > 0 /\ q % Whole = 0 /\ percent[class] # Whole
         THEN {first + q \div Whole - 1} ELSE {}

\* "while (next >= totalSize) next--"
Limit(n) == IF n >= totalSize THEN totalSize - 1 ELSE n

Sized(from, to, c) ==
  [i \in DOMAIN particle |->
     IF from <= i /\ i <= to
     THEN [particle[i] EXCEPT !.size = "class", !.class = c] ELSE particle[i]]

\* The element before the array is the only one outside that is reached.
Outside(from, to) == from < 0 /\ from <= to

\* The next class starts after the last particle of this one.
SizeClassAfter ==
  /\ step = "class" /\ class <= Len(percent)
  /\ \E n \in Reached :
       /\ next' = Limit(n) /\ first' = next' + 1
       /\ particle' = Sized(first, next', class)
       /\ thisSize' = IF first <= next' THEN class ELSE thisSize
       /\ wild' = (wild \/ Outside(first, next'))
  /\ class' = class + 1
  /\ UNCHANGED <<cloudVars, options, percent, step, ashN, ashNpart>>

SizeClass ==
  /\ step = "class" /\ class <= Len(percent)
  /\ \E n \in Reached :
       /\ next' = Limit(n) /\ first' = next'
       /\ particle' = Sized(first, next', class)
       /\ thisSize' = IF first <= next' THEN class ELSE thisSize
       /\ wild' = (wild \/ Outside(first, next'))
  /\ class' = class + 1
  /\ UNCHANGED <<cloudVars, options, percent, step, ashN, ashNpart>>

\* What is left over gets the size given last.
SizeRest ==
  /\ step = "class" /\ class > Len(percent)
  /\ particle' = Sized(next, totalSize - 1, thisSize)
  /\ wild' = (wild \/ Outside(next, totalSize - 1))
  /\ step' = "age"
  /\ UNCHANGED <<cloudVars, options, percent, ashN, ashNpart, first, next, class,
                 thisSize>>

\* init_age
Age ==
  /\ step = "age"
  /\ particle' = Give(LAMBDA p : [p EXCEPT !.start =
                   IF p.start = "minusOne" THEN "eruption" ELSE "drawn"])
  /\ step' = "ready"
  /\ UNCHANGED <<cloudVars, options, ashN, ashNpart, locals>>

MakeNext ==
  \/ ReadAsh \/ ReadCloud \/ Filling \/ LoadCloud \/ CloudFails \/ NoRestart
  \/ Site \/ Column \/ Spread \/ NormalSizes \/ SizeClass \/ SizeRest \/ Age

MakeSpec == MakeInit /\ [][MakeNext]_allVars

-----------------------------------------------------------------------------
MakeTypeOK ==
  /\ step \in {"restart", "site", "column", "spread", "normal", "class", "age",
               "ready", "failed"}
  /\ cloud \in {"none", "read", "fill", "filled", "gone", "crossing",
            "sides", "exhausted"}
  /\ DOMAIN particle = 0 .. ashN - 1 /\ ashNpart \in 0 .. ashN
  /\ Len(points) <= want /\ nPolySide \in 1 .. 1 + Len(elevPoint)
  /\ first \in -1 .. ashN /\ next \in -1 .. ashN /\ wild \in BOOLEAN

(* The cloud stays on the side of the outline where its first elevation    *)
(* point lies, inside or outside, although a walk may step over two sides  *)
(* and starts again from a list that is sorted all the time.  Points on    *)
(* the outline or on the longitude of a vertex (Passes) are another matter. *)
SameSide ==
  \A i, j \in DOMAIN points :
    Plain(points[i]) /\ Plain(points[j])
      => (Enclosed(points[i]) <=> Enclosed(points[j]))

(* An outline is refused for crossing sides exactly when two sides that    *)
(* are not neighbours cross, sides of constant longitude left aside.       *)
CrossingsFound ==
  /\ cloud = "crossing" => \E p \in Compared : CrossEachOther(p[1], p[2])
  /\ cloud = "fill" =>
       \A p \in Compared :
         dx(p[1]) # 0 /\ dx(p[2]) # 0 => ~CrossEachOther(p[1], p[2])

\* -phiDist counts the new particles but uses the numbers as indices in the whole
\* array.  Beside a file this leaves out the last of them, as many as the file
\* has, and may change the one particle of the file that has the last number.
LeftOut(i) == percent # <<>> /\ i >= totalSize
Changed(i) == percent # <<>> /\ i = totalSize - 1

(* When the ash is ready, what the file brought is as the file had it, and *)
(* every new particle has been given a place, a height, a start time and a *)
(* size by the steps of the eruption, except for sizes as said above.  The *)
(* particles of a cloud take no part in the spread of the start times.     *)
EachItsOwn ==
  step = "ready" =>
    \A i \in DOMAIN particle :
      LET p == particle[i]
      IN  IF i >= ashNpart
          THEN /\ p.place \in {"vent", "plume"} /\ p.height = "column"
               /\ p.start = "drawn"
               /\ \/ LeftOut(i)
                  \/ p.size = IF percent = <<>> THEN "normal" ELSE "class"
          ELSE IF restart = "ash"
          THEN /\ p.place = "file" /\ p.height = "file" /\ p.start = "file"
               /\ Changed(i) \/ p.size = "file"
          ELSE /\ p.place = "cloud" /\ p.height = "cloud" /\ p.start # "drawn"
               /\ Changed(i) \/ p.size = "cloud"

(* With no file, -phiDist gives every class but the last its share by      *)
(* number of the particles, at most one less, and the last one the rest.   *)
(* Outside the array it writes only if there are no new particles at all.  *)
Count(c) == Cardinality({i \in DOMAIN particle : particle[i].class = c})
SharesRight ==
  step = "ready" /\ percent # <<>> =>
    /\ ashNpart = 0 =>
         /\ \A c \in 1 .. Len(percent) - 1 :
              /\ Count(c) * Whole <= percent[c] * totalSize
              /\ Count(c) * Whole >= percent[c] * totalSize - Whole
         /\ Count(Len(percent)) * Whole >= percent[Len(percent)] * totalSize
    /\ wild => totalSize = 0
=============================================================================

----------------------------- MODULE AshProofs ------------------------------
(***************************************************************************)
(* Theorems about AshSim, for any number of particles, any options and any *)
(* outcome of the moves, and about InitialAsh, for any files and shares.   *)
(***************************************************************************)
EXTENDS AshSim, InitialAsh, FiniteSetTheorems, WellFoundedInduction, TLAPS

\* The particles stopped in this pass, by the counter that counts them.
Down == {i \in Particles \ loaded : grounded[i]}
Gone == {i \in Particles \ loaded : ~grounded[i] /\ ~exists[i]}

\* What the counters and the early end rest on: a loaded particle is stopped,
\* so that the one being moved is in neither set yet.
StopInv ==
  /\ \A i \in loaded : Stopped(i)
  /\ numGrounded = Cardinality(Down) /\ numOutOfBounds = Cardinality(Gone)
  /\ EarlyMeansStopped
  /\ LoadedStay

\* What the dump times rest on: printOut_t is the time since the last dump, or
\* since the eruption, and never a full step beyond the save interval.
LastDump == IF dumps = <<>> THEN EruptDate ELSE dumps[Len(dumps)]
DumpInv ==
  /\ pc = "particles" => /\ printOut = clock - LastDump
                         /\ printOut < saveHours_t + Dt
                         /\ ashClock = clock
  /\ DumpsOnTime
  /\ StashFollowsDumps

\* What the passes rest on: the gridded file appears with the last of them.
PassInv ==
  /\ pc \in {"begin", "particles", "gridded"} => pass <= Repeat
  /\ pc = "done" => pass > Repeat
  /\ ComputeConcentration /\ GridOutput =>
       gridFiles = IF pass > Repeat THEN 1 ELSE 0

\* Why a regional repeat run is complete: the flag never survives the guard.
FullInv == Repeat > 0 => ~early /\ RepeatRunsFull

\* Why no file is replaced: those of this pass carry the stamps of its dumps,
\* and those of other passes an earlier number.
FileInv ==
  \A f \in files :
    /\ f.pass <= pass
    /\ f.pass = pass => pc # "begin" /\ (pc = "particles" => f.stamp <= LastDump)

\* The ticks until time c that find particle i born.
Ticks(i, c) ==
  {t \in EruptDate .. c : t >= start[i] /\ (t - EruptDate) % Dt = 0}

\* In the middle of a tick the particles below idx have had it, the others not.
MoveInv ==
  pc = "particles" =>
    /\ clock >= EruptDate /\ (clock - EruptDate) % Dt = 0
    /\ \A i \in Particles : ~Stopped(i) =>
         moves[i] = Cardinality(Ticks(i, IF i < idx THEN clock ELSE clock - Dt))

LEMMA TimesType ==
  /\ saveHours_t \in Nat /\ runHours_t \in Nat /\ endDate_t \in Nat
  /\ saveHours_t >= Dt /\ dtMins_t = Dt /\ Dt \in Nat /\ Dt > 0
  /\ EruptDate \in Nat /\ FirstPass \in Int /\ BirthTimes \subseteq Int
BY TimeAssumption, OptionAssumption
   DEF saveHours_t, runHours_t, endDate_t, saveRequest, dtMins_t, FirstPass,
       BirthTimes, eruptHours_t

LEMMA ParticlesFinite ==
  /\ N \in Nat \ {0} /\ IsFiniteSet(Particles) /\ Cardinality(Particles) = N
<1>1. N \in Nat \ {0}
  BY SizeAssumption
<1>2. IsFiniteSet(0 .. N - 1) /\ Cardinality(0 .. N - 1) = N
  BY <1>1, FS_Interval
<1> QED
  BY <1>1, <1>2 DEF Particles

\* Pushing a slice keeps the stash a sequence of slices and adds one record.
LEMMA StashedType ==
  ASSUME NEW rec \in Seq(Copies), NEW now \in Int,
         NEW st \in [Particles -> Int],
         NEW ex \in [Particles -> BOOLEAN], NEW gr \in [Particles -> BOOLEAN]
  PROVE  /\ Stashed(rec, now, st, ex, gr) \in Seq(Copies)
         /\ Len(Stashed(rec, now, st, ex, gr)) = Len(rec) + 1
<1> DEFINE copy == [i \in Particles |-> [exists |-> ex[i], grounded |-> gr[i]]]
           grown == Append(rec, copy)
<1>1. copy \in Copies
  BY DEF Copies
<1>2. grown \in Seq(Copies) /\ Len(grown) = Len(rec) + 1
  BY <1>1
<1>3. 1 \in 1 .. Len(grown) /\ grown[1] \in Copies
  BY <1>2
<1>4. \A c \in Copies : Marked(c, now, st) \in Copies
  BY DEF Copies, Marked
<1>5. Stashed(rec, now, st, ex, gr) = [grown EXCEPT ![1] = Marked(grown[1], now, st)]
  BY DEF Stashed
<1>6. Marked(grown[1], now, st) \in Copies
  BY <1>3, <1>4
<1> HIDE DEF grown, copy
<1>7. [grown EXCEPT ![1] = Marked(grown[1], now, st)] \in Seq(Copies)
      /\ Len([grown EXCEPT ![1] = Marked(grown[1], now, st)]) = Len(grown)
  BY <1>2, <1>3, <1>6
<1> QED
  BY <1>2, <1>5, <1>7

\* The files written have the type of files.
LEMMA WrittenType ==
  ASSUME TypeOK, NEW t \in Int
  PROVE  Written(t) \subseteq [pass : Int, stamp : Int]
BY DEF TypeOK, Written

\* What a move does to the flags, the counters and the early-end flag.
LEMMA MoveEffect ==
  ASSUME TypeOK, NEW hit \in BOOLEAN, NEW p \in Landings, MoveParticle(hit, p)
  PROVE  \E out \in BOOLEAN :
           /\ idx \in Particles /\ ~grounded[idx] /\ exists[idx]
           /\ grounded' = [grounded EXCEPT ![idx] = hit]
           /\ exists' = [exists EXCEPT ![idx] = ~out]
           /\ numGrounded' = IF hit THEN numGrounded + 1 ELSE numGrounded
           /\ numOutOfBounds' = IF out /\ ~hit THEN numOutOfBounds + 1
                                ELSE numOutOfBounds
           /\ early' \in BOOLEAN
           /\ early' => early \/ numOutOfBounds' + numGrounded' >= N
           /\ Repeat <= 0 /\ (hit \/ out) /\ numOutOfBounds' + numGrounded' >= N
                => early'
           /\ idx' \in 0 .. N
           /\ ~out => r' = [r EXCEPT ![idx] = p]
           /\ out => r' = [r EXCEPT ![idx] = Clamp(p)]
           /\ ~out /\ ~hit => InsideWinds(p)
<1> DEFINE c1 == IF hit THEN Ground(View(idx)) ELSE View(idx)
           out == Leaves(c1, p)
           c2 == IF out THEN OutOfBounds(c1) ELSE c1
           last == early \/ (hit /\ LastMoving(c1)) \/ (out /\ LastMoving(c2))
           skip == Global /\ p.lvl # 0 /\ c1.grounded
<1>1. /\ idx \in Particles /\ idx \in 0 .. N - 1 /\ N \in Nat
      /\ grounded[idx] = FALSE /\ exists[idx] = TRUE
  <2>1. /\ idx \in 0 .. N /\ idx < N /\ N \in Nat
        /\ ~grounded[idx] /\ exists[idx]
    BY ParticlesFinite DEF TypeOK, MoveParticle, Active
  <2>2. idx \in 0 .. N - 1
    BY <2>1
  <2> QED
    BY <2>1, <2>2 DEF TypeOK, Particles
<1>2. c1 = [grounded |-> hit, exists |-> TRUE,
            numGrounded |-> IF hit THEN numGrounded + 1 ELSE numGrounded,
            numOutOfBounds |-> numOutOfBounds]
  BY <1>1 DEF Ground, View
<1>3. out \in BOOLEAN
  BY <1>2, OptionAssumption DEF Leaves, Contains
<1>4. c2 = [grounded |-> hit, exists |-> ~out,
            numGrounded |-> IF hit THEN numGrounded + 1 ELSE numGrounded,
            numOutOfBounds |-> IF out /\ ~hit THEN numOutOfBounds + 1
                               ELSE numOutOfBounds]
  <2> DEFINE known == [grounded |-> hit, exists |-> TRUE,
                       numGrounded |-> IF hit THEN numGrounded + 1 ELSE numGrounded,
                       numOutOfBounds |-> numOutOfBounds]
  <2>1. CASE out
    <3>1. c2 = OutOfBounds(known)
      BY <2>1, <1>2
    <3> QED
      BY <3>1, <2>1 DEF OutOfBounds
  <2>2. CASE ~out
    <3>1. c2 = known
      BY <2>2, <1>2
    <3> HIDE DEF out, c2
    <3> QED
      BY <3>1, <2>2
  <2> QED
    BY <2>1, <2>2, <1>3
<1>5. /\ grounded' = [grounded EXCEPT ![idx] = c2.grounded]
      /\ exists' = [exists EXCEPT ![idx] = c2.exists]
      /\ numGrounded' = c2.numGrounded
      /\ numOutOfBounds' = c2.numOutOfBounds
      /\ r' = [r EXCEPT ![idx] = IF out THEN Clamp(p) ELSE p]
      /\ early' = IF skip THEN last ELSE RepeatGuard(last)
      /\ idx' = idx + 1
  BY DEF MoveParticle
<1>6. early' => last
  BY <1>5 DEF RepeatGuard
<1>7. early' \in BOOLEAN
  BY <1>5 DEF RepeatGuard, TypeOK, LastMoving
<1>8. last => early \/ numOutOfBounds' + numGrounded' >= N
  <2>1. hit /\ LastMoving(c1) => numOutOfBounds' + numGrounded' >= N
    <3> SUFFICES ASSUME hit, LastMoving(c1)
                 PROVE  numOutOfBounds' + numGrounded' >= N
      OBVIOUS
    <3>1. numOutOfBounds + (numGrounded + 1) >= N
      BY <1>2 DEF LastMoving
    <3> QED
      BY <3>1, <1>4, <1>5 DEF TypeOK
  <2>2. out /\ LastMoving(c2) => numOutOfBounds' + numGrounded' >= N
    BY <1>5 DEF LastMoving
  <2>3. last => early \/ (hit /\ LastMoving(c1)) \/ (out /\ LastMoving(c2))
    OBVIOUS
  <2> HIDE DEF c1, out, c2, last
  <2> QED
    BY <2>1, <2>2, <2>3, Zenon
<1>9. ~out /\ ~hit => InsideWinds(p)
  BY <1>2 DEF Leaves, Contains, InsideWinds, Landings, Positions
<1>10. idx' \in 0 .. N
  BY <1>1, <1>5
<1>12. Repeat <= 0 /\ (hit \/ out) /\ numOutOfBounds' + numGrounded' >= N => early'
  <2> SUFFICES ASSUME Repeat <= 0, hit \/ out,
                      numOutOfBounds' + numGrounded' >= N
               PROVE  early'
    OBVIOUS
  <2>1. c2.numOutOfBounds + c2.numGrounded >= N
    BY <1>5
  <2>2. ~out => c2 = c1
    OBVIOUS
  <2>3. (hit /\ LastMoving(c1)) \/ (out /\ LastMoving(c2))
    BY <2>1, <2>2 DEF LastMoving
  <2>4. last
    BY <2>3
  <2> QED
    BY <2>4, <1>5 DEF RepeatGuard
<1> HIDE DEF c1, out, c2, last, skip
<1>11. c2.grounded = hit /\ c2.exists = ~out
       /\ c2.numGrounded = (IF hit THEN numGrounded + 1 ELSE numGrounded)
       /\ c2.numOutOfBounds = (IF out /\ ~hit THEN numOutOfBounds + 1
                               ELSE numOutOfBounds)
  BY <1>4
<1> WITNESS out \in BOOLEAN
<1> QED
  BY <1>1, <1>5, <1>6, <1>7, <1>8, <1>9, <1>10, <1>11, <1>12, Zenon

-----------------------------------------------------------------------------
LEMMA InitType == Init => TypeOK
<1> SUFFICES ASSUME Init PROVE TypeOK
  OBVIOUS
<1> USE TimesType, ParticlesFinite
<1>1. Source \in Positions \cup {Source} /\ 0 \in 0 .. N
  OBVIOUS
<1>2. <<>> \in Seq(Copies) /\ <<>> \in Seq(Int)
  OBVIOUS
<1>3. /\ pc = "begin" /\ pass \in Int /\ clock \in Int /\ idx \in 0 .. N
      /\ early \in BOOLEAN /\ printOut \in Nat /\ ashClock \in Int
      /\ numGrounded \in Nat /\ numOutOfBounds \in Nat /\ avgSlices \in Int
      /\ gridFiles \in Nat
  <2>1. /\ pc = "begin" /\ pass = FirstPass /\ clock = EruptDate /\ idx = 0
        /\ early = FALSE /\ printOut = 0 /\ ashClock = 0
        /\ numGrounded = 0 /\ numOutOfBounds = 0 /\ avgSlices = -1
        /\ gridFiles = 0
    BY DEF Init
  <2>2. early \in BOOLEAN
    BY <2>1, Zenon
  <2> QED
    BY <2>1, <2>2
<1>4. /\ start \in [Particles -> Int] /\ moves \in [Particles -> Nat]
      /\ grounded \in [Particles -> BOOLEAN] /\ exists \in [Particles -> BOOLEAN]
  BY DEF Init
<1>5. r \in [Particles -> Positions \cup {Source}]
  BY <1>1 DEF Init
<1>6. /\ recParticle \in Seq(Copies) /\ recTime \in Seq(Int) /\ dumps \in Seq(Int)
      /\ files \subseteq [pass : Int, stamp : Int] /\ loaded \subseteq Particles
  BY <1>2 DEF Init
<1> QED
  BY <1>3, <1>4, <1>5, <1>6 DEF TypeOK

LEMMA BeginType == TypeOK /\ BeginPass => TypeOK'
<1> SUFFICES ASSUME TypeOK, BeginPass PROVE TypeOK'
  OBVIOUS
<1> USE TimesType, ParticlesFinite
<1>1. PICK made \in [Particles -> Made] :
        /\ start' = [i \in Particles |-> made[i].start]
        /\ grounded' = [i \in Particles |-> made[i].grounded]
        /\ exists' = [i \in Particles |-> made[i].exists]
        /\ loaded' = {i \in Particles : made[i].grounded \/ ~made[i].exists}
  BY DEF BeginPass
<1>2. \A i \in Particles : /\ made[i].start \in Int
                           /\ made[i].grounded \in BOOLEAN
                           /\ made[i].exists \in BOOLEAN
  <2>1. FileBirths \cup BirthTimes \cup {-1} \subseteq Int
    BY TimeAssumption
  <2> TAKE i \in Particles
  <2>2. made[i] \in Made
    OBVIOUS
  <2> QED
    BY <2>1, <2>2 DEF Made
<1>3. /\ start' \in [Particles -> Int] /\ grounded' \in [Particles -> BOOLEAN]
      /\ exists' \in [Particles -> BOOLEAN] /\ loaded' \subseteq Particles
  BY <1>1, <1>2
<1>4. /\ Stashed(<<>>, EruptDate, start', exists', grounded') \in Seq(Copies)
      /\ Written(EruptDate) \subseteq [pass : Int, stamp : Int]
  <2>1. <<>> \in Seq(Copies) /\ EruptDate \in Int
    OBVIOUS
  <2>2. Stashed(<<>>, EruptDate, start', exists', grounded') \in Seq(Copies)
    BY <1>3, <2>1, StashedType
  <2> QED
    BY <2>1, <2>2, WrittenType
<1>5. /\ dumps' \in Seq(Int) /\ recTime' \in Seq(Int) /\ recParticle' \in Seq(Copies)
      /\ files' \subseteq [pass : Int, stamp : Int]
  BY <1>4 DEF BeginPass, TypeOK
<1>6. /\ r' \in [Particles -> Positions \cup {Source}] /\ moves' \in [Particles -> Nat]
      /\ clock' \in Int /\ ashClock' \in Int /\ idx' \in 0 .. N
      /\ early' \in BOOLEAN /\ printOut' \in Nat
      /\ numGrounded' \in Nat /\ numOutOfBounds' \in Nat
  <2>1. /\ r' = [i \in Particles |-> Source] /\ moves' = [i \in Particles |-> 0]
        /\ clock' = EruptDate /\ ashClock' = EruptDate /\ idx' = 0
        /\ early' = FALSE /\ printOut' = 0
        /\ numGrounded' = 0 /\ numOutOfBounds' = 0
    BY DEF BeginPass
  <2>2. r' \in [Particles -> Positions \cup {Source}]
    BY <2>1
  <2>3. moves' \in [Particles -> Nat]
    BY <2>1
  <2>4. early' \in BOOLEAN
    BY <2>1, Zenon
  <2>5. /\ clock' \in Int /\ ashClock' \in Int /\ idx' \in 0 .. N
        /\ printOut' \in Nat /\ numGrounded' \in Nat /\ numOutOfBounds' \in Nat
    BY <2>1
  <2> QED
    BY <2>2, <2>3, <2>4, <2>5
<1>7. pc' = "particles" /\ UNCHANGED <<pass, avgSlices, gridFiles>>
  BY DEF BeginPass
<1> QED
  BY <1>3, <1>5, <1>6, <1>7 DEF TypeOK

LEMMA MoveType ==
  ASSUME TypeOK, NEW hit \in BOOLEAN, NEW p \in Landings, MoveParticle(hit, p)
  PROVE  TypeOK'
<1>1. PICK out \in BOOLEAN :
        /\ idx \in Particles
        /\ grounded' = [grounded EXCEPT ![idx] = hit]
        /\ exists' = [exists EXCEPT ![idx] = ~out]
        /\ numGrounded' = IF hit THEN numGrounded + 1 ELSE numGrounded
        /\ numOutOfBounds' = IF out /\ ~hit THEN numOutOfBounds + 1
                             ELSE numOutOfBounds
        /\ early' \in BOOLEAN /\ idx' \in 0 .. N
        /\ ~out => r' = [r EXCEPT ![idx] = p]
        /\ out => r' = [r EXCEPT ![idx] = Clamp(p)]
  BY MoveEffect
<1>2. p \in Positions /\ Clamp(p) \in Positions
  BY DEF Landings, Positions, Clamp
<1>3. /\ grounded' \in [Particles -> BOOLEAN] /\ exists' \in [Particles -> BOOLEAN]
      /\ numGrounded' \in Nat /\ numOutOfBounds' \in Nat
      /\ r' \in [Particles -> Positions \cup {Source}]
  BY <1>1, <1>2 DEF TypeOK
<1>4. moves' = [moves EXCEPT ![idx] = moves[idx] + 1]
      /\ UNCHANGED <<pc, pass, clock, printOut, ashClock, start, stash, avgSlices,
                     files, gridFiles, loaded, dumps>>
  BY DEF MoveParticle
<1>5. moves' \in [Particles -> Nat]
  BY <1>1, <1>4 DEF TypeOK
<1> QED
  BY <1>1, <1>3, <1>4, <1>5 DEF TypeOK, stash

LEMMA TickType == TypeOK /\ EndTick => TypeOK'
<1> SUFFICES ASSUME TypeOK, EndTick PROVE TypeOK'
  OBVIOUS
<1> USE TimesType, ParticlesFinite
<1>1. /\ Stashed(recParticle, clock, start, exists, grounded) \in Seq(Copies)
      /\ Written(clock) \subseteq [pass : Int, stamp : Int]
  BY StashedType, WrittenType DEF TypeOK
<1>2. /\ dumps' \in Seq(Int) /\ recTime' \in Seq(Int) /\ recParticle' \in Seq(Copies)
      /\ files' \subseteq [pass : Int, stamp : Int]
  BY <1>1 DEF EndTick, TypeOK
<1>3. /\ printOut' \in Nat /\ ashClock' \in Int /\ clock' \in Int /\ idx' \in 0 .. N
      /\ pc' \in {"particles", "gridded"}
  BY DEF EndTick, TypeOK
<1>4. UNCHANGED <<pass, early, ashVars, avgSlices, gridFiles, loaded, moves>>
  BY DEF EndTick
<1> QED
  BY <1>2, <1>3, <1>4 DEF TypeOK, ashVars

LEMMA NextType == TypeOK /\ [Next]_vars => TypeOK'
<1> SUFFICES ASSUME TypeOK, [Next]_vars PROVE TypeOK'
  OBVIOUS
<1>1. CASE BeginPass
  BY <1>1, BeginType
<1>2. CASE Reject
  BY <1>2 DEF Reject, TypeOK, Ended, ashVars, stash, history
<1>3. ASSUME NEW hit \in BOOLEAN, NEW p \in Landings, MoveParticle(hit, p)
      PROVE  TypeOK'
  BY <1>3, MoveType
<1>4. CASE PassOver
  <2>1. idx' \in 0 .. N /\ early' \in BOOLEAN
    BY <1>4, ParticlesFinite DEF PassOver, TypeOK, RepeatGuard
  <2> QED
    BY <1>4, <2>1 DEF PassOver, TypeOK, ashVars, stash, history
<1>5. CASE EndTick
  BY <1>5, TickType
<1>6. CASE OutputFails
  BY <1>6 DEF OutputFails, TypeOK, Ended, ashVars, stash, history
<1>7. CASE EndPass
  <2>1. avgSlices' \in Int /\ gridFiles' \in Nat /\ pass' \in Int
        /\ pc' \in {"begin", "done"}
    BY <1>7 DEF EndPass, TypeOK
  <2> QED
    BY <1>7, <2>1 DEF EndPass, TypeOK, Ended, ashVars, stash, history
<1>8. CASE EmptyStash
  BY <1>8 DEF EmptyStash, TypeOK, Ended, ashVars, stash, history
<1>9. CASE UNCHANGED vars
  BY <1>9 DEF vars, TypeOK, ashVars, stash, history
<1> QED
  BY <1>1, <1>2, <1>3, <1>4, <1>5, <1>6, <1>7, <1>8, <1>9
     DEF Next, Step, Terminated

\* Every variable of run_puff and of the Ash object always holds a value of its
\* type.
THEOREM TypeCorrect == Spec => []TypeOK
BY InitType, NextType, PTL DEF Spec

-----------------------------------------------------------------------------
(* The counters and the early end.                                         *)

LEMMA DownGoneFinite ==
  /\ IsFiniteSet(Down) /\ IsFiniteSet(Gone)
  /\ Down \subseteq Particles /\ Gone \subseteq Particles /\ Down \cap Gone = {}
  /\ Cardinality(Down) \in Nat /\ Cardinality(Gone) \in Nat
<1>1. /\ Down \subseteq Particles /\ Gone \subseteq Particles
      /\ Down \cap Gone = {}
  BY DEF Down, Gone
<1>2. IsFiniteSet(Down) /\ IsFiniteSet(Gone)
  BY <1>1, ParticlesFinite, FS_Subset
<1> QED
  BY <1>1, <1>2, FS_CardinalityType

\* Two disjoint sets of particles that count N together are all the particles.
LEMMA AllCounted ==
  ASSUME NEW A \in SUBSET Particles, NEW B \in SUBSET Particles, A \cap B = {},
         Cardinality(A) + Cardinality(B) >= N
  PROVE  Particles = A \cup B
<1>1. /\ IsFiniteSet(A) /\ IsFiniteSet(B)
      /\ Cardinality(A) \in Nat /\ Cardinality(B) \in Nat
  BY ParticlesFinite, FS_Subset, FS_CardinalityType
<1>2. Cardinality(A \cap B) = 0
  BY FS_EmptySet
<1>3. Cardinality(A \cup B) = Cardinality(A) + Cardinality(B)
  <2>1. Cardinality(A \cup B)
          = Cardinality(A) + Cardinality(B) - Cardinality(A \cap B)
    BY <1>1, FS_Union
  <2> QED
    BY <1>1, <1>2, <2>1
<1>4. A \cup B \in SUBSET Particles
  OBVIOUS
<1>5. Cardinality(A \cup B) <= N
  BY <1>4, ParticlesFinite, FS_Subset
<1>6. Cardinality(A \cup B) = Cardinality(Particles)
  BY <1>1, <1>3, <1>5, ParticlesFinite
<1> QED
  BY <1>4, <1>6, ParticlesFinite, FS_Subset

LEMMA MoveStop ==
  ASSUME TypeOK, StopInv, NEW hit \in BOOLEAN, NEW p \in Landings,
         MoveParticle(hit, p)
  PROVE  StopInv'
<1>1. PICK out \in BOOLEAN :
        /\ idx \in Particles /\ ~grounded[idx] /\ exists[idx]
        /\ grounded' = [grounded EXCEPT ![idx] = hit]
        /\ exists' = [exists EXCEPT ![idx] = ~out]
        /\ numGrounded' = IF hit THEN numGrounded + 1 ELSE numGrounded
        /\ numOutOfBounds' = IF out /\ ~hit THEN numOutOfBounds + 1
                             ELSE numOutOfBounds
        /\ early' => early \/ numOutOfBounds' + numGrounded' >= N
  BY MoveEffect
<1>2. loaded' = loaded /\ moves' = [moves EXCEPT ![idx] = moves[idx] + 1]
  BY DEF MoveParticle
<1>3. /\ grounded \in [Particles -> BOOLEAN] /\ exists \in [Particles -> BOOLEAN]
      /\ loaded \subseteq Particles /\ moves \in [Particles -> Nat]
  BY DEF TypeOK
<1>4. idx \notin loaded /\ idx \notin Down /\ idx \notin Gone
  BY <1>1 DEF StopInv, Stopped, Down, Gone
<1>5. /\ Down' = IF hit THEN Down \cup {idx} ELSE Down
      /\ Gone' = IF out /\ ~hit THEN Gone \cup {idx} ELSE Gone
  BY <1>1, <1>2, <1>3, <1>4 DEF Down, Gone
<1>6. /\ Cardinality(Down \cup {idx}) = Cardinality(Down) + 1
      /\ Cardinality(Gone \cup {idx}) = Cardinality(Gone) + 1
  BY <1>4, DownGoneFinite, FS_AddElement
<1>7. numGrounded' = Cardinality(Down)' /\ numOutOfBounds' = Cardinality(Gone)'
  BY <1>1, <1>5, <1>6 DEF StopInv
<1>8. EarlyMeansStopped'
  <2>1. ~early
    BY <1>1 DEF StopInv, EarlyMeansStopped, Stopped
  <2>2. /\ Down' \in SUBSET Particles /\ Gone' \in SUBSET Particles
        /\ Down' \cap Gone' = {}
    BY <1>1, <1>4, <1>5, DownGoneFinite
  <2>3. early' => Particles = Down' \cup Gone'
    BY <1>1, <1>7, <2>1, <2>2, AllCounted
  <2> QED
    BY <2>3 DEF EarlyMeansStopped, Stopped, Down, Gone
<1>9. (\A i \in loaded : Stopped(i))' /\ LoadedStay'
  BY <1>1, <1>2, <1>3, <1>4 DEF StopInv, Stopped, LoadedStay
<1> QED
  BY <1>7, <1>8, <1>9 DEF StopInv

LEMMA BeginStop == BeginPass => StopInv'
<1> SUFFICES ASSUME BeginPass PROVE StopInv'
  OBVIOUS
<1>1. /\ \A i \in Particles : i \notin loaded' => Stopped(i)' = FALSE
      /\ \A i \in loaded' : Stopped(i)'
      /\ loaded' \subseteq Particles
  BY DEF BeginPass, Stopped
<1>2. Down' = {} /\ Gone' = {}
  BY <1>1 DEF Down, Gone, Stopped
<1>3. numGrounded' = 0 /\ numOutOfBounds' = 0 /\ early' = FALSE
      /\ moves' = [i \in Particles |-> 0]
  BY DEF BeginPass
<1> QED
  BY <1>1, <1>2, <1>3, FS_EmptySet DEF StopInv, EarlyMeansStopped, LoadedStay

LEMMA InitStop == Init => StopInv
<1> SUFFICES ASSUME Init PROVE StopInv
  OBVIOUS
<1>1. Down = {} /\ Gone = {}
  BY DEF Init, Down, Gone
<1> QED
  BY <1>1, FS_EmptySet DEF Init, StopInv, EarlyMeansStopped, LoadedStay

LEMMA NextStop == TypeOK /\ StopInv /\ [Next]_vars => StopInv'
<1> SUFFICES ASSUME TypeOK, StopInv, [Next]_vars PROVE StopInv'
  OBVIOUS
<1> DEFINE Same == UNCHANGED <<ashVars, loaded, moves>>
<1>1. Same /\ (early' => early) => StopInv'
  BY DEF StopInv, ashVars, Down, Gone, EarlyMeansStopped, LoadedStay, Stopped
<1>2. CASE BeginPass
  BY <1>2, BeginStop
<1>3. ASSUME NEW hit \in BOOLEAN, NEW p \in Landings, MoveParticle(hit, p)
      PROVE  StopInv'
  BY <1>3, MoveStop
<1>4. CASE PassOver
  BY <1>1, <1>4 DEF PassOver, RepeatGuard, history
<1>5. CASE EndTick
  BY <1>1, <1>5 DEF EndTick
<1>6. CASE Reject \/ OutputFails \/ EndPass \/ EmptyStash
  BY <1>1, <1>6 DEF Reject, OutputFails, EndPass, EmptyStash, history
<1>7. CASE UNCHANGED vars
  BY <1>1, <1>7 DEF vars, history
<1> QED
  BY <1>2, <1>3, <1>4, <1>5, <1>6, <1>7 DEF Next, Step, Terminated

LEMMA StopCorrect == Spec => []StopInv
BY TypeCorrect, InitStop, NextStop, PTL DEF Spec

\* numGrounded and numOutOfBounds always count the particles this pass stopped,
\* each of them once.
THEOREM CountersCorrect == Spec => []Counters
<1>1. StopInv => Counters
  BY DEF StopInv, Counters, Down, Gone
<1> QED
  BY <1>1, StopCorrect, PTL

\* The early end of a run never cuts short the flight of a particle.
THEOREM EarlyEndCorrect == Spec => []EarlyMeansStopped
<1>1. StopInv => EarlyMeansStopped
  BY DEF StopInv
<1> QED
  BY <1>1, StopCorrect, PTL

\* A restart never moves a particle its file had already stopped.
THEOREM RestartKeepsStopped == Spec => []LoadedStay
<1>1. StopInv => LoadedStay
  BY DEF StopInv
<1> QED
  BY <1>1, StopCorrect, PTL

-----------------------------------------------------------------------------
(* Dumps, passes and positions.                                            *)

\* A dump taken when it is due keeps the spacing of the dumps.
LEMMA DumpDue ==
  ASSUME TypeOK, DumpsOnTime, Due, printOut = clock - LastDump,
         printOut < saveHours_t + Dt,
         NEW d, d = Append(dumps, clock)
  PROVE  /\ \A j \in 1 .. Len(d) - 1 : DumpGap(d[j], d[j + 1])
         /\ d[1] = EruptDate \/ DumpGap(EruptDate, d[1])
         /\ d # <<>> /\ d[Len(d)] = clock
<1>1. dumps \in Seq(Int) /\ clock \in Int /\ Len(dumps) \in Nat
  BY DEF TypeOK
<1>2. /\ d \in Seq(Int) /\ Len(d) = Len(dumps) + 1 /\ d[Len(d)] = clock
      /\ \A j \in 1 .. Len(dumps) : d[j] = dumps[j]
  BY <1>1
<1>3. DumpGap(LastDump, clock)
  <2>1. LastDump \in Int
    BY <1>1, TimesType DEF LastDump
  <2> QED
    BY <1>1, <2>1 DEF DumpGap, Due
<1>4. CASE dumps = <<>>
  BY <1>1, <1>2, <1>3, <1>4 DEF LastDump
<1>5. CASE dumps # <<>>
  <2>1. Len(dumps) >= 1 /\ d[1] = dumps[1]
    BY <1>1, <1>2, <1>5
  <2>2. ASSUME NEW j \in 1 .. Len(d) - 1 PROVE DumpGap(d[j], d[j + 1])
    <3>1. CASE j < Len(dumps)
      <4>1. j \in 1 .. Len(dumps) - 1 /\ d[j] = dumps[j] /\ d[j + 1] = dumps[j + 1]
        BY <1>1, <1>2, <3>1
      <4> QED
        BY <4>1 DEF DumpsOnTime
    <3>2. CASE j = Len(dumps)
      BY <1>1, <1>2, <1>3, <1>5, <3>2 DEF LastDump
    <3> QED
      BY <1>1, <1>2, <3>1, <3>2
  <2> QED
    BY <1>1, <1>2, <1>5, <2>1, <2>2 DEF DumpsOnTime
<1> QED
  BY <1>4, <1>5

LEMMA TickDump == TypeOK /\ DumpInv /\ EndTick => DumpInv'
<1> SUFFICES ASSUME TypeOK, DumpInv, EndTick PROVE DumpInv'
  OBVIOUS
<1>1. /\ printOut = clock - LastDump /\ printOut < saveHours_t + Dt
      /\ ashClock = clock
  BY DEF EndTick, DumpInv
<1>2. /\ clock \in Int /\ printOut \in Nat /\ LastDump \in Int
      /\ dumps \in Seq(Int) /\ recTime \in Seq(Int)
      /\ Dt \in Nat /\ Dt > 0 /\ saveHours_t \in Nat /\ saveHours_t >= Dt
  BY TimesType DEF TypeOK, LastDump
<1>3. clock' = clock + Dt /\ ashClock' = clock'
  BY <1>1, TimesType DEF EndTick
<1>4. StashFollowsDumps'
  <2>1. /\ recTime' = IF Due /\ Stashes THEN Append(recTime, ashClock) ELSE recTime
        /\ recParticle' = IF Due /\ Stashes
                         THEN Stashed(recParticle, clock, start, exists, grounded)
                         ELSE recParticle
        /\ dumps' = IF Due THEN Append(dumps, clock) ELSE dumps
    BY DEF EndTick
  <2>2. /\ Len(Stashed(recParticle, clock, start, exists, grounded))
             = Len(recParticle) + 1
        /\ Len(Append(recTime, ashClock)) = Len(recTime) + 1
    <3>1. Len(Stashed(recParticle, clock, start, exists, grounded))
            = Len(recParticle) + 1
      BY StashedType DEF TypeOK
    <3>2. Len(Append(recTime, ashClock)) = Len(recTime) + 1
      BY <1>1, <1>2
    <3> QED
      BY <3>1, <3>2
  <2> QED
    BY <1>1, <2>1, <2>2 DEF DumpInv, StashFollowsDumps, Stashes
<1>5. CASE Due
  <2>1. dumps' = Append(dumps, clock) /\ printOut' = Dt
    BY <1>2, <1>5, TimesType DEF EndTick
  <2>2. DumpsOnTime' /\ LastDump' = clock
    <3>1. DumpsOnTime
      BY DEF DumpInv
    <3>2. /\ \A j \in 1 .. Len(dumps') - 1 : DumpGap(dumps'[j], dumps'[j + 1])
          /\ dumps'[1] = EruptDate \/ DumpGap(EruptDate, dumps'[1])
          /\ dumps' # <<>> /\ dumps'[Len(dumps')] = clock
      BY <1>1, <1>5, <2>1, <3>1, DumpDue
    <3> QED
      BY <3>2 DEF DumpsOnTime, DumpGap, LastDump, saveHours_t, saveRequest, dtMins_t
  <2>3. printOut' = clock' - LastDump' /\ printOut' < saveHours_t + Dt
    BY <1>2, <1>3, <2>1, <2>2
  <2> QED
    BY <1>3, <1>4, <2>2, <2>3
       DEF DumpInv, saveHours_t, saveRequest, dtMins_t
<1>6. CASE ~Due
  <2>1. dumps' = dumps /\ printOut' = printOut + Dt
    BY <1>6, TimesType DEF EndTick
  <2>2. DumpsOnTime' /\ LastDump' = LastDump
    BY <2>1 DEF DumpInv, DumpsOnTime, DumpGap, LastDump, saveHours_t, saveRequest,
                dtMins_t
  <2>3. printOut' = clock' - LastDump' /\ printOut' < saveHours_t + Dt
    BY <1>1, <1>2, <1>3, <1>6, <2>1, <2>2 DEF Due
  <2> QED
    BY <1>3, <1>4, <2>2, <2>3
       DEF DumpInv, saveHours_t, saveRequest, dtMins_t
<1> QED
  BY <1>5, <1>6

LEMMA BeginDump == BeginPass => DumpInv'
<1> SUFFICES ASSUME BeginPass PROVE DumpInv'
  OBVIOUS
<1> DEFINE save == SaveAshInit /\ Repeat <= 0
<1>1. /\ dumps' = IF save THEN <<EruptDate>> ELSE <<>>
      /\ recTime' = IF save /\ Stashes THEN <<EruptDate>> ELSE <<>>
      /\ recParticle' = IF save /\ Stashes
                       THEN Stashed(<<>>, EruptDate, start', exists', grounded')
                       ELSE <<>>
      /\ clock' = EruptDate /\ ashClock' = EruptDate /\ printOut' = 0
  BY DEF BeginPass
<1> HIDE DEF save
<1>2. LastDump' = EruptDate /\ DumpsOnTime'
  BY <1>1 DEF LastDump, DumpsOnTime
<1>3. Len(recParticle') = Len(recTime')
  <2>1. Len(Stashed(<<>>, EruptDate, start', exists', grounded')) = 1
    BY DEF Stashed
  <2> QED
    BY <1>1, <2>1
<1>4. StashFollowsDumps'
  BY <1>1, <1>3 DEF StashFollowsDumps, Stashes
<1>5. /\ printOut' = clock' - LastDump' /\ printOut' < saveHours_t + Dt
      /\ ashClock' = clock'
  BY <1>1, <1>2, TimesType
<1> QED
  BY <1>2, <1>4, <1>5 DEF DumpInv, saveHours_t, saveRequest, dtMins_t

LEMMA NextDump == TypeOK /\ DumpInv /\ [Next]_vars => DumpInv'
<1> SUFFICES ASSUME TypeOK, DumpInv, [Next]_vars PROVE DumpInv'
  OBVIOUS
<1> DEFINE Same == UNCHANGED <<clock, ashClock, printOut, stash, dumps>>
<1>1. Same /\ (pc' = "particles" => pc = "particles") => DumpInv'
  BY DEF DumpInv, DumpsOnTime, StashFollowsDumps, LastDump, DumpGap, stash,
         saveHours_t, saveRequest, dtMins_t
<1>2. CASE BeginPass
  BY <1>2, BeginDump
<1>3. ASSUME NEW hit \in BOOLEAN, NEW p \in Landings, MoveParticle(hit, p)
      PROVE  DumpInv'
  BY <1>1, <1>3 DEF MoveParticle
<1>4. CASE PassOver
  BY <1>1, <1>4 DEF PassOver, history
<1>5. CASE EndTick
  BY <1>5, TickDump
<1>6. CASE Reject \/ OutputFails \/ EndPass \/ EmptyStash
  BY <1>1, <1>6 DEF Reject, OutputFails, EndPass, EmptyStash, history
<1>7. CASE UNCHANGED vars
  BY <1>1, <1>7 DEF vars, history
<1> QED
  BY <1>2, <1>3, <1>4, <1>5, <1>6, <1>7 DEF Next, Step, Terminated

LEMMA DumpCorrect == Spec => []DumpInv
<1>1. Init => DumpInv
  BY DEF Init, DumpInv, DumpsOnTime, StashFollowsDumps
<1> QED
  BY <1>1, TypeCorrect, NextDump, PTL DEF Spec

\* Whatever the options, dumps come at least a save interval apart and less than
\* a step later.
THEOREM DumpTimes == Spec => []DumpsOnTime
<1>1. DumpInv => DumpsOnTime
  BY DEF DumpInv
<1> QED
  BY <1>1, DumpCorrect, PTL

\* The stash has one record for each dump, under the dump's stamp.
THEOREM StashCorrect == Spec => []StashFollowsDumps
<1>1. DumpInv => StashFollowsDumps
  BY DEF DumpInv
<1> QED
  BY <1>1, DumpCorrect, PTL

\* The gridded file of a run is written by its last pass, once.
GridWrittenOnce ==
  pc = "done" /\ ComputeConcentration /\ GridOutput => gridFiles = 1

\* A gridded file is written once per run, if the number of repeats is not
\* below the -1 that stands for none.
THEOREM GridOnce == Repeat >= -1 /\ Spec => []GridWrittenOnce
<1>1. Repeat >= -1 /\ Init => PassInv
  BY OptionAssumption DEF Init, PassInv, FirstPass
<1>2. TypeOK /\ PassInv /\ [Next]_vars => PassInv'
  <2> SUFFICES ASSUME TypeOK, PassInv, [Next]_vars PROVE PassInv'
    OBVIOUS
  <2> DEFINE Same == UNCHANGED <<pass, gridFiles>>
  <2>1. /\ Same
        /\ pc \in {"begin", "particles", "gridded"}
        /\ pc' \in {"particles", "gridded", "failed", "crashed"}
        => PassInv'
    BY DEF PassInv
  <2>2. CASE BeginPass \/ Reject \/ OutputFails \/ EmptyStash
    BY <2>1, <2>2 DEF BeginPass, Reject, OutputFails, EmptyStash
  <2>3. ASSUME NEW hit \in BOOLEAN, NEW p \in Landings, MoveParticle(hit, p)
        PROVE  PassInv'
    BY <2>1, <2>3 DEF MoveParticle
  <2>4. CASE PassOver \/ EndTick
    BY <2>1, <2>4 DEF PassOver, EndTick
  <2>5. CASE EndPass
    BY <2>5, OptionAssumption DEF EndPass, PassInv, TypeOK
  <2>6. CASE UNCHANGED vars
    BY <2>6 DEF vars, PassInv
  <2> QED
    BY <2>2, <2>3, <2>4, <2>5, <2>6 DEF Next, Step, Terminated
<1>3. PassInv => GridWrittenOnce
  BY DEF PassInv, GridWrittenOnce
<1> QED
  BY <1>1, <1>2, <1>3, TypeCorrect, PTL DEF Spec

LEMMA RegionalFull == ASSUME ~Global PROVE Spec => []FullInv
<1>1. Init => FullInv
  BY DEF Init, FullInv, RepeatRunsFull
<1>2. TypeOK /\ FullInv /\ [Next]_vars => FullInv'
  <2> SUFFICES ASSUME TypeOK, FullInv, [Next]_vars, Repeat > 0
               PROVE  ~early' /\ RepeatRunsFull'
    BY DEF FullInv
  <2>1. ~early /\ RepeatRunsFull
    BY DEF FullInv
  <2>2. CASE BeginPass
    BY <2>2 DEF BeginPass, RepeatRunsFull
  <2>3. ASSUME NEW hit \in BOOLEAN, NEW p \in Landings, MoveParticle(hit, p)
        PROVE  ~early' /\ RepeatRunsFull'
    BY <2>3, OptionAssumption DEF MoveParticle, RepeatGuard, RepeatRunsFull
  <2>4. CASE PassOver
    BY <2>1, <2>4 DEF PassOver, RepeatGuard, RepeatRunsFull
  <2>5. CASE EndTick
    <3>1. /\ pc' = IF clock' <= endDate_t /\ ~early THEN "particles" ELSE "gridded"
          /\ early' = early /\ clock' \in Int
      BY <2>5, TimesType DEF EndTick, TypeOK
    <3>2. pc' = "gridded" => clock' > endDate_t
      BY <2>1, <3>1, TimesType
    <3> QED
      BY <2>1, <3>1, <3>2 DEF RepeatRunsFull, endDate_t, runHours_t, dtMins_t
  <2>6. CASE Reject \/ OutputFails \/ EndPass \/ EmptyStash
    BY <2>1, <2>6 DEF Reject, OutputFails, EndPass, EmptyStash, RepeatRunsFull
  <2>7. CASE UNCHANGED vars
    BY <2>1, <2>7 DEF vars, RepeatRunsFull, endDate_t, runHours_t, dtMins_t
  <2> QED
    BY <2>2, <2>3, <2>4, <2>5, <2>6, <2>7 DEF Next, Step, Terminated
<1> QED
  BY <1>1, <1>2, TypeCorrect, PTL DEF Spec

\* On a regional grid every pass of a repeat run reaches the end date.
THEOREM RegionalRepeat == ASSUME ~Global PROVE Spec => []RepeatRunsFull
<1>1. FullInv => RepeatRunsFull
  BY DEF FullInv, RepeatRunsFull
<1> QED
  BY <1>1, RegionalFull, PTL

\* MovedInside: a particle that goes on moving is where the winds are defined,
\* with global winds as far as its height goes.
THEOREM InsideCorrect == Spec => []MovedInside
<1>1. Init => MovedInside
  BY DEF Init, MovedInside
<1>2. TypeOK /\ MovedInside /\ [Next]_vars => MovedInside'
  <2> SUFFICES ASSUME TypeOK, MovedInside, [Next]_vars PROVE MovedInside'
    OBVIOUS
  <2> DEFINE Same == UNCHANGED <<grounded, exists, r, moves>>
  <2>1. Same => MovedInside'
    BY DEF MovedInside, Stopped, InsideWinds, Contains
  <2>2. CASE BeginPass
    BY <2>2 DEF BeginPass, MovedInside
  <2>3. ASSUME NEW hit \in BOOLEAN, NEW p \in Landings, MoveParticle(hit, p)
        PROVE  MovedInside'
    <3>1. PICK out \in BOOLEAN :
            /\ idx \in Particles
            /\ grounded' = [grounded EXCEPT ![idx] = hit]
            /\ exists' = [exists EXCEPT ![idx] = ~out]
            /\ ~out => r' = [r EXCEPT ![idx] = p]
            /\ out => r' = [r EXCEPT ![idx] = Clamp(p)]
            /\ ~out /\ ~hit => InsideWinds(p)
      BY <2>3, MoveEffect
    <3>2. moves' = [moves EXCEPT ![idx] = moves[idx] + 1]
      BY <2>3 DEF MoveParticle
    <3>3. ASSUME NEW i \in Particles, i # idx
          PROVE  (moves[i] > 0 /\ ~Stopped(i) => InsideWinds(r[i]))'
      <4>1. /\ grounded'[i] = grounded[i] /\ exists'[i] = exists[i]
            /\ r'[i] = r[i] /\ moves'[i] = moves[i]
        BY <3>1, <3>2, <3>3 DEF TypeOK
      <4> QED
        BY <4>1 DEF MovedInside, Stopped, InsideWinds, Contains
    <3>4. ASSUME NEW i \in Particles, i = idx
          PROVE  (moves[i] > 0 /\ ~Stopped(i) => InsideWinds(r[i]))'
      <4>1. /\ grounded'[i] = hit /\ exists'[i] = ~out
            /\ ~out => r'[i] = p
        BY <3>1, <3>4 DEF TypeOK
      <4>2. CASE hit \/ out
        BY <4>1, <4>2 DEF Stopped
      <4>3. CASE ~hit /\ ~out
        <5>1. InsideWinds(p) /\ r'[i] = p
          BY <3>1, <4>1, <4>3
        <5> QED
          BY <5>1 DEF InsideWinds, Contains
      <4> QED
        BY <4>2, <4>3
    <3>5. ASSUME NEW i \in Particles
          PROVE  (moves[i] > 0 /\ ~Stopped(i) => InsideWinds(r[i]))'
      BY <3>3, <3>4, Zenon
    <3> QED
      BY <3>5 DEF MovedInside
  <2>4. CASE PassOver
    BY <2>1, <2>4 DEF PassOver, ashVars, history
  <2>5. CASE EndTick
    BY <2>1, <2>5 DEF EndTick, ashVars
  <2>6. CASE Reject \/ OutputFails \/ EndPass \/ EmptyStash
    BY <2>1, <2>6 DEF Reject, OutputFails, EndPass, EmptyStash, ashVars, history
  <2>7. CASE UNCHANGED vars
    BY <2>1, <2>7 DEF vars, ashVars, history
  <2> QED
    BY <2>2, <2>3, <2>4, <2>5, <2>6, <2>7 DEF Next, Step, Terminated
<1> QED
  BY <1>1, <1>2, TypeCorrect, PTL DEF Spec

-----------------------------------------------------------------------------
(* Files.                                                                  *)

\* Stamps a minute apart fall into different minutes.
LEMMA MinutesApart ==
  ASSUME NEW a \in Int, NEW b \in Int, b - a >= Minute
  PROVE  a \div Minute # b \div Minute
<1>1. Minute \in Nat /\ Minute > 0
  BY TimeAssumption
<1>2. /\ a = Minute * (a \div Minute) + (a % Minute) /\ a % Minute \in 0 .. Minute - 1
      /\ b = Minute * (b \div Minute) + (b % Minute) /\ b % Minute \in 0 .. Minute - 1
  BY <1>1
<1> QED
  BY <1>1, <1>2

\* Writing a file for stamp t replaces none when those of this pass are older
\* by a minute.
LEMMA WrittenKeeps ==
  ASSUME TypeOK, NEW t \in Int,
         \A f \in files : f.pass = pass => t - f.stamp >= Minute
  PROVE  Written(t) = files \cup {[pass |-> pass, stamp |-> t]}
<1> DEFINE new == [pass |-> pass, stamp |-> t]
<1>1. ASSUME NEW f \in files PROVE FileName(f) # FileName(new)
  <2>1. f \in [pass : Int, stamp : Int]
    BY DEF TypeOK
  <2>2. CASE f.pass = pass
    BY <2>1, <2>2, MinutesApart DEF FileName
  <2>3. CASE f.pass # pass
    BY <2>3 DEF FileName
  <2> QED
    BY <2>2, <2>3
<1> QED
  BY <1>1 DEF Written

\* What a step does to the files, if the save interval is a minute or more.
LEMMA StepFiles ==
  ASSUME Minute <= saveHours_t, TypeOK, DumpInv, FileInv, [Next]_vars
  PROVE  FileInv' /\ files \subseteq files'
<1> DEFINE Same == /\ files' = files /\ pass' = pass /\ dumps' = dumps
                   /\ pc # "begin" /\ pc' # "begin"
                   /\ (pc' = "particles" => pc = "particles")
<1>1. Same => FileInv' /\ files \subseteq files'
  BY DEF FileInv, LastDump
<1>2. /\ pass \in Int /\ clock \in Int /\ LastDump \in Int /\ printOut \in Nat
      /\ files \subseteq [pass : Int, stamp : Int]
      /\ saveHours_t \in Nat /\ EruptDate \in Int
      /\ Minute \in Nat /\ Minute > 0
  BY TimesType, TimeAssumption DEF TypeOK, LastDump
<1>3. CASE BeginPass
  <2>1. /\ pc = "begin" /\ pc' = "particles" /\ pass' = pass
        /\ files' = IF SaveAshInit /\ Repeat <= 0 /\ WritesFile
                    THEN Written(EruptDate) ELSE files
    BY <1>3 DEF BeginPass
  <2>2. \A f \in files : f.pass < pass
    BY <1>2, <2>1 DEF FileInv
  <2>3. Written(EruptDate) = files \cup {[pass |-> pass, stamp |-> EruptDate]}
    BY <1>2, <2>2, WrittenKeeps
  <2>4. LastDump' = EruptDate
    BY <1>3 DEF BeginPass, LastDump
  <2> QED
    BY <1>2, <2>1, <2>2, <2>3, <2>4 DEF FileInv
<1>4. CASE EndTick
  <2>1. /\ pc = "particles" /\ pc' # "begin" /\ pass' = pass
        /\ files' = IF Due /\ WritesFile THEN Written(clock) ELSE files
        /\ dumps' = IF Due THEN Append(dumps, clock) ELSE dumps
        /\ printOut = clock - LastDump
    BY <1>4 DEF EndTick, DumpInv
  <2>2. \A f \in files : f.pass <= pass /\ (f.pass = pass => f.stamp <= LastDump)
    BY <2>1 DEF FileInv
  <2>3. CASE Due
    <3>1. clock - LastDump >= Minute
      BY <1>2, <2>1, <2>3 DEF Due
    <3>2. Written(clock) = files \cup {[pass |-> pass, stamp |-> clock]}
      BY <1>2, <2>2, <3>1, WrittenKeeps
    <3>3. LastDump' = clock
      BY <2>1, <2>3 DEF LastDump, TypeOK
    <3> QED
      BY <1>2, <2>1, <2>2, <3>1, <3>2, <3>3 DEF FileInv
  <2>4. CASE ~Due
    BY <2>1, <2>2, <2>4 DEF FileInv, LastDump
  <2> QED
    BY <2>3, <2>4
<1>5. CASE EndPass
  <2>1. files' = files /\ pass' = pass + 1 /\ pc' # "particles"
    BY <1>5 DEF EndPass
  <2>2. \A f \in files : f.pass < pass'
    BY <1>2, <2>1 DEF FileInv
  <2> QED
    BY <1>2, <2>1, <2>2 DEF FileInv
<1>6. ASSUME NEW hit \in BOOLEAN, NEW p \in Landings, MoveParticle(hit, p)
      PROVE  Same
  BY <1>6 DEF MoveParticle
<1>7. CASE PassOver
  BY <1>1, <1>7 DEF PassOver, history
<1>8. CASE OutputFails \/ EmptyStash
  BY <1>1, <1>8 DEF OutputFails, EmptyStash, history
<1>9. CASE Reject
  BY <1>9 DEF Reject, FileInv
<1>10. CASE UNCHANGED vars
  BY <1>10 DEF vars, history, FileInv, LastDump
<1> HIDE DEF Same
<1> QED
  BY <1>1, <1>3, <1>4, <1>5, <1>6, <1>7, <1>8, <1>9, <1>10 DEF Next, Step, Terminated

\* Ash::write, puff.C make_ash and write_ash: with a save interval of a minute
\* or more no ash file of a run is replaced by a later one, of the same pass or
\* of another.
THEOREM FilesKept ==
  ASSUME Minute <= saveHours_t
  PROVE  Spec => NoOverwrite
<1>1. Init => FileInv
  BY DEF Init, FileInv
<1>2. TypeOK /\ DumpInv /\ FileInv /\ [Next]_vars => FileInv'
  BY StepFiles
<1>3. TypeOK /\ DumpInv /\ FileInv /\ [Next]_vars
        => [\A f \in files : f \in files']_files
  BY StepFiles
<1> QED
  BY <1>1, <1>2, <1>3, TypeCorrect, DumpCorrect, PTL DEF Spec, NoOverwrite

-----------------------------------------------------------------------------
(* Moves.                                                                  *)

\* Two multiples of Dt less than Dt apart are one.
LEMMA NoTickBetween ==
  ASSUME NEW x \in Nat, NEW y \in Nat, x % Dt = 0, y % Dt = 0, x - Dt < y, y <= x
  PROVE  x = y
<1>1. Dt \in Nat /\ Dt > 0
  BY TimeAssumption
<1> DEFINE p == x \div Dt  q == y \div Dt
<1>2. p \in Int /\ q \in Int /\ x = Dt * p /\ y = Dt * q
  BY <1>1
<1> HIDE DEF p, q
<1>3. Dt * (p - q) = x - y
  BY <1>1, <1>2
<1>4. CASE p - q >= 1
  <2>1. Dt * (p - q) >= Dt
    BY <1>1, <1>2, <1>4
  <2> QED
    BY <1>1, <1>3, <2>1
<1>5. CASE p - q <= -1
  <2>1. Dt * (p - q) <= -Dt
    BY <1>1, <1>2, <1>5
  <2> QED
    BY <1>1, <1>3, <2>1
<1>6. CASE p - q = 0
  BY <1>2, <1>6
<1> QED
  BY <1>2, <1>4, <1>5, <1>6

\* The next multiple.
LEMMA NextTick ==
  ASSUME NEW x \in Nat, x % Dt = 0
  PROVE  (x + Dt) % Dt = 0
<1>1. Dt \in Nat /\ Dt > 0
  BY TimeAssumption
<1> DEFINE p == x \div Dt
<1>2. p \in Int /\ x = Dt * p
  BY <1>1
<1> HIDE DEF p
<1>3. x + Dt = Dt * (p + 1)
  BY <1>1, <1>2
<1> QED
  BY <1>1, <1>2, <1>3

\* A tick counts for the particles it finds born, and for no others.
LEMMA TickCounts ==
  ASSUME TypeOK, NEW i \in Particles, clock >= EruptDate,
         (clock - EruptDate) % Dt = 0
  PROVE  /\ Cardinality(Ticks(i, clock)) \in Nat
         /\ Cardinality(Ticks(i, clock - Dt)) \in Nat
         /\ clock >= start[i] =>
              Cardinality(Ticks(i, clock)) = Cardinality(Ticks(i, clock - Dt)) + 1
         /\ clock < start[i] => Ticks(i, clock) = {} /\ Ticks(i, clock - Dt) = {}
<1>1. /\ Dt \in Nat /\ Dt > 0 /\ EruptDate \in Nat /\ clock \in Int
      /\ start[i] \in Int
  BY TimeAssumption DEF TypeOK
<1>2. IsFiniteSet(Ticks(i, clock)) /\ IsFiniteSet(Ticks(i, clock - Dt))
  <2>1. IsFiniteSet(EruptDate .. clock) /\ IsFiniteSet(EruptDate .. clock - Dt)
    BY <1>1, FS_Interval
  <2> QED
    BY <2>1, FS_Subset DEF Ticks
<1>3. clock < start[i] => Ticks(i, clock) = {} /\ Ticks(i, clock - Dt) = {}
  BY <1>1 DEF Ticks
<1>4. ASSUME clock >= start[i]
      PROVE  /\ Ticks(i, clock) = Ticks(i, clock - Dt) \cup {clock}
             /\ clock \notin Ticks(i, clock - Dt)
  <2>1. clock \in Ticks(i, clock)
    BY <1>1, <1>4 DEF Ticks
  <2>2. Ticks(i, clock - Dt) \subseteq Ticks(i, clock)
    BY <1>1 DEF Ticks
  <2>3. clock \notin Ticks(i, clock - Dt)
    BY <1>1 DEF Ticks
  <2>4. ASSUME NEW t \in Ticks(i, clock), t \notin Ticks(i, clock - Dt)
        PROVE  t = clock
    <3>1. t \in EruptDate .. clock /\ (t - EruptDate) % Dt = 0
      BY DEF Ticks
    <3>2. clock - Dt < t
      BY <1>1, <2>4, <3>1 DEF Ticks
    <3>3. clock - EruptDate = t - EruptDate
      <4> DEFINE x == clock - EruptDate  y == t - EruptDate
      <4>1. x \in Nat /\ y \in Nat /\ x - Dt < y /\ y <= x /\ x % Dt = 0 /\ y % Dt = 0
        BY <1>1, <3>1, <3>2
      <4> HIDE DEF x, y
      <4>2. x = y
        BY <4>1, NoTickBetween
      <4> QED
        BY <4>2 DEF x, y
    <3> QED
      BY <1>1, <3>1, <3>3
  <2> QED
    BY <2>1, <2>2, <2>3, <2>4
<1> QED
  BY <1>2, <1>3, <1>4, FS_CardinalityType, FS_AddElement

\* A visited particle has had the tick, whether or not it was moved.
LEMMA VisitMove ==
  ASSUME TypeOK, MoveInv, pc = "particles", pc' = pc, idx < N, idx' = idx + 1,
         clock' = clock, start' = start,
         \A i \in Particles :
           /\ moves'[i] = IF i = idx /\ Active(i) THEN moves[i] + 1 ELSE moves[i]
           /\ Stopped(i) => Stopped(i)'
  PROVE  MoveInv'
<1>1. /\ idx \in Particles /\ idx \in Int /\ clock \in Int
      /\ clock >= EruptDate /\ (clock - EruptDate) % Dt = 0
      /\ start \in [Particles -> Int] /\ Particles \subseteq Int
      /\ moves \in [Particles -> Nat]
  BY ParticlesFinite DEF TypeOK, MoveInv, Particles
<1>2. ASSUME NEW i \in Particles, ~Stopped(i)', i # idx
      PROVE  moves'[i] = Cardinality(Ticks(i, IF i < idx' THEN clock ELSE clock - Dt))
  <2>1. (i < idx') = (i < idx)
    BY <1>1, <1>2
  <2>2. moves[i] = Cardinality(Ticks(i, IF i < idx THEN clock ELSE clock - Dt))
    BY <1>2 DEF MoveInv
  <2> QED
    BY <1>2, <2>1, <2>2
<1>3. ASSUME NEW i \in Particles, ~Stopped(i)', i = idx
      PROVE  moves'[i] = Cardinality(Ticks(i, clock))
  <2>1. moves[i] = Cardinality(Ticks(i, clock - Dt)) /\ ~Stopped(i)
    BY <1>1, <1>3 DEF MoveInv
  <2>2. CASE Active(i)
    <3>1. clock >= start[i]
      BY <2>2 DEF Active
    <3> QED
      BY <1>1, <1>3, <2>1, <2>2, <3>1, TickCounts
  <2>3. CASE ~Active(i)
    <3>1. clock < start[i] /\ moves'[i] = moves[i]
      BY <1>1, <1>3, <2>1, <2>3 DEF Active, Stopped
    <3> QED
      BY <1>1, <2>1, <3>1, TickCounts
  <2> QED
    BY <2>2, <2>3
<1>4. ASSUME NEW i \in Particles, ~Stopped(i)'
      PROVE  moves'[i] = Cardinality(Ticks(i, IF i < idx' THEN clock ELSE clock - Dt))
  <2>1. CASE i = idx
    <3>1. (IF i < idx' THEN clock ELSE clock - Dt) = clock
      BY <1>1, <2>1
    <3>2. moves'[i] = Cardinality(Ticks(i, clock))
      BY <1>3, <1>4, <2>1
    <3> QED
      BY <3>1, <3>2
  <2>2. CASE i # idx
    BY <1>2, <1>4, <2>2
  <2> QED
    BY <2>1, <2>2
<1> QED
  BY <1>1, <1>4 DEF MoveInv, Ticks

\* The next tick begins with all particles as the last one left them.
LEMMA TickMove == TypeOK /\ MoveInv /\ EndTick => MoveInv'
<1> SUFFICES ASSUME TypeOK, MoveInv, EndTick PROVE MoveInv'
  OBVIOUS
<1>1. /\ Dt \in Nat /\ Dt > 0 /\ EruptDate \in Nat /\ clock \in Int
      /\ clock >= EruptDate /\ (clock - EruptDate) % Dt = 0
      /\ pc = "particles" /\ idx = N /\ idx' = 0 /\ clock' = clock + Dt
      /\ moves' = moves /\ start' = start /\ grounded' = grounded /\ exists' = exists
      /\ N \in Nat /\ Particles = 0 .. N - 1
  BY TimesType, ParticlesFinite DEF EndTick, TypeOK, MoveInv, ashVars, Particles
<1>2. clock' >= EruptDate /\ (clock' - EruptDate) % Dt = 0
  <2> DEFINE x == clock - EruptDate
  <2>1. x \in Nat /\ x % Dt = 0 /\ clock' - EruptDate = x + Dt
    BY <1>1
  <2> HIDE DEF x
  <2> QED
    BY <1>1, <2>1, NextTick
<1>3. ASSUME NEW i \in Particles, ~Stopped(i)'
      PROVE  moves'[i] = Cardinality(Ticks(i, IF i < idx' THEN clock' ELSE clock' - Dt))
  <2>1. ~Stopped(i) /\ i < idx /\ ~(i < idx') /\ clock' - Dt = clock
    BY <1>1, <1>3 DEF Stopped
  <2> QED
    BY <1>1, <2>1 DEF MoveInv
<1> QED
  BY <1>1, <1>2, <1>3 DEF MoveInv, Ticks

LEMMA NextMove == TypeOK /\ MoveInv /\ [Next]_vars => MoveInv'
<1> SUFFICES ASSUME TypeOK, MoveInv, [Next]_vars PROVE MoveInv'
  OBVIOUS
<1>1. CASE BeginPass
  <2>1. /\ clock' = EruptDate /\ idx' = 0 /\ moves' = [i \in Particles |-> 0]
        /\ Dt \in Nat /\ Dt > 0 /\ EruptDate \in Nat /\ Particles \subseteq Nat
    BY <1>1, TimesType, ParticlesFinite DEF BeginPass, Particles
  <2>2. (clock' - EruptDate) % Dt = 0
    BY <2>1
  <2>3. ASSUME NEW i \in Particles
        PROVE  /\ {t \in EruptDate .. clock' - Dt :
                      t >= start'[i] /\ (t - EruptDate) % Dt = 0} = {}
               /\ ~(i < idx') /\ moves'[i] = 0
    <3>1. EruptDate .. clock' - Dt = {}
      BY <2>1
    <3> QED
      BY <2>1, <3>1
  <2> QED
    BY <2>1, <2>2, <2>3, FS_EmptySet DEF MoveInv, Ticks
<1>2. ASSUME NEW hit \in BOOLEAN, NEW p \in Landings, MoveParticle(hit, p)
      PROVE  MoveInv'
  <2>1. PICK out \in BOOLEAN :
          /\ idx \in Particles
          /\ grounded' = [grounded EXCEPT ![idx] = hit]
          /\ exists' = [exists EXCEPT ![idx] = ~out]
    BY <1>2, MoveEffect
  <2>2. /\ pc = "particles" /\ pc' = pc /\ idx < N /\ idx' = idx + 1
        /\ clock' = clock /\ start' = start /\ Active(idx)
        /\ moves' = [moves EXCEPT ![idx] = @ + 1]
    BY <1>2 DEF MoveParticle
  <2>3. \A i \in Particles :
          moves'[i] = IF i = idx /\ Active(i) THEN moves[i] + 1 ELSE moves[i]
    BY <2>1, <2>2 DEF TypeOK
  <2>4. \A i \in Particles : Stopped(i) => Stopped(i)'
    BY <2>1, <2>2 DEF TypeOK, Stopped, Active
  <2> QED
    BY <2>2, <2>3, <2>4, VisitMove
<1>3. CASE PassOver
  <2>1. /\ pc = "particles" /\ pc' = pc /\ idx < N /\ idx' = idx + 1
        /\ clock' = clock /\ start' = start /\ ~Active(idx) /\ moves' = moves
        /\ grounded' = grounded /\ exists' = exists
    BY <1>3 DEF PassOver, ashVars, history
  <2>2. \A i \in Particles : Stopped(i) => Stopped(i)'
    BY <2>1 DEF Stopped
  <2> QED
    BY <2>1, <2>2, VisitMove
<1>4. CASE EndTick
  BY <1>4, TickMove
<1>5. CASE Reject \/ OutputFails \/ EndPass \/ EmptyStash
  BY <1>5 DEF Reject, OutputFails, EndPass, EmptyStash, MoveInv
<1>6. CASE UNCHANGED vars
  <2>1. /\ pc' = pc /\ clock' = clock /\ idx' = idx /\ start' = start
        /\ grounded' = grounded /\ exists' = exists /\ moves' = moves
    BY <1>6 DEF vars, ashVars, history
  <2> QED
    <3>1. ASSUME NEW i \in Particles, ~Stopped(i)', pc = "particles"
          PROVE  moves'[i] = Cardinality(Ticks(i, IF i < idx THEN clock ELSE clock - Dt))
      BY <2>1, <3>1 DEF MoveInv, Stopped
    <3> QED
      BY <2>1, <3>1 DEF MoveInv, Ticks
<1> QED
  BY <1>1, <1>2, <1>3, <1>4, <1>5, <1>6 DEF Next, Step, Terminated

\* puff.C: run_puff.  A particle that has never stopped has been moved exactly
\* once in each tick from its birth on, whenever in a tick it is born.
THEOREM MovesCorrect == Spec => []OneMovePerTick
<1>1. Init => MoveInv
  BY DEF Init, MoveInv
<1>2. TypeOK /\ MoveInv => OneMovePerTick
  <2> SUFFICES ASSUME MoveInv, pc = "particles", idx = N,
                      NEW i \in Particles, ~Stopped(i)
               PROVE  moves[i] = Cardinality(Ticks(i, clock))
    BY DEF OneMovePerTick, Ticks
  <2>1. i < idx
    BY ParticlesFinite DEF Particles
  <2> QED
    BY <2>1 DEF MoveInv
<1> QED
  BY <1>1, <1>2, NextMove, TypeCorrect, PTL DEF Spec

-----------------------------------------------------------------------------
(***************************************************************************)
(* The integration loop implements the run that AshRun describes, for any  *)
(* options and any outcome of the moves.  A step of a pass, of a particle  *)
(* or of the clock is a step of AshRun or leaves all it speaks of alone.   *)
(***************************************************************************)
\* Without an ash file to restart from, the flag is up as soon as the last
\* particle stops.
FreshRun == Repeat <= 0 /\ Restart # "ash"
LastInv ==
  FreshRun =>
    /\ loaded = {}
    /\ pc = "particles" /\ (\A i \in Particles : Stopped(i)) => early

\* Two disjoint sets that together hold all particles count N.
LEMMA AllCountN ==
  ASSUME NEW A \in SUBSET Particles, NEW B \in SUBSET Particles, A \cap B = {},
         Particles = A \cup B
  PROVE  Cardinality(A) + Cardinality(B) = N
<1>1. /\ IsFiniteSet(A) /\ IsFiniteSet(B)
      /\ Cardinality(A) \in Nat /\ Cardinality(B) \in Nat
  BY ParticlesFinite, FS_Subset, FS_CardinalityType
<1>2. Cardinality(A \cap B) = 0
  BY FS_EmptySet
<1>3. Cardinality(A \cup B)
        = Cardinality(A) + Cardinality(B) - Cardinality(A \cap B)
  BY <1>1, FS_Union
<1> QED
  BY <1>1, <1>2, <1>3, ParticlesFinite

LEMMA MoveLast ==
  ASSUME TypeOK, StopInv, LastInv, NEW hit \in BOOLEAN, NEW p \in Landings,
         MoveParticle(hit, p)
  PROVE  LastInv'
<1> SUFFICES ASSUME FreshRun PROVE LastInv'
  BY DEF LastInv, FreshRun
<1>1. PICK out \in BOOLEAN :
        /\ idx \in Particles /\ ~grounded[idx] /\ exists[idx]
        /\ grounded' = [grounded EXCEPT ![idx] = hit]
        /\ exists' = [exists EXCEPT ![idx] = ~out]
        /\ Repeat <= 0 /\ (hit \/ out) /\ numOutOfBounds' + numGrounded' >= N
             => early'
  BY MoveEffect
<1>2. StopInv'
  BY MoveStop
<1>3. loaded' = {}
  BY DEF MoveParticle, LastInv
<1>4. ASSUME \A i \in Particles : Stopped(i)' PROVE early'
  <2>1. hit \/ out
    <3>1. grounded'[idx] = hit /\ exists'[idx] = ~out
      BY <1>1 DEF TypeOK
    <3> QED
      BY <3>1, <1>1, <1>4 DEF Stopped
  <2>2. /\ Down' \in SUBSET Particles /\ Gone' \in SUBSET Particles
        /\ Down' \cap Gone' = {} /\ Particles = Down' \cup Gone'
    BY <1>3, <1>4 DEF Down, Gone, Stopped
  <2>3. Cardinality(Down') + Cardinality(Gone') = N
    BY <2>2, AllCountN
  <2>4. numOutOfBounds' + numGrounded' >= N
    <3>1. numGrounded' = Cardinality(Down') /\ numOutOfBounds' = Cardinality(Gone')
      BY <1>2 DEF StopInv
    <3>2. Cardinality(Down') \in Nat /\ Cardinality(Gone') \in Nat
      BY <2>2, ParticlesFinite, FS_Subset, FS_CardinalityType
    <3> QED
      BY <3>1, <3>2, <2>3, ParticlesFinite
  <2> QED
    BY <1>1, <2>1, <2>4 DEF FreshRun
<1> QED
  BY <1>3, <1>4 DEF LastInv

LEMMA BeginLast == BeginPass => LastInv'
<1> SUFFICES ASSUME BeginPass, FreshRun PROVE LastInv'
  BY DEF LastInv, FreshRun
<1>1. \A i \in Particles : grounded'[i] = FALSE /\ exists'[i] = TRUE
  BY DEF BeginPass, Fresh, FreshRun
<1>2. loaded' = {i \in Particles : grounded'[i] \/ ~exists'[i]}
  BY DEF BeginPass
<1>3. 0 \in Particles
  BY ParticlesFinite DEF Particles
<1>4. loaded' = {}
  BY <1>1, <1>2
<1> QED
  BY <1>1, <1>3, <1>4 DEF LastInv, Stopped

LEMMA NextLast == TypeOK /\ StopInv /\ LastInv /\ [Next]_vars => LastInv'
<1> SUFFICES ASSUME TypeOK, StopInv, LastInv, [Next]_vars PROVE LastInv'
  OBVIOUS
<1> DEFINE Same == UNCHANGED <<ashVars, loaded>>
<1>1. Same /\ early' = early /\ (pc' = "particles" => pc = "particles") => LastInv'
  BY DEF LastInv, FreshRun, Stopped, ashVars
<1>2. CASE BeginPass
  BY <1>2, BeginLast
<1>3. ASSUME NEW hit \in BOOLEAN, NEW p \in Landings, MoveParticle(hit, p)
      PROVE  LastInv'
  BY <1>3, MoveLast
<1>4. CASE PassOver
  <2>1. FreshRun => early' = early
    BY <1>4 DEF PassOver, RepeatGuard, FreshRun, TypeOK
  <2> QED
    BY <1>4, <2>1 DEF PassOver, LastInv, FreshRun, Stopped, ashVars, history
<1>5. CASE EndTick
  BY <1>1, <1>5 DEF EndTick
<1>6. CASE Reject \/ OutputFails \/ EndPass \/ EmptyStash
  BY <1>1, <1>6 DEF Reject, OutputFails, EndPass, EmptyStash, history
<1>7. CASE UNCHANGED vars
  BY <1>1, <1>7 DEF vars, history
<1> QED
  BY <1>2, <1>3, <1>4, <1>5, <1>6, <1>7 DEF Next, Step, Terminated

LEMMA LastCorrect == Spec => []LastInv
<1>1. Init => LastInv
  BY DEF Init, LastInv
<1> QED
  BY <1>1, TypeCorrect, StopCorrect, NextLast, PTL DEF Spec

\* puff.C: "bail if this is the last particle moving".  Unless particles of an
\* ash file were stopped before the start, a run without repeats ends with the
\* tick in which its last particle stops.
THEOREM LastMovingCorrect ==
  ASSUME Restart # "ash"
  PROVE  Spec => []LastMovingEnds
<1>1. LastInv => LastMovingEnds
  BY DEF LastInv, LastMovingEnds, FreshRun
<1> QED
  BY <1>1, LastCorrect, PTL

-----------------------------------------------------------------------------
(* The refinement.                                                         *)

\* Unmoved, whatever else happens.
LEMMA SameMoving ==
  UNCHANGED <<grounded, exists>> => Moving' = Moving
BY DEF Moving, Stopped

LEMMA InitRun == Init => Run!Init
<1> SUFFICES ASSUME Init PROVE Run!Init
  OBVIOUS
<1>1. Moving = Particles
  BY DEF Init, Moving, Stopped
<1>2. clock - printOut = EruptDate
  BY TimesType DEF Init
<1> QED
  BY <1>1, <1>2 DEF Init, Phase, Run!Init

LEMMA BeginRun == TypeOK /\ BeginPass => Run!Erupt
<1> SUFFICES ASSUME TypeOK, BeginPass PROVE Run!Erupt
  OBVIOUS
<1>1. Phase = "setup" /\ Phase' = "running"
  BY DEF BeginPass, Phase
<1>2. clock' = EruptDate /\ printOut' = 0 /\ pass' = pass
  BY DEF BeginPass
<1>3. clock' - printOut' = EruptDate
  BY <1>2, TimesType
<1>4. Moving' \in SUBSET Particles
  BY DEF Moving
<1> QED
  BY <1>1, <1>2, <1>3, <1>4 DEF Run!Erupt

LEMMA MoveRun ==
  ASSUME TypeOK, NEW hit \in BOOLEAN, NEW p \in Landings, MoveParticle(hit, p)
  PROVE  [Run!Next]_(Run!vars)
<1>1. PICK out \in BOOLEAN :
        /\ idx \in Particles /\ ~grounded[idx] /\ exists[idx]
        /\ grounded' = [grounded EXCEPT ![idx] = hit]
        /\ exists' = [exists EXCEPT ![idx] = ~out]
  BY MoveEffect
<1>2. /\ pc = "particles" /\ pc' = pc /\ pass' = pass
      /\ clock' = clock /\ printOut' = printOut
  BY DEF MoveParticle
<1>3. Phase = "running" /\ Phase' = Phase
  BY <1>2 DEF Phase
<1>4. idx \in Moving /\ Moving' = IF hit \/ out THEN Moving \ {idx} ELSE Moving
  BY <1>1 DEF Moving, Stopped, TypeOK
<1>5. CASE hit \/ out
  <2>1. Run!Stop
    BY <1>2, <1>3, <1>4, <1>5 DEF Run!Stop
  <2> QED
    BY <2>1 DEF Run!Next
<1>6. CASE ~(hit \/ out)
  BY <1>2, <1>3, <1>4, <1>6 DEF Run!vars
<1> QED
  BY <1>5, <1>6

LEMMA TickRun ==
  ASSUME TypeOK, StopInv, LastInv, ~Global => FullInv, EndTick
  PROVE  Run!Tick
<1>1. /\ pc = "particles" /\ pass' = pass
      /\ clock' = clock + Dt
      /\ printOut' = (IF Due THEN 0 ELSE printOut) + Dt
      /\ pc' = IF clock' <= endDate_t /\ ~early THEN "particles" ELSE "gridded"
  BY DEF EndTick, dtMins_t
<1>2. /\ clock \in Int /\ printOut \in Nat /\ early \in BOOLEAN
      /\ Dt \in Nat /\ endDate_t \in Nat /\ saveHours_t \in Nat
  BY TimesType DEF TypeOK
<1>3. clock' - printOut' = IF clock - (clock - printOut) >= saveHours_t
                           THEN clock ELSE clock - printOut
  BY <1>1, <1>2 DEF Due
<1>4. Moving' = Moving
  BY SameMoving DEF EndTick, ashVars
<1>5. Phase = "running" /\ Phase' \in {"running", "passed"}
      /\ (Phase' = "running" => clock' <= endDate_t /\ ~early)
      /\ (Phase' = "passed" => clock' > endDate_t \/ early)
  BY <1>1, <1>2 DEF Phase
<1>6. early => Moving = {}
  BY DEF StopInv, EarlyMeansStopped, Moving
<1>7. ~early /\ FreshRun => Moving # {}
  BY <1>1 DEF LastInv, Moving
<1>8. early => Repeat <= 0 \/ Global
  BY OptionAssumption DEF FullInv
<1> QED
  BY <1>1, <1>3, <1>4, <1>5, <1>6, <1>7, <1>8 DEF Run!Tick, FreshRun

LEMMA EndRun ==
  ASSUME TypeOK, EndPass \/ Reject \/ OutputFails \/ EmptyStash
  PROVE  Run!NextPass \/ Run!Fail
<1>1. /\ clock' = clock /\ printOut' = printOut
      /\ grounded' = grounded /\ exists' = exists
  BY DEF EndPass, Reject, OutputFails, EmptyStash, ashVars
<1>2. Moving' = Moving
  BY <1>1, SameMoving
<1>3. CASE EndPass
  <2>1. Phase = "passed" /\ Phase' = IF pass < Repeat THEN "setup" ELSE "done"
    BY <1>3 DEF EndPass, Phase
  <2> QED
    BY <1>1, <1>2, <1>3, <2>1 DEF EndPass, Run!NextPass
<1>4. CASE Reject \/ OutputFails \/ EmptyStash
  <2>1. Phase \in {"setup", "running", "passed"} /\ Phase' = "failed"
        /\ pass' = pass
    BY <1>4 DEF Reject, OutputFails, EmptyStash, Phase
  <2> QED
    BY <1>1, <1>2, <2>1 DEF Run!Fail
<1> QED
  BY <1>3, <1>4

LEMMA NextRun ==
  ASSUME TypeOK, StopInv, LastInv, ~Global => FullInv, [Next]_vars
  PROVE  [Run!Next]_(Run!vars)
<1>1. CASE BeginPass
  BY <1>1, BeginRun DEF Run!Next
<1>2. ASSUME NEW hit \in BOOLEAN, NEW p \in Landings, MoveParticle(hit, p)
      PROVE  [Run!Next]_(Run!vars)
  BY <1>2, MoveRun
<1>3. CASE PassOver
  <2>1. UNCHANGED <<pc, pass, clock, printOut, grounded, exists>>
    BY <1>3 DEF PassOver, ashVars
  <2> QED
    BY <2>1, SameMoving DEF Run!vars, Phase
<1>4. CASE EndTick
  BY <1>4, TickRun DEF Run!Next
<1>5. CASE EndPass \/ Reject \/ OutputFails \/ EmptyStash
  BY <1>5, EndRun DEF Run!Next
<1>6. CASE UNCHANGED vars
  <2>1. UNCHANGED <<pc, pass, clock, printOut, grounded, exists>>
    BY <1>6 DEF vars, ashVars
  <2> QED
    BY <2>1, SameMoving DEF Run!vars, Phase
<1> QED
  BY <1>1, <1>2, <1>3, <1>4, <1>5, <1>6 DEF Next, Step, Terminated

\* Through ticks, moves, counters and flags, every run of the loop is a run of
\* AshRun: stopped particles stay stopped, the clouds are saved on time, and a
\* pass is cut short only when nothing moves.
THEOREM LoopImplementsRun == Spec => ImplementsRun
<1>1. ASSUME ~Global PROVE Spec => []FullInv
  BY <1>1, RegionalFull
<1>2. Spec => [](~Global => FullInv)
  <2>1. CASE Global
    <3>1. ~Global => FullInv
      BY <2>1
    <3> QED
      BY <2>1, PTL
  <2>2. CASE ~Global
    <3>1. Spec => []FullInv
      BY <2>2, <1>1
    <3> QED
      BY <3>1, PTL
  <2> QED
    BY <2>1, <2>2
<1>3. TypeOK /\ StopInv /\ LastInv /\ (~Global => FullInv) /\ [Next]_vars
        => [Run!Next]_(Run!vars)
  BY NextRun
<1> QED
  BY <1>2, <1>3, InitRun, TypeCorrect, StopCorrect, LastCorrect, PTL
     DEF Spec, ImplementsRun, Run!Spec
-----------------------------------------------------------------------------
(* InitialAsh: how the particles come to their values.                     *)

\* Any finite list.
IsList(s) == \E S : s \in Seq(S)

CloudTypes ==
  /\ cloud \in {"none", "read", "fill", "filled", "gone", "crossing", "sides", "exhausted"}
  /\ outline \in Seq(Int \X Int) /\ IsList(elevPoint) /\ IsList(points)
  /\ want \in Nat /\ nPolySide \in Nat \ {0} /\ validPoints \in Nat

\* What has been placed, by walk: each but the last has placed all of its share.
CloudInv ==
  /\ cloud \in {"none", "read"} => nPolySide = 1 /\ validPoints = 0 /\ points = <<>>
  /\ cloud \in {"read", "fill"} => elevPoint # <<>>
  /\ cloud = "fill" =>
       /\ nPolySide <= Len(elevPoint) /\ validPoints <= ashNLocal(nPolySide)
       /\ Len(points) = (nPolySide - 1) * (want \div Len(elevPoint)) + validPoints
       /\ validRegion
  /\ cloud = "filled" => Len(points) = want
  /\ cloud = "crossing" => ~validRegion

Words == {"zero", "file", "cloud", "junk", "minusOne", "vent", "plume", "astray",
          "column", "normal", "class", "eruption", "drawn"}
ParticleType == [place : Words, height : Words, size : Words, class : Nat, start : Words]

MakeTypes ==
  /\ CloudTypes
  /\ step \in {"restart", "site", "column", "spread", "normal", "class", "age",
               "ready", "failed"}
  /\ restart \in {"none", "ash", "cloud"} /\ volcano \in BOOLEAN /\ nAsh \in Nat \ {0}
  /\ percent = <<>> \/ percent \in SizeShares
  /\ ashN \in Nat /\ ashNpart \in 0 .. ashN
  /\ particle \in [0 .. ashN - 1 -> ParticleType]
  /\ first \in Int /\ next \in Int /\ class \in Nat /\ thisSize \in Nat
  /\ wild \in BOOLEAN

\* What a restart has left to do, and how many particles it brings.
RestartInv ==
  /\ step = "restart" =>
       /\ \A i \in 0 .. ashN - 1 : particle[i] = Raw
       /\ cloud = "none" => ashN = 0 /\ ashNpart = 0
       /\ cloud # "none" => /\ restart = "cloud" /\ ashN > 0 /\ want = ashNpart
                            /\ ~volcano => ashNpart = ashN
  /\ step \notin {"restart", "failed"} =>
       /\ restart = "none" => ashNpart = 0
       /\ ~volcano => ashNpart = ashN
       /\ ashN > 0
  /\ step \in {"restart", "site", "column", "spread"} => percent = <<>> /\ ~wild
  /\ step = "column" => volcano
  /\ step = "normal" => percent = <<>>
  /\ step = "class" => percent # <<>> /\ class > 0

Old(p) ==
  IF restart = "ash"
  THEN /\ p.place = "file" /\ p.height = "file" /\ p.start = "file"
       /\ percent = <<>> => p.size = "file"
  ELSE /\ p.place = "cloud" /\ p.height = "cloud" /\ p.start = "minusOne"
       /\ percent = <<>> => p.size = "cloud"

Young(p) ==
  /\ step \in {"column", "spread"} => p.place = "vent"
  /\ step = "spread" => p.height = "column"
  /\ step \in {"normal", "class", "age", "ready"} =>
       p.place \in {"vent", "plume"} /\ p.height = "column"
  /\ step # "ready" => p.start = "zero"
  /\ step = "ready" => p.start = "drawn"
  /\ step \in {"site", "column", "spread"} => p.class = 0
  /\ step \in {"age", "ready"} /\ percent = <<>> => p.size = "normal"

ValuesInv ==
  step \notin {"restart", "failed"} =>
    \A i \in 0 .. ashN - 1 : IF i < ashNpart THEN Old(particle[i]) ELSE Young(particle[i])

\* Without a file, the classes are intervals that follow each other.
Members(c) == {i \in DOMAIN particle : particle[i].class = c}
Fair(lo, hi, c) ==
  /\ (hi - lo) * Whole <= percent[c] * ashN
  /\ (hi - lo) * Whole >= percent[c] * ashN - Whole
Settled(c, top) ==
  \E lo, hi \in 0 .. top : lo <= hi /\ Members(c) = lo .. hi - 1 /\ Fair(lo, hi, c)

ClassesInv ==
  ashNpart = 0 /\ step = "class" =>
    /\ class \in 1 .. Len(percent) + 1 /\ first \in 0 .. ashN - 1 /\ ~wild
    /\ first * Whole <= SharesTo[class - 1] * ashN
    /\ class = 1 => first = 0 /\ \A i \in 0 .. ashN - 1 : particle[i].class = 0
    /\ class > 1 =>
         /\ next = first /\ thisSize = class - 1
         /\ \A i \in 0 .. ashN - 1 :
              IF i <= next THEN particle[i].size = "class" /\ particle[i].class \in 1 .. class - 1
              ELSE particle[i].class = 0
         /\ \E lo \in 0 .. next :
              /\ Members(class - 1) = lo .. next /\ Fair(lo, next, class - 1)
              /\ lo * Whole <= SharesTo[class - 2] * ashN
         /\ \A c \in 1 .. class - 2 : Settled(c, next)

SharedInv ==
  ashNpart = 0 /\ step \in {"age", "ready"} /\ percent # <<>> =>
    /\ ~wild /\ \A i \in 0 .. ashN - 1 : particle[i].size = "class"
    /\ \E lo \in 0 .. ashN - 1 : /\ Members(Len(percent)) = lo .. ashN - 1
                                 /\ lo * Whole <= SharesTo[Len(percent) - 1] * ashN
    /\ \A c \in 1 .. Len(percent) - 1 : Settled(c, ashN - 1)

MakeInv ==
  /\ MakeTypes /\ CloudInv /\ RestartInv /\ ValuesInv /\ ClassesInv /\ SharedInv

-----------------------------------------------------------------------------
(* Lists, quotients and sums.                                              *)

LEMMA ListGrows ==
  ASSUME NEW s, IsList(s), NEW e
  PROVE  IsList(Append(s, e)) /\ Len(s) \in Nat /\ Len(Append(s, e)) = Len(s) + 1
<1>1. PICK A : s \in Seq(A)
  BY DEF IsList
<1> DEFINE B == A \cup {e}
<1>2. Len(s) \in Nat /\ s \in [1 .. Len(s) -> A]
  BY <1>1
<1>3. s \in [1 .. Len(s) -> B]
  BY <1>2
<1>4. s \in Seq(B) /\ e \in B
  BY <1>2, <1>3
<1>5. Append(s, e) \in Seq(B) /\ Len(Append(s, e)) = Len(s) + 1
  BY <1>4
<1> QED
  BY <1>2, <1>5 DEF IsList

LEMMA ListMade ==
  ASSUME NEW n \in Nat, NEW f, f = [i \in 1 .. n |-> f[i]]
  PROVE  IsList(f) /\ Len(f) = n
<1> DEFINE A == {f[i] : i \in 1 .. n}
<1>1. f \in [1 .. n -> A]
  OBVIOUS
<1> HIDE DEF A
<1>2. f \in Seq(A) /\ Len(f) = n
  BY <1>1
<1> QED
  BY <1>2 DEF IsList

LEMMA ListLength ==
  ASSUME NEW s, IsList(s)
  PROVE  Len(s) \in Nat /\ DOMAIN s = 1 .. Len(s) /\ (s # <<>> => Len(s) > 0)
<1>1. PICK A : s \in Seq(A)
  BY DEF IsList
<1> QED
  BY <1>1

LEMMA Quotient ==
  ASSUME NEW v \in Nat, NEW by \in Nat \ {0}
  PROVE  /\ v \div by \in Nat /\ v % by \in Nat
         /\ v = by * (v \div by) + (v % by)
<1>1. v % by \in Nat
  OBVIOUS
<1>2. v \div by \in Nat
  OBVIOUS
<1>3. v = by * (v \div by) + (v % by)
  OBVIOUS
<1> QED
  BY <1>1, <1>2, <1>3

-----------------------------------------------------------------------------
(* The cloud.                                                              *)

LEMMA RegionKept ==
  ASSUME outline' = outline
  PROVE  validRegion' <=> validRegion
BY DEF validRegion, Compared, Sides, Meet, Within, Intercept, dx, dy, x1, x2, y1, y2, Next1

LEMMA ShareOfWalk ==
  ASSUME CloudTypes, elevPoint # <<>>, NEW k \in 1 .. Len(elevPoint)
  PROVE  /\ Len(elevPoint) \in Nat \ {0}
         /\ want \div Len(elevPoint) \in Nat /\ ashNLocal(k) \in Nat
         /\ k # Len(elevPoint) => ashNLocal(k) = want \div Len(elevPoint)
         /\ k = Len(elevPoint) =>
              (k - 1) * (want \div Len(elevPoint)) + ashNLocal(k) = want
<1> DEFINE n == Len(elevPoint)
           q == want \div n
           rest == want % n
<1>1. n \in Nat \ {0} /\ want \in Nat
  BY ListLength DEF CloudTypes
<1>2. q \in Nat /\ rest \in Nat /\ want = n * q + rest
  BY <1>1, Quotient
<1>3. ashNLocal(k) = q + IF k = n THEN rest ELSE 0
  BY DEF ashNLocal
<1> HIDE DEF n, q, rest
<1>4. (n - 1) * q + (q + rest) = want
  BY <1>1, <1>2
<1> QED
  BY <1>1, <1>2, <1>3, <1>4 DEF n, q

LEMMA SortedLength ==
  ASSUME CloudTypes, NEW p
  PROVE  IsList(Sorted(p)) /\ Len(Sorted(p)) = Len(elevPoint)
<1>1. Len(elevPoint) \in Nat /\ DOMAIN elevPoint = 1 .. Len(elevPoint)
  BY ListLength DEF CloudTypes
<1>2. Sorted(p) = [rest \in 1 .. Len(elevPoint) |-> Sorted(p)[rest]]
  BY <1>1 DEF Sorted
<1> QED
  BY <1>1, <1>2, ListMade

LEMMA PlaceKeeps ==
  ASSUME CloudTypes, CloudInv, NEW p, Place(p), cloud = "fill",
         validPoints < ashNLocal(nPolySide)
  PROVE  CloudTypes' /\ CloudInv'
<1>1. /\ points' = Append(points, p) /\ elevPoint' = Sorted(p)
      /\ validPoints' = validPoints + 1 /\ cloud' = cloud /\ outline' = outline
      /\ want' = want /\ nPolySide' = nPolySide
  BY DEF Place
<1>2. IsList(points') /\ Len(points) \in Nat /\ Len(points') = Len(points) + 1
  BY <1>1, ListGrows DEF CloudTypes
<1>3. IsList(elevPoint') /\ Len(elevPoint') = Len(elevPoint)
  BY <1>1, SortedLength
<1>4. nPolySide \in 1 .. Len(elevPoint) /\ elevPoint # <<>> /\ validPoints \in Nat
  <2>1. Len(elevPoint) \in Nat
    BY ListLength DEF CloudTypes
  <2> QED
    BY <2>1 DEF CloudInv, CloudTypes
<1>5. ashNLocal(nPolySide) \in Nat /\ want \div Len(elevPoint) \in Nat
      /\ Len(elevPoint) \in Nat \ {0}
  BY <1>4, ShareOfWalk
<1>6. ashNLocal(nPolySide)' = ashNLocal(nPolySide)
  BY <1>1, <1>3 DEF ashNLocal
<1>7. CloudTypes'
  BY <1>1, <1>2, <1>3 DEF CloudTypes
<1>8. Len(points') = (nPolySide - 1) * (want \div Len(elevPoint)) + validPoints + 1
  <2>1. (nPolySide - 1) * (want \div Len(elevPoint)) \in Int
    BY <1>4, <1>5
  <2> QED
    BY <1>2, <1>4, <2>1 DEF CloudInv
<1>9. elevPoint' # <<>>
  BY <1>3, <1>5
<1>10. validRegion'
  BY <1>1, RegionKept DEF CloudInv
<1>11. nPolySide' <= Len(elevPoint') /\ validPoints' <= ashNLocal(nPolySide)'
  BY <1>1, <1>3, <1>4, <1>5, <1>6
<1>12. Len(points') = (nPolySide' - 1) * (want' \div Len(elevPoint')) + validPoints'
  <2>1. (nPolySide - 1) * (want \div Len(elevPoint)) \in Int
    BY <1>4, <1>5
  <2> QED
    BY <1>1, <1>3, <1>4, <1>8, <2>1
<1> QED
  BY <1>1, <1>6, <1>7, <1>9, <1>10, <1>11, <1>12 DEF CloudInv

LEMMA CloudKept ==
  ASSUME CloudTypes, CloudInv, UNCHANGED cloudVars
  PROVE  CloudTypes' /\ CloudInv'
<1>1. validRegion' <=> validRegion
  BY RegionKept DEF cloudVars
<1>2. ashNLocal(nPolySide)' = ashNLocal(nPolySide)
  BY DEF cloudVars, ashNLocal
<1> QED
  BY <1>1, <1>2 DEF cloudVars, CloudTypes, CloudInv

LEMMA BuildKeeps ==
  ASSUME CloudTypes, CloudInv, Build
  PROVE  CloudTypes' /\ CloudInv'
<1>1. /\ cloud = "read" /\ cloud' \in {"crossing", "sides", "fill"}
      /\ cloud' = "crossing" => ~validRegion
      /\ cloud' = "fill" => validRegion
      /\ outline' = outline /\ elevPoint' = elevPoint /\ want' = want
      /\ nPolySide' = nPolySide /\ validPoints' = validPoints /\ points' = points
  BY DEF Build
<1>2. CloudTypes'
  BY <1>1 DEF CloudTypes
<1>3. validRegion' <=> validRegion
  BY <1>1, RegionKept
<1>4. nPolySide = 1 /\ validPoints = 0 /\ points = <<>> /\ elevPoint # <<>>
  BY <1>1 DEF CloudInv
<1>5. Len(elevPoint) \in Nat \ {0} /\ want \div Len(elevPoint) \in Nat
  <2>1. Len(elevPoint) \in Nat \ {0}
    BY <1>4, ListLength DEF CloudTypes
  <2> QED
    BY <2>1, Quotient DEF CloudTypes
<1>6. ashNLocal(nPolySide) \in Nat /\ ashNLocal(nPolySide)' = ashNLocal(nPolySide)
  <2>1. nPolySide \in 1 .. Len(elevPoint)
    BY <1>4, <1>5
  <2> QED
    BY <1>1, <1>4, <2>1, ShareOfWalk DEF ashNLocal
<1>7. Len(points) = (nPolySide - 1) * (want \div Len(elevPoint)) + validPoints
  BY <1>4, <1>5
<1> QED
  BY <1>1, <1>2, <1>3, <1>4, <1>5, <1>6, <1>7 DEF CloudInv

LEMMA EndWalkKeeps ==
  ASSUME CloudTypes, CloudInv, EndWalk
  PROVE  CloudTypes' /\ CloudInv'
<1>1. /\ cloud = "fill" /\ validPoints = ashNLocal(nPolySide)
      /\ outline' = outline /\ elevPoint' = elevPoint /\ want' = want
      /\ validPoints' = 0 /\ points' = points
      /\ \/ cloud' = "exhausted" /\ nPolySide' = nPolySide
         \/ /\ nPolySide < Len(elevPoint) /\ nPolySide' = nPolySide + 1
            /\ cloud' = "fill"
         \/ nPolySide = Len(elevPoint) /\ cloud' = "filled" /\ nPolySide' = nPolySide
  BY DEF EndWalk
<1>2. CloudTypes'
  BY <1>1 DEF CloudTypes
<1>3. validRegion' <=> validRegion
  BY <1>1, RegionKept
<1>4. /\ elevPoint # <<>> /\ nPolySide \in 1 .. Len(elevPoint)
      /\ Len(points) = (nPolySide - 1) * (want \div Len(elevPoint)) + validPoints
  <2>1. Len(elevPoint) \in Nat
    BY ListLength DEF CloudTypes
  <2> QED
    BY <1>1, <2>1 DEF CloudInv, CloudTypes
<1>5. CASE cloud' = "exhausted"
  BY <1>1, <1>2, <1>5 DEF CloudInv
<1>6. CASE cloud' = "filled"
  BY <1>1, <1>2, <1>4, <1>6, ShareOfWalk DEF CloudInv
<1>7. CASE cloud' = "fill"
  <2> DEFINE q == want \div Len(elevPoint)
  <2>1. nPolySide < Len(elevPoint) /\ nPolySide' = nPolySide + 1
    BY <1>1, <1>7
  <2>2. q \in Nat /\ validPoints = q /\ Len(elevPoint) \in Nat
    BY <1>1, <1>4, <2>1, ShareOfWalk
  <2>3. nPolySide' \in 1 .. Len(elevPoint)
    BY <1>4, <2>1, <2>2
  <2>4. ashNLocal(nPolySide') \in Nat
    BY <1>4, <2>3, ShareOfWalk
  <2>5. ashNLocal(nPolySide)' = ashNLocal(nPolySide')
    BY <1>1 DEF ashNLocal
  <2>6. Len(points) = (nPolySide - 1) * q + q
    BY <1>4, <2>2
  <2> HIDE DEF q
  <2>7. (nPolySide - 1) * q + q = (nPolySide' - 1) * q + 0
    BY <1>4, <2>1, <2>2
  <2>8. Len(points') = (nPolySide' - 1) * (want' \div Len(elevPoint')) + validPoints'
    BY <1>1, <2>6, <2>7 DEF q
  <2>9. nPolySide' <= Len(elevPoint') /\ validPoints' <= ashNLocal(nPolySide)'
    BY <1>1, <2>2, <2>3, <2>4, <2>5
  <2> QED
    BY <1>1, <1>2, <1>3, <1>4, <1>7, <2>8, <2>9 DEF CloudInv
<1> QED
  BY <1>1, <1>5, <1>6, <1>7

LEMMA CloudKeeps ==
  ASSUME CloudTypes, CloudInv, CloudNext
  PROVE  CloudTypes' /\ CloudInv' /\ cloud # "none" /\ cloud' # "none" /\ want' = want
<1>1. CASE Build
  BY <1>1, BuildKeeps DEF Build
<1>2. CASE StartWalk
  <2>1. Place(elevPoint[nPolySide]) /\ cloud = "fill" /\ validPoints < ashNLocal(nPolySide)
    BY <1>2 DEF StartWalk
  <2> QED
    BY <2>1, PlaceKeeps DEF Place
<1>3. CASE Wander
  <2>1. PICK p : \/ Place(p)
                 \/ UNCHANGED <<cloud, outline, elevPoint, inside, want,
                                nPolySide, validPoints, points>>
    BY <1>3 DEF Wander
  <2>2. cloud = "fill" /\ validPoints < ashNLocal(nPolySide)
    BY <1>3 DEF Wander
  <2>3. CASE Place(p)
    BY <2>2, <2>3, PlaceKeeps DEF Place
  <2>4. CASE UNCHANGED <<cloud, outline, elevPoint, inside, want, nPolySide, validPoints,
                         points>>
    <3>1. validRegion' <=> validRegion
      BY <2>4, RegionKept
    <3>2. ashNLocal(nPolySide)' = ashNLocal(nPolySide)
      BY <2>4 DEF ashNLocal
    <3> QED
      BY <2>2, <2>4, <3>1, <3>2 DEF CloudTypes, CloudInv
  <2> QED
    BY <2>1, <2>3, <2>4
<1>4. CASE EndWalk
  BY <1>4, EndWalkKeeps DEF EndWalk
<1> QED
  BY <1>1, <1>2, <1>3, <1>4 DEF CloudNext

-----------------------------------------------------------------------------
(* The shares: SharesTo is a function on numbers, and it only grows.       *)

LEMMA Smallest ==
  ASSUME NEW S, S \subseteq Nat, S # {}
  PROVE  \E m \in S : \A n \in S : m <= n
<1>1. PICK m \in S : \A n \in S : ~(<<n, m>> \in OpToRel(<, Nat))
  BY WFMin, NatLessThanWellFounded, Zenon
<1>2. \A n \in S : ~(n < m)
  BY <1>1 DEF OpToRel
<1> QED
  BY <1>2

\* The sums up to each place exist: take the first that would not.
LEMMA SumsExist ==
  ASSUME NEW s \in Seq(Nat)
  PROVE  \E g : /\ g \in [0 .. Len(s) -> Nat] /\ g[0] = 0
                /\ \A k \in 1 .. Len(s) : g[k] = g[k - 1] + s[k]
<1> DEFINE Good(g, n) == /\ g \in [0 .. n -> Nat] /\ g[0] = 0
                         /\ \A k \in 1 .. n : g[k] = g[k - 1] + s[k]
           Bad == {n \in 0 .. Len(s) : ~\E g : Good(g, n)}
<1>1. Len(s) \in Nat /\ \A k \in 1 .. Len(s) : s[k] \in Nat
  OBVIOUS
<1>2. ASSUME Bad # {} PROVE FALSE
  <2>1. PICK m \in Bad : \A n \in Bad : m <= n
    <3>1. Bad \subseteq Nat
      BY <1>1
    <3> HIDE DEF Bad
    <3> QED
      BY <1>2, <3>1, Smallest
  <2>2. m \in 0 .. Len(s) /\ ~\E g : Good(g, m)
    BY <2>1
  <2>3. m # 0
    <3>1. Good([i \in 0 .. 0 |-> 0], 0)
      OBVIOUS
    <3> QED
      BY <2>2, <3>1
  <2>4. m - 1 \in 0 .. Len(s) /\ ~(m <= m - 1) /\ m \in 1 .. Len(s)
    BY <1>1, <2>2, <2>3
  <2>5. m - 1 \notin Bad
    <3> HIDE DEF Bad
    <3> QED
      BY <2>1, <2>4
  <2>6. PICK g : Good(g, m - 1)
    BY <2>4, <2>5
  <2> DEFINE h == [i \in 0 .. m |-> IF i = m THEN g[m - 1] + s[m] ELSE g[i]]
  <2>7. g \in [0 .. m - 1 -> Nat] /\ g[0] = 0
        /\ \A k \in 1 .. m - 1 : g[k] = g[k - 1] + s[k]
    BY <2>6
  <2>8. h \in [0 .. m -> Nat]
    <3>1. g[m - 1] + s[m] \in Nat
      BY <1>1, <2>4, <2>7
    <3> QED
      BY <2>4, <2>7, <3>1
  <2>9. h[0] = 0
    BY <2>4, <2>7
  <2>10. ASSUME NEW k \in 1 .. m PROVE h[k] = h[k - 1] + s[k]
    <3>1. CASE k = m
      <4>1. h[m] = g[m - 1] + s[m] /\ h[m - 1] = g[m - 1]
        BY <2>4
      <4> QED
        BY <3>1, <4>1
    <3>2. CASE k # m
      <4>1. k \in 1 .. m - 1 /\ k - 1 \in 0 .. m /\ k - 1 # m /\ k \in 0 .. m
        BY <2>4, <2>10, <3>2
      <4>2. h[k] = g[k] /\ h[k - 1] = g[k - 1]
        BY <3>2, <4>1
      <4> QED
        BY <2>7, <4>1, <4>2
    <3> QED
      BY <3>1, <3>2
  <2> HIDE DEF h
  <2>11. Good(h, m)
    BY <2>8, <2>9, <2>10
  <2> QED
    BY <2>2, <2>11
<1>3. Bad = {}
  BY <1>2
<1>4. Len(s) \in 0 .. Len(s)
  BY <1>1
<1> QED
  BY <1>3, <1>4

LEMMA SharesSums ==
  ASSUME percent \in Seq(Nat)
  PROVE  /\ SharesTo \in [0 .. Len(percent) -> Nat] /\ SharesTo[0] = 0
         /\ \A k \in 1 .. Len(percent) : SharesTo[k] = SharesTo[k - 1] + percent[k]
<1> DEFINE R == 0 .. Len(percent)
<1>1. PICK g : /\ g \in [R -> Nat] /\ g[0] = 0
               /\ \A k \in 1 .. Len(percent) : g[k] = g[k - 1] + percent[k]
  BY SumsExist
<1>2. Len(percent) \in Nat
  OBVIOUS
<1>3. g = [k \in R |-> IF k = 0 THEN 0 ELSE g[k - 1] + percent[k]]
  <2>1. ASSUME NEW k \in R PROVE g[k] = IF k = 0 THEN 0 ELSE g[k - 1] + percent[k]
    BY <1>1, <1>2
  <2> QED
    BY <1>1, <2>1
<1>4. SharesTo = [k \in R |-> IF k = 0 THEN 0 ELSE SharesTo[k - 1] + percent[k]]
  BY <1>3 DEF SharesTo
<1>5. 0 \in R /\ \A k \in 1 .. Len(percent) : k \in R /\ k # 0 /\ k - 1 \in R
  BY <1>2
<1>6. SharesTo[0] = 0
  BY <1>4, <1>5
<1>7. \A k \in 1 .. Len(percent) : SharesTo[k] = SharesTo[k - 1] + percent[k]
  BY <1>4, <1>5
<1>8. ASSUME NEW k \in R PROVE SharesTo[k] = g[k]
  <2> DEFINE Bad == {i \in R : SharesTo[i] # g[i]}
  <2>1. SUFFICES ASSUME Bad # {} PROVE FALSE
    BY <1>8
  <2>2. PICK m \in Bad : \A n \in Bad : m <= n
    <3>1. Bad \subseteq Nat
      BY <1>2
    <3> HIDE DEF Bad
    <3> QED
      BY <2>1, <3>1, Smallest
  <2>3. m \in R /\ SharesTo[m] # g[m]
    BY <2>2
  <2>4. m # 0
    BY <1>1, <1>6, <2>3
  <2>5. m \in 1 .. Len(percent) /\ m - 1 \in R /\ ~(m <= m - 1)
    BY <1>2, <2>3, <2>4
  <2>6. m - 1 \notin Bad
    <3> HIDE DEF Bad
    <3> QED
      BY <2>2, <2>5
  <2>7. SharesTo[m - 1] = g[m - 1]
    BY <2>5, <2>6
  <2> QED
    BY <1>1, <1>7, <2>3, <2>5, <2>7
<1>9. \A k \in R : SharesTo[k] \in Nat
  BY <1>1, <1>8
<1> HIDE DEF R
<1>10. SharesTo \in [R -> Nat]
  BY <1>4, <1>9
<1> QED
  BY <1>6, <1>7, <1>10 DEF R

LEMMA SharesGrow ==
  ASSUME percent \in Seq(Nat), NEW j \in 0 .. Len(percent), NEW k \in 0 .. Len(percent), j <= k
  PROVE  SharesTo[j] <= SharesTo[k]
<1> DEFINE R == 0 .. Len(percent)
           Bad == {i \in R : j <= i /\ ~(SharesTo[j] <= SharesTo[i])}
<1>1. Len(percent) \in Nat
  OBVIOUS
<1>0. \A i \in R : SharesTo[i] \in Nat
  BY SharesSums
<1>2. SUFFICES ASSUME Bad # {} PROVE FALSE
  OBVIOUS
<1>3. PICK m \in Bad : \A n \in Bad : m <= n
  <2>1. Bad \subseteq Nat
    BY <1>1
  <2> HIDE DEF Bad
  <2> QED
    BY <1>2, <2>1, Smallest
<1>4. m \in R /\ j <= m /\ ~(SharesTo[j] <= SharesTo[m])
  BY <1>3
<1>5. m # j
  BY <1>0, <1>1, <1>4
<1>6. m \in 1 .. Len(percent) /\ m - 1 \in R /\ j <= m - 1 /\ ~(m <= m - 1)
  BY <1>1, <1>4, <1>5
<1>7. m - 1 \notin Bad
  <2> HIDE DEF Bad
  <2> QED
    BY <1>3, <1>6
<1>8. SharesTo[j] <= SharesTo[m - 1]
  BY <1>6, <1>7
<1>9. SharesTo[m] = SharesTo[m - 1] + percent[m] /\ percent[m] \in Nat
  BY <1>6, SharesSums
<1>10. /\ SharesTo[j] \in Nat /\ SharesTo[m - 1] \in Nat /\ SharesTo[m] \in Nat
  BY <1>0, <1>4, <1>6
<1>11. \A a, b, s, p \in Nat : a <= b /\ s = b + p => a <= s
  OBVIOUS
<1> HIDE DEF Bad
<1>12. SharesTo[j] <= SharesTo[m]
  BY <1>8, <1>9, <1>10, <1>11
<1> QED
  BY <1>4, <1>12

\* The shares by number are numbers, and not all of them are zero.
LEMMA SharesAre ==
  ASSUME NEW p \in SizeShares
  PROVE  p \in Seq(Nat) /\ (p # <<>> => \E k \in 1 .. Len(p) : p[k] > 0)
<1>1. PICK s \in Classes : p = ByNumber(s)
  BY DEF SizeShares
<1>2. /\ s \in Seq([mass : Nat, many : Nat \ {0}]) /\ Len(s) \in Nat
      /\ s # <<>> => \E k \in 1 .. Len(s) : s[k].mass > 0
  BY AshAssumption
<1>3. \A k \in 1 .. Len(s) : s[k].mass \in Nat /\ s[k].many \in Nat \ {0}
  <2> DEFINE C == [mass : Nat, many : Nat \ {0}]
  <2>1. \A k \in 1 .. Len(s) : s[k] \in C
    <3>1. s \in Seq(C)
      BY <1>2
    <3> HIDE DEF C
    <3> QED
      BY <3>1
  <2> QED
    BY <2>1
<1>4. p = [k \in 1 .. Len(s) |-> s[k].mass * s[k].many]
  BY <1>1 DEF ByNumber
<1>5. \A k \in 1 .. Len(s) : p[k] \in Nat /\ (s[k].mass > 0 => p[k] > 0)
  <2>1. \A a \in Nat, b \in Nat \ {0} : a * b \in Nat /\ (a > 0 => a * b > 0)
    <3>1. ASSUME NEW a \in Nat, NEW b \in Nat \ {0}
          PROVE  a * b \in Nat /\ (a > 0 => a * b > 0)
      OBVIOUS
    <3> QED
      BY <3>1
  <2> QED
    BY <1>3, <1>4, <2>1
<1>6. p \in [1 .. Len(s) -> Nat]
  BY <1>4, <1>5
<1>7. p \in Seq(Nat) /\ Len(p) = Len(s)
  <2>1. \A n \in Nat : \A q \in [1 .. n -> Nat] : q \in Seq(Nat) /\ Len(q) = n
    OBVIOUS
  <2> QED
    BY <1>2, <1>6, <2>1
<1>8. p # <<>> => s # <<>>
  BY <1>2, <1>7
<1> QED
  BY <1>2, <1>5, <1>7, <1>8

\* Their sum is not zero, and no share is more than it.
LEMMA WholeRight ==
  ASSUME percent \in SizeShares, percent # <<>>
  PROVE  /\ percent \in Seq(Nat) /\ Len(percent) \in Nat \ {0} /\ Whole \in Nat \ {0}
         /\ SharesTo[0] = 0 /\ Whole = SharesTo[Len(percent)]
         /\ \A k \in 0 .. Len(percent) : SharesTo[k] \in Nat /\ SharesTo[k] <= Whole
         /\ \A k \in 1 .. Len(percent) :
              percent[k] \in Nat /\ SharesTo[k] = SharesTo[k - 1] + percent[k]
<1>1. percent \in Seq(Nat) /\ Len(percent) \in Nat \ {0}
  BY SharesAre
<1>2. PICK k \in 1 .. Len(percent) : percent[k] > 0
  BY SharesAre
<1>3. /\ \A i \in 0 .. Len(percent) : SharesTo[i] \in Nat
      /\ SharesTo[0] = 0
      /\ \A i \in 1 .. Len(percent) :
              percent[i] \in Nat /\ SharesTo[i] = SharesTo[i - 1] + percent[i]
  <2>1. /\ SharesTo \in [0 .. Len(percent) -> Nat] /\ SharesTo[0] = 0
        /\ \A i \in 1 .. Len(percent) : SharesTo[i] = SharesTo[i - 1] + percent[i]
    BY <1>1, SharesSums
  <2>2. \A i \in 1 .. Len(percent) : percent[i] \in Nat
    BY <1>1
  <2> QED
    BY <2>1, <2>2
<1>4. \A i \in 0 .. Len(percent) : SharesTo[i] <= SharesTo[Len(percent)]
  BY <1>1, SharesGrow
<1>5. SharesTo[Len(percent)] > 0
  <2>1. k - 1 \in 0 .. Len(percent) /\ k \in 0 .. Len(percent)
    BY <1>1
  <2>2. SharesTo[k] > 0
    BY <1>2, <1>3, <2>1
  <2>3. Len(percent) \in 0 .. Len(percent)
    BY <1>1
  <2>4. SharesTo[k] \in Nat /\ SharesTo[Len(percent)] \in Nat
    BY <1>3, <2>1, <2>3
  <2>5. SharesTo[k] <= SharesTo[Len(percent)]
    BY <1>4, <2>1
  <2> QED
    BY <2>2, <2>4, <2>5
<1> QED
  BY <1>1, <1>3, <1>4, <1>5 DEF Whole

LEMMA WholeKnown ==
  percent \in SizeShares /\ percent # <<>> =>
    Len(percent) \in Nat /\ Whole \in Nat /\ SharesTo[0] = 0
BY WholeRight

-----------------------------------------------------------------------------
(* The restart.                                                            *)

LEMMA FiledTypes == Raw \in ParticleType /\ Filed \in ParticleType
BY DEF Raw, Filed, ParticleType, Words

LEMMA LocalsKept ==
  ASSUME MakeInv, UNCHANGED locals
  PROVE  /\ percent' = percent /\ first' = first /\ next' = next /\ class' = class
         /\ thisSize' = thisSize /\ wild' = wild
         /\ percent = <<>> \/ percent \in SizeShares
         /\ first \in Int /\ next \in Int /\ class \in Nat /\ thisSize \in Nat
         /\ wild \in BOOLEAN
BY DEF locals, MakeInv, MakeTypes

LEMMA ReadAshMakes ==
  ASSUME MakeInv, ReadAsh
  PROVE  MakeInv'
<1>1. /\ step = "restart" /\ restart = "ash" /\ restart' = restart
      /\ volcano' = volcano /\ nAsh' = nAsh
      /\ ashNpart' = NFile /\ ashN' = NFile + IF volcano THEN nAsh ELSE 0
      /\ step' \in {"site", "failed"}
      /\ percent = <<>> /\ ~wild
  BY DEF ReadAsh, options, MakeInv, RestartInv
<1>2. /\ NFile \in Nat \ {0} /\ nAsh \in Nat \ {0} /\ volcano \in BOOLEAN
      /\ ashN' \in Nat /\ ashN' > 0 /\ ashNpart' \in 0 .. ashN'
      /\ ~volcano => ashNpart' = ashN'
  BY <1>1, AshAssumption DEF MakeInv, MakeTypes
<1>3. CloudTypes' /\ CloudInv'
  BY CloudKept DEF ReadAsh, MakeInv, MakeTypes
<1>4. \A i \in 0 .. ashN' - 1 : particle'[i] \in {Raw, Filed}
  BY DEF ReadAsh, Array
<1>5. particle' = [i \in 0 .. ashN' - 1 |-> particle'[i]]
  BY DEF ReadAsh, Array
<1>6. particle' \in [0 .. ashN' - 1 -> ParticleType]
  BY <1>4, <1>5, FiledTypes
<1>7. UNCHANGED locals
  BY DEF ReadAsh
<1>8. MakeTypes'
  BY <1>1, <1>2, <1>3, <1>6, <1>7, LocalsKept DEF MakeTypes, MakeInv
<1>9. RestartInv'
  BY <1>1, <1>2, <1>7, LocalsKept DEF RestartInv
<1>10. ValuesInv'
  <2> SUFFICES ASSUME step' = "site", NEW i \in 0 .. ashN' - 1
               PROVE  IF i < ashNpart' THEN Old(particle[i])' ELSE Young(particle[i])'
    BY <1>1 DEF ValuesInv
  <2>1. particle'[i] = IF i < NFile THEN Filed ELSE Raw
    BY DEF ReadAsh, Array
  <2> QED
    BY <1>1, <2>1 DEF Old, Young, Filed, Raw
<1>11. ClassesInv' /\ SharedInv'
  BY <1>1 DEF ClassesInv, SharedInv
<1> QED
  BY <1>3, <1>8, <1>9, <1>10, <1>11 DEF MakeInv

LEMMA ReadCloudMakes ==
  ASSUME MakeInv, ReadCloud
  PROVE  MakeInv'
<1>1. /\ step = "restart" /\ restart = "cloud" /\ restart' = restart
      /\ step' = step /\ volcano' = volcano /\ nAsh' = nAsh
      /\ ashN' = nAsh /\ ashNpart' = IF volcano THEN nAsh \div 2 ELSE nAsh
      /\ particle' = [i \in 0 .. nAsh - 1 |-> Raw] /\ UNCHANGED locals
      /\ percent = <<>> /\ ~wild
  BY DEF ReadCloud, options, Array, MakeInv, RestartInv
<1>2. /\ cloud = "none" /\ cloud' = "read" /\ want' = ashNpart'
      /\ outline' \in Outlines /\ elevPoint' \in Elevations
      /\ nPolySide' = nPolySide /\ validPoints' = validPoints /\ points' = points
  BY DEF ReadCloud, ReadPoints
<1>3. /\ nAsh \in Nat \ {0} /\ volcano \in BOOLEAN
      /\ ashNpart' \in 0 .. nAsh
      /\ ~volcano => ashNpart' = nAsh
  <2>1. nAsh \in Nat \ {0} /\ volcano \in BOOLEAN
    BY DEF MakeInv, MakeTypes
  <2>2. nAsh \div 2 \in 0 .. nAsh
    BY <2>1
  <2> QED
    BY <1>1, <2>1, <2>2
<1>4. outline' \in Seq(Int \X Int) /\ elevPoint' \in Seq(Int \X Int) /\ elevPoint' # <<>>
  BY <1>2, CloudAssumption
<1>5. IsList(elevPoint')
  BY <1>4 DEF IsList
<1>6. CloudTypes'
  <2>1. /\ IsList(points') /\ nPolySide' \in Nat \ {0} /\ validPoints' \in Nat
        /\ want' \in Nat
    BY <1>1, <1>2, <1>3 DEF CloudTypes, MakeInv, MakeTypes
  <2> QED
    BY <1>2, <1>4, <1>5, <2>1 DEF CloudTypes
<1>7. CloudInv'
  BY <1>2, <1>4 DEF CloudInv, MakeInv
<1>8. particle' \in [0 .. ashN' - 1 -> ParticleType]
  BY <1>1, FiledTypes
<1>9. MakeTypes'
  BY <1>1, <1>3, <1>6, <1>8, LocalsKept DEF MakeTypes, MakeInv
<1>10. RestartInv'
  BY <1>1, <1>2, <1>3, LocalsKept DEF RestartInv
<1>11. ValuesInv' /\ ClassesInv' /\ SharedInv'
  BY <1>1 DEF ValuesInv, ClassesInv, SharedInv
<1> QED
  BY <1>7, <1>9, <1>10, <1>11 DEF MakeInv

(* The classes depend on the shares and on the particles alone.            *)
LEMMA ClassesKept ==
  ASSUME UNCHANGED makeVars, ClassesInv, SharedInv
  PROVE  ClassesInv' /\ SharedInv'
<1>1. /\ percent' = percent /\ particle' = particle /\ step' = step /\ ashN' = ashN
      /\ ashNpart' = ashNpart /\ first' = first /\ next' = next /\ class' = class
      /\ thisSize' = thisSize /\ wild' = wild
  BY DEF makeVars
<1>2. SharesTo' = SharesTo
  BY <1>1 DEF SharesTo
<1>3. Whole' = Whole
  BY <1>1, <1>2 DEF Whole
<1>4. \A c : Members(c)' = Members(c)
  BY <1>1 DEF Members
<1>5. \A lo, hi, c : Fair(lo, hi, c)' <=> Fair(lo, hi, c)
  BY <1>1, <1>3 DEF Fair
<1>6. \A c, top : Settled(c, top)' <=> Settled(c, top)
  BY <1>4, <1>5 DEF Settled
<1>7. ClassesInv'
  BY <1>1, <1>2, <1>3, <1>4, <1>5, <1>6 DEF ClassesInv
<1>8. SharedInv'
  BY <1>1, <1>2, <1>3, <1>4, <1>5, <1>6 DEF SharedInv
<1> QED
  BY <1>7, <1>8

LEMMA FillingMakes ==
  ASSUME MakeInv, Filling
  PROVE  MakeInv'
<1>1. CloudTypes' /\ CloudInv' /\ cloud # "none" /\ cloud' # "none" /\ want' = want
  BY CloudKeeps DEF Filling, MakeInv, MakeTypes
<1>2. UNCHANGED makeVars
  BY DEF Filling
<1>3. MakeTypes'
  BY <1>1, <1>2 DEF makeVars, MakeTypes, MakeInv
<1>4. RestartInv'
  BY <1>1, <1>2 DEF makeVars, RestartInv, MakeInv
<1>5. ValuesInv'
  BY <1>2 DEF makeVars, ValuesInv, Old, Young, MakeInv
<1>6. ClassesInv' /\ SharedInv'
  BY <1>2, ClassesKept DEF makeVars, MakeInv
<1> QED
  BY <1>1, <1>3, <1>4, <1>5, <1>6 DEF MakeInv

LEMMA LoadCloudMakes ==
  ASSUME MakeInv, LoadCloud
  PROVE  MakeInv'
<1>1. /\ step = "restart" /\ step' = "site" /\ restart' = restart
      /\ volcano' = volcano /\ nAsh' = nAsh /\ ashN' = ashN /\ ashNpart' = ashNpart
      /\ percent = <<>> /\ ~wild /\ cloud = "filled" /\ UNCHANGED locals
  BY DEF LoadCloud, Destroy, options, MakeInv, RestartInv
<1>2. /\ restart = "cloud" /\ ashN > 0 /\ want = ashNpart /\ (~volcano => ashNpart = ashN)
      /\ Len(points) = ashNpart
  BY <1>1 DEF MakeInv, RestartInv, CloudInv
<1>3. CloudTypes' /\ CloudInv'
  <2>1. /\ cloud' = "gone" /\ outline' = <<>> /\ elevPoint' = <<>> /\ points' = <<>>
        /\ want' = 0 /\ nPolySide' = 1 /\ validPoints' = 0
    BY DEF LoadCloud, Destroy
  <2>2. <<>> \in Seq(Int \X Int) /\ IsList(<<>>)
    BY DEF IsList
  <2> QED
    BY <2>1, <2>2 DEF CloudTypes, CloudInv
<1>4. /\ ashN \in Nat /\ ashNpart \in 0 .. ashN
      /\ particle \in [0 .. ashN - 1 -> ParticleType]
      /\ \A i \in 0 .. ashN - 1 : particle[i] = Raw
  BY <1>1 DEF MakeInv, MakeTypes, RestartInv
<1>5. ASSUME NEW i \in 0 .. ashN - 1
      PROVE  IF i < ashNpart
             THEN particle'[i] = [place |-> "cloud", height |-> "cloud", size |-> "cloud",
                                  class |-> 0, start |-> "minusOne"]
             ELSE particle'[i] = Raw
  <2>1. particle'[i] = IF i < ashNpart THEN CloudParticle(i) ELSE Raw
    BY <1>4, <1>5 DEF LoadCloud
  <2> QED
    BY <1>2, <2>1 DEF CloudParticle
<1>6. particle' \in [0 .. ashN' - 1 -> ParticleType]
  <2>1. DOMAIN particle' = 0 .. ashN - 1 /\ particle' = [i \in 0 .. ashN - 1 |-> particle'[i]]
    BY <1>4 DEF LoadCloud
  <2>2. ASSUME NEW i \in 0 .. ashN - 1
        PROVE  particle'[i] \in ParticleType
    <3>1. [place |-> "cloud", height |-> "cloud", size |-> "cloud", class |-> 0,
           start |-> "minusOne"] \in ParticleType
      BY DEF ParticleType, Words
    <3> QED
      BY <1>5, <3>1, FiledTypes
  <2> QED
    BY <1>1, <2>1, <2>2
<1>7. MakeTypes'
  BY <1>1, <1>3, <1>4, <1>6, LocalsKept DEF MakeTypes, MakeInv
<1>8. RestartInv'
  BY <1>1, <1>2, LocalsKept DEF RestartInv
<1>9. ValuesInv'
  <2> SUFFICES ASSUME NEW i \in 0 .. ashN' - 1
               PROVE  IF i < ashNpart' THEN Old(particle[i])' ELSE Young(particle[i])'
    BY <1>1 DEF ValuesInv
  <2>1. CASE i < ashNpart
    <3>1. particle'[i] = [place |-> "cloud", height |-> "cloud", size |-> "cloud",
                          class |-> 0, start |-> "minusOne"]
      BY <1>1, <1>5, <2>1
    <3>2. restart' # "ash" /\ i < ashNpart'
      BY <1>1, <1>2, <2>1
    <3>3. Old(particle[i])'
      <4>1. /\ particle'[i].place = "cloud" /\ particle'[i].height = "cloud"
            /\ particle'[i].start = "minusOne" /\ particle'[i].size = "cloud"
        BY <3>1
      <4> QED
        BY <3>2, <4>1 DEF Old
    <3> QED
      BY <3>2, <3>3
  <2>2. CASE ~(i < ashNpart)
    <3>1. particle'[i] = Raw
      BY <1>1, <1>5, <2>2
    <3> QED
      BY <1>1, <2>2, <3>1 DEF Young, Raw
  <2> QED
    BY <2>1, <2>2
<1>10. ClassesInv' /\ SharedInv'
  BY <1>1 DEF ClassesInv, SharedInv
<1> QED
  BY <1>3, <1>7, <1>8, <1>9, <1>10 DEF MakeInv

LEMMA CloudFailsMakes ==
  ASSUME MakeInv, CloudFails
  PROVE  MakeInv'
<1>1. /\ step' = "failed" /\ UNCHANGED <<cloudVars, options, particle, ashN, ashNpart, locals>>
  BY DEF CloudFails
<1>2. CloudTypes' /\ CloudInv'
  BY <1>1, CloudKept DEF MakeInv, MakeTypes
<1>3. MakeTypes'
  BY <1>1, <1>2 DEF MakeTypes, MakeInv, options, locals
<1>4. RestartInv' /\ ValuesInv' /\ ClassesInv' /\ SharedInv'
  BY <1>1 DEF RestartInv, ValuesInv, ClassesInv, SharedInv
<1> QED
  BY <1>2, <1>3, <1>4 DEF MakeInv

LEMMA NoRestartMakes ==
  ASSUME MakeInv, NoRestart
  PROVE  MakeInv'
<1>1. /\ step = "restart" /\ restart = "none" /\ restart' = restart /\ volcano' = volcano
      /\ nAsh' = nAsh /\ ashNpart' = ashNpart /\ UNCHANGED locals /\ UNCHANGED cloudVars
      /\ \/ /\ volcano /\ step' = "site" /\ ashN' = nAsh
            /\ particle' = [i \in 0 .. nAsh - 1 |-> Raw]
         \/ step' = "failed" /\ ashN' = ashN /\ particle' = particle
  BY DEF NoRestart, options, Array
<1>2. CloudTypes' /\ CloudInv'
  BY <1>1, CloudKept DEF MakeInv, MakeTypes
<1>3. ashN = 0 /\ ashNpart = 0 /\ percent = <<>> /\ ~wild /\ nAsh \in Nat \ {0}
  BY <1>1 DEF MakeInv, RestartInv, MakeTypes
<1>4. MakeTypes'
  <2>1. /\ ashN' \in Nat /\ ashNpart' \in 0 .. ashN'
        /\ particle' \in [0 .. ashN' - 1 -> ParticleType]
    <3>1. CASE ashN' = nAsh /\ particle' = [i \in 0 .. nAsh - 1 |-> Raw]
      BY <1>1, <1>3, <3>1, FiledTypes
    <3>2. CASE ashN' = ashN /\ particle' = particle
      BY <1>1, <1>3, <3>2 DEF MakeInv, MakeTypes
    <3> QED
      BY <1>1, <3>1, <3>2
  <2> QED
    BY <1>1, <1>2, <2>1, LocalsKept DEF MakeTypes, MakeInv
<1>5. RestartInv'
  BY <1>1, <1>3, LocalsKept DEF RestartInv
<1>6. ValuesInv'
  BY <1>1, <1>3 DEF ValuesInv, Young, Raw
<1>7. ClassesInv' /\ SharedInv'
  BY <1>1 DEF ClassesInv, SharedInv
<1> QED
  BY <1>2, <1>4, <1>5, <1>6, <1>7 DEF MakeInv

-----------------------------------------------------------------------------
(* The steps of an eruption.                                               *)

\* What the loops of the new particles do to each particle.
LEMMA Given ==
  ASSUME MakeInv
  PROVE  /\ ashN \in Nat /\ ashNpart \in 0 .. ashN /\ DOMAIN particle = 0 .. ashN - 1
         /\ \A i \in 0 .. ashN - 1 : particle[i] \in ParticleType /\ (i \in New <=> ~(i < ashNpart))
BY DEF MakeInv, MakeTypes, New

LEMMA SiteMakes ==
  ASSUME MakeInv, Site
  PROVE  MakeInv'
<1>1. /\ step = "site" /\ restart' = restart /\ volcano' = volcano /\ nAsh' = nAsh
      /\ ashN' = ashN /\ ashNpart' = ashNpart /\ UNCHANGED locals /\ UNCHANGED cloudVars
      /\ step' = IF volcano THEN "column" ELSE "spread"
  BY DEF Site, options
<1>2. CloudTypes' /\ CloudInv'
  BY <1>1, CloudKept DEF MakeInv, MakeTypes
<1>3. /\ volcano \in BOOLEAN /\ ashN > 0 /\ percent = <<>> /\ ~wild
      /\ ~volcano => ashNpart = ashN
      /\ restart = "none" => ashNpart = 0
  BY <1>1 DEF MakeInv, RestartInv, MakeTypes
<1>4. DOMAIN particle' = 0 .. ashN - 1 /\ particle' = [i \in 0 .. ashN - 1 |-> particle'[i]]
  BY Given DEF Site, Give, MakeInv, MakeTypes
<1>5. ASSUME NEW i \in 0 .. ashN - 1
      PROVE  particle'[i] = IF volcano /\ ~(i < ashNpart)
                            THEN [particle[i] EXCEPT !.place = "vent"] ELSE particle[i]
  BY <1>3, Given DEF Site, Give
<1>6. ASSUME NEW i \in 0 .. ashN - 1
      PROVE  particle'[i] \in ParticleType
  <2>1. particle[i] \in ParticleType /\ "vent" \in Words
    BY Given DEF Words
  <2>2. [particle[i] EXCEPT !.place = "vent"] \in ParticleType
    BY <2>1 DEF ParticleType
  <2> QED
    BY <1>5, <2>1, <2>2
<1>7. MakeTypes'
  <2>1. particle' \in [0 .. ashN' - 1 -> ParticleType]
    BY <1>1, <1>4, <1>6
  <2> QED
    BY <1>1, <1>2, <1>3, <2>1, Given, LocalsKept DEF MakeTypes, MakeInv
<1>8. RestartInv'
  BY <1>1, <1>3, LocalsKept DEF RestartInv, MakeInv
<1>9. ValuesInv'
  <2> SUFFICES ASSUME NEW i \in 0 .. ashN' - 1
               PROVE  IF i < ashNpart' THEN Old(particle[i])' ELSE Young(particle[i])'
    BY DEF ValuesInv
  <2>1. IF i < ashNpart THEN Old(particle[i]) ELSE Young(particle[i])
    BY <1>1 DEF MakeInv, ValuesInv
  <2>2. CASE i < ashNpart
    <3>1. particle'[i] = particle[i] /\ Old(particle[i])
      BY <1>1, <1>5, <2>1, <2>2
    <3>2. Old(particle[i])'
      BY <1>1, <3>1, LocalsKept DEF Old
    <3> QED
      BY <1>1, <2>2, <3>2
  <2>3. CASE ~(i < ashNpart)
    <3>1. volcano
      <4>1. ashN \in Nat
        BY Given
      <4> QED
        BY <1>1, <1>3, <2>3, <4>1
    <3>2. Young(particle[i]) /\ particle[i] \in ParticleType
      BY <1>1, <2>1, <2>3, Given
    <3>3. particle'[i] = [particle[i] EXCEPT !.place = "vent"]
      BY <1>1, <1>5, <2>3, <3>1
    <3>4. /\ particle'[i].place = "vent" /\ particle'[i].start = "zero"
          /\ particle'[i].class = 0
      BY <1>1, <3>2, <3>3 DEF Young, ParticleType
    <3>5. Young(particle[i])'
      BY <1>1, <3>1, <3>4 DEF Young
    <3> QED
      BY <1>1, <2>3, <3>5
  <2> QED
    BY <2>2, <2>3
<1>10. ClassesInv' /\ SharedInv'
  BY <1>1, <1>3 DEF ClassesInv, SharedInv
<1> QED
  BY <1>2, <1>7, <1>8, <1>9, <1>10 DEF MakeInv

LEMMA ColumnMakes ==
  ASSUME MakeInv, Column
  PROVE  MakeInv'
<1>1. /\ step = "column" /\ restart' = restart /\ volcano' = volcano /\ nAsh' = nAsh
      /\ ashN' = ashN /\ ashNpart' = ashNpart /\ UNCHANGED locals /\ UNCHANGED cloudVars
      /\ step' = "spread"
  BY DEF Column, options
<1>2. CloudTypes' /\ CloudInv'
  BY <1>1, CloudKept DEF MakeInv, MakeTypes
<1>3. /\ ashN > 0 /\ percent = <<>> /\ ~wild
      /\ ~volcano => ashNpart = ashN
      /\ restart = "none" => ashNpart = 0
  BY <1>1 DEF MakeInv, RestartInv, MakeTypes
<1>4. DOMAIN particle' = 0 .. ashN - 1 /\ particle' = [i \in 0 .. ashN - 1 |-> particle'[i]]
  BY Given DEF Column, Give
<1>5. ASSUME NEW i \in 0 .. ashN - 1
      PROVE  particle'[i] = IF ~(i < ashNpart)
                            THEN [particle[i] EXCEPT !.height = "column"] ELSE particle[i]
  BY Given DEF Column, Give
<1>6. ASSUME NEW i \in 0 .. ashN - 1
      PROVE  particle'[i] \in ParticleType
  <2>1. particle[i] \in ParticleType /\ "column" \in Words
    BY Given DEF Words
  <2>2. [particle[i] EXCEPT !.height = "column"] \in ParticleType
    BY <2>1 DEF ParticleType
  <2> QED
    BY <1>5, <2>1, <2>2
<1>7. MakeTypes'
  <2>1. particle' \in [0 .. ashN' - 1 -> ParticleType]
    BY <1>1, <1>4, <1>6
  <2> QED
    BY <1>1, <1>2, <2>1, Given, LocalsKept DEF MakeTypes, MakeInv
<1>8. RestartInv'
  BY <1>1, <1>3, LocalsKept DEF RestartInv, MakeInv
<1>9. ValuesInv'
  <2> SUFFICES ASSUME NEW i \in 0 .. ashN' - 1
               PROVE  IF i < ashNpart' THEN Old(particle[i])' ELSE Young(particle[i])'
    BY DEF ValuesInv
  <2>1. IF i < ashNpart THEN Old(particle[i]) ELSE Young(particle[i])
    BY <1>1 DEF MakeInv, ValuesInv
  <2>2. CASE i < ashNpart
    <3>1. particle'[i] = particle[i] /\ Old(particle[i])
      BY <1>1, <1>5, <2>1, <2>2
    <3>2. Old(particle[i])'
      BY <1>1, <3>1, LocalsKept DEF Old
    <3> QED
      BY <1>1, <2>2, <3>2
  <2>3. CASE ~(i < ashNpart)
    <3>2. Young(particle[i]) /\ particle[i] \in ParticleType
      BY <1>1, <2>1, <2>3, Given
    <3>3. particle'[i] = [particle[i] EXCEPT !.height = "column"]
      BY <1>1, <1>5, <2>3
    <3>4. /\ particle'[i].place = "vent" /\ particle'[i].height = "column"
          /\ particle'[i].start = "zero" /\ particle'[i].class = 0
      BY <1>1, <3>2, <3>3 DEF Young, ParticleType
    <3>5. Young(particle[i])'
      BY <1>1, <3>4 DEF Young
    <3> QED
      BY <1>1, <2>3, <3>5
  <2> QED
    BY <2>2, <2>3
<1>10. ClassesInv' /\ SharedInv'
  BY <1>1 DEF ClassesInv, SharedInv
<1> QED
  BY <1>2, <1>7, <1>8, <1>9, <1>10 DEF MakeInv

LEMMA SpreadMakes ==
  ASSUME MakeInv, Spread
  PROVE  MakeInv'
<1>1. /\ step = "spread" /\ restart' = restart /\ volcano' = volcano /\ nAsh' = nAsh
      /\ ashN' = ashN /\ ashNpart' = ashNpart /\ UNCHANGED cloudVars
      /\ percent' \in SizeShares /\ step' = IF percent' = <<>> THEN "normal" ELSE "class"
      /\ first' = ashNpart /\ class' = 1 /\ next' = next /\ thisSize' = thisSize
      /\ wild' = wild /\ particle' \in {particle, Give(Around1)}
  BY DEF Spread, options
<1>2. CloudTypes' /\ CloudInv'
  BY <1>1, CloudKept DEF MakeInv, MakeTypes
<1>3. /\ ashN > 0 /\ percent = <<>> /\ ~wild
      /\ ~volcano => ashNpart = ashN
      /\ restart = "none" => ashNpart = 0
      /\ next \in Int /\ thisSize \in Nat /\ wild \in BOOLEAN
      /\ restart \in {"none", "ash", "cloud"} /\ volcano \in BOOLEAN /\ nAsh \in Nat \ {0}
  BY <1>1 DEF MakeInv, RestartInv, MakeTypes
<1>4. DOMAIN particle' = 0 .. ashN - 1 /\ particle' = [i \in 0 .. ashN - 1 |-> particle'[i]]
  BY <1>1, Given DEF Give, MakeInv, MakeTypes
<1>5. ASSUME NEW i \in 0 .. ashN - 1
      PROVE  \/ particle'[i] = particle[i]
             \/ ~(i < ashNpart) /\ particle'[i] = Around1(particle[i])
  BY <1>1, Given DEF Give
<1>6. ASSUME NEW i \in 0 .. ashN - 1
      PROVE  particle'[i] \in ParticleType
  <2>1. particle[i] \in ParticleType /\ "plume" \in Words /\ "astray" \in Words
    BY Given DEF Words
  <2>2. Around1(particle[i]) \in ParticleType
    BY <2>1 DEF ParticleType, Around1
  <2> QED
    BY <1>5, <2>1, <2>2
<1>7. MakeTypes'
  <2>1. particle' \in [0 .. ashN' - 1 -> ParticleType]
    BY <1>1, <1>4, <1>6
  <2> QED
    BY <1>1, <1>2, <1>3, <2>1, Given DEF MakeTypes
<1>8. RestartInv'
  <2>1. CASE percent' = <<>>
    BY <1>1, <1>3, <2>1 DEF RestartInv
  <2>2. CASE percent' # <<>>
    BY <1>1, <1>3, <2>2 DEF RestartInv
  <2> QED
    BY <2>1, <2>2
<1>9. ASSUME NEW i \in 0 .. ashN - 1
      PROVE  IF i < ashNpart THEN Old(particle[i]) ELSE Young(particle[i])
  BY <1>1 DEF MakeInv, ValuesInv
<1>10. ASSUME NEW i \in 0 .. ashN - 1, ~(i < ashNpart)
       PROVE  /\ particle'[i].place \in {"vent", "plume"} /\ particle'[i].height = "column"
              /\ particle'[i].start = "zero" /\ particle'[i].class = 0
  <2>1. Young(particle[i]) /\ particle[i] \in ParticleType
    BY <1>9, <1>10, Given
  <2>2. /\ particle[i].place = "vent" /\ particle[i].height = "column"
        /\ particle[i].start = "zero" /\ particle[i].class = 0
    BY <1>1, <2>1 DEF Young
  <2>3. /\ Around1(particle[i]).place = "plume" /\ Around1(particle[i]).height = "column"
        /\ Around1(particle[i]).start = "zero" /\ Around1(particle[i]).class = 0
    BY <2>1, <2>2 DEF Around1, ParticleType
  <2> QED
    BY <1>5, <1>10, <2>2, <2>3
<1>11. ValuesInv'
  <2> SUFFICES ASSUME NEW i \in 0 .. ashN' - 1
               PROVE  IF i < ashNpart' THEN Old(particle[i])' ELSE Young(particle[i])'
    BY DEF ValuesInv
  <2>2. CASE i < ashNpart
    <3>1. particle'[i] = particle[i] /\ Old(particle[i])
      BY <1>1, <1>5, <1>9, <2>2
    <3>2. Old(particle[i])'
      BY <1>1, <1>3, <3>1 DEF Old
    <3> QED
      BY <1>1, <2>2, <3>2
  <2>3. CASE ~(i < ashNpart)
    <3>1. Young(particle[i])'
      BY <1>1, <1>10, <2>3 DEF Young
    <3> QED
      BY <1>1, <2>3, <3>1
  <2> QED
    BY <2>2, <2>3
<1>12. ClassesInv'
  <2> SUFFICES ASSUME ashNpart = 0, percent' # <<>>
               PROVE  /\ class' \in 1 .. Len(percent') + 1 /\ first' \in 0 .. ashN' - 1 /\ ~wild'
                      /\ (first * Whole <= SharesTo[class - 1] * ashN)'
                      /\ class' = 1 => first' = 0 /\ \A i \in 0 .. ashN' - 1 : particle'[i].class = 0
                      /\ ~(class' > 1)
    BY <1>1 DEF ClassesInv
  <2>1. Len(percent') \in Nat /\ Whole' \in Nat /\ SharesTo'[0] = 0
    <3>1. (percent \in SizeShares /\ percent # <<>> =>
             Len(percent) \in Nat /\ Whole \in Nat /\ SharesTo[0] = 0)'
      BY WholeKnown, PTL
    <3> QED
      BY <1>1, <3>1
  <2>2. (first * Whole <= SharesTo[class - 1] * ashN)'
    BY <1>1, <2>1, Given
  <2>3. \A i \in 0 .. ashN' - 1 : particle'[i].class = 0
    BY <1>1, <1>10
  <2> QED
    BY <1>1, <1>3, <2>1, <2>2, <2>3, Given
<1>13. SharedInv'
  BY <1>1 DEF SharedInv
<1> QED
  BY <1>2, <1>7, <1>8, <1>11, <1>12, <1>13 DEF MakeInv

LEMMA NormalSizesMakes ==
  ASSUME MakeInv, NormalSizes
  PROVE  MakeInv'
<1>1. /\ step = "normal" /\ restart' = restart /\ volcano' = volcano /\ nAsh' = nAsh
      /\ ashN' = ashN /\ ashNpart' = ashNpart /\ UNCHANGED locals /\ UNCHANGED cloudVars
      /\ step' = "age"
  BY DEF NormalSizes, options
<1>2. CloudTypes' /\ CloudInv'
  BY <1>1, CloudKept DEF MakeInv, MakeTypes
<1>3. /\ ashN > 0 /\ percent = <<>>
      /\ ~volcano => ashNpart = ashN
      /\ restart = "none" => ashNpart = 0
  BY <1>1 DEF MakeInv, RestartInv, MakeTypes
<1>4. DOMAIN particle' = 0 .. ashN - 1 /\ particle' = [i \in 0 .. ashN - 1 |-> particle'[i]]
  BY Given DEF NormalSizes, Give
<1>5. ASSUME NEW i \in 0 .. ashN - 1
      PROVE  particle'[i] = IF ~(i < ashNpart)
                            THEN [particle[i] EXCEPT !.size = "normal"] ELSE particle[i]
  BY Given DEF NormalSizes, Give
<1>6. ASSUME NEW i \in 0 .. ashN - 1
      PROVE  particle'[i] \in ParticleType
  <2>1. particle[i] \in ParticleType /\ "normal" \in Words
    BY Given DEF Words
  <2>2. [particle[i] EXCEPT !.size = "normal"] \in ParticleType
    BY <2>1 DEF ParticleType
  <2> QED
    BY <1>5, <2>1, <2>2
<1>7. MakeTypes'
  <2>1. particle' \in [0 .. ashN' - 1 -> ParticleType]
    BY <1>1, <1>4, <1>6
  <2> QED
    BY <1>1, <1>2, <2>1, Given, LocalsKept DEF MakeTypes, MakeInv
<1>8. RestartInv'
  BY <1>1, <1>3, LocalsKept DEF RestartInv, MakeInv
<1>9. ValuesInv'
  <2> SUFFICES ASSUME NEW i \in 0 .. ashN' - 1
               PROVE  IF i < ashNpart' THEN Old(particle[i])' ELSE Young(particle[i])'
    BY DEF ValuesInv
  <2>1. IF i < ashNpart THEN Old(particle[i]) ELSE Young(particle[i])
    BY <1>1 DEF MakeInv, ValuesInv
  <2>2. CASE i < ashNpart
    <3>1. particle'[i] = particle[i] /\ Old(particle[i])
      BY <1>1, <1>5, <2>1, <2>2
    <3>2. Old(particle[i])'
      BY <1>1, <3>1, LocalsKept DEF Old
    <3> QED
      BY <1>1, <2>2, <3>2
  <2>3. CASE ~(i < ashNpart)
    <3>2. Young(particle[i]) /\ particle[i] \in ParticleType
      BY <1>1, <2>1, <2>3, Given
    <3>3. particle'[i] = [particle[i] EXCEPT !.size = "normal"]
      BY <1>1, <1>5, <2>3
    <3>4. /\ particle'[i].place = particle[i].place /\ particle'[i].height = particle[i].height
          /\ particle'[i].start = particle[i].start /\ particle'[i].size = "normal"
      BY <3>2, <3>3 DEF ParticleType
    <3>5. Young(particle[i])'
      BY <1>1, <3>2, <3>4 DEF Young
    <3> QED
      BY <1>1, <2>3, <3>5
  <2> QED
    BY <2>2, <2>3
<1>10. ClassesInv' /\ SharedInv'
  BY <1>1, <1>3, LocalsKept DEF ClassesInv, SharedInv
<1> QED
  BY <1>2, <1>7, <1>8, <1>9, <1>10 DEF MakeInv

\* The age leaves the classes of the particles as they are.
LEMMA AgeMakes ==
  ASSUME MakeInv, Age
  PROVE  MakeInv'
<1>1. /\ step = "age" /\ restart' = restart /\ volcano' = volcano /\ nAsh' = nAsh
      /\ ashN' = ashN /\ ashNpart' = ashNpart /\ UNCHANGED locals /\ UNCHANGED cloudVars
      /\ step' = "ready"
  BY DEF Age, options
<1>2. CloudTypes' /\ CloudInv'
  BY <1>1, CloudKept DEF MakeInv, MakeTypes
<1>3. /\ ashN > 0
      /\ ~volcano => ashNpart = ashN
      /\ restart = "none" => ashNpart = 0
  BY <1>1 DEF MakeInv, RestartInv, MakeTypes
<1>4. DOMAIN particle' = 0 .. ashN - 1 /\ particle' = [i \in 0 .. ashN - 1 |-> particle'[i]]
  BY Given DEF Age, Give
<1>5. ASSUME NEW i \in 0 .. ashN - 1
      PROVE  particle'[i] =
               IF ~(i < ashNpart)
               THEN [particle[i] EXCEPT !.start = IF particle[i].start = "minusOne"
                                                  THEN "eruption" ELSE "drawn"]
               ELSE particle[i]
  BY Given DEF Age, Give
<1>6. ASSUME NEW i \in 0 .. ashN - 1
      PROVE  particle'[i] \in ParticleType
  <2>1. particle[i] \in ParticleType /\ "eruption" \in Words /\ "drawn" \in Words
    BY Given DEF Words
  <2>2. [particle[i] EXCEPT !.start = IF particle[i].start = "minusOne"
                                      THEN "eruption" ELSE "drawn"] \in ParticleType
    BY <2>1 DEF ParticleType
  <2> QED
    BY <1>5, <2>1, <2>2
<1>7. MakeTypes'
  <2>1. particle' \in [0 .. ashN' - 1 -> ParticleType]
    BY <1>1, <1>4, <1>6
  <2> QED
    BY <1>1, <1>2, <2>1, Given, LocalsKept DEF MakeTypes, MakeInv
<1>8. RestartInv'
  BY <1>1, <1>3, LocalsKept DEF RestartInv, MakeInv
<1>9. ValuesInv'
  <2> SUFFICES ASSUME NEW i \in 0 .. ashN' - 1
               PROVE  IF i < ashNpart' THEN Old(particle[i])' ELSE Young(particle[i])'
    BY DEF ValuesInv
  <2>1. IF i < ashNpart THEN Old(particle[i]) ELSE Young(particle[i])
    BY <1>1 DEF MakeInv, ValuesInv
  <2>2. CASE i < ashNpart
    <3>1. particle'[i] = particle[i] /\ Old(particle[i])
      BY <1>1, <1>5, <2>1, <2>2
    <3>2. Old(particle[i])'
      BY <1>1, <3>1, LocalsKept DEF Old
    <3> QED
      BY <1>1, <2>2, <3>2
  <2>3. CASE ~(i < ashNpart)
    <3>2. Young(particle[i]) /\ particle[i] \in ParticleType
      BY <1>1, <2>1, <2>3, Given
    <3>3. particle[i].start = "zero"
      BY <1>1, <3>2 DEF Young
    <3>4. particle'[i] = [particle[i] EXCEPT !.start = "drawn"]
      BY <1>1, <1>5, <2>3, <3>3
    <3>5. /\ particle'[i].place = particle[i].place /\ particle'[i].height = particle[i].height
          /\ particle'[i].start = "drawn" /\ particle'[i].size = particle[i].size
      BY <3>2, <3>4 DEF ParticleType
    <3>6. Young(particle[i])'
      BY <1>1, <3>2, <3>5, LocalsKept DEF Young
    <3> QED
      BY <1>1, <2>3, <3>6
  <2> QED
    BY <2>2, <2>3
<1>10. ClassesInv'
  BY <1>1 DEF ClassesInv
<1>11. SharedInv'
  <2>1. percent' = percent /\ wild' = wild
    BY <1>1, LocalsKept
  <2>2. ASSUME NEW i \in 0 .. ashN - 1
        PROVE  particle'[i].class = particle[i].class /\ particle'[i].size = particle[i].size
    <3>1. particle[i] \in ParticleType
      BY Given
    <3> QED
      BY <1>5, <3>1 DEF ParticleType
  <2>3. SharesTo' = SharesTo
    BY <2>1 DEF SharesTo
  <2>4. Whole' = Whole
    BY <2>1, <2>3 DEF Whole
  <2>5. \A c : Members(c)' = Members(c)
    BY <1>4, <2>2, Given DEF Members
  <2>6. \A lo, hi, c : Fair(lo, hi, c)' <=> Fair(lo, hi, c)
    BY <1>1, <2>1, <2>4 DEF Fair
  <2>7. \A c, top : Settled(c, top)' <=> Settled(c, top)
    BY <2>5, <2>6 DEF Settled
  <2>8. SharedInv
    BY DEF MakeInv
  <2> QED
    BY <1>1, <2>1, <2>2, <2>3, <2>4, <2>5, <2>7, <2>8 DEF SharedInv
<1> QED
  BY <1>2, <1>7, <1>8, <1>9, <1>10, <1>11 DEF MakeInv

-----------------------------------------------------------------------------
(* The sizes by class.                                                     *)

LEMMA Grows ==
  ASSUME NEW a \in Int, NEW b \in Int, a <= b, NEW k \in Nat
  PROVE  a * k <= b * k
<1>1. (b - a) * k \in Nat
  <2>1. b - a \in Nat
    OBVIOUS
  <2> QED
    BY <2>1
<1>2. (b - a) * k = b * k - a * k
  OBVIOUS
<1> QED
  BY <1>1, <1>2

LEMMA LastOne ==
  ASSUME NEW n \in Nat \ {0}, NEW f \in 0 .. n - 1
  PROVE  n - 1 \in f .. n - 1
OBVIOUS

\* The products of the next lemma, as numbers.
LEMMA Remains ==
  ASSUME NEW base \in Nat, NEW whole \in Nat, NEW before \in Nat, NEW W \in Nat \ {0},
         NEW rest \in 0 .. W - 1, base <= before
  PROVE  /\ whole <= whole + rest /\ whole >= whole + rest - W
         /\ base + whole <= before + (whole + rest)
         /\ rest = 0 => /\ whole - W <= whole + rest /\ whole - W >= whole + rest - W
                     /\ base + whole - W <= before + (whole + rest)
OBVIOUS

\* A class that starts at f, of p shares of the W, with P shares before it,
\* and n particles in all: q of them and a rest of rest / W.
Situation(W, n, P, p, f, q, rest, reached, last) ==
  /\ W \in Nat \ {0} /\ n \in Nat \ {0} /\ P \in Nat /\ p \in Nat
  /\ f \in 0 .. n - 1 /\ f * W <= P * n /\ P + p <= W
  /\ q \in Nat /\ rest \in 0 .. W - 1 /\ p * n = W * q + rest
  /\ reached = f + q \/ (p * n > 0 /\ rest = 0 /\ reached = f + q - 1)
  /\ last = IF reached >= n THEN n - 1 ELSE reached

LEMMA Interval ==
  ASSUME NEW W, NEW n, NEW P, NEW p, NEW f, NEW q, NEW rest, NEW reached, NEW last,
         Situation(W, n, P, p, f, q, rest, reached, last)
  PROVE  /\ last \in f .. n - 1
         /\ (last - f) * W <= p * n /\ (last - f) * W >= p * n - W
         /\ last * W <= (P + p) * n
<1> USE DEF Situation
<1>1. /\ p * n \in Nat /\ P * n \in Nat /\ f * W \in Nat /\ W * q \in Nat
      /\ n * W \in Nat /\ q * W = W * q
  OBVIOUS
<1>2. (P + p) * n = P * n + p * n /\ (P + p) * n <= n * W
  <2>1. (P + p) * n <= W * n
    BY Grows
  <2> QED
    BY <2>1
<1>3. (f + q) * W = f * W + W * q /\ (n - 1) * W = n * W - W /\ (n + 1) * W = n * W + W
  OBVIOUS
<1>0. /\ W * q <= p * n /\ W * q >= p * n - W /\ f * W + W * q <= (P + p) * n
      /\ rest = 0 => /\ W * q - W <= p * n /\ W * q - W >= p * n - W
                  /\ f * W + W * q - W <= (P + p) * n
  <2> DEFINE A == f * W
             B == W * q
             C == P * n
             D == p * n
             E == (P + p) * n
  <2>1. A \in Nat /\ B \in Nat /\ C \in Nat /\ A <= C /\ D = B + rest /\ E = C + D
    BY <1>1, <1>2
  <2> SUFFICES /\ B <= D /\ B >= D - W /\ A + B <= E
               /\ rest = 0 => B - W <= D /\ B - W >= D - W /\ A + B - W <= E
    OBVIOUS
  <2> HIDE DEF A, B, C, D, E
  <2> QED
    BY <2>1, Remains
<1>4. CASE reached = f + q
  <2>1. ~(f + q >= n + 1)
    <3>1. SUFFICES ASSUME n + 1 <= f + q PROVE FALSE
      OBVIOUS
    <3>2. (n + 1) * W <= (f + q) * W
      BY <3>1, Grows
    <3> QED
      BY <1>1, <1>2, <1>3, <3>2
  <2>2. CASE reached >= n
    <3>1. f + q = n /\ last = n - 1
      BY <1>4, <2>1, <2>2
    <3>2. n * W = f * W + W * q
      BY <1>3, <3>1
    <3>3. rest = 0
      BY <1>1, <1>2, <3>2
    <3>4. (last - f) * W = W * q - W /\ last * W = f * W + W * q - W
      <4>1. ((n - 1) - f) * W = n * W - W - f * W
        BY <1>3
      <4> QED
        BY <1>1, <1>3, <3>1, <3>2, <4>1
    <3>5. last \in f .. n - 1
      BY <3>1, LastOne
    <3> QED
      BY <1>0, <3>3, <3>4, <3>5
  <2>3. CASE ~(reached >= n)
    <3>1. last = f + q /\ last \in f .. n - 1
      BY <1>4, <2>3
    <3>2. (last - f) * W = W * q /\ last * W = f * W + W * q
      BY <1>3, <3>1
    <3> QED
      BY <1>0, <3>1, <3>2
  <2> QED
    BY <2>2, <2>3
<1>5. CASE p * n > 0 /\ rest = 0 /\ reached = f + q - 1
  <2>1. q >= 1
    <3>1. CASE q = 0
      BY <1>1, <1>5, <3>1
    <3> QED
      BY <3>1
  <2>2. (f + q - 1) * W = f * W + W * q - W
    BY <1>3
  <2>3. ~(f + q - 1 >= n)
    <3>1. SUFFICES ASSUME n <= f + q - 1 PROVE FALSE
      OBVIOUS
    <3>2. n * W <= (f + q - 1) * W
      BY <2>1, <3>1, Grows
    <3> QED
      BY <1>1, <1>2, <1>5, <2>2, <3>2
  <2>4. last = f + q - 1 /\ last \in f .. n - 1
    BY <1>5, <2>1, <2>3
  <2>5. (last - f) * W = W * q - W /\ last * W = f * W + W * q - W
    <3>1. (q - 1) * W = W * q - W
      OBVIOUS
    <3>2. last - f = q - 1
      BY <2>4
    <3> QED
      BY <2>2, <2>4, <3>1, <3>2
  <2> QED
    BY <1>0, <1>5, <2>4, <2>5
<1> QED
  BY <1>4, <1>5

\* A particle that a class is given to, and one that it passes by.
LEMMA SizedParticle ==
  ASSUME MakeInv, NEW from \in Int, NEW to \in Int, NEW c \in Nat,
         particle' = Sized(from, to, c), NEW i \in 0 .. ashN - 1
  PROVE  /\ particle'[i] \in ParticleType
         /\ particle'[i].place = particle[i].place /\ particle'[i].height = particle[i].height
         /\ particle'[i].start = particle[i].start
         /\ IF from <= i /\ i <= to
            THEN particle'[i].size = "class" /\ particle'[i].class = c
            ELSE particle'[i] = particle[i]
<1>1. particle[i] \in ParticleType /\ "class" \in Words
  BY Given DEF Words
<1>2. particle'[i] = IF from <= i /\ i <= to
                     THEN [particle[i] EXCEPT !.size = "class", !.class = c]
                     ELSE particle[i]
  BY Given DEF Sized
<1> QED
  BY <1>1, <1>2 DEF ParticleType

LEMMA SizedTypes ==
  ASSUME MakeInv, NEW from \in Int, NEW to \in Int, NEW c \in Nat,
         particle' = Sized(from, to, c)
  PROVE  DOMAIN particle' = 0 .. ashN - 1 /\ particle' \in [0 .. ashN - 1 -> ParticleType]
<1>1. DOMAIN particle' = 0 .. ashN - 1 /\ particle' = [i \in 0 .. ashN - 1 |-> particle'[i]]
  BY Given DEF Sized
<1>2. \A i \in 0 .. ashN - 1 : particle'[i] \in ParticleType
  BY SizedParticle
<1> QED
  BY <1>1, <1>2

\* Neither step touches what the others have given.
LEMMA SizedValues ==
  ASSUME MakeInv, NEW from \in Int, NEW to \in Int, NEW c \in Nat,
         particle' = Sized(from, to, c), step = "class", step' \in {"class", "age"},
         ashN' = ashN, ashNpart' = ashNpart, restart' = restart, percent' = percent
  PROVE  ValuesInv'
<1> SUFFICES ASSUME NEW i \in 0 .. ashN' - 1
             PROVE  IF i < ashNpart' THEN Old(particle[i])' ELSE Young(particle[i])'
  BY DEF ValuesInv
<1>1. IF i < ashNpart THEN Old(particle[i]) ELSE Young(particle[i])
  BY DEF MakeInv, ValuesInv
<1>2. percent # <<>>
  BY DEF MakeInv, RestartInv
<1>3. /\ particle'[i].place = particle[i].place /\ particle'[i].height = particle[i].height
      /\ particle'[i].start = particle[i].start
  BY SizedParticle
<1>4. CASE i < ashNpart
  <2>1. Old(particle[i])'
    BY <1>1, <1>2, <1>3, <1>4 DEF Old
  <2> QED
    BY <1>4, <2>1
<1>5. CASE ~(i < ashNpart)
  <2>1. Young(particle[i])'
    BY <1>1, <1>2, <1>3, <1>5 DEF Young
  <2> QED
    BY <1>5, <2>1
<1> QED
  BY <1>4, <1>5

\* Where a class may end: its share rounded down, or one less.
LEMMA ReachedValues ==
  ASSUME MakeInv, step = "class", class <= Len(percent), NEW n \in Reached
  PROVE  /\ n \in Int
         /\ \E q \in Nat, rest \in 0 .. Whole - 1 :
              /\ percent[class] * totalSize = Whole * q + rest
              /\ \/ n = first + q
                 \/ percent[class] * totalSize > 0 /\ rest = 0 /\ n = first + q - 1
<1>1. /\ percent \in SizeShares /\ percent # <<>> /\ class \in 1 .. Len(percent)
      /\ first \in Int
  BY DEF MakeInv, MakeTypes, RestartInv
<1>2. Whole \in Nat \ {0} /\ percent[class] \in Nat
  BY <1>1, WholeRight
<1>3. totalSize \in Nat
  BY Given DEF totalSize
<1> DEFINE all == percent[class] * totalSize
<1>4. all \in Nat
  BY <1>2, <1>3
<1>5. \/ n = first + (all \div Whole)
      \/ all > 0 /\ all % Whole = 0 /\ n = first + (all \div Whole) - 1
  BY DEF Reached
<1> HIDE DEF all
<1>6. all \div Whole \in Nat /\ all % Whole \in 0 .. Whole - 1
      /\ all = Whole * (all \div Whole) + (all % Whole)
  <2>1. all % Whole \in 0 .. Whole - 1
    BY <1>2, <1>4
  <2> QED
    BY <1>2, <1>4, <2>1, Quotient
<1>7. n \in Int
  BY <1>1, <1>5, <1>6
<1>8. \E q \in Nat, rest \in 0 .. Whole - 1 :
        /\ all = Whole * q + rest
        /\ n = first + q \/ (all > 0 /\ rest = 0 /\ n = first + q - 1)
  BY <1>5, <1>6
<1> QED
  BY <1>7, <1>8 DEF all

LEMMA IntervalPart ==
  ASSUME NEW n \in Nat, NEW a \in Nat, NEW b \in Int, b <= n - 1
  PROVE  {i \in 0 .. n - 1 : a <= i /\ i <= b} = a .. b
OBVIOUS

LEMMA SizeClassMakes ==
  ASSUME MakeInv, SizeClass
  PROVE  MakeInv'
<1>1. /\ step = "class" /\ class <= Len(percent) /\ class' = class + 1
      /\ percent' = percent /\ step' = step /\ ashN' = ashN /\ ashNpart' = ashNpart
      /\ restart' = restart /\ volcano' = volcano /\ nAsh' = nAsh /\ UNCHANGED cloudVars
  BY DEF SizeClass, options
<1>2. PICK n \in Reached :
        /\ next' = Limit(n) /\ first' = next'
        /\ particle' = Sized(first, next', class)
        /\ thisSize' = (IF first <= next' THEN class ELSE thisSize)
        /\ wild' = (wild \/ Outside(first, next'))
  BY DEF SizeClass
<1>3. /\ percent \in SizeShares /\ percent # <<>> /\ class \in 1 .. Len(percent)
      /\ first \in Int /\ thisSize \in Nat /\ wild \in BOOLEAN /\ ashN > 0
      /\ ~volcano => ashNpart = ashN
      /\ restart = "none" => ashNpart = 0
  BY <1>1 DEF MakeInv, MakeTypes, RestartInv
<1>4. n \in Int /\ next' \in Int
  <2>1. n \in Int
    BY <1>1, ReachedValues
  <2>2. totalSize \in Int
    BY Given DEF totalSize
  <2> QED
    BY <1>2, <2>1, <2>2 DEF Limit
<1>5. CloudTypes' /\ CloudInv'
  BY <1>1, CloudKept DEF MakeInv, MakeTypes
<1>6. MakeTypes'
  <2>1. particle' \in [0 .. ashN' - 1 -> ParticleType]
    BY <1>1, <1>2, <1>3, <1>4, SizedTypes
  <2>2. /\ first' \in Int /\ next' \in Int /\ class' \in Nat /\ thisSize' \in Nat
        /\ wild' \in BOOLEAN
    BY <1>1, <1>2, <1>3, <1>4
  <2>3. restart \in {"none", "ash", "cloud"} /\ volcano \in BOOLEAN /\ nAsh \in Nat \ {0}
    BY DEF MakeInv, MakeTypes
  <2> QED
    BY <1>1, <1>3, <1>5, <2>1, <2>2, <2>3, Given DEF MakeTypes
<1>7. RestartInv'
  BY <1>1, <1>3 DEF RestartInv
<1>8. ValuesInv'
  BY <1>1, <1>2, <1>3, <1>4, SizedValues
<1>9. SharedInv'
  BY <1>1 DEF SharedInv
<1>10. ClassesInv'
  <2> SUFFICES ASSUME ashNpart = 0 PROVE ClassesInv'
    BY <1>1 DEF ClassesInv
  \* The class, where it starts and where it ends.
  <2>1. PICK k \in 1 .. Len(percent), f \in Int, l \in Int :
          k = class /\ f = first /\ l = next'
    BY <1>3, <1>4
  <2>2. /\ f \in 0 .. ashN - 1 /\ ~wild /\ f * Whole <= SharesTo[k - 1] * ashN
        /\ k = 1 => f = 0 /\ \A i \in 0 .. ashN - 1 : particle[i].class = 0
        /\ k > 1 =>
             /\ next = f
             /\ \A i \in 0 .. ashN - 1 :
                  IF i <= f THEN particle[i].size = "class" /\ particle[i].class \in 1 .. k - 1
                  ELSE particle[i].class = 0
             /\ \E lo \in 0 .. f : Members(k - 1) = lo .. f /\ Fair(lo, f, k - 1)
             /\ \A c \in 1 .. k - 2 : Settled(c, f)
    BY <1>1, <2>1 DEF MakeInv, ClassesInv
  <2>3. /\ Whole \in Nat \ {0} /\ percent[k] \in Nat /\ SharesTo[k - 1] \in Nat
        /\ SharesTo[k] = SharesTo[k - 1] + percent[k] /\ SharesTo[k] <= Whole
        /\ Len(percent) \in Nat /\ k \in Nat \ {0}
    <3>1. Len(percent) \in Nat
      BY <1>3, WholeRight
    <3>2. k - 1 \in 0 .. Len(percent) /\ k \in 0 .. Len(percent) /\ k \in Nat \ {0}
      BY <2>1, <3>1
    <3> QED
      BY <1>3, <3>1, <3>2, WholeRight
  <2>4. totalSize = ashN /\ ashN \in Nat \ {0}
    BY <1>3, Given DEF totalSize
  <2>5. /\ l \in f .. ashN - 1
        /\ (l - f) * Whole <= percent[k] * ashN
        /\ (l - f) * Whole >= percent[k] * ashN - Whole
        /\ l * Whole <= SharesTo[k] * ashN
    <3>1. PICK q \in Nat, rest \in 0 .. Whole - 1 :
            /\ percent[k] * ashN = Whole * q + rest
            /\ n = f + q \/ (percent[k] * ashN > 0 /\ rest = 0 /\ n = f + q - 1)
      BY <1>1, <2>1, <2>4, ReachedValues
    <3>2. l = IF n >= ashN THEN ashN - 1 ELSE n
      BY <1>2, <2>1, <2>4 DEF Limit
    <3> DEFINE W == Whole
               M == ashN
               P == SharesTo[k - 1]
               p == percent[k]
    <3>3. Situation(W, M, P, p, f, q, rest, n, l)
      BY <2>2, <2>3, <2>4, <3>1, <3>2 DEF Situation
    <3>4. /\ l \in f .. M - 1
          /\ (l - f) * W <= p * M /\ (l - f) * W >= p * M - W
          /\ l * W <= (P + p) * M
      <4> HIDE DEF W, M, P, p
      <4> QED
        BY <3>3, Interval
    <3> QED
      BY <2>3, <3>4
  <2>6. SharesTo' = SharesTo
    BY <1>1 DEF SharesTo
  <2>7. Whole' = Whole
    BY <1>1, <2>6 DEF Whole
  <2>8. \A lo, hi, c : Fair(lo, hi, c)' <=> Fair(lo, hi, c)
    BY <1>1, <2>7 DEF Fair
  <2>9. Fair(f, l, k) /\ l \in 0 .. ashN - 1
    BY <2>2, <2>5 DEF Fair
  <2>10. thisSize' = k /\ ~wild'
    <3>1. f <= l /\ ~(f < 0)
      BY <2>2, <2>4, <2>5
    <3>2. thisSize' = k
      BY <1>2, <2>1, <3>1
    <3>3. ~Outside(first, next')
      BY <2>1, <3>1 DEF Outside
    <3> QED
      BY <1>2, <2>2, <3>2, <3>3
  <2>11. DOMAIN particle' = 0 .. ashN - 1
    BY <1>2, <1>3, <1>4, SizedTypes
  <2>12. \A i \in 0 .. ashN - 1 :
           IF f <= i /\ i <= l
           THEN particle'[i].size = "class" /\ particle'[i].class = k
           ELSE particle'[i] = particle[i]
    <3>1. particle' = Sized(f, l, k) /\ f \in Int /\ l \in Int /\ k \in Nat
      BY <1>2, <2>1, <2>3
    <3> QED
      BY <3>1, SizedParticle
  <2>13. ASSUME NEW i \in 0 .. ashN - 1
         PROVE  IF i <= l THEN particle'[i].size = "class" /\ particle'[i].class \in 1 .. k
                ELSE particle'[i].class = 0
    <3>1. CASE k = 1
      BY <2>2, <2>3, <2>5, <2>12, <3>1
    <3>2. CASE k > 1
      <4>1. IF i <= f THEN particle[i].size = "class" /\ particle[i].class \in 1 .. k - 1
            ELSE particle[i].class = 0
        BY <2>2, <3>2
      <4>2. f <= l /\ f \in Int /\ l \in Int /\ i \in Int /\ k \in Nat
        BY <2>3, <2>4, <2>5
      <4> QED
        BY <2>12, <3>2, <4>1, <4>2
    <3> QED
      BY <2>3, <3>1, <3>2
  <2>14. \A c : Members(c)' = {i \in 0 .. ashN - 1 : particle'[i].class = c}
    BY <2>11 DEF Members
  <2>15. Members(k)' = f .. l
    <3>1. \A i \in 0 .. ashN - 1 : particle'[i].class = k <=> f <= i /\ i <= l
      <4>1. CASE k = 1
        BY <2>2, <2>12, <4>1
      <4>2. CASE k > 1
        <5>1. \A i \in 0 .. ashN - 1 : particle[i].class # k
          BY <2>2, <2>3, <4>2
        <5> QED
          BY <2>12, <5>1
      <4> QED
        BY <2>3, <4>1, <4>2
    <3>2. Members(k)' = {i \in 0 .. ashN - 1 : f <= i /\ i <= l}
      BY <2>14, <3>1
    <3>3. f \in Nat /\ l \in Int /\ l <= ashN - 1 /\ ashN \in Nat
      BY <2>2, <2>4, <2>5
    <3>4. {i \in 0 .. ashN - 1 : f <= i /\ i <= l} = f .. l
      BY <3>3, IntervalPart
    <3> QED
      BY <3>2, <3>4
  <2>ends. f <= l /\ f \in 0 .. ashN - 1 /\ l \in 0 .. ashN - 1 /\ ashN \in Nat /\ k \in Nat
    BY <2>2, <2>3, <2>4, <2>5, <2>9
  <2>16. ASSUME NEW c \in 1 .. k - 1
         PROVE  Settled(c, l)'
    <3>1. k > 1
      BY <2>3, <2>16
    <3>2. \E lo \in 0 .. f, hi \in 0 .. f :
             /\ lo <= hi /\ Fair(lo, hi, c)
             /\ \A i \in 0 .. ashN - 1 : particle[i].class = c /\ i < f <=> lo <= i /\ i < hi
      <4>1. CASE c = k - 1
        <5>1. PICK lo \in 0 .. f : Members(k - 1) = lo .. f /\ Fair(lo, f, k - 1)
          BY <2>2, <3>1
        <5>2. \A i \in 0 .. ashN - 1 : particle[i].class = c <=> lo <= i /\ i <= f
          BY <2>2, <4>1, <5>1, Given DEF Members
        <5>3. f \in 0 .. f
          BY <2>2
        <5>4. \A i \in 0 .. ashN - 1 : particle[i].class = c /\ i < f <=> lo <= i /\ i < f
          BY <2>2, <5>2
        <5> QED
          BY <4>1, <5>1, <5>3, <5>4
      <4>2. CASE c # k - 1
        <5>1. c \in 1 .. k - 2
          BY <2>3, <2>16, <4>2
        <5>2. Settled(c, f)
          BY <2>2, <3>1, <5>1
        <5>3. PICK lo \in 0 .. f, hi \in 0 .. f :
                lo <= hi /\ Members(c) = lo .. hi - 1 /\ Fair(lo, hi, c)
          BY <5>2 DEF Settled
        <5>4. \A i \in 0 .. ashN - 1 : particle[i].class = c <=> lo <= i /\ i <= hi - 1
          BY <5>3, Given DEF Members
        <5>5. \A i \in 0 .. ashN - 1 : particle[i].class = c /\ i < f <=> lo <= i /\ i < hi
          BY <2>2, <5>3, <5>4
        <5> QED
          BY <5>3, <5>5
      <4> QED
        BY <4>1, <4>2
    <3>3. PICK lo \in 0 .. f, hi \in 0 .. f :
             /\ lo <= hi /\ Fair(lo, hi, c)
             /\ \A i \in 0 .. ashN - 1 : particle[i].class = c /\ i < f <=> lo <= i /\ i < hi
      BY <3>2
    <3>4. \A i \in 0 .. ashN - 1 : i > f => particle[i].class # c
      BY <2>2, <2>16, <3>1
    <3>5. \A i \in 0 .. ashN - 1 : particle'[i].class = c <=> particle[i].class = c /\ i < f
      <4>1. ASSUME NEW i \in 0 .. ashN - 1, f <= i, i <= l
            PROVE  particle'[i].class # c /\ ~(i < f)
        BY <2>12, <2>16, <2>ends, <4>1
      <4>2. ASSUME NEW i \in 0 .. ashN - 1, ~(f <= i /\ i <= l)
            PROVE  particle'[i].class = c <=> particle[i].class = c /\ i < f
        BY <2>12, <2>ends, <3>4, <4>2
      <4> QED
        BY <4>1, <4>2
    <3>6. Members(c)' = {i \in 0 .. ashN - 1 : lo <= i /\ i <= hi - 1}
      <4>1. \A i \in 0 .. ashN - 1 : particle'[i].class = c <=> lo <= i /\ i <= hi - 1
        BY <2>ends, <3>3, <3>5
      <4> QED
        BY <2>14, <4>1
    <3>7. Members(c)' = lo .. hi - 1
      <4>1. lo \in Nat /\ hi - 1 \in Int /\ hi - 1 <= ashN - 1
        BY <2>ends, <3>3
      <4> QED
        BY <2>ends, <3>6, <4>1, IntervalPart
    <3>8. Fair(lo, hi, c)'
      BY <2>8, <3>3
    <3>9. lo \in 0 .. l /\ hi \in 0 .. l /\ lo <= hi
      BY <2>2, <2>5, <3>3
    <3> QED
      BY <3>7, <3>8, <3>9 DEF Settled
  <2>17. \E lo \in 0 .. l : /\ Members(k)' = lo .. l /\ Fair(lo, l, k)'
                            /\ lo * Whole' <= SharesTo'[k - 1] * ashN'
    <3>1. f \in 0 .. l
      BY <2>2, <2>5
    <3>2. Fair(f, l, k)'
      BY <2>8, <2>9
    <3> QED
      BY <1>1, <2>2, <2>6, <2>7, <2>15, <3>1, <3>2
  <2>18. /\ class' = k + 1 /\ next' = l /\ first' = l /\ class' - 1 = k /\ class' - 2 = k - 1
         /\ class' \in 1 .. Len(percent) + 1 /\ class' > 1
    BY <1>1, <1>2, <2>1, <2>3
  <2>19. /\ first' \in 0 .. ashN' - 1 /\ ~wild' /\ thisSize' = class' - 1
         /\ first' * Whole' <= SharesTo'[class' - 1] * ashN'
         /\ \A i \in 0 .. ashN' - 1 :
              IF i <= next'
              THEN particle'[i].size = "class" /\ particle'[i].class \in 1 .. class' - 1
              ELSE particle'[i].class = 0
    BY <1>1, <2>5, <2>6, <2>7, <2>9, <2>10, <2>13, <2>18
  <2>20. (\E lo \in 0 .. next :
             /\ Members(class - 1) = lo .. next /\ Fair(lo, next, class - 1)
             /\ lo * Whole <= SharesTo[class - 2] * ashN)'
    BY <2>17, <2>18 DEF Members, Fair
  <2>21. (\A c \in 1 .. class - 2 : Settled(c, next))'
    BY <2>16, <2>18 DEF Settled, Members, Fair
  <2> QED
    BY <1>1, <2>18, <2>19, <2>20, <2>21 DEF ClassesInv
<1> QED
  BY <1>5, <1>6, <1>7, <1>8, <1>9, <1>10 DEF MakeInv

LEMMA SizeRestMakes ==
  ASSUME MakeInv, SizeRest
  PROVE  MakeInv'
<1>1. /\ step = "class" /\ class > Len(percent) /\ step' = "age"
      /\ class' = class /\ first' = first /\ next' = next /\ thisSize' = thisSize
      /\ percent' = percent /\ ashN' = ashN /\ ashNpart' = ashNpart
      /\ restart' = restart /\ volcano' = volcano /\ nAsh' = nAsh /\ UNCHANGED cloudVars
      /\ particle' = Sized(next, totalSize - 1, thisSize)
      /\ wild' = (wild \/ Outside(next, totalSize - 1))
  BY DEF SizeRest, options
<1>2. /\ percent \in SizeShares /\ percent # <<>>
      /\ first \in Int /\ next \in Int /\ thisSize \in Nat /\ wild \in BOOLEAN /\ ashN > 0
      /\ class \in Nat
      /\ ~volcano => ashNpart = ashN
      /\ restart = "none" => ashNpart = 0
  BY <1>1 DEF MakeInv, MakeTypes, RestartInv
<1>3. totalSize - 1 \in Int
  BY Given DEF totalSize
<1>4. CloudTypes' /\ CloudInv'
  BY <1>1, CloudKept DEF MakeInv, MakeTypes
<1>5. MakeTypes'
  <2>1. particle' \in [0 .. ashN' - 1 -> ParticleType]
    BY <1>1, <1>2, <1>3, SizedTypes
  <2>2. /\ first' \in Int /\ next' \in Int /\ class' \in Nat /\ thisSize' \in Nat
        /\ wild' \in BOOLEAN
    BY <1>1, <1>2
  <2>3. restart \in {"none", "ash", "cloud"} /\ volcano \in BOOLEAN /\ nAsh \in Nat \ {0}
    BY DEF MakeInv, MakeTypes
  <2> QED
    BY <1>1, <1>2, <1>4, <2>1, <2>2, <2>3, Given DEF MakeTypes
<1>6. RestartInv'
  BY <1>1, <1>2 DEF RestartInv
<1>7. ValuesInv'
  BY <1>1, <1>2, <1>3, SizedValues
<1>8. ClassesInv'
  BY <1>1 DEF ClassesInv
<1>9. SharedInv'
  <2> SUFFICES ASSUME ashNpart = 0 PROVE SharedInv'
    BY <1>1 DEF SharedInv
  \* The number of classes, and the place where the last one ends.
  <2>1. PICK k \in Nat \ {0}, f \in Int : k = Len(percent) /\ f = next
    BY <1>2, WholeRight
  <2>2. /\ class = k + 1 /\ thisSize = k /\ ~wild /\ f \in 0 .. ashN - 1
        /\ \A i \in 0 .. ashN - 1 :
             IF i <= f THEN particle[i].size = "class" /\ particle[i].class \in 1 .. k
             ELSE particle[i].class = 0
        /\ \E lo \in 0 .. f : /\ Members(k) = lo .. f
                              /\ lo * Whole <= SharesTo[k - 1] * ashN
        /\ \A c \in 1 .. k - 1 : Settled(c, f)
    <3>1. ClassesInv
      BY DEF MakeInv
    <3>2. class = k + 1 /\ class > 1 /\ class - 1 = k /\ class - 2 = k - 1
      BY <1>1, <1>2, <2>1, <3>1 DEF ClassesInv
    <3> QED
      BY <1>1, <2>1, <3>1, <3>2 DEF ClassesInv
  <2>3. totalSize = ashN /\ ashN \in Nat \ {0}
    BY <1>2, Given DEF totalSize
  <2>4. SharesTo' = SharesTo
    BY <1>1 DEF SharesTo
  <2>5. Whole' = Whole
    BY <1>1, <2>4 DEF Whole
  <2>6. \A lo, hi, c : Fair(lo, hi, c)' <=> Fair(lo, hi, c)
    BY <1>1, <2>5 DEF Fair
  <2>7. ~wild'
    <3>1. ~(f < 0)
      BY <2>2, <2>3
    <3>2. ~Outside(next, totalSize - 1)
      BY <2>1, <3>1 DEF Outside
    <3> QED
      BY <1>1, <2>2, <3>2
  <2>8. DOMAIN particle' = 0 .. ashN - 1
    BY <1>1, <1>2, <1>3, SizedTypes
  <2>9. \A i \in 0 .. ashN - 1 :
          IF f <= i
          THEN particle'[i].size = "class" /\ particle'[i].class = k
          ELSE particle'[i] = particle[i]
    <3>1. particle' = Sized(f, ashN - 1, k) /\ f \in Int /\ ashN - 1 \in Int /\ k \in Nat
      BY <1>1, <2>1, <2>2, <2>3
    <3>2. \A i \in 0 .. ashN - 1 : i <= ashN - 1
      BY <2>3
    <3> QED
      BY <3>1, <3>2, SizedParticle
  <2>10. \A i \in 0 .. ashN - 1 : particle'[i].size = "class"
    BY <2>2, <2>9
  <2>11. \A c : Members(c)' = {i \in 0 .. ashN - 1 : particle'[i].class = c}
    BY <2>8 DEF Members
  <2>12. \E lo \in 0 .. ashN - 1 : /\ Members(k)' = lo .. ashN - 1
                                   /\ lo * Whole <= SharesTo[k - 1] * ashN
    <3>1. PICK lo \in 0 .. f : Members(k) = lo .. f /\ lo * Whole <= SharesTo[k - 1] * ashN
      BY <2>2
    <3>2. \A i \in 0 .. ashN - 1 : particle[i].class = k <=> lo <= i /\ i <= f
      BY <2>2, <3>1, Given DEF Members
    <3>3. \A i \in 0 .. ashN - 1 : particle'[i].class = k <=> lo <= i /\ i <= ashN - 1
      BY <2>2, <2>3, <2>9, <3>1, <3>2
    <3>4. Members(k)' = {i \in 0 .. ashN - 1 : lo <= i /\ i <= ashN - 1}
      BY <2>11, <3>3
    <3>5. lo \in 0 .. ashN - 1 /\ lo \in Nat /\ ashN - 1 \in Int /\ ashN - 1 <= ashN - 1
      BY <2>2, <2>3, <3>1
    <3>6. Members(k)' = lo .. ashN - 1
      BY <2>3, <3>4, <3>5, IntervalPart
    <3> QED
      BY <3>1, <3>5, <3>6
  <2>13. ASSUME NEW c \in 1 .. k - 1
         PROVE  Settled(c, ashN - 1)'
    <3>1. PICK lo \in 0 .. f, hi \in 0 .. f :
            lo <= hi /\ Members(c) = lo .. hi - 1 /\ Fair(lo, hi, c)
      BY <2>2, <2>13 DEF Settled
    <3>2. \A i \in 0 .. ashN - 1 : particle[i].class = c <=> lo <= i /\ i <= hi - 1
      BY <3>1, Given DEF Members
    <3>3. ASSUME NEW i \in 0 .. ashN - 1
          PROVE  particle'[i].class = c <=> lo <= i /\ i <= hi - 1
      <4>1. CASE f <= i
        BY <2>2, <2>3, <2>9, <2>13, <3>1, <4>1
      <4>2. CASE ~(f <= i)
        BY <2>9, <3>2, <4>2
      <4> QED
        BY <4>1, <4>2
    <3>4. Members(c)' = {i \in 0 .. ashN - 1 : lo <= i /\ i <= hi - 1}
      BY <2>11, <3>3
    <3>5. lo \in Nat /\ hi - 1 \in Int /\ hi - 1 <= ashN - 1
      BY <2>2, <2>3, <3>1
    <3>6. Members(c)' = lo .. hi - 1
      BY <2>3, <3>4, <3>5, IntervalPart
    <3>7. Fair(lo, hi, c)'
      BY <2>6, <3>1
    <3>8. lo \in 0 .. ashN' - 1 /\ hi \in 0 .. ashN' - 1
      BY <1>1, <2>2, <2>3, <3>1
    <3> QED
      BY <1>1, <3>1, <3>6, <3>7, <3>8 DEF Settled
  <2>14. (\E lo \in 0 .. ashN - 1 : /\ Members(Len(percent)) = lo .. ashN - 1
                                    /\ lo * Whole <= SharesTo[Len(percent) - 1] * ashN)'
    BY <1>1, <2>1, <2>4, <2>5, <2>12 DEF Members
  <2>15. (\A c \in 1 .. Len(percent) - 1 : Settled(c, ashN - 1))'
    BY <1>1, <2>1, <2>13 DEF Settled, Members, Fair
  <2> QED
    BY <1>1, <2>7, <2>10, <2>14, <2>15 DEF SharedInv
<1> QED
  BY <1>4, <1>5, <1>6, <1>7, <1>8, <1>9 DEF MakeInv

-----------------------------------------------------------------------------
(* The specification.                                                      *)

LEMMA MakeStarts == ASSUME MakeInit PROVE MakeInv
<1>1. CloudTypes /\ CloudInv /\ cloud = "none"
  <2>1. <<>> \in Seq(Int \X Int) /\ IsList(<<>>)
    BY DEF IsList
  <2> QED
    BY <2>1 DEF MakeInit, CloudInit, CloudTypes, CloudInv
<1>2. /\ step = "restart" /\ restart \in {"none", "ash", "cloud"} /\ volcano \in BOOLEAN
      /\ nAsh \in Nat \ {0} /\ percent = <<>> /\ ashN = 0 /\ ashNpart = 0
      /\ first = 0 /\ next = 0 /\ class = 0 /\ thisSize = 0 /\ wild = FALSE
  BY AshAssumption DEF MakeInit
<1>3. particle = [i \in 0 .. -1 |-> Raw]
  BY DEF MakeInit, Array
<1>4. particle \in [0 .. ashN - 1 -> ParticleType]
  BY <1>2, <1>3
<1>5. MakeTypes
  <2>1. /\ ashN \in Nat /\ ashNpart \in 0 .. ashN /\ first \in Int /\ next \in Int
        /\ class \in Nat /\ thisSize \in Nat
    BY <1>2
  <2>2. wild \in BOOLEAN
    BY <1>2
  <2> QED
    BY <1>1, <1>2, <1>4, <2>1, <2>2 DEF MakeTypes
<1>6. RestartInv
  BY <1>1, <1>2 DEF RestartInv
<1>7. ValuesInv /\ ClassesInv /\ SharedInv
  BY <1>2 DEF ValuesInv, ClassesInv, SharedInv
<1> QED
  BY <1>1, <1>5, <1>6, <1>7 DEF MakeInv

LEMMA MakeStutters == ASSUME MakeInv, UNCHANGED allVars PROVE MakeInv'
<1>1. UNCHANGED cloudVars /\ UNCHANGED makeVars
  BY DEF allVars
<1>2. CloudTypes' /\ CloudInv'
  BY <1>1, CloudKept DEF MakeInv, MakeTypes
<1>3. MakeTypes'
  BY <1>1, <1>2 DEF makeVars, MakeTypes, MakeInv
<1>4. RestartInv'
  BY <1>1 DEF makeVars, cloudVars, RestartInv, MakeInv
<1>5. ValuesInv'
  BY <1>1 DEF makeVars, ValuesInv, Old, Young, MakeInv
<1>6. ClassesInv' /\ SharedInv'
  BY <1>1, ClassesKept DEF MakeInv
<1> QED
  BY <1>2, <1>3, <1>4, <1>5, <1>6 DEF MakeInv

LEMMA MakeKeeps == ASSUME MakeInv, [MakeNext]_allVars PROVE MakeInv'
<1>1. CASE UNCHANGED allVars
  BY <1>1, MakeStutters
<1>2. CASE MakeNext
  BY <1>2, ReadAshMakes, ReadCloudMakes, FillingMakes, LoadCloudMakes, CloudFailsMakes,
     NoRestartMakes, SiteMakes, ColumnMakes, SpreadMakes, NormalSizesMakes,
     SizeClassMakes, SizeRestMakes, AgeMakes DEF MakeNext
<1> QED
  BY <1>1, <1>2

LEMMA MakeHolds == MakeSpec => []MakeInv
<1>1. MakeInit => MakeInv
  BY MakeStarts
<1>2. MakeInv /\ [MakeNext]_allVars => MakeInv'
  BY MakeKeeps
<1> QED
  BY <1>1, <1>2, PTL DEF MakeSpec

-----------------------------------------------------------------------------
(* The sizes beside a file.  While the classes are given, the first places *)
(* of the new particles below totalSize have theirs; if there are fewer of *)
(* them than the file has particles, all happens at totalSize - 1.         *)

OwnSize(p) == p.size = IF restart = "ash" THEN "file" ELSE "cloud"

\* Where the loops over the classes stand.
Places ==
  /\ class = 1 => first = ashNpart
  /\ class > 1 => next = first
  /\ ashNpart < totalSize =>
       /\ first \in ashNpart .. totalSize - 1
       /\ class > 1 => \A i \in ashNpart .. first : particle[i].size = "class"
  /\ ashNpart >= totalSize /\ class > 1 => first = totalSize - 1

SizesInv ==
  step \in {"class", "age", "ready"} /\ percent # <<>> =>
    /\ \A i \in 0 .. ashN - 1 : i < ashNpart /\ i # totalSize - 1 => OwnSize(particle[i])
    /\ wild => totalSize = 0
    /\ step = "class" => Places
    /\ step # "class" => \A i \in ashNpart .. totalSize - 1 : particle[i].size = "class"

LEMMA Totals ==
  ASSUME MakeInv
  PROVE  /\ totalSize \in Nat /\ ashN \in Nat /\ ashNpart \in 0 .. ashN /\ totalSize <= ashN
         /\ totalSize = ashN - ashNpart
BY Given DEF totalSize

LEMMA SpreadSizes ==
  ASSUME MakeInv, Spread
  PROVE  SizesInv'
<1>1. /\ step = "spread" /\ restart' = restart /\ ashN' = ashN /\ ashNpart' = ashNpart
      /\ first' = ashNpart /\ class' = 1 /\ wild' = wild /\ ~wild /\ percent = <<>>
      /\ step' = IF percent' = <<>> THEN "normal" ELSE "class"
      /\ particle' \in {particle, Give(Around1)} /\ totalSize' = totalSize
  BY DEF Spread, options, MakeInv, RestartInv, totalSize
<1>2. ASSUME NEW i \in 0 .. ashN - 1, i < ashNpart
      PROVE  OwnSize(particle[i])'
  <2>1. Old(particle[i])
    BY <1>1, <1>2 DEF MakeInv, ValuesInv
  <2>2. particle'[i] = particle[i]
    BY <1>1, <1>2, Given DEF Give
  <2> QED
    BY <1>1, <2>1, <2>2 DEF Old, OwnSize
<1>3. Places'
  <2>1. ashNpart < totalSize => ashNpart \in ashNpart .. totalSize - 1
    BY Totals
  <2> QED
    BY <1>1, <2>1 DEF Places
<1> QED
  BY <1>1, <1>2, <1>3 DEF SizesInv

\* Where a class ends: at its start or after it, or at the last place.
LEMMA EndOfClass ==
  ASSUME MakeInv, step = "class", class <= Len(percent), NEW n \in Reached
  PROVE  /\ first \in Int /\ n \in Int /\ first <= n
         /\ Limit(n) \in Int /\ Limit(n) <= totalSize - 1
         /\ first <= totalSize - 1 => first <= Limit(n)
         /\ first >= totalSize - 1 => Limit(n) = totalSize - 1
<1>1. n \in Int /\ first \in Int
  BY ReachedValues DEF MakeInv, MakeTypes
<1>2. PICK q \in Nat, rest \in 0 .. Whole - 1 :
        /\ percent[class] * totalSize = Whole * q + rest
        /\ \/ n = first + q
           \/ percent[class] * totalSize > 0 /\ rest = 0 /\ n = first + q - 1
  BY ReachedValues
<1>3. first <= n
  <2>1. CASE n = first + q
    BY <1>1, <2>1
  <2>2. CASE percent[class] * totalSize > 0 /\ rest = 0 /\ n = first + q - 1
    <3>1. Whole \in Nat
      BY WholeRight DEF MakeInv, MakeTypes, RestartInv
    <3>2. q # 0
      <4>1. q = 0 => Whole * q + rest = 0
        BY <2>2, <3>1
      <4> QED
        BY <1>2, <2>2, <4>1
    <3> QED
      BY <1>1, <2>2, <3>2
  <2> QED
    BY <1>2, <2>1, <2>2
<1> QED
  BY <1>1, <1>3, Totals DEF Limit

LEMMA SizeClassSizes ==
  ASSUME MakeInv, SizesInv, SizeClass
  PROVE  SizesInv'
<1>1. /\ step = "class" /\ class <= Len(percent) /\ class' = class + 1 /\ class \in Nat \ {0}
      /\ percent' = percent /\ percent # <<>> /\ step' = step /\ ashN' = ashN
      /\ ashNpart' = ashNpart /\ restart' = restart /\ totalSize' = totalSize
  BY DEF SizeClass, options, MakeInv, RestartInv, MakeTypes, totalSize
<1>2. PICK n \in Reached :
        /\ next' = Limit(n) /\ first' = next'
        /\ particle' = Sized(first, next', class)
        /\ wild' = (wild \/ Outside(first, next'))
  BY DEF SizeClass
<1>3. /\ first \in Int /\ next' \in Int /\ next' <= totalSize - 1
      /\ first <= totalSize - 1 => first <= next'
      /\ first >= totalSize - 1 => next' = totalSize - 1
  BY <1>1, <1>2, EndOfClass
<1>4. /\ \A i \in 0 .. ashN - 1 : i < ashNpart /\ i # totalSize - 1 => OwnSize(particle[i])
      /\ wild => totalSize = 0
      /\ Places
  BY <1>1 DEF SizesInv
<1>5. \A i \in 0 .. ashN - 1 :
        IF first <= i /\ i <= next' THEN particle'[i].size = "class"
        ELSE particle'[i] = particle[i]
  BY <1>1, <1>2, <1>3, SizedParticle
<1>6. /\ totalSize \in Nat /\ ashN \in Nat /\ ashNpart \in Nat /\ totalSize <= ashN
  BY Totals
<1>7. CASE ashNpart < totalSize
  <2>1. first \in ashNpart .. totalSize - 1 /\ next' \in first .. totalSize - 1
    BY <1>3, <1>4, <1>6, <1>7 DEF Places
  <2>2. ASSUME NEW i \in 0 .. ashN - 1, i < ashNpart
        PROVE  particle'[i] = particle[i]
    BY <1>5, <1>6, <2>1, <2>2
  <2>3. ASSUME NEW i \in ashNpart .. next'
        PROVE  particle'[i].size = "class"
    <3>1. i \in 0 .. ashN - 1 /\ i <= next'
      BY <1>6, <2>1, <2>3
    <3>2. CASE first <= i
      BY <1>5, <3>1, <3>2
    <3>3. CASE ~(first <= i)
      <4>1. class > 1 /\ i \in ashNpart .. first
        BY <1>1, <1>4, <1>6, <2>1, <2>3, <3>3 DEF Places
      <4>2. particle[i].size = "class"
        BY <1>4, <1>7, <4>1 DEF Places
      <4> QED
        BY <1>5, <3>1, <3>3, <4>2
    <3> QED
      BY <3>2, <3>3
  <2>4. ~Outside(first, next')
    BY <1>6, <2>1 DEF Outside
  <2>5. Places'
    <3>1. class' # 1 /\ next' \in ashNpart .. totalSize - 1 /\ ~(ashNpart >= totalSize)
      BY <1>1, <1>6, <1>7, <2>1
    <3> QED
      BY <1>1, <1>2, <2>3, <3>1 DEF Places
  <2>6. \A i \in 0 .. ashN - 1 : i < ashNpart /\ i # totalSize - 1 => OwnSize(particle[i])'
    BY <1>1, <1>4, <2>2 DEF OwnSize
  <2> QED
    BY <1>1, <1>2, <1>4, <2>4, <2>5, <2>6 DEF SizesInv
<1>8. CASE ~(ashNpart < totalSize)
  <2>1. first >= totalSize - 1 /\ next' = totalSize - 1
    <3>1. first = ashNpart \/ first = totalSize - 1
      BY <1>1, <1>4, <1>6, <1>8 DEF Places
    <3>2. first >= totalSize - 1
      BY <1>6, <1>8, <3>1
    <3> QED
      BY <1>3, <3>2
  <2>2. ASSUME NEW i \in 0 .. ashN - 1, i # totalSize - 1
        PROVE  particle'[i] = particle[i]
    BY <1>3, <1>5, <1>6, <2>1, <2>2
  <2>3. Outside(first, next') => totalSize = 0
    BY <1>3, <1>6, <2>1 DEF Outside
  <2>4. Places'
    <3>1. class' # 1
      BY <1>1
    <3> QED
      BY <1>1, <1>2, <1>8, <2>1, <3>1 DEF Places
  <2>5. \A i \in 0 .. ashN - 1 : i < ashNpart /\ i # totalSize - 1 => OwnSize(particle[i])'
    BY <1>1, <1>4, <2>2 DEF OwnSize
  <2> QED
    BY <1>1, <1>2, <1>4, <2>3, <2>4, <2>5 DEF SizesInv
<1> QED
  BY <1>7, <1>8

LEMMA SizeRestSizes ==
  ASSUME MakeInv, SizesInv, SizeRest
  PROVE  SizesInv'
<1>1. /\ step = "class" /\ class > Len(percent) /\ step' = "age" /\ class \in Nat
      /\ percent' = percent /\ percent # <<>> /\ percent \in SizeShares /\ ashN' = ashN
      /\ ashNpart' = ashNpart /\ restart' = restart /\ totalSize' = totalSize
      /\ particle' = Sized(next, totalSize - 1, thisSize) /\ next \in Int /\ thisSize \in Nat
      /\ wild' = (wild \/ Outside(next, totalSize - 1))
  BY DEF SizeRest, options, MakeInv, RestartInv, MakeTypes, totalSize
<1>2. class > 1
  BY <1>1, WholeRight
<1>3. /\ \A i \in 0 .. ashN - 1 : i < ashNpart /\ i # totalSize - 1 => OwnSize(particle[i])
      /\ wild => totalSize = 0
      /\ next = first /\ Places
  BY <1>1, <1>2 DEF SizesInv, Places
<1>4. /\ totalSize \in Nat /\ ashN \in Nat /\ ashNpart \in Nat /\ totalSize <= ashN
  BY Totals
<1>5. \A i \in 0 .. ashN - 1 :
        IF next <= i /\ i <= totalSize - 1 THEN particle'[i].size = "class"
        ELSE particle'[i] = particle[i]
  BY <1>1, <1>4, SizedParticle
<1>6. CASE ashNpart < totalSize
  <2>1. next \in ashNpart .. totalSize - 1
    BY <1>3, <1>6 DEF Places
  <2>2. ASSUME NEW i \in 0 .. ashN - 1, i < ashNpart
        PROVE  particle'[i] = particle[i]
    BY <1>4, <1>5, <2>1, <2>2
  <2>3. ASSUME NEW i \in ashNpart .. totalSize - 1
        PROVE  particle'[i].size = "class"
    <3>1. i \in 0 .. ashN - 1 /\ i <= totalSize - 1
      BY <1>4, <2>3
    <3>2. CASE next <= i
      BY <1>5, <3>1, <3>2
    <3>3. CASE ~(next <= i)
      <4>1. i \in ashNpart .. first
        BY <1>3, <1>4, <2>1, <2>3, <3>3
      <4>2. particle[i].size = "class"
        BY <1>2, <1>3, <1>6, <4>1 DEF Places
      <4> QED
        BY <1>5, <3>1, <3>3, <4>2
    <3> QED
      BY <3>2, <3>3
  <2>4. ~Outside(next, totalSize - 1)
    BY <1>4, <2>1 DEF Outside
  <2>5. \A i \in 0 .. ashN - 1 : i < ashNpart /\ i # totalSize - 1 => OwnSize(particle[i])'
    BY <1>1, <1>3, <2>2 DEF OwnSize
  <2> QED
    BY <1>1, <1>3, <2>3, <2>4, <2>5 DEF SizesInv
<1>7. CASE ~(ashNpart < totalSize)
  <2>1. next = totalSize - 1
    BY <1>2, <1>3, <1>4, <1>7 DEF Places
  <2>2. ASSUME NEW i \in 0 .. ashN - 1, i # totalSize - 1
        PROVE  particle'[i] = particle[i]
    BY <1>4, <1>5, <2>1, <2>2
  <2>3. Outside(next, totalSize - 1) => totalSize = 0
    BY <1>4, <2>1 DEF Outside
  <2>4. \A i \in ashNpart .. totalSize - 1 : FALSE
    BY <1>4, <1>7
  <2>5. \A i \in 0 .. ashN - 1 : i < ashNpart /\ i # totalSize - 1 => OwnSize(particle[i])'
    BY <1>1, <1>3, <2>2 DEF OwnSize
  <2> QED
    BY <1>1, <1>3, <2>3, <2>4, <2>5 DEF SizesInv
<1> QED
  BY <1>6, <1>7

LEMMA AgeSizes ==
  ASSUME MakeInv, SizesInv, Age
  PROVE  SizesInv'
<1>1. /\ step = "age" /\ step' = "ready" /\ ashN' = ashN /\ ashNpart' = ashNpart
      /\ restart' = restart /\ percent' = percent /\ wild' = wild /\ totalSize' = totalSize
  BY DEF Age, options, locals, totalSize
<1>2. ASSUME NEW i \in 0 .. ashN - 1
      PROVE  particle'[i].size = particle[i].size
  <2>1. particle[i] \in ParticleType
    BY Given
  <2>2. \/ particle'[i] = particle[i]
        \/ particle'[i] = [particle[i] EXCEPT !.start = IF particle[i].start = "minusOne"
                                                        THEN "eruption" ELSE "drawn"]
    BY Given DEF Age, Give
  <2> QED
    BY <2>1, <2>2 DEF ParticleType
<1>3. \A i \in ashNpart .. totalSize - 1 : i \in 0 .. ashN - 1
  BY Totals
<1> QED
  BY <1>1, <1>2, <1>3 DEF SizesInv, OwnSize

LEMMA SizesKeep == ASSUME MakeInv, SizesInv, [MakeNext]_allVars PROVE SizesInv'
<1>1. CASE UNCHANGED makeVars
  BY <1>1 DEF makeVars, SizesInv, OwnSize, Places, totalSize
<1>2. CASE step' \in {"restart", "site", "column", "spread", "normal", "failed"}
  BY <1>2 DEF SizesInv
<1>3. CASE percent' = <<>>
  BY <1>3 DEF SizesInv
<1>4. UNCHANGED allVars => UNCHANGED makeVars
  BY DEF allVars
<1>5. Filling => UNCHANGED makeVars
  BY DEF Filling
<1>6. ReadAsh \/ ReadCloud \/ LoadCloud \/ CloudFails \/ NoRestart \/ Site \/ Column =>
        step' \in {"restart", "site", "column", "spread", "normal", "failed"}
  BY DEF ReadAsh, ReadCloud, LoadCloud, CloudFails, NoRestart, Site, Column
<1>7. NormalSizes => percent' = <<>>
  BY DEF NormalSizes, locals, MakeInv, RestartInv
<1> QED
  BY <1>1, <1>2, <1>3, <1>4, <1>5, <1>6, <1>7, SpreadSizes, SizeClassSizes, SizeRestSizes,
     AgeSizes DEF MakeNext

LEMMA SizesHold == MakeSpec => []SizesInv
<1>1. MakeInit => SizesInv
  BY DEF MakeInit, SizesInv
<1>2. MakeInv /\ SizesInv /\ [MakeNext]_allVars => SizesInv'
  BY SizesKeep
<1> QED
  BY <1>1, <1>2, MakeHolds, PTL DEF MakeSpec

\* EachItsOwn: when the ash is ready, what the file brought is as the file had
\* it, and every new particle has been given everything by the eruption,
\* whatever is in the file, whatever the shares and however many there are;
\* sizes by -phiDist beside a file apart, where the theorem says which
\* particles get none and which particle of the file may get another one.
THEOREM MakersCorrect == MakeSpec => []EachItsOwn
<1>1. MakeInv /\ SizesInv => EachItsOwn
  <2> SUFFICES ASSUME MakeInv, SizesInv, step = "ready", NEW i \in 0 .. ashN - 1
               PROVE  LET p == particle[i]
                      IN  IF i >= ashNpart
                          THEN /\ p.place \in {"vent", "plume"} /\ p.height = "column"
                               /\ p.start = "drawn"
                               /\ \/ LeftOut(i)
                                  \/ p.size = IF percent = <<>> THEN "normal" ELSE "class"
                          ELSE IF restart = "ash"
                          THEN /\ p.place = "file" /\ p.height = "file" /\ p.start = "file"
                               /\ Changed(i) \/ p.size = "file"
                          ELSE /\ p.place = "cloud" /\ p.height = "cloud"
                               /\ p.start # "drawn"
                               /\ Changed(i) \/ p.size = "cloud"
    BY Given DEF EachItsOwn
  <2>1. IF i < ashNpart THEN Old(particle[i]) ELSE Young(particle[i])
    BY DEF MakeInv, ValuesInv
  <2>2. ashNpart \in Nat /\ i \in Nat /\ totalSize \in Nat
    BY Totals
  <2>3. CASE i < ashNpart
    <3>1. percent # <<>> /\ i # totalSize - 1 => OwnSize(particle[i])
      BY <2>3 DEF SizesInv
    <3> QED
      BY <2>1, <2>2, <2>3, <3>1 DEF Old, OwnSize, Changed
  <2>4. CASE ~(i < ashNpart)
    <3>1. percent # <<>> /\ ~LeftOut(i) => i \in ashNpart .. totalSize - 1
      BY <2>2, <2>4 DEF LeftOut
    <3>2. percent # <<>> /\ ~LeftOut(i) => particle[i].size = "class"
      BY <3>1 DEF SizesInv
    <3> QED
      BY <2>1, <2>2, <2>4, <3>2 DEF Young
  <2> QED
    BY <2>3, <2>4
<1> QED
  BY <1>1, MakeHolds, SizesHold, PTL

LEMMA IntervalSize ==
  ASSUME NEW lo \in Nat, NEW hi \in Nat, lo <= hi
  PROVE  Cardinality(lo .. hi - 1) = hi - lo
<1>1. hi - 1 \in Int
  OBVIOUS
<1>2. Cardinality(lo .. hi - 1) = IF lo > hi - 1 THEN 0 ELSE hi - 1 - lo + 1
  BY <1>1, FS_Interval
<1> QED
  BY <1>2

\* SharesRight: with no file, -phiDist gives every class but the last its
\* share by number, at most one less, and the last one the rest, for any number
\* of particles and any shares that are not all zero; and no place outside the
\* array is written unless there are no new particles, whatever the file.
THEOREM SharesCorrect == MakeSpec => []SharesRight
<1>0. MakeInv /\ SizesInv => (step = "ready" /\ percent # <<>> => (wild => totalSize = 0))
  BY DEF SizesInv
<1>1. MakeInv /\ SizesInv => SharesRight
  <2> SUFFICES ASSUME MakeInv, step = "ready", ashNpart = 0, percent # <<>>
               PROVE  /\ \A c \in 1 .. Len(percent) - 1 :
                           /\ Count(c) * Whole <= percent[c] * totalSize
                           /\ Count(c) * Whole >= percent[c] * totalSize - Whole
                      /\ Count(Len(percent)) * Whole >= percent[Len(percent)] * totalSize
    BY <1>0 DEF SharesRight
  <2>1. /\ \E lo \in 0 .. ashN - 1 : /\ Members(Len(percent)) = lo .. ashN - 1
                                     /\ lo * Whole <= SharesTo[Len(percent) - 1] * ashN
        /\ \A c \in 1 .. Len(percent) - 1 : Settled(c, ashN - 1)
    BY DEF MakeInv, SharedInv
  <2>2. totalSize = ashN /\ ashN \in Nat
    BY Given DEF totalSize
  <2>3. \A c : Count(c) = Cardinality(Members(c))
    BY DEF Count, Members
  <2>4. ASSUME NEW c \in 1 .. Len(percent) - 1
        PROVE  /\ Count(c) * Whole <= percent[c] * totalSize
               /\ Count(c) * Whole >= percent[c] * totalSize - Whole
    <3>1. PICK lo \in 0 .. ashN - 1, hi \in 0 .. ashN - 1 :
            lo <= hi /\ Members(c) = lo .. hi - 1 /\ Fair(lo, hi, c)
      BY <2>1 DEF Settled
    <3>2. Cardinality(lo .. hi - 1) = hi - lo
      <4>1. lo \in Nat /\ hi \in Nat /\ lo <= hi
        BY <2>2, <3>1
      <4> QED
        BY <4>1, IntervalSize
    <3> QED
      BY <2>2, <2>3, <3>1, <3>2 DEF Fair
  <2>5. Count(Len(percent)) * Whole >= percent[Len(percent)] * totalSize
    <3>1. PICK lo \in 0 .. ashN - 1 :
            /\ Members(Len(percent)) = lo .. ashN - 1
            /\ lo * Whole <= SharesTo[Len(percent) - 1] * ashN
      BY <2>1
    <3>2. Cardinality(lo .. ashN - 1) = ashN - lo
      <4>1. lo \in Nat /\ lo <= ashN
        BY <2>2, <3>1
      <4> QED
        BY <2>2, <4>1, IntervalSize
    <3>3. percent \in SizeShares
      BY DEF MakeInv, MakeTypes
    <3> DEFINE k == Len(percent)
               W == Whole
               P == SharesTo[k - 1]
               p == percent[k]
    <3>4. W \in Nat /\ P \in Nat /\ p \in Nat /\ W = P + p
      <4>1. k \in Nat \ {0} /\ W = SharesTo[k]
        BY <3>3, WholeRight
      <4>2. k - 1 \in 0 .. k /\ k \in 1 .. k
        BY <4>1
      <4> QED
        BY <3>3, <4>1, <4>2, WholeRight
    <3>5. (ashN - lo) * W >= p * ashN
      <4>1. lo \in Nat /\ lo * W <= P * ashN
        BY <2>2, <3>1
      <4> HIDE DEF W, P, p
      <4>2. (ashN - lo) * W = ashN * W - lo * W /\ ashN * W = P * ashN + p * ashN
        BY <2>2, <3>4, <4>1
      <4>3. lo * W \in Nat /\ P * ashN \in Nat /\ p * ashN \in Nat
        BY <2>2, <3>4, <4>1
      <4> QED
        BY <4>1, <4>2, <4>3
    <3> QED
      BY <2>2, <2>3, <3>1, <3>2, <3>5
  <2> QED
    BY <2>1, <2>4, <2>5
<1> QED
  BY <1>1, MakeHolds, SizesHold, PTL

-----------------------------------------------------------------------------
(* The outline: two sides meet, by the slopes of build, exactly when each  *)
(* has the ends of the other on both its sides.                            *)

LEMMA LinesMeet ==
  ASSUME NEW a1 \in Int, NEW b1 \in Int, NEW a2 \in Int, NEW b2 \in Int,
         NEW c1 \in Int, NEW d1 \in Int, NEW c2 \in Int, NEW d2 \in Int,
         NEW den, den = (b2 - b1) * (c2 - c1) - (d2 - d1) * (a2 - a1),
         NEW num, num = (d1 * (c2 - c1) - (d2 - d1) * c1) * (a2 - a1)
                          - (b1 * (a2 - a1) - (b2 - b1) * a1) * (c2 - c1)
  PROVE  /\ num - a1 * den = 0 - (a2 - a1) * ((c2 - c1) * (b1 - d1) - (d2 - d1) * (a1 - c1))
         /\ num - a2 * den = 0 - (a2 - a1) * ((c2 - c1) * (b2 - d1) - (d2 - d1) * (a2 - c1))
         /\ num - c1 * den = (c2 - c1) * ((a2 - a1) * (d1 - b1) - (b2 - b1) * (c1 - a1))
         /\ num - c2 * den = (c2 - c1) * ((a2 - a1) * (d2 - b1) - (b2 - b1) * (c2 - a1))
<1>1. num - a1 * den = 0 - (a2 - a1) * ((c2 - c1) * (b1 - d1) - (d2 - d1) * (a1 - c1))
  OBVIOUS
<1>2. num - a2 * den = 0 - (a2 - a1) * ((c2 - c1) * (b2 - d1) - (d2 - d1) * (a2 - c1))
  OBVIOUS
<1>3. num - c1 * den = (c2 - c1) * ((a2 - a1) * (d1 - b1) - (b2 - b1) * (c1 - a1))
  OBVIOUS
<1>4. num - c2 * den = (c2 - c1) * ((a2 - a1) * (d2 - b1) - (b2 - b1) * (c2 - a1))
  OBVIOUS
<1> QED
  BY <1>1, <1>2, <1>3, <1>4

LEMMA SquareSign ==
  ASSUME NEW s \in Int, s # 0, NEW t \in Int, NEW u \in Int
  PROVE  /\ (s * t) * (s * u) < 0 <=> t * u < 0
         /\ (0 - s * t) * (0 - s * u) < 0 <=> t * u < 0
<1> DEFINE square == s * s
           both == t * u
<1>1. square \in Nat /\ square > 0
  <2>1. CASE s > 0
    BY <2>1
  <2>2. CASE s < 0
    BY <2>2
  <2> QED
    BY <2>1, <2>2
<1>2. (s * t) * (s * u) = square * both /\ (0 - s * t) * (0 - s * u) = square * both
      /\ both \in Int
  OBVIOUS
<1> HIDE DEF square, both
<1>3. square * both < 0 <=> both < 0
  <2>1. CASE both < 0
    BY <1>1, <1>2, <2>1
  <2>2. CASE both >= 0
    BY <1>1, <1>2, <2>2
  <2> QED
    BY <1>2, <2>1, <2>2
<1>4. both = t * u
  BY DEF both
<1> QED
  BY <1>2, <1>3, <1>4

LEMMA NextOne ==
  ASSUME NEW n \in Nat \ {0}, NEW k \in 1 .. n
  PROVE  (k % n) + 1 \in 1 .. n
<1>1. k % n \in 0 .. n - 1
  OBVIOUS
<1> QED
  BY <1>1

LEMMA Coordinates ==
  ASSUME NEW v \in Int \X Int
  PROVE  \E a \in Int, b \in Int : v = <<a, b>>
OBVIOUS

LEMMA VertexIs ==
  ASSUME outline \in Seq(Int \X Int), NEW k \in Sides
  PROVE  /\ \E a \in Int, b \in Int : outline[k] = <<a, b>>
         /\ \E a \in Int, b \in Int : outline[Next1(k)] = <<a, b>>
<1>1. PICK n \in Nat : n = Len(outline)
  OBVIOUS
<1>2. k \in 1 .. n /\ n \in Nat \ {0}
  BY <1>1 DEF Sides
<1>3. Next1(k) \in 1 .. n
  <2>1. Next1(k) = (k % n) + 1
    BY <1>1 DEF Next1
  <2> QED
    BY <1>2, <2>1, NextOne
<1>4. \A m \in 1 .. n : outline[m] \in Int \X Int
  BY <1>1
<1> QED
  BY <1>2, <1>3, <1>4, Coordinates

LEMMA MeetsWhereTheyCross ==
  ASSUME outline \in Seq(Int \X Int), NEW i \in Sides, NEW j \in Sides,
         dx(i) # 0, dx(j) # 0
  PROVE  Meet(i, j) <=> CrossEachOther(i, j)
<1>2. PICK a1 \in Int, b1 \in Int : outline[i] = <<a1, b1>>
  BY VertexIs
<1>3. PICK a2 \in Int, b2 \in Int : outline[Next1(i)] = <<a2, b2>>
  BY VertexIs
<1>4. PICK c1 \in Int, d1 \in Int : outline[j] = <<c1, d1>>
  BY VertexIs
<1>5. PICK c2 \in Int, d2 \in Int : outline[Next1(j)] = <<c2, d2>>
  BY VertexIs
<1>6. /\ x1(i) = a1 /\ y1(i) = b1 /\ x2(i) = a2 /\ y2(i) = b2
      /\ x1(j) = c1 /\ y1(j) = d1 /\ x2(j) = c2 /\ y2(j) = d2
      /\ dx(i) = a2 - a1 /\ dy(i) = b2 - b1 /\ dx(j) = c2 - c1 /\ dy(j) = d2 - d1
  BY <1>2, <1>3, <1>4, <1>5 DEF x1, y1, x2, y2, dx, dy
<1>7. PICK den \in Int : den = (b2 - b1) * (c2 - c1) - (d2 - d1) * (a2 - a1)
  OBVIOUS
<1>8. PICK num \in Int : num = (d1 * (c2 - c1) - (d2 - d1) * c1) * (a2 - a1)
                                 - (b1 * (a2 - a1) - (b2 - b1) * a1) * (c2 - c1)
  OBVIOUS
<1>9. PICK t1 \in Int, t2 \in Int, u1 \in Int, u2 \in Int :
        /\ t1 = (c2 - c1) * (b1 - d1) - (d2 - d1) * (a1 - c1)
        /\ t2 = (c2 - c1) * (b2 - d1) - (d2 - d1) * (a2 - c1)
        /\ u1 = (a2 - a1) * (d1 - b1) - (b2 - b1) * (c1 - a1)
        /\ u2 = (a2 - a1) * (d2 - b1) - (b2 - b1) * (c2 - a1)
  OBVIOUS
<1>10. /\ num - a1 * den = 0 - (a2 - a1) * t1 /\ num - a2 * den = 0 - (a2 - a1) * t2
       /\ num - c1 * den = (c2 - c1) * u1 /\ num - c2 * den = (c2 - c1) * u2
  <2>1. /\ num - a1 * den = 0 - (a2 - a1) * ((c2 - c1) * (b1 - d1) - (d2 - d1) * (a1 - c1))
        /\ num - a2 * den = 0 - (a2 - a1) * ((c2 - c1) * (b2 - d1) - (d2 - d1) * (a2 - c1))
        /\ num - c1 * den = (c2 - c1) * ((a2 - a1) * (d1 - b1) - (b2 - b1) * (c1 - a1))
        /\ num - c2 * den = (c2 - c1) * ((a2 - a1) * (d2 - b1) - (b2 - b1) * (c2 - a1))
    BY <1>7, <1>8, LinesMeet
  <2> QED
    BY <1>9, <2>1
<1>11. CrossEachOther(i, j) <=> u1 * u2 < 0 /\ t1 * t2 < 0
  <2>1. /\ Turn(Vertex(i), Vertex(Next1(i)), Vertex(j)) = u1
        /\ Turn(Vertex(i), Vertex(Next1(i)), Vertex(Next1(j))) = u2
        /\ Turn(Vertex(j), Vertex(Next1(j)), Vertex(i)) = t1
        /\ Turn(Vertex(j), Vertex(Next1(j)), Vertex(Next1(i))) = t2
    BY <1>2, <1>3, <1>4, <1>5, <1>9 DEF Turn, Vertex
  <2> QED
    BY <2>1 DEF CrossEachOther
<1>12. Meet(i, j) <=> /\ den # 0 /\ (num - a1 * den) * (num - a2 * den) < 0
                      /\ (num - c1 * den) * (num - c2 * den) < 0
  <2>1. /\ dy(i) * dx(j) - dy(j) * dx(i) = den
        /\ Intercept(j) * dx(i) - Intercept(i) * dx(j) = num
    BY <1>6, <1>7, <1>8 DEF Intercept
  <2>2. /\ Within(i, num, den) <=> (num - a1 * den) * (num - a2 * den) < 0
        /\ Within(j, num, den) <=> (num - c1 * den) * (num - c2 * den) < 0
    BY <1>6 DEF Within
  <2> QED
    BY <2>1, <2>2 DEF Meet
<1>13. (num - a1 * den) * (num - a2 * den) < 0 <=> t1 * t2 < 0
  <2>1. PICK s \in Int : s = a2 - a1 /\ s # 0
    BY <1>6
  <2>2. num - a1 * den = 0 - s * t1 /\ num - a2 * den = 0 - s * t2
    BY <1>10, <2>1
  <2> QED
    BY <2>1, <2>2, SquareSign
<1>14. (num - c1 * den) * (num - c2 * den) < 0 <=> u1 * u2 < 0
  <2>1. PICK s \in Int : s = c2 - c1 /\ s # 0
    BY <1>6
  <2>2. num - c1 * den = s * u1 /\ num - c2 * den = s * u2
    BY <1>10, <2>1
  <2> QED
    BY <2>1, <2>2, SquareSign
\* Parallel sides are both on one side of each other.
<1>15. den = 0 => ~(t1 * t2 < 0)
  <2> SUFFICES ASSUME den = 0 PROVE ~(t1 * t2 < 0)
    OBVIOUS
  <2>1. (num - a1 * den) * (num - a2 * den) = num * num
    OBVIOUS
  <2>2. num * num >= 0
    OBVIOUS
  <2> QED
    BY <1>13, <2>1, <2>2
<1> QED
  BY <1>11, <1>12, <1>13, <1>14, <1>15

\* CrossingsFound: an outline is refused for crossing sides exactly when two
\* sides that are not neighbours cross, sides of constant longitude left
\* aside, whatever its vertices.
THEOREM CrossingsCorrect == MakeSpec => []CrossingsFound
<1>1. MakeInv => CrossingsFound
  <2> SUFFICES ASSUME MakeInv PROVE CrossingsFound
    OBVIOUS
  <2>1. /\ outline \in Seq(Int \X Int)
        /\ cloud = "crossing" => ~validRegion
        /\ cloud = "fill" => validRegion
    BY DEF MakeInv, MakeTypes, CloudTypes, CloudInv
  <2>2. ASSUME NEW p \in Compared PROVE p[1] \in Sides /\ p[2] \in Sides
    BY DEF Compared
  <2>3. ASSUME ~validRegion PROVE \E p \in Compared : CrossEachOther(p[1], p[2])
    <3>1. PICK p \in Compared : Meet(p[1], p[2])
      BY <2>3 DEF validRegion
    <3>2. dx(p[1]) # 0 /\ dx(p[2]) # 0
      BY <3>1 DEF Meet
    <3> QED
      BY <2>1, <2>2, <3>1, <3>2, MeetsWhereTheyCross
  <2>4. ASSUME validRegion, NEW p \in Compared, dx(p[1]) # 0, dx(p[2]) # 0
        PROVE  ~CrossEachOther(p[1], p[2])
    <3>1. ~Meet(p[1], p[2])
      BY <2>4 DEF validRegion
    <3> QED
      BY <2>1, <2>2, <2>4, <3>1, MeetsWhereTheyCross
  <2> QED
    BY <2>1, <2>3, <2>4 DEF CrossingsFound
<1> QED
  BY <1>1, MakeHolds, PTL

-----------------------------------------------------------------------------
(* The two ways of counting sides: they agree, side by side, on how many   *)
(* ends lie to the south-east, and every vertex is the end of one side.    *)

\* The signs of products.
LEMMA SignOf ==
  ASSUME NEW s \in Int, NEW t \in Int
  PROVE  /\ s > 0 => (s * t > 0 <=> t > 0) /\ (s * t < 0 <=> t < 0) /\ (s * t = 0 <=> t = 0)
         /\ s < 0 => (s * t > 0 <=> t < 0) /\ (s * t < 0 <=> t > 0) /\ (s * t = 0 <=> t = 0)
<1>1. CASE s > 0 /\ t > 0
  <2>1. s * t > 0
    BY <1>1
  <2> QED
    BY <1>1, <2>1
<1>2. CASE s > 0 /\ t < 0
  <2>1. s * t < 0
    BY <1>2
  <2> QED
    BY <1>2, <2>1
<1>3. CASE s < 0 /\ t > 0
  <2>1. s * t < 0
    BY <1>3
  <2> QED
    BY <1>3, <2>1
<1>4. CASE s < 0 /\ t < 0
  <2>1. s * t > 0
    BY <1>4
  <2> QED
    BY <1>4, <2>1
<1>5. CASE t = 0
  <2>1. s * t = 0
    BY <1>5
  <2> QED
    BY <1>5, <2>1
<1>6. CASE s = 0
  BY <1>6
<1> QED
  BY <1>1, <1>2, <1>3, <1>4, <1>5, <1>6

\* The side from (a, b) to (c, d) crosses the half lines to the south and to the
\* east of the origin, of which it keeps clear, once together exactly when
\* one of its ends lies between the two.
South(a, b, c, d) == a * c < 0 /\ (c - a) * (a * d - b * c) > 0
EastOf(a, b, c, d) == /\ (b <= 0 /\ 0 < d) \/ (d <= 0 /\ 0 < b)
                      /\ (d - b) * (a * d - b * c) > 0
Between(a, b) == a > 0 /\ b <= 0
LEMMA OneSide ==
  ASSUME NEW a \in Int, NEW b \in Int, NEW c \in Int, NEW d \in Int, a # 0, c # 0,
         ~(a * d - b * c = 0 /\ a * c <= 0 /\ b * d <= 0)
  PROVE  (South(a, b, c, d) <=> ~EastOf(a, b, c, d)) <=> (Between(a, b) <=> ~Between(c, d))
<1> DEFINE ad == a * d
           bc == b * c
           C == ad - bc
<1>1. ad \in Int /\ bc \in Int /\ C \in Int
  OBVIOUS
<1>2. /\ a > 0 => (ad > 0 <=> d > 0) /\ (ad < 0 <=> d < 0) /\ (ad = 0 <=> d = 0)
      /\ a < 0 => (ad > 0 <=> d < 0) /\ (ad < 0 <=> d > 0) /\ (ad = 0 <=> d = 0)
  BY SignOf
<1>3. /\ c > 0 => (bc > 0 <=> b > 0) /\ (bc < 0 <=> b < 0) /\ (bc = 0 <=> b = 0)
      /\ c < 0 => (bc > 0 <=> b < 0) /\ (bc < 0 <=> b > 0) /\ (bc = 0 <=> b = 0)
  <2>1. b * c = c * b
    OBVIOUS
  <2> QED
    BY <2>1, SignOf
<1>4. a * c < 0 <=> (a > 0 /\ c < 0) \/ (a < 0 /\ c > 0)
  BY SignOf
<1>5. South(a, b, c, d) <=>
        \/ a < 0 /\ c > 0 /\ C > 0
        \/ a > 0 /\ c < 0 /\ C < 0
  <2>1. /\ c - a > 0 => ((c - a) * C > 0 <=> C > 0)
        /\ c - a < 0 => ((c - a) * C > 0 <=> C < 0)
    <3> HIDE DEF C
    <3> QED
      BY <1>1, SignOf
  <2>2. South(a, b, c, d) <=> a * c < 0 /\ (c - a) * C > 0
    BY DEF South
  <2> HIDE DEF C
  <2> QED
    BY <1>1, <1>4, <2>1, <2>2
<1>6. EastOf(a, b, c, d) <=>
        \/ b <= 0 /\ 0 < d /\ C > 0
        \/ d <= 0 /\ 0 < b /\ C < 0
  <2>1. /\ d - b > 0 => ((d - b) * C > 0 <=> C > 0)
        /\ d - b < 0 => ((d - b) * C > 0 <=> C < 0)
    <3> HIDE DEF C
    <3> QED
      BY <1>1, SignOf
  <2>2. EastOf(a, b, c, d) <=> ((b <= 0 /\ 0 < d) \/ (d <= 0 /\ 0 < b)) /\ (d - b) * C > 0
    BY DEF EastOf
  <2> HIDE DEF C
  <2> QED
    BY <1>1, <2>1, <2>2
\* The side does not go through the origin.
<1>7. /\ (a < 0 <=> c > 0) /\ ((b <= 0 /\ 0 < d) \/ (d <= 0 /\ 0 < b)) => C # 0
      /\ (a < 0 <=> c > 0) /\ b <= 0 /\ d <= 0 => C # 0 \/ b * d > 0
  <2>1. ~(C = 0 /\ a * c <= 0 /\ b * d <= 0)
    OBVIOUS
  <2>2. (b <= 0 /\ 0 < d) \/ (d <= 0 /\ 0 < b) => b * d <= 0
    BY SignOf
  <2>3. b * d \in Int /\ a * c \in Int
    OBVIOUS
  <2>4. (a < 0 <=> c > 0) => a * c <= 0
    BY <1>4, <2>3
  <2> HIDE DEF C
  <2> QED
    BY <2>1, <2>2, <2>3, <2>4
<1>8. (a < 0 <=> c > 0) /\ b <= 0 /\ d <= 0 => C # 0
  <2> SUFFICES ASSUME a < 0 <=> c > 0, b <= 0, d <= 0, C = 0 PROVE FALSE
    OBVIOUS
  <2>1. b * d > 0
    BY <1>7
  <2>2. b < 0 /\ d < 0
    BY <2>1, SignOf
  <2> HIDE DEF C, ad, bc
  <2>3. (ad > 0 /\ bc < 0) \/ (ad < 0 /\ bc > 0)
    BY <1>1, <1>2, <1>3, <2>2
  <2> QED
    BY <1>1, <2>3 DEF C
<1>9. /\ C > 0 <=> ad > bc
      /\ C < 0 <=> ad < bc
  BY <1>1
<1> HIDE DEF ad, bc, C
<1>10. CASE a > 0 /\ c > 0
  BY <1>1, <1>2, <1>3, <1>5, <1>6, <1>9, <1>10 DEF Between
<1>11. CASE a < 0 /\ c < 0
  BY <1>1, <1>2, <1>3, <1>5, <1>6, <1>9, <1>11 DEF Between
<1>12. CASE a < 0 /\ c > 0
  BY <1>1, <1>2, <1>3, <1>5, <1>6, <1>7, <1>8, <1>9, <1>12 DEF Between
<1>13. CASE a > 0 /\ c < 0
  BY <1>1, <1>2, <1>3, <1>5, <1>6, <1>7, <1>8, <1>9, <1>13 DEF Between
<1> QED
  BY <1>10, <1>11, <1>12, <1>13

\* Two sets that together are odd or even where two others of one size are.
LEMMA EvenTogether ==
  ASSUME NEW D, IsFiniteSet(D), NEW S \in SUBSET D, NEW E \in SUBSET D,
         NEW A \in SUBSET D, NEW B \in SUBSET D, Cardinality(A) = Cardinality(B),
         \A k \in D : (k \in S <=> k \notin E) <=> (k \in A <=> k \notin B)
  PROVE  Cardinality(S) % 2 = Cardinality(E) % 2
<1>1. /\ IsFiniteSet(S) /\ IsFiniteSet(E) /\ IsFiniteSet(A) /\ IsFiniteSet(B)
      /\ IsFiniteSet(S \cap E) /\ IsFiniteSet(A \cap B)
      /\ IsFiniteSet(S \cup E) /\ IsFiniteSet(A \cup B)
  BY FS_Subset, FS_Intersection, FS_Union
<1>2. /\ Cardinality(S) \in Nat /\ Cardinality(E) \in Nat /\ Cardinality(A) \in Nat
      /\ Cardinality(S \cap E) \in Nat /\ Cardinality(A \cap B) \in Nat
      /\ Cardinality(B) \in Nat
      /\ Cardinality(S \cup E) \in Nat /\ Cardinality(A \cup B) \in Nat
  BY <1>1, FS_CardinalityType
<1>3. (S \cup E) \ (S \cap E) = (A \cup B) \ (A \cap B)
  OBVIOUS
<1>4. \A s, e, x, u, z \in Nat : u = s + e - x /\ z = x => u - z = s + e - 2 * x
  OBVIOUS
<1>5. Cardinality((S \cup E) \ (S \cap E))
        = Cardinality(S) + Cardinality(E) - 2 * Cardinality(S \cap E)
  <2>1. Cardinality((S \cup E) \ (S \cap E))
          = Cardinality(S \cup E) - Cardinality((S \cup E) \cap (S \cap E))
    BY <1>1, FS_Difference
  <2>2. Cardinality((S \cup E) \cap (S \cap E)) = Cardinality(S \cap E)
    <3>1. (S \cup E) \cap (S \cap E) = S \cap E
      OBVIOUS
    <3> QED
      BY <3>1
  <2>3. Cardinality(S \cup E) = Cardinality(S) + Cardinality(E) - Cardinality(S \cap E)
    BY <1>1, FS_Union
  <2> QED
    BY <1>2, <1>4, <2>1, <2>2, <2>3
<1>6. Cardinality((A \cup B) \ (A \cap B))
        = Cardinality(A) + Cardinality(B) - 2 * Cardinality(A \cap B)
  <2>1. Cardinality((A \cup B) \ (A \cap B))
          = Cardinality(A \cup B) - Cardinality((A \cup B) \cap (A \cap B))
    BY <1>1, FS_Difference
  <2>2. Cardinality((A \cup B) \cap (A \cap B)) = Cardinality(A \cap B)
    <3>1. (A \cup B) \cap (A \cap B) = A \cap B
      OBVIOUS
    <3> QED
      BY <3>1
  <2>3. Cardinality(A \cup B) = Cardinality(A) + Cardinality(B) - Cardinality(A \cap B)
    BY <1>1, FS_Union
  <2> QED
    BY <1>2, <1>4, <2>1, <2>2, <2>3
<1>7. \A s, e, a, x, y \in Nat : s + e - 2 * x = a + a - 2 * y => s % 2 = e % 2
  OBVIOUS
<1>8. Cardinality(S) + Cardinality(E) - 2 * Cardinality(S \cap E)
        = Cardinality(A) + Cardinality(A) - 2 * Cardinality(A \cap B)
  BY <1>3, <1>5, <1>6
<1> QED
  BY <1>2, <1>8, <1>7

\* As many sides begin in a region as end in it.
LEMMA BeginAndEnd ==
  ASSUME NEW n \in Nat \ {0}, NEW A \in SUBSET (1 .. n)
  PROVE  Cardinality({k \in 1 .. n : (k % n) + 1 \in A}) = Cardinality(A)
<1> DEFINE B == {k \in 1 .. n : (k % n) + 1 \in A}
           f == [k \in B |-> (k % n) + 1]
<1>1. ASSUME NEW k \in 1 .. n PROVE (k % n) + 1 = IF k = n THEN 1 ELSE k + 1
  <2>1. n % n = 0
    OBVIOUS
  <2>2. k # n => k % n = k
    OBVIOUS
  <2> QED
    BY <2>1, <2>2
<1>2. f \in [B -> A]
  OBVIOUS
<1>3. \A k, m \in B : f[k] = f[m] => k = m
  <2> SUFFICES ASSUME NEW k \in B, NEW m \in B, f[k] = f[m] PROVE k = m
    OBVIOUS
  <2>1. k \in 1 .. n /\ m \in 1 .. n /\ (k % n) + 1 = (m % n) + 1
    OBVIOUS
  <2>2. /\ (k % n) + 1 = IF k = n THEN 1 ELSE k + 1
        /\ (m % n) + 1 = IF m = n THEN 1 ELSE m + 1
    BY <1>1, <2>1
  <2> HIDE DEF B, f
  <2>3. (IF k = n THEN 1 ELSE k + 1) = (IF m = n THEN 1 ELSE m + 1)
    BY <2>1, <2>2
  <2> QED
    BY <2>1, <2>3
<1>4. ASSUME NEW m \in A PROVE \E k \in B : f[k] = m
  <2>1. CASE m = 1
    <3>1. n \in 1 .. n /\ (n % n) + 1 = 1
      BY <1>1
    <3>2. n \in B
      BY <1>4, <2>1, <3>1
    <3> QED
      BY <2>1, <3>1, <3>2
  <2>2. CASE m # 1
    <3>0. m - 1 \in 1 .. n /\ m - 1 # n
      <4>1. m \in 1 .. n
        BY <1>4
      <4> QED
        BY <2>2, <4>1
    <3>1. m - 1 \in 1 .. n /\ ((m - 1) % n) + 1 = m
      <4>1. ((m - 1) % n) + 1 = (m - 1) + 1
        BY <1>1, <3>0
      <4> QED
        BY <3>0, <4>1
    <3>2. m - 1 \in B
      BY <1>4, <3>1
    <3> QED
      BY <3>1, <3>2
  <2> QED
    BY <2>1, <2>2
<1> HIDE DEF f
<1>5. f \in Injection(B, A) /\ f \in Surjection(B, A)
  <2> HIDE DEF B
  <2> QED
    BY <1>2, <1>3, <1>4 DEF Injection, Surjection, IsInjective
<1>6. IsFiniteSet(A) /\ IsFiniteSet(B)
  <2>1. IsFiniteSet(1 .. n)
    BY FS_Interval
  <2>2. A \in SUBSET (1 .. n) /\ B \in SUBSET (1 .. n)
    OBVIOUS
  <2> HIDE DEF B
  <2> QED
    BY <2>1, <2>2, FS_Subset
<1> HIDE DEF B
<1>7. Cardinality(B) = Cardinality(A)
  BY <1>5, <1>6, FS_Injection
<1> QED
  BY <1>7 DEF B

\* The two ways of counting sides agree for a point that is neither on the
\* outline nor at the longitude of a vertex.
LEMMA CountsAgree ==
  ASSUME outline \in Seq(Int \X Int), NEW p \in Int \X Int, Plain(p)
  PROVE  define(p) = 1 <=> Enclosed(p)
<1>1. PICK u \in Int, v \in Int : p = <<u, v>>
  BY Coordinates
<1>2. PICK n \in Nat : n = Len(outline)
  OBVIOUS
<1>3. Sides = 1 .. n
  BY <1>2 DEF Sides
<1> DEFINE S == {k \in Sides : Passes(k, p)}
           E == {k \in Sides : East(k, p)}
           A == {k \in Sides : x1(k) > u /\ y1(k) <= v}
           B == {k \in Sides : x2(k) > u /\ y2(k) <= v}
<1>4. IsFiniteSet(Sides)
  BY <1>3, FS_Interval
<1>5. Cardinality(A) = Cardinality(B)
  <2>1. CASE n = 0
    <3>1. Sides = {}
      BY <1>3, <2>1
    <3>2. A = B
      BY <3>1
    <3> QED
      BY <3>2
  <2>2. CASE n # 0
    <3>1. A \in SUBSET (1 .. n)
      BY <1>3
    <3>2. B = {k \in 1 .. n : (k % n) + 1 \in A}
      <4>1. ASSUME NEW k \in 1 .. n
            PROVE  (k % n) + 1 \in A <=> x2(k) > u /\ y2(k) <= v
        <5>1. Next1(k) = (k % n) + 1 /\ (k % n) + 1 \in Sides
          BY <1>2, <1>3, <2>2, NextOne DEF Next1
        <5> QED
          BY <5>1 DEF x1, y1, x2, y2
      <4> QED
        BY <1>3, <4>1
    <3> HIDE DEF A
    <3> QED
      BY <2>2, <3>1, <3>2, BeginAndEnd
  <2> QED
    BY <2>1, <2>2
<1>6. ASSUME NEW k \in Sides
      PROVE  (k \in S <=> k \notin E) <=> (k \in A <=> k \notin B)
  <2>1. PICK a1 \in Int, b1 \in Int : outline[k] = <<a1, b1>>
    BY VertexIs
  <2>2. PICK a2 \in Int, b2 \in Int : outline[Next1(k)] = <<a2, b2>>
    BY VertexIs
  <2>3. /\ x1(k) = a1 /\ y1(k) = b1 /\ x2(k) = a2 /\ y2(k) = b2
        /\ dx(k) = a2 - a1 /\ dy(k) = b2 - b1
    BY <2>1, <2>2 DEF x1, y1, x2, y2, dx, dy
  <2>4. PICK a \in Int, b \in Int, c \in Int, d \in Int :
          a = a1 - u /\ b = b1 - v /\ c = a2 - u /\ d = b2 - v
    OBVIOUS
  <2>5. a # 0 /\ c # 0
    <3>1. Next1(k) \in Sides
      <4>1. n \in Nat \ {0} /\ k \in 1 .. n
        BY <1>2, <1>3, <1>6
      <4> QED
        BY <1>2, <1>3, <4>1, NextOne DEF Next1
    <3>2. \A m \in Sides : x1(m) # p[1]
      BY DEF Plain, OnVertexLongitude
    <3>3. outline[k][1] # p[1] /\ outline[Next1(k)][1] # p[1]
      BY <1>6, <3>1, <3>2 DEF x1
    <3>4. a1 # u /\ a2 # u
      BY <1>1, <2>1, <2>2, <3>3
    <3> QED
      BY <2>4, <3>4
  <2>6. ~(a * d - b * c = 0 /\ a * c <= 0 /\ b * d <= 0)
    <3>1. ~(/\ Turn(Vertex(k), Vertex(Next1(k)), p) = 0
            /\ (u - a1) * (u - a2) <= 0 /\ (v - b1) * (v - b2) <= 0)
      BY <1>1, <1>6, <2>3 DEF Plain, OnOutline
    <3>2. Turn(Vertex(k), Vertex(Next1(k)), p) = (a2 - a1) * (v - b1) - (b2 - b1) * (u - a1)
      BY <1>1, <2>1, <2>2 DEF Turn, Vertex
    <3>3. (a2 - a1) * (v - b1) - (b2 - b1) * (u - a1) = a * d - b * c
      BY <2>4
    <3>4. (u - a1) * (u - a2) = a * c /\ (v - b1) * (v - b2) = b * d
      BY <2>4
    <3> QED
      BY <3>1, <3>2, <3>3, <3>4
  <2>7. k \in S <=> South(a, b, c, d)
    <3>1. k \in S <=> /\ (u - a1) * (u - a2) < 0
                      /\ (v - b1) * (a2 - a1) * (a2 - a1)
                           > (b2 - b1) * (u - a1) * (a2 - a1)
      BY <1>1, <1>6, <2>3 DEF Passes
    <3>2. (u - a1) * (u - a2) = a * c
      BY <2>4
    <3>3. (v - b1) * (a2 - a1) * (a2 - a1) - (b2 - b1) * (u - a1) * (a2 - a1)
            = (c - a) * (a * d - b * c)
      BY <2>4
    <3>4. \A s, t \in Int : s > t <=> s - t > 0
      OBVIOUS
    <3>5. /\ (v - b1) * (a2 - a1) * (a2 - a1) \in Int
          /\ (b2 - b1) * (u - a1) * (a2 - a1) \in Int
      OBVIOUS
    <3>6. (v - b1) * (a2 - a1) * (a2 - a1) > (b2 - b1) * (u - a1) * (a2 - a1)
            <=> (c - a) * (a * d - b * c) > 0
      BY <3>3, <3>4, <3>5
    <3> QED
      BY <3>1, <3>2, <3>6 DEF South
  <2>8. k \in E <=> EastOf(a, b, c, d)
    <3> DEFINE low == IF b1 < b2 THEN b1 ELSE b2
               high == IF b1 < b2 THEN b2 ELSE b1
    <3>1. k \in E <=> /\ low <= v /\ v < high
                      /\ (a1 - u) * Square(b2 - b1) + (v - b1) * (a2 - a1) * (b2 - b1) > 0
      BY <1>1, <1>6, <2>3 DEF East
    <3>2. low <= v /\ v < high <=> (b <= 0 /\ 0 < d) \/ (d <= 0 /\ 0 < b)
      BY <2>4
    <3>3. (a1 - u) * Square(b2 - b1) + (v - b1) * (a2 - a1) * (b2 - b1)
            = (d - b) * (a * d - b * c)
      BY <2>4 DEF Square
    <3> HIDE DEF low, high
    <3> QED
      BY <3>1, <3>2, <3>3 DEF EastOf
  <2>9. (k \in A <=> Between(a, b)) /\ (k \in B <=> Between(c, d))
    BY <1>6, <2>3, <2>4 DEF Between
  <2>10. (South(a, b, c, d) <=> ~EastOf(a, b, c, d)) <=> (Between(a, b) <=> ~Between(c, d))
    BY <2>5, <2>6, OneSide
  <2> HIDE DEF S, E, A, B
  <2> QED
    BY <2>7, <2>8, <2>9, <2>10
<1>7. S \in SUBSET Sides /\ E \in SUBSET Sides /\ A \in SUBSET Sides /\ B \in SUBSET Sides
  OBVIOUS
<1>8. define(p) = Cardinality(S) % 2 /\ (Enclosed(p) <=> Cardinality(E) % 2 = 1)
  BY DEF define, Enclosed
<1> HIDE DEF S, E, A, B
<1>9. Cardinality(S) % 2 = Cardinality(E) % 2
  BY <1>4, <1>5, <1>6, <1>7, EvenTogether
<1> QED
  BY <1>8, <1>9

\* sortElevations makes none of its points up.
LEMMA SortedFrom ==
  ASSUME CloudTypes, NEW p \in Int \X Int,
         \A k \in DOMAIN elevPoint : elevPoint[k] \in Int \X Int,
         NEW at \in DOMAIN elevPoint
  PROVE  \E j \in DOMAIN elevPoint : Sorted(p)[at] = elevPoint[j]
<1> DEFINE D == DOMAIN elevPoint
           Far2(i) == Distance2(elevPoint[i], p)
           Before(i, j) == Far2(i) < Far2(j) \/ (Far2(i) = Far2(j) /\ i < j)
           Ahead(j) == {i \in D : Before(i, j)}
           Rank(j) == 1 + Cardinality(Ahead(j))
           rank == [j \in D |-> Rank(j)]
<1>1. PICK n \in Nat : D = 1 .. n
  BY ListLength DEF CloudTypes
<1>2. IsFiniteSet(D) /\ Cardinality(D) = n
  BY <1>1, FS_Interval
<1>3. ASSUME NEW i \in D PROVE Far2(i) \in Int
  <2>1. PICK a \in Int, b \in Int : elevPoint[i] = <<a, b>>
    BY Coordinates
  <2>2. PICK u \in Int, v \in Int : p = <<u, v>>
    BY Coordinates
  <2> QED
    BY <2>1, <2>2 DEF Distance2, Square
<1>4. ASSUME NEW j \in D
      PROVE  IsFiniteSet(Ahead(j)) /\ Cardinality(Ahead(j)) \in 0 .. n - 1
  <2>1. j \notin Ahead(j)
    BY <1>1, <1>3
  <2>2. Ahead(j) \in SUBSET (D \ {j})
    BY <2>1
  <2>3. IsFiniteSet(D \ {j}) /\ Cardinality(D \ {j}) = n - 1
    BY <1>2, FS_RemoveElement
  <2> HIDE DEF Ahead, D
  <2>4. IsFiniteSet(Ahead(j)) /\ Cardinality(Ahead(j)) <= n - 1
    BY <2>2, <2>3, FS_Subset
  <2>5. Cardinality(Ahead(j)) \in Nat
    BY <2>4, FS_CardinalityType
  <2> QED
    BY <2>4, <2>5
\* Who comes before has fewer ahead.
<1>5. ASSUME NEW i \in D, NEW j \in D, Before(i, j)
      PROVE  Cardinality(Ahead(i)) < Cardinality(Ahead(j))
  <2>1. i \in Ahead(j) /\ i \notin Ahead(i)
    BY <1>1, <1>3, <1>5
  <2>2. ASSUME NEW m \in Ahead(i) PROVE m \in Ahead(j)
    <3>1. m \in D /\ Before(m, i)
      BY <2>2
    <3>2. Far2(m) \in Int /\ Far2(i) \in Int /\ Far2(j) \in Int
      BY <1>3, <3>1
    <3>3. m \in Int /\ i \in Int /\ j \in Int
      BY <1>1, <3>1
    <3> HIDE DEF Far2
    <3>4. Before(m, j)
      BY <1>5, <3>1, <3>2, <3>3
    <3> QED
      BY <3>1, <3>4
  <2>3. IsFiniteSet(Ahead(j)) /\ IsFiniteSet(Ahead(i))
    BY <1>4
  <2> HIDE DEF Ahead
  <2>4. Ahead(i) \in SUBSET Ahead(j) /\ Ahead(i) # Ahead(j)
    BY <2>1, <2>2
  <2>5. /\ Cardinality(Ahead(i)) <= Cardinality(Ahead(j))
        /\ Cardinality(Ahead(i)) # Cardinality(Ahead(j))
    BY <2>3, <2>4, FS_Subset
  <2>6. Cardinality(Ahead(i)) \in Nat /\ Cardinality(Ahead(j)) \in Nat
    BY <2>3, FS_CardinalityType
  <2> QED
    BY <2>5, <2>6
<1>6. ASSUME NEW i \in D, NEW j \in D, i # j PROVE Before(i, j) \/ Before(j, i)
  <2>1. Far2(i) \in Int /\ Far2(j) \in Int /\ i \in Int /\ j \in Int
    BY <1>1, <1>3
  <2> HIDE DEF Far2
  <2> QED
    BY <1>6, <2>1
<1> HIDE DEF Ahead, Before
<1>7. rank \in [D -> D]
  <2>1. ASSUME NEW j \in D PROVE Rank(j) \in D
    BY <1>1, <1>4
  <2> HIDE DEF Rank
  <2> QED
    BY <2>1
<1>8. \A i, j \in D : rank[i] = rank[j] => i = j
  <2> SUFFICES ASSUME NEW i \in D, NEW j \in D, rank[i] = rank[j], i # j PROVE FALSE
    OBVIOUS
  <2>1. Cardinality(Ahead(i)) \in Int /\ Cardinality(Ahead(j)) \in Int
    BY <1>4
  <2>2. Cardinality(Ahead(i)) = Cardinality(Ahead(j))
    BY <2>1
  <2> QED
    BY <1>5, <1>6, <2>1, <2>2
<1>9. \E j \in D : Rank(j) = at
  <2> HIDE DEF Rank, D
  <2>1. rank \in Injection(D, D)
    <3> HIDE DEF rank
    <3> QED
      BY <1>7, <1>8 DEF Injection, IsInjective
  <2>2. rank \in Surjection(D, D)
    <3> HIDE DEF rank
    <3> QED
      BY <1>2, <2>1, FS_Injection
  <2>3. at \in D
    BY DEF D
  <2>4. \E j \in D : rank[j] = at
    <3> HIDE DEF rank
    <3> QED
      BY <2>2, <2>3 DEF Surjection
  <2> QED
    BY <2>4
<1>10. Sorted(p)[at] = elevPoint[CHOOSE j \in D : Rank(j) = at]
  BY DEF Sorted, Ahead, Before
<1> HIDE DEF Rank
<1>11. (CHOOSE j \in D : Rank(j) = at) \in D
  BY <1>9
<1> QED
  BY <1>10, <1>11

-----------------------------------------------------------------------------
(* Every point placed is on the side that build found.                     *)

OnSide(p) == p \in Int \X Int /\ define(p) = inside

SideInv ==
  /\ \A i \in DOMAIN points : OnSide(points[i])
  /\ cloud = "read" => \A k \in DOMAIN elevPoint : elevPoint[k] \in Int \X Int
  /\ cloud = "fill" => \A k \in DOMAIN elevPoint : OnSide(elevPoint[k])

LEMMA SideKept ==
  ASSUME outline' = outline, inside' = inside, NEW p
  PROVE  OnSide(p)' <=> OnSide(p)
<1>1. define(p)' = define(p)
  BY DEF define, Sides, Passes, dx, dy, x1, x2, y1, y2, Next1
<1> QED
  BY <1>1 DEF OnSide

LEMMA PlaceSide ==
  ASSUME CloudTypes, SideInv, cloud = "fill", NEW p, OnSide(p), Place(p)
  PROVE  SideInv'
<1>1. /\ points' = Append(points, p) /\ elevPoint' = Sorted(p)
      /\ cloud' = cloud /\ outline' = outline /\ inside' = inside
  BY DEF Place
<1>2. /\ \A i \in DOMAIN points : OnSide(points[i])
      /\ \A k \in DOMAIN elevPoint : OnSide(elevPoint[k])
  BY DEF SideInv
<1>3. ASSUME NEW i \in DOMAIN points' PROVE OnSide(points'[i])
  <2>1. PICK A : points \in Seq(A)
    BY DEF CloudTypes, IsList
  <2>2. points'[i] = p \/ \E j \in DOMAIN points : points'[i] = points[j]
    BY <1>1, <1>3, <2>1
  <2> QED
    BY <1>2, <2>2
<1>4. ASSUME NEW k \in DOMAIN elevPoint' PROVE OnSide(elevPoint'[k])
  <2>1. k \in DOMAIN elevPoint
    BY <1>1, <1>4 DEF Sorted
  <2>2. p \in Int \X Int /\ \A j \in DOMAIN elevPoint : elevPoint[j] \in Int \X Int
    BY <1>2 DEF OnSide
  <2>3. PICK j \in DOMAIN elevPoint : Sorted(p)[k] = elevPoint[j]
    BY <2>1, <2>2, SortedFrom
  <2> QED
    BY <1>1, <1>2, <2>3
<1>5. \A q : OnSide(q)' <=> OnSide(q)
  BY <1>1, SideKept
<1>6. \A i \in DOMAIN points' : OnSide(points[i])'
  <2> SUFFICES ASSUME NEW i \in DOMAIN points' PROVE OnSide(points[i])'
    OBVIOUS
  <2>1. PICK q : q = points'[i]
    OBVIOUS
  <2>2. OnSide(q)'
    BY <1>3, <1>5, <2>1
  <2> QED
    BY <2>1, <2>2 DEF OnSide, define, Passes
<1>7. \A k \in DOMAIN elevPoint' : OnSide(elevPoint[k])'
  <2> SUFFICES ASSUME NEW k \in DOMAIN elevPoint' PROVE OnSide(elevPoint[k])'
    OBVIOUS
  <2>1. PICK q : q = elevPoint'[k]
    OBVIOUS
  <2>2. OnSide(q)'
    BY <1>4, <1>5, <2>1
  <2> QED
    BY <2>1, <2>2 DEF OnSide, define, Passes
<1> QED
  BY <1>1, <1>6, <1>7 DEF SideInv

LEMMA NothingPlaced ==
  ASSUME outline' = outline, inside' = inside, points' = points, elevPoint' = elevPoint,
         cloud' = cloud \/ cloud' \notin {"read", "fill"}, SideInv
  PROVE  SideInv'
<1>1. \A q : OnSide(q)' <=> OnSide(q)
  BY SideKept
<1>2. \A i \in DOMAIN points' : OnSide(points[i])'
  <2> SUFFICES ASSUME NEW i \in DOMAIN points' PROVE OnSide(points[i])'
    OBVIOUS
  <2>1. PICK q : q = points[i] /\ q = points'[i]
    OBVIOUS
  <2>2. OnSide(q)'
    BY <1>1, <2>1 DEF SideInv
  <2> QED
    BY <2>1, <2>2 DEF OnSide, define, Passes
<1>3. ASSUME cloud' = "fill" PROVE \A k \in DOMAIN elevPoint' : OnSide(elevPoint[k])'
  <2> SUFFICES ASSUME NEW k \in DOMAIN elevPoint' PROVE OnSide(elevPoint[k])'
    OBVIOUS
  <2>1. PICK q : q = elevPoint[k] /\ q = elevPoint'[k]
    OBVIOUS
  <2>2. OnSide(q)'
    BY <1>1, <1>3, <2>1 DEF SideInv
  <2> QED
    BY <2>1, <2>2 DEF OnSide, define, Passes
<1>4. cloud' = "read" => \A k \in DOMAIN elevPoint' : elevPoint'[k] \in Int \X Int
  BY DEF SideInv
<1> QED
  BY <1>2, <1>3, <1>4 DEF SideInv

\* Build refuses elevation points on different sides.
LEMMA BuildSide ==
  ASSUME CloudInv, SideInv, Build
  PROVE  SideInv'
<1>1. /\ cloud = "read" /\ outline' = outline /\ elevPoint' = elevPoint /\ points' = points
      /\ cloud' # "read"
      /\ cloud' = "fill" => \A k \in DOMAIN elevPoint : define(elevPoint[k]) = inside'
  BY DEF Build
<1>2. points' = <<>>
  BY <1>1 DEF CloudInv
<1>3. ASSUME cloud' = "fill", NEW k \in DOMAIN elevPoint' PROVE OnSide(elevPoint[k])'
  <2>1. PICK q : q = elevPoint[k] /\ q = elevPoint'[k]
    BY <1>1
  <2>2. q \in Int \X Int /\ define(q) = inside'
    BY <1>1, <1>3, <2>1 DEF SideInv
  <2>3. define(q)' = define(q)
    BY <1>1 DEF define, Sides, Passes, dx, dy, x1, x2, y1, y2, Next1
  <2> QED
    BY <2>1, <2>2, <2>3 DEF OnSide, define, Passes
<1> QED
  BY <1>1, <1>2, <1>3 DEF SideInv

LEMMA FillSide ==
  ASSUME CloudTypes, CloudInv, SideInv, CloudNext
  PROVE  SideInv'
<1>1. CASE Build
  BY <1>1, BuildSide
<1>2. CASE StartWalk
  <2>1. cloud = "fill" /\ nPolySide \in DOMAIN elevPoint
    <3>1. cloud = "fill"
      BY <1>2 DEF StartWalk
    <3> QED
      BY <3>1, ListLength DEF CloudInv, CloudTypes
  <2>2. PICK q : q = elevPoint[nPolySide]
    OBVIOUS
  <2>3. OnSide(q) /\ Place(q)
    BY <1>2, <2>1, <2>2 DEF StartWalk, SideInv
  <2> QED
    BY <2>1, <2>3, PlaceSide
<1>3. CASE Wander
  <2>1. /\ cloud = "fill" /\ validPoints > 0
        /\ \E q \in Around(points[Len(points)]) :
             \/ inCloud(q) /\ Place(q)
             \/ UNCHANGED <<cloud, outline, elevPoint, inside, want, nPolySide,
                            validPoints, points>>
    BY <1>3 DEF Wander
  <2>2. PICK q \in Around(points[Len(points)]) :
             \/ inCloud(q) /\ Place(q)
             \/ UNCHANGED <<cloud, outline, elevPoint, inside, want, nPolySide,
                            validPoints, points>>
    BY <2>1
  <2>3. CASE inCloud(q) /\ Place(q)
    <3>1. Len(points) \in DOMAIN points
      <4>1. Len(points) \in Nat /\ DOMAIN points = 1 .. Len(points)
        BY ListLength DEF CloudTypes
      <4>2. Len(points) = (nPolySide - 1) * (want \div Len(elevPoint)) + validPoints
        BY <2>1 DEF CloudInv
      <4>3. (nPolySide - 1) * (want \div Len(elevPoint)) \in Nat
        <5>1. nPolySide - 1 \in Nat
          BY DEF CloudTypes
        <5>2. want \div Len(elevPoint) \in Nat
          <6>1. elevPoint # <<>>
            BY <2>1 DEF CloudInv
          <6>2. Len(elevPoint) \in Nat \ {0}
            BY <6>1, ListLength DEF CloudTypes
          <6>3. want \in Nat
            BY DEF CloudTypes
          <6> QED
            BY <6>2, <6>3, Quotient
        <5> QED
          BY <5>1, <5>2
      <4>4. validPoints \in Nat
        BY DEF CloudTypes
      <4>5. \A s, v, l \in Nat : v > 0 /\ l = s + v => l \in 1 .. l
        OBVIOUS
      <4> QED
        BY <2>1, <4>1, <4>2, <4>3, <4>4, <4>5
    <3>2. PICK a \in Int, b \in Int : points[Len(points)] = <<a, b>>
      BY <3>1, Coordinates DEF SideInv, OnSide
    <3>3. \A s \in Steps : s \in Int
      BY CloudAssumption DEF Steps
    <3>4. q \in Int \X Int
      BY <2>2, <3>2, <3>3 DEF Around
    <3>5. OnSide(q)
      BY <2>3, <3>4 DEF OnSide, inCloud
    <3> QED
      BY <2>1, <2>3, <3>5, PlaceSide
  <2>4. CASE UNCHANGED <<cloud, outline, elevPoint, inside, want, nPolySide,
                         validPoints, points>>
    BY <2>4, NothingPlaced
  <2> QED
    BY <2>2, <2>3, <2>4
<1>4. CASE EndWalk
  <2>1. /\ outline' = outline /\ inside' = inside /\ points' = points
        /\ elevPoint' = elevPoint
        /\ cloud' = cloud \/ cloud' \notin {"read", "fill"}
    BY <1>4 DEF EndWalk
  <2> QED
    BY <2>1, NothingPlaced
<1> QED
  BY <1>1, <1>2, <1>3, <1>4 DEF CloudNext

LEMMA SideKeeps == ASSUME MakeInv, SideInv, [MakeNext]_allVars PROVE SideInv'
<1>1. CloudTypes /\ CloudInv
  BY DEF MakeInv, MakeTypes
<1>2. ASSUME UNCHANGED cloudVars PROVE SideInv'
  BY <1>2, NothingPlaced DEF cloudVars
<1>3. CASE ReadCloud
  <2>1. /\ cloud' = "read" /\ elevPoint' \in Elevations /\ points' = points /\ points = <<>>
    BY <1>1, <1>3 DEF ReadCloud, ReadPoints, CloudInv
  <2>2. elevPoint' \in Seq(Int \X Int)
    BY <2>1, CloudAssumption
  <2>3. \A k \in DOMAIN elevPoint' : elevPoint'[k] \in Int \X Int
    BY <2>2
  <2> QED
    BY <2>1, <2>3 DEF SideInv
<1>4. CASE Filling
  BY <1>1, <1>4, FillSide DEF Filling
<1>5. CASE LoadCloud
  <2>1. cloud' = "gone" /\ points' = <<>>
    BY <1>5 DEF LoadCloud, Destroy
  <2> QED
    BY <2>1 DEF SideInv
<1>6. CASE ReadAsh \/ CloudFails \/ NoRestart \/ Site \/ Column \/ Spread \/ NormalSizes
           \/ SizeClass \/ SizeRest \/ Age
  <2>1. UNCHANGED cloudVars
    BY <1>6 DEF ReadAsh, CloudFails, NoRestart, Site, Column, Spread, NormalSizes,
                SizeClass, SizeRest, Age
  <2> QED
    BY <1>2, <2>1
<1>7. CASE UNCHANGED allVars
  BY <1>2, <1>7 DEF allVars
<1> QED
  BY <1>3, <1>4, <1>5, <1>6, <1>7 DEF MakeNext

\* SameSide: the points of the cloud that are neither on the outline nor at the
\* longitude of a vertex are all inside it or all outside it, where its
\* elevation points are, for any outline, also one that crosses itself, and
\* however a walk leads.
THEOREM SidesCorrect == MakeSpec => []SameSide
<1>1. MakeInit => SideInv
  BY DEF MakeInit, CloudInit, SideInv
<1>2. MakeInv /\ SideInv /\ [MakeNext]_allVars => SideInv'
  BY SideKeeps
<1>3. MakeInv /\ SideInv => SameSide
  <2> SUFFICES ASSUME MakeInv, SideInv, NEW i \in DOMAIN points, NEW j \in DOMAIN points,
                      Plain(points[i]), Plain(points[j])
               PROVE  Enclosed(points[i]) <=> Enclosed(points[j])
    BY DEF SameSide
  <2>1. outline \in Seq(Int \X Int)
    BY DEF MakeInv, MakeTypes, CloudTypes
  <2>2. OnSide(points[i]) /\ OnSide(points[j])
    BY DEF SideInv
  <2>3. PICK p, q : p = points[i] /\ q = points[j]
    OBVIOUS
  <2>4. /\ p \in Int \X Int /\ define(p) = inside
        /\ q \in Int \X Int /\ define(q) = inside
    BY <2>2, <2>3 DEF OnSide
  <2>5. (define(p) = 1 <=> Enclosed(p)) /\ (define(q) = 1 <=> Enclosed(q))
    BY <2>1, <2>3, <2>4, CountsAgree
  <2> QED
    BY <2>3, <2>4, <2>5
<1> QED
  BY <1>1, <1>2, <1>3, MakeHolds, PTL DEF MakeSpec

-----------------------------------------------------------------------------
(* The bounds of indices.                                                  *)

BoundsInv ==
  /\ cloud # "fill" => Len(points) <= want /\ nPolySide <= 1 + Len(elevPoint)
  /\ first \in -1 .. ashN /\ next \in -1 .. ashN
  /\ step \in {"restart", "site", "column", "spread"} => first = 0 /\ next = 0

\* While a cloud is filled, its bounds are in what has been placed by walk.
LEMMA FillBounds ==
  ASSUME CloudTypes, CloudInv, cloud = "fill"
  PROVE  Len(points) <= want /\ nPolySide <= 1 + Len(elevPoint)
<1>1. elevPoint # <<>> /\ nPolySide <= Len(elevPoint) /\ validPoints <= ashNLocal(nPolySide)
      /\ Len(points) = (nPolySide - 1) * (want \div Len(elevPoint)) + validPoints
  BY DEF CloudInv
<1>2. Len(elevPoint) \in Nat /\ nPolySide \in Nat \ {0} /\ validPoints \in Nat /\ want \in Nat
      /\ Len(points) \in Nat
  BY ListLength DEF CloudTypes
<1>3. nPolySide \in 1 .. Len(elevPoint) /\ Len(elevPoint) \in Nat \ {0}
  BY <1>1, <1>2
<1>4. PICK q \in Nat : q = want \div Len(elevPoint)
  BY <1>1, <1>3, ShareOfWalk
<1>5. PICK l \in Nat : l = ashNLocal(nPolySide)
  BY <1>1, <1>3, ShareOfWalk
<1>6. PICK before \in Nat : before = (nPolySide - 1) * q
  <2>1. nPolySide - 1 \in Nat
    BY <1>3
  <2> QED
    BY <1>4, <2>1
<1>7. CASE nPolySide = Len(elevPoint)
  <2>1. before + l = want
    BY <1>1, <1>3, <1>4, <1>5, <1>6, <1>7, ShareOfWalk
  <2>2. Len(points) = before + validPoints /\ validPoints <= l
    BY <1>1, <1>4, <1>5, <1>6
  <2>3. \A b, v, m, w \in Nat : b + m = w /\ v <= m => b + v <= w
    OBVIOUS
  <2>4. Len(points) <= want
    BY <1>2, <1>5, <1>6, <2>1, <2>2, <2>3
  <2> QED
    BY <1>1, <1>2, <2>4
<1>8. CASE nPolySide # Len(elevPoint)
  <2>1. l = q
    BY <1>1, <1>3, <1>4, <1>5, <1>8, ShareOfWalk
  <2>2. PICK n \in Nat, rest \in Nat : n = Len(elevPoint) /\ want = n * q + rest
    BY <1>2, <1>3, <1>4, Quotient
  <2>3. before + q = nPolySide * q
    BY <1>2, <1>6
  <2>4. nPolySide * q <= n * q
    BY <1>3, <1>4, <2>2, Grows
  <2>5. PICK s \in Int, t \in Int : s = nPolySide * q /\ t = n * q
    <3>1. \A i, k \in Nat : i * k \in Int
      OBVIOUS
    <3> QED
      BY <1>2, <1>4, <2>2, <3>1
  <2>6. before + q = s /\ s <= t /\ want = t + rest
    BY <2>2, <2>3, <2>4, <2>5
  <2>7. before + q <= want
    BY <2>2, <2>5, <2>6
  <2>8. Len(points) = before + validPoints /\ validPoints <= q
    BY <1>1, <1>4, <1>5, <1>6, <2>1
  <2>9. \A b, v, m, w \in Nat : b + m <= w /\ v <= m => b + v <= w
    OBVIOUS
  <2>10. before + validPoints <= want
    BY <1>2, <1>4, <1>6, <2>7, <2>8, <2>9
  <2>11. Len(points) <= want
    BY <2>8, <2>10
  <2> QED
    BY <1>1, <1>2, <2>11
<1> QED
  BY <1>7, <1>8

LEMMA BoundsKeep ==
  ASSUME MakeInv, MakeInv', BoundsInv, [MakeNext]_allVars
  PROVE  BoundsInv'
<1>1. /\ CloudTypes /\ CloudInv /\ CloudTypes' /\ CloudInv'
      /\ ashN \in Nat /\ ashNpart \in 0 .. ashN /\ first \in Int /\ next \in Int
  BY DEF MakeInv, MakeTypes
<1>2. ASSUME UNCHANGED cloudVars
      PROVE  cloud' # "fill" => Len(points') <= want' /\ nPolySide' <= 1 + Len(elevPoint')
  BY <1>2 DEF cloudVars, BoundsInv
<1>3. ASSUME first' = first, next' = next, ashN' = ashN \/ (first = 0 /\ next = 0),
             step' = step \/ step' \notin {"restart", "site", "column", "spread"}
                \/ step \in {"restart", "site", "column"}
      PROVE  /\ first' \in -1 .. ashN' /\ next' \in -1 .. ashN'
             /\ step' \in {"restart", "site", "column", "spread"} => first' = 0 /\ next' = 0
  <2>1. ashN' \in Nat
    BY DEF MakeInv, MakeTypes
  <2> QED
    BY <1>3, <2>1 DEF BoundsInv
<1>4. CASE ReadCloud
  <2>1. /\ cloud' = "read" /\ points' = points /\ nPolySide' = nPolySide
        /\ first' = first /\ next' = next /\ step' = step /\ step = "restart"
    BY <1>4 DEF ReadCloud, ReadPoints, locals
  <2>2. points' = <<>> /\ nPolySide' = 1 /\ want' \in Nat /\ Len(elevPoint') \in Nat
    BY <1>1, <2>1, ListLength DEF CloudInv, CloudTypes
  <2>3. Len(points') <= want' /\ nPolySide' <= 1 + Len(elevPoint')
    BY <2>2
  <2> QED
    BY <1>3, <2>1, <2>3 DEF BoundsInv
<1>5. CASE Filling
  <2>1. UNCHANGED makeVars
    BY <1>5 DEF Filling
  <2>2. cloud' # "fill" => Len(points') <= want' /\ nPolySide' <= 1 + Len(elevPoint')
    <3> SUFFICES ASSUME cloud' # "fill"
                 PROVE  Len(points') <= want' /\ nPolySide' <= 1 + Len(elevPoint')
      OBVIOUS
    <3>1. Len(points) <= want /\ nPolySide <= 1 + Len(elevPoint)
      BY <1>1, FillBounds DEF BoundsInv
    <3>2. /\ want' = want /\ points' = points /\ elevPoint' = elevPoint
          /\ nPolySide' = nPolySide
      BY <1>5 DEF Filling, CloudNext, Build, StartWalk, Wander, EndWalk, Place
    <3> QED
      BY <3>1, <3>2
  <2> QED
    BY <1>3, <2>1, <2>2 DEF BoundsInv, makeVars
<1>6. CASE LoadCloud
  <2>1. /\ points' = <<>> /\ want' = 0 /\ nPolySide' = 1 /\ elevPoint' = <<>>
        /\ first' = first /\ next' = next /\ ashN' = ashN /\ step = "restart"
    BY <1>6 DEF LoadCloud, Destroy, locals
  <2>2. Len(points') <= want' /\ nPolySide' <= 1 + Len(elevPoint')
    BY <2>1
  <2> QED
    BY <1>3, <2>1, <2>2 DEF BoundsInv
<1>7. CASE ReadAsh \/ CloudFails \/ NoRestart \/ Site \/ Column
  <2>1. UNCHANGED cloudVars /\ first' = first /\ next' = next
        /\ step \in {"restart", "site", "column"}
    BY <1>7 DEF ReadAsh, CloudFails, NoRestart, Site, Column, locals
  <2>2. first = 0 /\ next = 0
    BY <2>1 DEF BoundsInv
  <2> QED
    BY <1>2, <1>3, <2>1, <2>2 DEF BoundsInv
<1>8. CASE Spread
  <2>1. /\ UNCHANGED cloudVars /\ first' = ashNpart /\ next' = next /\ ashN' = ashN
        /\ step' \in {"normal", "class"}
    BY <1>8 DEF Spread
  <2> QED
    BY <1>1, <1>2, <2>1 DEF BoundsInv
<1>9. CASE NormalSizes \/ SizeRest \/ Age
  <2>1. /\ UNCHANGED cloudVars /\ first' = first /\ next' = next /\ ashN' = ashN
        /\ step' \in {"age", "ready"}
    BY <1>9 DEF NormalSizes, SizeRest, Age, locals
  <2> QED
    BY <1>2, <1>3, <2>1 DEF BoundsInv
<1>10. CASE SizeClass
  <2>1. /\ UNCHANGED cloudVars /\ ashN' = ashN /\ step' = step /\ step = "class"
        /\ class <= Len(percent)
        /\ \E n \in Reached : next' = Limit(n) /\ first' = next'
    BY <1>10 DEF SizeClass
  <2>2. PICK n \in Reached : next' = Limit(n) /\ first' = next'
    BY <2>1
  <2>3. PICK q \in Nat, rest \in 0 .. Whole - 1 :
          /\ percent[class] * totalSize = Whole * q + rest
          /\ \/ n = first + q
             \/ percent[class] * totalSize > 0 /\ rest = 0 /\ n = first + q - 1
    BY <2>1, <2>2, ReachedValues
  <2>4. percent \in SizeShares /\ percent # <<>>
    BY <2>1 DEF MakeInv, MakeTypes, RestartInv
  <2>5. Whole \in Nat \ {0}
    BY <2>4, WholeRight
  <2>6. n \in Int /\ n >= first
    <3>1. CASE n = first + q
      BY <1>1, <3>1
    <3>2. CASE percent[class] * totalSize > 0 /\ rest = 0 /\ n = first + q - 1
      <4>1. q # 0
        <5>1. q = 0 => Whole * q + rest = 0
          BY <2>5, <3>2
        <5> QED
          BY <2>3, <3>2, <5>1
      <4> QED
        BY <1>1, <3>2, <4>1
    <3> QED
      BY <2>3, <3>1, <3>2
  <2>7. totalSize \in Nat /\ totalSize <= ashN
    BY <1>1 DEF totalSize
  <2>8. first >= -1
    BY <1>1 DEF BoundsInv
  <2>9. Limit(n) \in -1 .. ashN
    BY <1>1, <2>6, <2>7, <2>8 DEF Limit
  <2> QED
    BY <1>2, <2>1, <2>2, <2>9 DEF BoundsInv
<1>11. CASE UNCHANGED allVars
  BY <1>2, <1>3, <1>11 DEF allVars, makeVars, BoundsInv
<1> QED
  BY <1>4, <1>5, <1>6, <1>7, <1>8, <1>9, <1>10, <1>11 DEF MakeNext

\* MakeTypeOK of InitialAsh, with the bounds of its indices and of the cloud.
THEOREM MakeTypesCorrect == MakeSpec => []MakeTypeOK
<1>1. MakeInit => BoundsInv
  BY DEF MakeInit, CloudInit, BoundsInv
<1>2. MakeInv /\ MakeInv' /\ BoundsInv /\ [MakeNext]_allVars => BoundsInv'
  BY BoundsKeep
<1>3. MakeInv /\ BoundsInv => MakeTypeOK
  <2> SUFFICES ASSUME MakeInv, BoundsInv PROVE MakeTypeOK
    OBVIOUS
  <2>1. MakeTypes /\ CloudTypes
    BY DEF MakeInv, MakeTypes
  <2>2. DOMAIN particle = 0 .. ashN - 1
    BY <2>1 DEF MakeTypes
  <2>3. Len(points) <= want /\ nPolySide <= 1 + Len(elevPoint)
    BY <2>1, FillBounds DEF BoundsInv, MakeInv
  <2>4. nPolySide \in 1 .. 1 + Len(elevPoint)
    BY <2>1, <2>3, ListLength DEF CloudTypes
  <2> QED
    BY <2>1, <2>2, <2>3, <2>4 DEF MakeTypes, CloudTypes, BoundsInv, MakeTypeOK
<1> QED
  BY <1>1, <1>2, <1>3, MakeHolds, PTL DEF MakeSpec

=============================================================================

------------------------------- MODULE AshSim -------------------------------
(***************************************************************************)
(* The integration loop of puff: run_puff() in puff.C together with the    *)
(* bookkeeping of class Ash it drives (initialize, ground, outOfBounds,    *)
(* stashData, clearStash) and the output calls made from inside the loop.  *)
(*                                                                         *)
(* A run is one or more passes (-repeat).  A pass creates the ash, then    *)
(* advances the clock from the eruption date to the end date; at each tick *)
(* it visits every particle once, moves the active ones, and afterwards    *)
(* dumps the cloud when a save interval has gone by.  Winds, diffusion and *)
(* terrain decide only where a move lands, so a move is a choice of the    *)
(* landing region; everything the code does with that landing is kept.     *)
(*                                                                         *)
(* A definition named after another with a suffix (OutOfBoundsAlways, ...) *)
(* is a plausible mistake in that operation.  Nothing here uses it; put in *)
(* place of the right one it must break a property.                        *)
(***************************************************************************)
EXTENDS Integers, Sequences, FiniteSets

CONSTANTS
  N,                    \* ashN: particles in the Ash object
  NPart,                \* ashNpart: the first NPart come from the restart file
  Restart,              \* what -restartFile names: "none", "ash" or "cloud"
  FileBirths,           \* start times found in a restart ash file
  EruptDate,            \* eruptDate_t
  RunHours, SaveHours, EruptHours, Dt,  \* the options, in seconds
  Minute,               \* seconds in a minute, the resolution of a file name
  Repeat,               \* argument.repeat (-1 when the option is absent)
  Global,               \* atm->isGlobal()
  SaveAshInit, AshOutput, AverageOutput, ComputeConcentration, GridOutput

ASSUME SizeAssumption ==
  /\ N \in Nat \ {0}
  /\ NPart \in 0 .. N
  /\ Restart \in {"none", "ash", "cloud"}
  /\ Restart = "none" => NPart = 0

\* make_timevars rejects negative values.  A step of zero seconds passes that
\* test and the clock then never advances; it is excluded here.
ASSUME TimeAssumption ==
  /\ EruptDate \in Nat
  /\ RunHours \in Nat /\ SaveHours \in Nat /\ EruptHours \in Nat
  /\ Dt \in Nat \ {0} /\ Minute \in Nat \ {0}
  /\ FileBirths \subseteq Int

\* parse_options ignores a larger -repeat.
ASSUME OptionAssumption ==
  /\ Repeat \in Int /\ Repeat <= 999
  /\ {Global, SaveAshInit, AshOutput, AverageOutput,
      ComputeConcentration, GridOutput} \subseteq BOOLEAN

-----------------------------------------------------------------------------
(* Times: parse_options lowers the save interval to the run length, then   *)
(* make_timevars raises both to the time step.                             *)

dtMins_tTruncated == 0

dtMins_t     == Dt
eruptHours_t == IF EruptHours > RunHours THEN RunHours ELSE EruptHours
runHours_t   == IF RunHours < dtMins_t THEN dtMins_t ELSE RunHours
saveRequest  == IF RunHours < SaveHours THEN RunHours ELSE SaveHours
saveHours_t  == IF saveRequest < dtMins_t THEN dtMins_t ELSE saveRequest
endDate_t    == EruptDate + runHours_t

Particles == 0 .. N - 1

\* Where a position lies with respect to the wind grid.  "west" is beyond xMin
\* only, the one face onto which the regional branch pulls a particle back;
\* lvl is the answer of containsZPoint.  The global branch wraps y at the poles
\* and x by a whole turn and then asks for the height alone: "around" is any
\* horizontal place this leaves, inside the grid, between xMax and a turn from
\* xMin (wrapped there and back again) or nearer to a pole than the last row.
\* Nothing reads the place a particle starts from, so until its first move it
\* is at Source.
Positions == [xy : {"inside", "west", "outside", "around"}, lvl : {-1, 0, 1}]
Source    == [xy |-> "source", lvl |-> 0]

\* Landings a move can have.
Landings == {p \in Positions : p.xy = "around" <=> Global}

Contains(p) == p.xy = "inside" /\ p.lvl = 0

\* Start times drawn by init_age for new particles.
BirthTimes == EruptDate .. EruptDate + (IF eruptHours_t > 0 THEN eruptHours_t - 1 ELSE 0)

-----------------------------------------------------------------------------
VARIABLES
  pc,              \* "begin", "particles", "gridded", or how the run ended
  pass,            \* repeat_count
  clock,           \* clock_t
  idx,             \* i, the particle visited next
  early,           \* EarlyEndOfSimulation
  printOut,        \* printOut_t
  ashClock,        \* ash.clockTime
  start, grounded, exists,       \* Particle::startTime, grounded, exists
  r,               \* Particle::x, y, z
  numGrounded, numOutOfBounds,
  recParticle, recTime,          \* the stash, one slice per record
  avgSlices,       \* time slices the running-average arrays hold, -1 before
  files,           \* names of the ash files written, with what they hold
  gridFiles,       \* gridded files written
  \* history variables, read by no action
  loaded,          \* particles the restart file already had stopped
  moves,           \* moves of each particle in this pass
  dumps            \* stamps of the write_ash calls of this pass

ashVars  == <<start, grounded, exists, r, numGrounded, numOutOfBounds>>
stash    == <<recParticle, recTime>>
history  == <<loaded, moves, dumps>>
vars == <<pc, pass, clock, idx, early, printOut, ashClock, ashVars, stash,
          avgSlices, files, gridFiles, history>>

FirstPass == IF Repeat >= 0 THEN 0 ELSE -1

Stopped(i) == grounded[i] \/ ~exists[i]
ActiveAfterBirth(i) == clock > start[i] /\ ~grounded[i] /\ exists[i]

ActiveIfGone(i) == clock >= start[i] /\ ~grounded[i]

Active(i)  == clock >= start[i] /\ ~grounded[i] /\ exists[i]

Ended == {"done", "failed", "crashed"}

-----------------------------------------------------------------------------
(* Ash::ground and Ash::outOfBounds, on the flags of one particle and the  *)
(* two counters.                                                           *)

View(i) == [grounded |-> grounded[i], exists |-> exists[i],
            numGrounded |-> numGrounded, numOutOfBounds |-> numOutOfBounds]

Ground(c) ==
  [c EXCEPT !.grounded = TRUE,
            !.numGrounded = IF c.exists THEN @ + 1 ELSE @]

OutOfBoundsAlways(c) ==
  [c EXCEPT !.exists = FALSE, !.numOutOfBounds = @ + 1]

OutOfBoundsUndo(c) ==
  [c EXCEPT !.exists = FALSE,
            !.numOutOfBounds = IF c.grounded THEN @ - 1 ELSE @ + 1]

OutOfBounds(c) ==
  [c EXCEPT !.exists = FALSE,
            !.numOutOfBounds = IF c.grounded THEN @ ELSE @ + 1]

LastMovingSoon(c) == c.numOutOfBounds + c.numGrounded >= N - 1

\* The flag both return: was this the last particle left moving?
LastMoving(c) == c.numOutOfBounds + c.numGrounded >= N

LeavesSideways(c, p) ==
  IF Global THEN p.lvl # 0 /\ ~c.grounded ELSE p.xy # "inside"

LeavesGrounded(c, p) == IF Global THEN p.lvl # 0 ELSE ~Contains(p)

\* Does the bounds test that follows the ground test put c outside?
Leaves(c, p) ==
  IF Global THEN p.lvl # 0 /\ ~c.grounded ELSE ~Contains(p)

\* The global branch puts the particle on the vertical bound it crossed, the
\* regional one only pulls x back to xMin.
Clamp(p) ==
  IF Global THEN [p EXCEPT !.lvl = 0]
  ELSE IF p.xy = "west" THEN [p EXCEPT !.xy = "inside"] ELSE p

RepeatGuardNone(e) == e

\* "do not end early with repeat runs": the last statement of the loop body.
RepeatGuard(e) == e /\ Repeat <= 0

-----------------------------------------------------------------------------
(* Output.                                                                 *)

\* write_ash skips the file of every pass but the last one when averaging.
WritesFile == AshOutput /\ ~(AverageOutput /\ pass # Repeat)

StashesWritten == ComputeConcentration /\ WritesFile

\* write_ash stashes the cloud whether or not the file was skipped.
Stashes == ComputeConcentration

FileNameHour(f) == <<f.stamp \div (60 * Minute), f.pass>>

\* A file is named by its stamp, to the minute, and the pass in three digits,
\* enough for the largest -repeat.
FileName(f) == <<f.stamp \div Minute, f.pass>>

\* Ash::write creates the file for stamp t or replaces one of the same name.
Written(t) ==
  LET new == [pass |-> pass, stamp |-> t]
  IN  {f \in files : FileName(f) # FileName(new)} \cup {new}

\* The unborn of a slice no longer exist.
Marked(slice, now, st) ==
  [i \in Particles |->
     [slice[i] EXCEPT !.exists = slice[i].exists /\ st[i] <= now]]

\* Ash::stashData pushes a copy of every particle; the unborn are marked in
\* recParticle[i], i counting from the first record of the stash.
Stashed(rec, now, st, ex, gr) ==
  LET grown == Append(rec, [i \in Particles |->
                              [exists |-> ex[i], grounded |-> gr[i]]])
  IN  [grown EXCEPT ![1] = Marked(grown[1], now, st)]

-----------------------------------------------------------------------------
Init ==
  /\ pc = "begin" /\ pass = FirstPass
  /\ clock = EruptDate /\ idx = 0 /\ early = FALSE
  /\ printOut = 0 /\ ashClock = 0
  /\ start = [i \in Particles |-> 0]
  /\ grounded = [i \in Particles |-> FALSE]
  /\ exists = [i \in Particles |-> TRUE]
  /\ r = [i \in Particles |-> Source]
  /\ numGrounded = 0 /\ numOutOfBounds = 0
  /\ recParticle = <<>> /\ recTime = <<>> /\ avgSlices = -1
  /\ files = {} /\ gridFiles = 0
  /\ loaded = {} /\ moves = [i \in Particles |-> 0] /\ dumps = <<>>

\* One particle as make_ash leaves it.  A particle of an ash file keeps the
\* file's flags, one of a cloud has start time -1, a new one is drawn by
\* init_age.  A stopped particle of a file stopped before the restart.
Fresh(i, p) ==
  CASE i < NPart /\ Restart = "ash" ->
         /\ p.start \in FileBirths
         /\ p.grounded \/ ~p.exists => p.start <= EruptDate
    [] i < NPart /\ Restart # "ash" ->
         p = [start |-> -1, grounded |-> FALSE, exists |-> TRUE]
    [] OTHER -> p.start \in BirthTimes /\ ~p.grounded /\ p.exists

Made == [start : FileBirths \cup BirthTimes \cup {-1},
         grounded : BOOLEAN, exists : BOOLEAN]

\* The top of a pass: Ash::initialize, make_ash (with the stash cleared and the
\* initial dump taken) and the loop variables.
BeginPass ==
  /\ pc = "begin"
  /\ \E made \in {m \in [Particles -> Made] : \A i \in Particles : Fresh(i, m[i])} :
       /\ start' = [i \in Particles |-> made[i].start]
       /\ grounded' = [i \in Particles |-> made[i].grounded]
       /\ exists' = [i \in Particles |-> made[i].exists]
       /\ loaded' = {i \in Particles : made[i].grounded \/ ~made[i].exists}
  /\ numGrounded' = 0 /\ numOutOfBounds' = 0
  /\ r' = [i \in Particles |-> Source] /\ moves' = [i \in Particles |-> 0]
  /\ clock' = EruptDate /\ ashClock' = EruptDate
  /\ idx' = 0 /\ early' = FALSE /\ printOut' = 0
  /\ LET save == SaveAshInit /\ Repeat <= 0
     IN  /\ dumps' = IF save THEN <<EruptDate>> ELSE <<>>
         /\ files' = IF save /\ WritesFile THEN Written(EruptDate) ELSE files
         /\ recTime' = IF save /\ Stashes THEN <<EruptDate>> ELSE <<>>
         /\ recParticle' = IF save /\ Stashes
                           THEN Stashed(<<>>, EruptDate, start', exists', grounded')
                           ELSE <<>>
  /\ pc' = "particles"
  /\ UNCHANGED <<pass, avgSlices, gridFiles>>

\* A volcano outside the winds, a bad plume shape or no particles: the first
\* pass returns PUFF_ERROR.  (What it looks at is the same in every pass.)
Reject ==
  /\ pc = "begin" /\ pass = FirstPass
  /\ pc' = "failed"
  /\ UNCHANGED <<pass, clock, idx, early, printOut, ashClock, ashVars, stash,
                 avgSlices, files, gridFiles, history>>

\* The body of the particle loop for an active particle: it lands at p, at or
\* below the terrain if hit.  In the global branch a particle grounded outside
\* the vertical bounds leaves the body by "continue".
MoveParticle(hit, p) ==
  LET c1   == IF hit THEN Ground(View(idx)) ELSE View(idx)
      out  == Leaves(c1, p)
      c2   == IF out THEN OutOfBounds(c1) ELSE c1
      last == early \/ (hit /\ LastMoving(c1)) \/ (out /\ LastMoving(c2))
      skip == Global /\ p.lvl # 0 /\ c1.grounded
  IN  /\ pc = "particles" /\ idx < N /\ Active(idx)
      /\ grounded' = [grounded EXCEPT ![idx] = c2.grounded]
      /\ exists' = [exists EXCEPT ![idx] = c2.exists]
      /\ numGrounded' = c2.numGrounded
      /\ numOutOfBounds' = c2.numOutOfBounds
      /\ r' = [r EXCEPT ![idx] = IF out THEN Clamp(p) ELSE p]
      /\ moves' = [moves EXCEPT ![idx] = @ + 1]
      /\ early' = IF skip THEN last ELSE RepeatGuard(last)
      /\ idx' = idx + 1
      /\ UNCHANGED <<pc, pass, clock, printOut, ashClock, start, stash, avgSlices,
                     files, gridFiles, loaded, dumps>>

\* The body for a particle that is unborn, grounded or gone.
PassOver ==
  /\ pc = "particles" /\ idx < N /\ ~Active(idx)
  /\ early' = RepeatGuard(early)
  /\ idx' = idx + 1
  /\ UNCHANGED <<pc, pass, clock, printOut, ashClock, ashVars, stash, avgSlices,
                 files, gridFiles, history>>

Due == printOut >= saveHours_t

\* After the particles: dump when due, advance the clocks, test the loop.
EndTick ==
  /\ pc = "particles" /\ idx = N
  /\ dumps' = IF Due THEN Append(dumps, clock) ELSE dumps
  /\ files' = IF Due /\ WritesFile THEN Written(clock) ELSE files
  /\ recTime' = IF Due /\ Stashes
                THEN Append(recTime, ashClock) ELSE recTime
  /\ recParticle' = IF Due /\ Stashes
                    THEN Stashed(recParticle, clock, start, exists, grounded)
                    ELSE recParticle
  /\ printOut' = (IF Due THEN 0 ELSE printOut) + dtMins_t
  /\ ashClock' = ashClock + dtMins_t
  /\ clock' = clock + dtMins_t
  /\ idx' = 0
  /\ pc' = IF clock' <= endDate_t /\ ~early THEN "particles" ELSE "gridded"
  /\ UNCHANGED <<pass, early, ashVars, avgSlices, gridFiles, loaded, moves>>

\* Ash::write cannot create its file and exits, leaving the earlier ones.
OutputFails ==
  /\ pc = "particles" /\ idx = N /\ Due /\ WritesFile
  /\ pc' = "failed"
  /\ UNCHANGED <<pass, clock, idx, early, printOut, ashClock, ashVars, stash,
                 avgSlices, files, gridFiles, history>>

\* writeGriddedData, then the test of the repeat loop.  The averages are
\* allocated once, for the slices of that pass.  With an empty stash min_element
\* of an empty vector is dereferenced: it reads stale memory if an earlier pass
\* filled the vector,
EndPass ==
  /\ pc = "gridded"
  /\ ComputeConcentration => recTime # <<>> \/ avgSlices # -1
  /\ avgSlices' = IF ComputeConcentration /\ avgSlices = -1
                  THEN Len(recTime) ELSE avgSlices
  /\ gridFiles' = IF ComputeConcentration /\ GridOutput /\ pass = Repeat
                  THEN gridFiles + 1 ELSE gridFiles
  /\ pass' = pass + 1
  /\ pc' = IF pass < Repeat THEN "begin" ELSE "done"
  /\ UNCHANGED <<clock, idx, early, printOut, ashClock, ashVars, stash, files, history>>

\* ... and a null pointer if nothing ever did.
EmptyStash ==
  /\ pc = "gridded" /\ ComputeConcentration /\ recTime = <<>> /\ avgSlices = -1
  /\ pc' = "crashed"
  /\ UNCHANGED <<pass, clock, idx, early, printOut, ashClock, ashVars, stash,
                 avgSlices, files, gridFiles, history>>

Terminated == pc \in Ended /\ UNCHANGED vars

Step == BeginPass \/ Reject
        \/ (\E hit \in BOOLEAN, p \in Landings : MoveParticle(hit, p))
        \/ PassOver \/ EndTick \/ OutputFails \/ EndPass \/ EmptyStash

Next == Step \/ Terminated

Spec == Init /\ [][Next]_vars

\* One thread: the program takes its next step whenever it has one.
FairSpec == Spec /\ WF_vars(Step)

-----------------------------------------------------------------------------
(* Properties.                                                             *)

Copies == [Particles -> [exists : BOOLEAN, grounded : BOOLEAN]]

\* Every variable of run_puff and of the Ash object holds a value of its type.
TypeOK ==
  /\ pc \in {"begin", "particles", "gridded"} \cup Ended
  /\ pass \in Int /\ clock \in Int /\ idx \in 0 .. N /\ early \in BOOLEAN
  /\ printOut \in Nat /\ ashClock \in Int
  /\ start \in [Particles -> Int]
  /\ grounded \in [Particles -> BOOLEAN] /\ exists \in [Particles -> BOOLEAN]
  /\ r \in [Particles -> Positions \cup {Source}]
  /\ numGrounded \in Nat /\ numOutOfBounds \in Nat
  /\ recParticle \in Seq(Copies) /\ recTime \in Seq(Int)
  /\ avgSlices \in Int
  /\ files \subseteq [pass : Int, stamp : Int] /\ gridFiles \in Nat
  /\ loaded \subseteq Particles /\ moves \in [Particles -> Nat] /\ dumps \in Seq(Int)

\* The two counters of Ash partition the particles stopped in this pass: one
\* that hits the ground outside the grid is counted by ground() and not again
\* by outOfBounds().
Counters ==
  /\ numGrounded = Cardinality({i \in Particles \ loaded : grounded[i]})
  /\ numOutOfBounds =
       Cardinality({i \in Particles \ loaded : ~grounded[i] /\ ~exists[i]})

\* The loop gives up early only when no particle can move again, the unborn
\* ones included.
EarlyMeansStopped == early => \A i \in Particles : Stopped(i)

\* "bail if this is the last particle moving": once every particle has stopped,
\* a run without repeats leaves the loop at the end of the tick.
LastMovingEnds ==
  pc = "particles" /\ idx = N /\ Repeat <= 0 /\ (\A i \in Particles : Stopped(i))
    => early

\* "do not end early with repeat runs": a pass of a repeat run reaches the end
\* date.
RepeatRunsFull == pc = "gridded" /\ Repeat > 0 => clock > endDate_t

\* A particle that still moves is inside the winds that the next move
\* interpolates at its position; with global winds, of its height alone.
InsideWinds(p) == IF Global THEN p.lvl = 0 ELSE Contains(p)
MovedInside ==
  \A i \in Particles : moves[i] > 0 /\ ~Stopped(i) => InsideWinds(r[i])

\* When the particles of a tick are done, one that never stopped has been moved
\* once for every tick from its birth to this one.
OneMovePerTick ==
  pc = "particles" /\ idx = N =>
    \A i \in Particles : ~Stopped(i) =>
      moves[i] = Cardinality({t \in EruptDate .. clock :
                                t >= start[i] /\ (t - EruptDate) % Dt = 0})

\* Dumps are taken at least a save interval apart and less than a step later.
DumpGap(a, b) == saveHours_t <= b - a /\ b - a < saveHours_t + Dt
DumpsOnTime ==
  /\ \A j \in 1 .. Len(dumps) - 1 : DumpGap(dumps[j], dumps[j + 1])
  /\ dumps # <<>> => dumps[1] = EruptDate \/ DumpGap(EruptDate, dumps[1])

\* The records of the stash are the dumps of this pass, stamped alike although
\* one stamp is clock_t and the other the clock of the Ash object.
StashFollowsDumps ==
  /\ ComputeConcentration => recTime = dumps
  /\ Len(recParticle) = Len(recTime)

\* Ash::stashData: "mark those that have not been born non-existing so they are
\* not counted in the concentration grids".
UnbornMarked ==
  \A s \in 1 .. Len(recTime), i \in Particles :
    start[i] > recTime[s] => ~recParticle[s][i].exists

\* A particle may be grounded below the vertical bounds, "which is OK": it is
\* deposited ash and still exists.
GroundedExists ==
  \A i \in Particles \ loaded : grounded[i] /\ r[i].xy \in {"inside", "around"} => exists[i]

\* A particle the restart file had grounded or lost is never moved again.
LoadedStay == \A i \in loaded : moves[i] = 0

\* No ash file replaces another file of the same run.
NoOverwrite == [][\A f \in files : f \in files']_files

\* The run ends.
Termination == <>(pc \in Ended)

-----------------------------------------------------------------------------
(* What the loop implements.  A particle moves until it is grounded or     *)
(* gone, and the current save interval began printOut seconds ago.         *)

Phase == CASE pc = "begin"     -> "setup"
           [] pc = "particles" -> "running"
           [] pc = "gridded"   -> "passed"
           [] pc = "done"      -> "done"
           [] OTHER            -> "failed"

Moving == {i \in Particles : ~Stopped(i)}

\* A global run may end early even with repeats, and one restarted from an ash
\* file may go on although everything has stopped.
Run == INSTANCE AshRun WITH
         EndDate <- endDate_t, Step <- Dt, Interval <- saveHours_t,
         LastPass <- Repeat, EndsEarly <- Repeat <= 0 \/ Global,
         Punctual <- Repeat <= 0 /\ Restart # "ash",
         phase <- Phase, now <- clock, moving <- Moving, saved <- clock - printOut

\* Through ticks, moves, counters and flags, the loop is a run as AshRun
\* describes it.
ImplementsRun == Run!Spec
=============================================================================

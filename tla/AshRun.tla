------------------------------- MODULE AshRun -------------------------------
(***************************************************************************)
(* What a run of puff promises, without saying how: in every pass the      *)
(* clock goes by steps from the eruption date, particles stop one by one   *)
(* and never start again, the cloud is saved whenever a save interval has  *)
(* gone by, and the pass is over after the end date -- or before it, in a  *)
(* run without repeats, when nothing is left to move.                      *)
(***************************************************************************)
EXTENDS Integers

CONSTANTS
  Particles,
  EruptDate, EndDate,   \* the first time of a pass and the last
  Step, Interval,       \* seconds between times, and between two saved clouds
  FirstPass, LastPass,
  EndsEarly,            \* may a pass end because nothing moves?
  Punctual              \* must it?

VARIABLES
  phase,    \* "setup", "running", "passed", or "done" or "failed"
  pass,
  now,
  moving,   \* particles that may move again
  saved     \* when the interval now running began

vars == <<phase, pass, now, moving, saved>>

Init ==
  /\ phase = "setup" /\ pass = FirstPass
  /\ now = EruptDate /\ saved = EruptDate
  /\ moving = Particles

Erupt ==
  /\ phase = "setup" /\ phase' = "running"
  /\ now' = EruptDate /\ saved' = EruptDate
  /\ moving' \in SUBSET Particles
  /\ UNCHANGED pass

Stop ==
  /\ phase = "running"
  /\ \E i \in moving : moving' = moving \ {i}
  /\ UNCHANGED <<phase, pass, now, saved>>

\* A run that is not Punctual may go on although nothing moves.
Tick ==
  /\ phase = "running"
  /\ saved' = IF now - saved >= Interval THEN now ELSE saved
  /\ now' = now + Step
  /\ \/ /\ phase' = "running" /\ now' <= EndDate
        /\ Punctual => moving # {}
     \/ /\ phase' = "passed"
        /\ now' > EndDate \/ (EndsEarly /\ moving = {})
  /\ UNCHANGED <<pass, moving>>

NextPass ==
  /\ phase = "passed"
  /\ phase' = IF pass < LastPass THEN "setup" ELSE "done"
  /\ pass' = pass + 1
  /\ UNCHANGED <<now, moving, saved>>

Fail ==
  /\ phase \in {"setup", "running", "passed"}
  /\ phase' = "failed"
  /\ UNCHANGED <<pass, now, moving, saved>>

Next == Erupt \/ Stop \/ Tick \/ NextPass \/ Fail

Spec == Init /\ [][Next]_vars

=============================================================================

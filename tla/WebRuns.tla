------------------------------ MODULE WebRuns -------------------------------
(***************************************************************************)
(* The web interface: login.pl opens sessions, runParams.pl runs puff and  *)
(* deletes runs.  The server (MiniHttpd) forks a process for every request *)
(* so that requests of one session overlap; all they share is the          *)
(* directory tree, and every system call on it is a step.  Only rm -r,     *)
(* which makes many, is one: what is written into a directory while rm is  *)
(* at work keeps it there, as what is written right behind it makes it     *)
(* again.                                                                  *)
(*                                                                         *)
(* A run directory is named after its volcano with a number behind it.     *)
(* The runs modelled are those of one session, Home: the directories of    *)
(* two sessions never meet.  A definition that nothing uses is a plausible *)
(* mistake in the definition after it.                                     *)
(***************************************************************************)
EXTENDS Integers, Sequences, FiniteSets, SequencesExt

CONSTANTS
  Requests,     \* requests served, each by a process of its own
  Typed,        \* what users type as a session ID
  ValidID,      \* those of Typed that checkID accepts
  Clean,        \* cleanID: the session each of Typed stands for
  Home,         \* the session whose runs are modelled
  Volcanos,     \* names in the volcano list
  Longer,       \* <<v, w>>: the name w is v with more letters behind it
  Earlier,      \* numbers (0: none) that runs of FirstVolcano in Home may have
  FirstVolcano,
  MaxNumber     \* bound on the numbers

ASSUME WebAssumption ==
  /\ 0 \notin Requests /\ ValidID \subseteq Typed
  /\ FirstVolcano \in Volcanos /\ Longer \subseteq Volcanos \X Volcanos
  /\ MaxNumber \in 10 .. 99 /\ Earlier \subseteq SUBSET (0 .. MaxNumber)
  /\ Home \in {Clean[t] : t \in Typed}

VARIABLES
  sessions,     \* directories under run/
  before,       \* history: those that were there at the start
  dirs,         \* the run directories of Home, with what is in them
  past,         \* names that a form may still show
  pc,           \* where each request is
  job           \* what it works on

vars == <<sessions, before, dirs, past, pc, job>>

Names  == [volc : Volcanos, n : 0 .. MaxNumber]
NoName == [volc |-> "", n |-> 0]

\* A directory holds puff.log and the output of some runs.
Contents == [log : Seq(Requests \cup {0}), out : SUBSET (Requests \cup {0})]
Empty == [log |-> <<>>, out |-> {}]

\* What a request keeps: id or directory it works on; whether it makes the
\* directory itself; and, for the properties, whether it found its directory
\* there, who had chosen the same, and whether it was removed under it.
NoJob == [id |-> "", dir |-> NoName, fresh |-> FALSE, wrote |-> FALSE,
          saw |-> FALSE, rivals |-> {}, cut |-> FALSE]

Job == [id : Typed \cup {""}, dir : Names \cup {NoName}, fresh : BOOLEAN,
        wrote : BOOLEAN, saw : BOOLEAN, rivals : SUBSET Requests, cut : BOOLEAN]

\* "unnoticed": puff failed, and the script took it for a success.
Finished == {"invalid", "exists", "nosession", "created", "ok", "error",
             "unnoticed", "aborted", "deleted"}

-----------------------------------------------------------------------------
(* Names.  glob sorts "X", "X1", "X10", "X2", ..., "X9", and a name that   *)
(* continues X with a letter comes behind them all.                        *)

InOrder(n) == IF n < 10 THEN 11 * n ELSE 11 * (n \div 10) + (n % 10) + 1

Matching(v) == {d \in DOMAIN dirs : d.volc = v \/ <<v, d.volc>> \in Longer}

Sorted(v, d, e) ==
  IF (d.volc = v) = (e.volc = v) THEN InOrder(d.n) <= InOrder(e.n) ELSE d.volc = v

LastMatching(v) ==
  CHOOSE d \in Matching(v) : \A e \in Matching(v) : Sorted(v, e, d)

NextNumberCounted(v) == Cardinality(Matching(v))

\* One more than the number at the end of the last name; a name without one
\* leaves $1 undefined, which counts as zero.
NextNumber(v) == IF Matching(v) = {} THEN 0 ELSE LastMatching(v).n + 1

\* Requests of the web that work in directory d.
AtWork(d) == {r \in Requests : pc[r] \in {"made", "puff", "failed"}
                                /\ job[r].dir = d}

\* rm -r by one request: the directory goes, and what works in it keeps what it
\* had open.
Removed(d, by) ==
  /\ dirs' = [e \in DOMAIN dirs \ {d} |-> dirs[e]]
  /\ job' = [r \in Requests |->
               IF r = by THEN [job[r] EXCEPT !.dir = d]
               ELSE IF d \in DOMAIN dirs /\ r \in AtWork(d)
               THEN [job[r] EXCEPT !.cut = TRUE] ELSE job[r]]

-----------------------------------------------------------------------------
Init ==
  /\ sessions \in {{}, {Home}} /\ before = sessions
  /\ \E ran \in Earlier :
       dirs = [d \in IF Home \in sessions
                      THEN {[volc |-> FirstVolcano, n |-> k] : k \in ran} ELSE {}
                  |-> [log |-> <<0>>, out |-> {0}]]
  /\ past = DOMAIN dirs
  /\ pc = [r \in Requests |-> "new"]
  /\ job = [r \in Requests |-> NoJob]

Goto(r, label) == pc' = [pc EXCEPT ![r] = label]

\* createSession: checkID, cleanID and the test for an existing directory.
TestSession(r, t) ==
  /\ pc[r] = "new"
  /\ Goto(r, IF t \notin ValidID THEN "invalid"
             ELSE IF Clean[t] \in sessions THEN "exists" ELSE "tested")
  /\ job' = [job EXCEPT ![r].id = t]
  /\ UNCHANGED <<before, sessions, dirs, past>>

MakeSessionAnyway(r) ==
  /\ pc[r] = "tested"
  /\ sessions' = sessions \cup {Clean[job[r].id]}
  /\ Goto(r, "created")
  /\ UNCHANGED <<before, dirs, past, job>>

\* mkdir fails, and with it the request, if the directory is there by now.
MakeSession(r) ==
  /\ pc[r] = "tested"
  /\ sessions' = sessions \cup {Clean[job[r].id]}
  /\ Goto(r, IF Clean[job[r].id] \in sessions THEN "nosession" ELSE "created")
  /\ UNCHANGED <<before, dirs, past, job>>

-----------------------------------------------------------------------------
(* runParams.pl, process_form.                                             *)

\* The name for a new run: taken from a listing of the directories there are.
NameRun(r, v) ==
  LET d == [volc |-> v, n |-> NextNumber(v)]
  IN  /\ pc[r] = "new" /\ Home \in sessions /\ d \in Names
      /\ job' = [job EXCEPT ![r].dir = d, ![r].fresh = TRUE,
                            ![r].saw = d \in DOMAIN dirs,
                            ![r].rivals = {q \in Requests : pc[q] = "named"
                                                            /\ job[q].dir = d}]
      /\ Goto(r, "named")
      /\ UNCHANGED <<before, sessions, dirs, past>>

\* A run restarted from a file of an earlier one uses its directory as well.
Restart(r, d) ==
  /\ pc[r] = "new" /\ Home \in sessions /\ d \in past
  /\ job' = [job EXCEPT ![r].dir = d]
  /\ Goto(r, "made")
  /\ UNCHANGED <<before, sessions, dirs, past>>

\* mkdir, whose failure is ignored.
MakeDir(r) ==
  LET d == job[r].dir
  IN  /\ pc[r] = "named"
      /\ dirs' = IF d \in DOMAIN dirs THEN dirs
                 ELSE [e \in DOMAIN dirs \cup {d} |-> IF e = d THEN Empty ELSE dirs[e]]
      /\ past' = past \cup {d}
      /\ Goto(r, "made")
      /\ UNCHANGED <<before, sessions, job>>

\* The command goes to puff.log, if the directory is there to hold it, and
\* puff starts.
StartPuff(r) ==
  /\ pc[r] = "made"
  /\ dirs' = IF job[r].dir \in DOMAIN dirs
             THEN [dirs EXCEPT ![job[r].dir].log = Append(@, r)] ELSE dirs
  /\ Goto(r, "puff")
  /\ UNCHANGED <<before, sessions, past, job>>

\* Ash::write makes the output directory again when it is missing.
Dump(r) ==
  LET d == job[r].dir
      was == IF d \in DOMAIN dirs THEN dirs[d] ELSE Empty
  IN  /\ pc[r] = "puff"
      /\ dirs' = [e \in DOMAIN dirs \cup {d} |->
                    IF e = d THEN [was EXCEPT !.out = @ \cup {r}] ELSE dirs[e]]
      /\ past' = past \cup {d}
      /\ job' = [job EXCEPT ![r].wrote = TRUE]
      /\ UNCHANGED <<before, sessions, pc>>

\* The last line of output has been read.  Puff may fail at any time; the script
\* takes a line "ERROR:" for a failure and nothing else, neither puff's status nor
\* that of the shell.
EndPuff(r) ==
  /\ pc[r] = "puff"
  /\ \E end \in {"ok", "failed", "unnoticed"} : (end = "ok" => job[r].wrote) /\ Goto(r, end)
  /\ UNCHANGED <<before, sessions, dirs, past, job>>

RemoveNothing(r) ==
  /\ pc[r] = "failed" /\ Goto(r, "error")
  /\ UNCHANGED <<before, sessions, dirs, past, job>>

RemoveMatching(r) ==
  /\ pc[r] = "failed"
  /\ dirs' = [e \in DOMAIN dirs \ Matching(job[r].dir.volc) |-> dirs[e]]
  /\ Goto(r, "error")
  /\ UNCHANGED <<before, sessions, past, job>>

\* "remove folders with errors"
RemoveFailed(r) ==
  /\ pc[r] = "failed"
  /\ Removed(job[r].dir, r)
  /\ Goto(r, "error")
  /\ UNCHANGED <<before, sessions, past>>

\* The alarm of the server kills the script, at any point of it; or the user closes
\* the page, and the script dies writing to it.  Puff dies writing to the script.
Abort(r) ==
  /\ pc[r] \in {"tested", "named", "made", "puff", "failed"}
  /\ Goto(r, "aborted")
  /\ UNCHANGED <<before, sessions, dirs, past, job>>

\* delete_previous
DeletePrevious(r, d) ==
  /\ pc[r] = "new" /\ d \in past
  /\ Removed(d, r)
  /\ Goto(r, "deleted")
  /\ UNCHANGED <<before, sessions, past>>

-----------------------------------------------------------------------------
Served(r) ==
  \/ \E t \in Typed : TestSession(r, t)
  \/ MakeSession(r)
  \/ \E v \in Volcanos : NameRun(r, v)
  \/ \E d \in past : Restart(r, d) \/ DeletePrevious(r, d)
  \/ MakeDir(r) \/ StartPuff(r) \/ Dump(r) \/ EndPuff(r) \/ RemoveFailed(r)
  \/ Abort(r)

Terminated == (\A r \in Requests : pc[r] \in Finished) /\ UNCHANGED vars

Next == (\E r \in Requests : Served(r)) \/ Terminated

Spec == Init /\ [][Next]_vars
-----------------------------------------------------------------------------
(* Properties.                                                             *)

\* Every variable holds a value of its type.
TypeOK ==
  /\ before \subseteq sessions /\ sessions \subseteq {Clean[t] : t \in Typed}
  /\ DOMAIN dirs \subseteq past /\ past \subseteq Names
  /\ \A d \in DOMAIN dirs : dirs[d] \in Contents
  /\ pc \in [Requests -> Finished \cup {"new", "tested", "named", "made", "puff",
                                      "failed"}]
  /\ job \in [Requests -> Job]

\* Two users who type IDs that clean to the same name are not both told that
\* they have opened the session, and nobody opens one that was there before.
OneMakerEach ==
  \A r \in Requests : pc[r] = "created" =>
    /\ Clean[job[r].id] \notin before
    /\ \A q \in Requests : pc[q] = "created" /\ Clean[job[q].id] = Clean[job[r].id] => q = r

\* Whose run is in directory d, by its log or by its output.
Users(d) == ToSet(dirs[d].log) \cup dirs[d].out

\* A name found by the listing is taken only where the listing misleads: behind
\* "X9", which sorts after "X10", or behind a name that continues X.
Misled(d) == d.n = 10 \/ \E w \in Volcanos : <<d.volc, w>> \in Longer

\* Runs that each asked for a directory of their own share one only if both
\* were named before either made it, if it was deleted under one of them, or if
\* the listing misled the later one.
SharedWays ==
  \A d \in DOMAIN dirs : \A r \in Users(d) \ {0} : job[r].fresh =>
    /\ job[r].saw => Misled(d)
    /\ 0 \in Users(d) => job[r].saw \/ job[r].cut
    /\ \A q \in Users(d) \ {0, r} : job[q].fresh =>
         \/ q \in job[r].rivals \/ r \in job[q].rivals
         \/ job[r].saw \/ job[q].saw \/ job[r].cut \/ job[q].cut

\* Nobody is working in d or about to.
Quiet(d) ==
  \A r \in Requests :
    job[r].dir = d => pc[r] \notin {"named", "made", "puff", "failed"}

\* When nothing runs any more, what the form lists is of runs that succeeded, that
\* were broken off, or whose failure puff did not announce with "ERROR:".  One that
\* failed and said so leaves nothing behind, and only a script that was killed
\* leaves a directory with nothing in it.
NoFailedLeft ==
  \A d \in DOMAIN dirs : Quiet(d) =>
    /\ Users(d) = {} => \E r \in Requests : pc[r] = "aborted" /\ job[r].dir = d
    /\ \A r \in Users(d) \ {0} : pc[r] \in {"ok", "aborted", "unnoticed"}

\* Nobody deleted the directory of the form.
NotDeleted(d) == \A r \in Requests : pc[r] = "deleted" => job[r].dir # d

\* What succeeded stays for the form to list, until the user deletes it or a run
\* in the same directory fails: one restarted from it, or led there.
KeptUntilError ==
  \A r \in Requests : pc[r] = "ok" /\ NotDeleted(job[r].dir) =>
    \/ job[r].dir \in DOMAIN dirs
    \/ \E q \in Requests : pc[q] = "error" /\ job[q].dir = job[r].dir
=============================================================================

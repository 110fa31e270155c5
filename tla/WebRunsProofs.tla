--------------------------- MODULE WebRunsProofs ----------------------------
(***************************************************************************)
(* Theorems about WebRuns, for any number of requests, any session IDs and *)
(* any volcano list.                                                       *)
(***************************************************************************)
EXTENDS WebRuns, WellFoundedInduction, TLAPS

\* The states of a request with a directory that it may write into or remove,
\* and of one that may have left something behind.
Working == {"made", "puff", "failed"}
Leaving == {"puff", "failed", "ok", "unnoticed", "aborted"}

\* Which parts of its job a request has in which state.
JobInv ==
  \A r \in Requests :
    /\ pc[r] \in {"tested", "created"} => job[r].id \in Typed
    /\ pc[r] \in Working \cup {"named"} => job[r].dir \in Names
    /\ job[r].fresh => pc[r] \in Working \cup Leaving \cup {"named", "error"}
    /\ job[r].wrote => pc[r] \in Leaving \cup {"error"}
    /\ pc[r] = "ok" => job[r].wrote

\* A session that somebody has opened is there.
SessionInv ==
  /\ before \subseteq sessions
  /\ \A r \in Requests : pc[r] = "created" => Clean[job[r].id] \in sessions
  /\ OneMakerEach

\* Who has something in a directory works there or has come to its end there; an
\* empty directory is about to get a log, or its maker was killed.
UserInv ==
  \A d \in DOMAIN dirs :
    /\ \A r \in Users(d) \ {0} :
         r \in Requests /\ job[r].dir = d /\ pc[r] \in Leaving
    /\ Users(d) = {} =>
         \E r \in Requests : pc[r] \in {"made", "aborted"} /\ job[r].dir = d

\* What a request wrote is lost only by one that failed or deleted it.
KeptInv ==
  \A r \in Requests : job[r].wrote =>
    \/ job[r].dir \in DOMAIN dirs
    \/ \E q \in Requests : pc[q] \in {"error", "deleted"} /\ job[q].dir = job[r].dir

\* A request is past when it has ended and nothing of it is left.
Past(r) ==
  /\ pc[r] \in Finished
  /\ job[r].dir \in DOMAIN dirs => r \notin Users(job[r].dir)

Excused(r, q) ==
  \/ q \in job[r].rivals \/ r \in job[q].rivals
  \/ job[r].saw \/ job[q].saw \/ job[r].cut \/ job[q].cut

FreshInv ==
  \A r \in Requests : job[r].fresh =>
    /\ job[r].saw => Misled(job[r].dir)
    /\ job[r].dir \in DOMAIN dirs /\ 0 \in Users(job[r].dir) => job[r].saw
    /\ pc[r] \in Working => job[r].cut \/ job[r].dir \in DOMAIN dirs
    /\ \A q \in Requests \ {r} : job[q].fresh /\ job[q].dir = job[r].dir =>
         Excused(r, q) \/ Past(r) \/ Past(q)

-----------------------------------------------------------------------------
\* Lists of a log, and what one more entry adds.
LEMMA LogAppend ==
  ASSUME NEW S, NEW s \in Seq(S), NEW e \in S
  PROVE  /\ Append(s, e) \in Seq(S)
         /\ ToSet(Append(s, e)) = ToSet(s) \cup {e}
<1>1. /\ Append(s, e) \in Seq(S) /\ Len(s) \in Nat
      /\ DOMAIN s = 1 .. Len(s) /\ DOMAIN Append(s, e) = 1 .. Len(s) + 1
      /\ \A i \in 1 .. Len(s) : Append(s, e)[i] = s[i]
      /\ Append(s, e)[Len(s) + 1] = e
  OBVIOUS
<1>2. DOMAIN Append(s, e) = DOMAIN s \cup {Len(s) + 1}
  BY <1>1
<1> QED
  BY <1>1, <1>2 DEF ToSet

LEMMA LogEmpty == ToSet(<<>>) = {}
BY DEF ToSet

LEMMA EmptyType == Empty \in Contents /\ Empty.log = <<>> /\ Empty.out = {}
BY DEF Empty, Contents

\* A request that goes to another state, and one whose job changes with it.
LEMMA Going ==
  ASSUME TypeOK, NEW r \in Requests, NEW label, Goto(r, label)
  PROVE  \A q \in Requests : pc'[q] = IF q = r THEN label ELSE pc[q]
BY DEF TypeOK, Goto

LEMMA JobType == TypeOK => job \in [Requests -> Job]
BY DEF TypeOK, Job

\* The fields of a job, and what a change of some of them makes of it.
Fields == {"id", "dir", "fresh", "wrote", "saw", "rivals", "cut"}

LEMMA JobFields ==
  ASSUME NEW j \in Job
  PROVE  /\ DOMAIN j = Fields
         /\ j.id \in Typed \cup {""} /\ j.dir \in Names \cup {NoName}
         /\ j.fresh \in BOOLEAN /\ j.wrote \in BOOLEAN /\ j.saw \in BOOLEAN
         /\ j.rivals \in SUBSET Requests /\ j.cut \in BOOLEAN
BY DEF Job, Fields

LEMMA JobId ==
  ASSUME NEW j \in Job, NEW i \in Typed
  PROVE  LET k == [j EXCEPT !.id = i]
         IN  /\ k \in Job
             /\ k.id = i
             /\ k.dir = j.dir /\ k.fresh = j.fresh /\ k.wrote = j.wrote
             /\ k.saw = j.saw /\ k.rivals = j.rivals /\ k.cut = j.cut
BY JobFields DEF Job, Fields

LEMMA JobDir ==
  ASSUME NEW j \in Job, NEW d \in Names
  PROVE  LET k == [j EXCEPT !.dir = d]
         IN  /\ k \in Job
             /\ k.dir = d
             /\ k.id = j.id /\ k.fresh = j.fresh /\ k.wrote = j.wrote
             /\ k.saw = j.saw /\ k.rivals = j.rivals /\ k.cut = j.cut
BY JobFields DEF Job, Fields

LEMMA JobWrote ==
  ASSUME NEW j \in Job
  PROVE  LET k == [j EXCEPT !.wrote = TRUE]
         IN  /\ k \in Job
             /\ k.wrote = TRUE
             /\ k.id = j.id /\ k.dir = j.dir /\ k.fresh = j.fresh
             /\ k.saw = j.saw /\ k.rivals = j.rivals /\ k.cut = j.cut
BY JobFields DEF Job, Fields

LEMMA JobCut ==
  ASSUME NEW j \in Job
  PROVE  LET k == [j EXCEPT !.cut = TRUE]
         IN  /\ k \in Job
             /\ k.cut = TRUE
             /\ k.id = j.id /\ k.dir = j.dir /\ k.fresh = j.fresh
             /\ k.wrote = j.wrote /\ k.saw = j.saw /\ k.rivals = j.rivals
BY JobFields DEF Job, Fields

\* Nobody but r does anything.
Alone(r) ==
  \A q \in Requests \ {r} : pc'[q] = pc[q] /\ job'[q] = job[q]

LEMMA JobSet ==
  ASSUME TypeOK, NEW r \in Requests, NEW k \in Job, job' = [job EXCEPT ![r] = k]
  PROVE  /\ job' \in [Requests -> Job] /\ job'[r] = k
         /\ \A q \in Requests \ {r} : job'[q] = job[q]
BY JobType

LEMMA TestSessionDoes ==
  ASSUME TypeOK, NEW r \in Requests, NEW t \in Typed, TestSession(r, t)
  PROVE  /\ pc[r] = "new" /\ pc'[r] \in {"invalid", "exists", "tested"}
         /\ job' \in [Requests -> Job] /\ Alone(r)
         /\ job'[r].id = t /\ job'[r].dir = job[r].dir
         /\ job'[r].fresh = job[r].fresh /\ job'[r].wrote = job[r].wrote
<1>1. job[r] \in Job
  BY JobType DEF TypeOK
<1> DEFINE k == [job[r] EXCEPT !.id = t]
<1>2. job' = [job EXCEPT ![r] = k]
  BY DEF TestSession
<1>3. /\ k \in Job /\ k.id = t /\ k.dir = job[r].dir
      /\ k.fresh = job[r].fresh /\ k.wrote = job[r].wrote
  BY <1>1, JobId
<1>4. job' \in [Requests -> Job] /\ job'[r] = k
      /\ \A q \in Requests \ {r} : job'[q] = job[q]
  BY <1>2, <1>3, JobSet
<1> HIDE DEF k
<1> QED
  BY <1>1, <1>3, <1>4 DEF TestSession, Goto, TypeOK, Alone

LEMMA NameRunDoes ==
  ASSUME TypeOK, NEW r \in Requests, NEW v \in Volcanos, NameRun(r, v)
  PROVE  LET d == [volc |-> v, n |-> NextNumber(v)]
         IN  /\ pc[r] = "new" /\ pc'[r] = "named" /\ d \in Names
             /\ job' \in [Requests -> Job] /\ Alone(r)
             /\ job'[r].dir = d /\ job'[r].fresh /\ job'[r].wrote = job[r].wrote
             /\ job'[r].saw = (d \in DOMAIN dirs) /\ job'[r].cut = job[r].cut
             /\ job'[r].rivals = {q \in Requests : pc[q] = "named" /\ job[q].dir = d}
<1> DEFINE d == [volc |-> v, n |-> NextNumber(v)]
           saw == d \in DOMAIN dirs
           rivals == {q \in Requests : pc[q] = "named" /\ job[q].dir = d}
           k == [job[r] EXCEPT !.dir = d, !.fresh = TRUE, !.saw = saw, !.rivals = rivals]
<1>1. job \in [Requests -> Job] /\ job[r] \in Job
  BY JobType
<1>2. job' = [job EXCEPT ![r] = k]
  BY <1>1 DEF NameRun
<1>3. /\ d \in Names /\ saw \in BOOLEAN /\ rivals \in SUBSET Requests
      /\ pc[r] = "new" /\ pc' = [pc EXCEPT ![r] = "named"]
  BY DEF NameRun, Goto
<1> HIDE DEF d, saw, rivals
<1>a. PICK j \in Job, b \in BOOLEAN, R \in SUBSET Requests :
        j = job[r] /\ b = saw /\ R = rivals
  BY <1>1, <1>3
<1>b. k = [j EXCEPT !.dir = d, !.fresh = TRUE, !.saw = b, !.rivals = R]
  BY <1>a
<1>c. /\ k \in Job /\ k.dir = d /\ k.fresh = TRUE /\ k.wrote = j.wrote
      /\ k.saw = b /\ k.cut = j.cut /\ k.rivals = R
  BY <1>3, <1>b, JobFields DEF Job, Fields
<1>4. /\ k \in Job /\ k.dir = d /\ k.fresh /\ k.wrote = job[r].wrote
      /\ k.saw = saw /\ k.cut = job[r].cut /\ k.rivals = rivals
  BY <1>c, <1>a
<1>5. job' \in [Requests -> Job] /\ job'[r] = k
      /\ \A q \in Requests \ {r} : job'[q] = job[q]
  BY <1>2, <1>4, JobSet
<1> HIDE DEF k
<1>6. pc'[r] = "named" /\ Alone(r)
  BY <1>3, <1>5 DEF TypeOK, Alone
<1> QED
  BY <1>3, <1>4, <1>5, <1>6 DEF d, saw, rivals

LEMMA RestartDoes ==
  ASSUME TypeOK, NEW r \in Requests, NEW d \in past, Restart(r, d)
  PROVE  /\ pc[r] = "new" /\ pc'[r] = "made" /\ d \in Names
         /\ job' \in [Requests -> Job] /\ Alone(r)
         /\ job'[r].dir = d
         /\ job'[r].fresh = job[r].fresh /\ job'[r].wrote = job[r].wrote
<1>1. job[r] \in Job /\ d \in Names
  BY JobType DEF TypeOK
<1> DEFINE k == [job[r] EXCEPT !.dir = d]
<1>2. job' = [job EXCEPT ![r] = k]
  BY DEF Restart
<1>3. /\ k \in Job /\ k.dir = d
      /\ k.fresh = job[r].fresh /\ k.wrote = job[r].wrote
  BY <1>1, JobDir
<1>4. job' \in [Requests -> Job] /\ job'[r] = k
      /\ \A q \in Requests \ {r} : job'[q] = job[q]
  BY <1>2, <1>3, JobSet
<1> HIDE DEF k
<1> QED
  BY <1>1, <1>3, <1>4 DEF Restart, Goto, TypeOK, Alone

LEMMA DumpDoes ==
  ASSUME TypeOK, NEW r \in Requests, Dump(r)
  PROVE  /\ pc[r] = "puff" /\ pc' = pc
         /\ job' \in [Requests -> Job] /\ Alone(r)
         /\ job'[r].wrote = TRUE
         /\ job'[r].id = job[r].id /\ job'[r].dir = job[r].dir
         /\ job'[r].fresh = job[r].fresh /\ job'[r].saw = job[r].saw
         /\ job'[r].rivals = job[r].rivals /\ job'[r].cut = job[r].cut
<1>1. job[r] \in Job
  BY JobType DEF TypeOK
<1> DEFINE k == [job[r] EXCEPT !.wrote = TRUE]
<1>2. job' = [job EXCEPT ![r] = k]
  BY DEF Dump
<1>3. /\ k \in Job /\ k.wrote = TRUE
      /\ k.id = job[r].id /\ k.dir = job[r].dir /\ k.fresh = job[r].fresh
      /\ k.saw = job[r].saw /\ k.rivals = job[r].rivals /\ k.cut = job[r].cut
  BY <1>1, JobWrote
<1>4. job' \in [Requests -> Job] /\ job'[r] = k
      /\ \A q \in Requests \ {r} : job'[q] = job[q]
  BY <1>2, <1>3, JobSet
<1> HIDE DEF k
<1> QED
  BY <1>1, <1>3, <1>4 DEF Dump, Goto, TypeOK, Alone

\* What a removal leaves: all other directories, and the notes of the requests
\* but for the place of r and for those cut off.
Gone(d, r) ==
  /\ DOMAIN dirs' = DOMAIN dirs \ {d}
  /\ \A e \in DOMAIN dirs' : dirs'[e] = dirs[e]
  /\ job' \in [Requests -> Job]
  /\ job'[r].dir = d
  /\ \A q \in Requests \ {r} : job'[q].dir = job[q].dir
  /\ \A q \in Requests \ {r} :
       d \in DOMAIN dirs /\ q \in AtWork(d) => job'[q].cut = TRUE
  /\ \A q \in Requests :
       /\ job'[q].id = job[q].id /\ job'[q].fresh = job[q].fresh
       /\ job'[q].wrote = job[q].wrote /\ job'[q].saw = job[q].saw
       /\ job'[q].rivals = job[q].rivals /\ (job[q].cut = TRUE => job'[q].cut = TRUE)

\* What a removal does to the directories and to the jobs.
LEMMA Removing ==
  ASSUME TypeOK, NEW d \in Names, NEW r \in Requests, Removed(d, r)
  PROVE  Gone(d, r)
<1> DEFINE hit(q) == d \in DOMAIN dirs /\ q \in AtWork(d)
           new(q) == IF q = r THEN [job[r] EXCEPT !.dir = d]
                     ELSE IF hit(q) THEN [job[q] EXCEPT !.cut = TRUE] ELSE job[q]
<1>1. job \in [Requests -> Job]
  BY JobType
<1>2. \A q \in Requests : new(q) \in Job
  BY <1>1, JobDir, JobCut
<1>3. job' = [q \in Requests |-> new(q)]
  BY DEF Removed
<1>4. dirs' = [e \in DOMAIN dirs \ {d} |-> dirs[e]]
  BY DEF Removed
<1>5. ASSUME NEW q \in Requests
      PROVE  /\ q # r => job'[q].dir = job[q].dir
             /\ q = r => job'[q].dir = d
             /\ job'[q].id = job[q].id /\ job'[q].fresh = job[q].fresh
             /\ job'[q].wrote = job[q].wrote /\ job'[q].saw = job[q].saw
             /\ job'[q].rivals = job[q].rivals /\ (job[q].cut = TRUE => job'[q].cut = TRUE)
             /\ q # r /\ hit(q) => job'[q].cut = TRUE
  <2>1. job'[q] = new(q)
    BY <1>3
  <2>2. job[q] \in Job
    BY <1>1
  <2> HIDE DEF hit
  <2> QED
    BY <2>1, <2>2, JobDir, JobCut
<1> QED
  BY <1>2, <1>3, <1>4, <1>5 DEF Gone

LEMMA JobRemoved ==
  ASSUME JobInv, NEW r \in Requests, pc[r] \in {"new", "failed"},
         pc'[r] \in {"deleted", "error"}, pc'[r] = "deleted" => pc[r] = "new",
         \A q \in Requests \ {r} : pc'[q] = pc[q] /\ job'[q].dir = job[q].dir,
         \A q \in Requests : /\ job'[q].id = job[q].id
                             /\ job'[q].fresh = job[q].fresh
                             /\ job'[q].wrote = job[q].wrote
  PROVE  JobInv'
BY DEF JobInv, Working, Leaving

LEMMA TypeRemoved ==
  ASSUME TypeOK, NEW d, DOMAIN dirs' = DOMAIN dirs \ {d},
         \A e \in DOMAIN dirs' : dirs'[e] = dirs[e],
         job' \in [Requests -> Job],
         NEW r \in Requests, NEW label \in Finished, Goto(r, label),
         UNCHANGED <<before, sessions, past>>
  PROVE  TypeOK'
BY DEF TypeOK, Goto, Finished

LEMMA TypeInit == Init => TypeOK /\ JobInv
<1> SUFFICES ASSUME Init PROVE TypeOK /\ JobInv
  OBVIOUS
<1>1. PICK ran \in Earlier :
        dirs = [d \in IF Home \in sessions
                        THEN {[volc |-> FirstVolcano, n |-> k] : k \in ran} ELSE {}
                    |-> [log |-> <<0>>, out |-> {0}]]
  BY DEF Init
<1>2. ran \subseteq 0 .. MaxNumber /\ FirstVolcano \in Volcanos
  BY WebAssumption
<1>3. DOMAIN dirs \subseteq Names
  BY <1>1, <1>2 DEF Names
<1>4. [log |-> <<0>>, out |-> {0}] \in Contents
  <2>1. <<0>> \in Seq(Requests \cup {0})
    OBVIOUS
  <2> QED
    BY <2>1 DEF Contents
<1>5. \A d \in DOMAIN dirs : dirs[d] \in Contents
  BY <1>1, <1>4
<1>6. NoJob \in Job
  BY DEF NoJob, Job
<1>7. TypeOK
  BY <1>3, <1>5, <1>6, WebAssumption DEF Init, TypeOK
<1> QED
  BY <1>7, <1>6 DEF Init, JobInv, NoJob, Working, Leaving

LEMMA TypeNext == TypeOK /\ JobInv /\ [Next]_vars => TypeOK' /\ JobInv'
<1> SUFFICES ASSUME TypeOK, JobInv, [Next]_vars PROVE TypeOK' /\ JobInv'
  OBVIOUS
<1>0. job \in [Requests -> Job]
  BY JobType
<1>1. ASSUME NEW r \in Requests, NEW t \in Typed, TestSession(r, t)
      PROVE  TypeOK' /\ JobInv'
  <2>1. TypeOK'
    BY <1>1, TestSessionDoes DEF TestSession, Goto, TypeOK, Finished
  <2> QED
    BY <1>1, <2>1, TestSessionDoes DEF JobInv, Alone, Working, Leaving
<1>2. ASSUME NEW r \in Requests, MakeSession(r) PROVE TypeOK' /\ JobInv'
  <2>1. job[r].id \in Typed
    BY <1>2 DEF MakeSession, JobInv
  <2>2. TypeOK'
    BY <1>2, <2>1 DEF MakeSession, Goto, TypeOK, Finished
  <2>3. pc'[r] \in {"created", "nosession"} /\ \A q \in Requests \ {r} : pc'[q] = pc[q]
    BY <1>2 DEF MakeSession, Goto, TypeOK
  <2> QED
    BY <1>2, <2>1, <2>2, <2>3 DEF MakeSession, JobInv, Working, Leaving
<1>3. ASSUME NEW r \in Requests, NEW v \in Volcanos, NameRun(r, v)
      PROVE  TypeOK' /\ JobInv'
  <2>1. TypeOK'
    BY <1>3, NameRunDoes DEF NameRun, Goto, TypeOK, Finished
  <2>2. /\ pc[r] = "new" /\ pc'[r] = "named" /\ Alone(r)
        /\ job'[r].dir \in Names /\ job'[r].wrote = job[r].wrote
    BY <1>3, NameRunDoes
  <2> QED
    BY <2>1, <2>2 DEF JobInv, Alone, Working, Leaving
<1>4. ASSUME NEW r \in Requests, NEW d \in past, Restart(r, d)
      PROVE  TypeOK' /\ JobInv'
  <2>1. TypeOK'
    BY <1>4, RestartDoes DEF Restart, Goto, TypeOK, Finished
  <2> QED
    BY <1>4, <2>1, RestartDoes DEF JobInv, Alone, Working, Leaving
<1>5. ASSUME NEW r \in Requests, NEW d \in past, DeletePrevious(r, d)
      PROVE  TypeOK' /\ JobInv'
  <2>1. d \in Names /\ Removed(d, r)
    BY <1>5 DEF DeletePrevious, TypeOK
  <2>4. Gone(d, r)
    BY <2>1, Removing
  <2>2. TypeOK'
    <3>1. Goto(r, "deleted") /\ UNCHANGED <<before, sessions, past>> /\ "deleted" \in Finished
      BY <1>5 DEF DeletePrevious, Finished
    <3>2. /\ DOMAIN dirs' = DOMAIN dirs \ {d}
          /\ \A e \in DOMAIN dirs' : dirs'[e] = dirs[e]
          /\ job' \in [Requests -> Job]
      BY <2>4 DEF Gone
    <3> QED
      BY <3>1, <3>2, TypeRemoved
  <2>3. pc[r] = "new" /\ \A q \in Requests : pc'[q] = IF q = r THEN "deleted" ELSE pc[q]
    BY <1>5, Going DEF DeletePrevious
  <2> QED
    <3>1. /\ \A q \in Requests \ {r} : pc'[q] = pc[q] /\ job'[q].dir = job[q].dir
          /\ \A q \in Requests : /\ job'[q].id = job[q].id
                                 /\ job'[q].fresh = job[q].fresh
                                 /\ job'[q].wrote = job[q].wrote
      <4>1. \A q \in Requests \ {r} : pc'[q] = pc[q]
        BY <2>3
      <4>2. \A q \in Requests \ {r} : job'[q].dir = job[q].dir
        BY <2>4 DEF Gone
      <4>3. \A q \in Requests : /\ job'[q].id = job[q].id
                                 /\ job'[q].fresh = job[q].fresh
                                 /\ job'[q].wrote = job[q].wrote
        BY <2>4 DEF Gone
      <4> QED
        BY <4>1, <4>2, <4>3
    <3> QED
      BY <2>2, <2>3, <3>1, JobRemoved
<1>6. ASSUME NEW r \in Requests, MakeDir(r) PROVE TypeOK' /\ JobInv'
  <2>1. job[r].dir \in Names
    BY <1>6 DEF MakeDir, JobInv
  <2>2. \A d \in DOMAIN dirs' : dirs'[d] \in Contents
    BY <1>6, EmptyType DEF MakeDir, TypeOK
  <2>3. DOMAIN dirs' = DOMAIN dirs \cup {job[r].dir}
    BY <1>6 DEF MakeDir
  <2>4. TypeOK'
    BY <1>6, <2>1, <2>2, <2>3 DEF MakeDir, Goto, TypeOK, Finished
  <2> QED
    BY <1>0, <1>6, <2>4 DEF MakeDir, Goto, JobInv, TypeOK, Job, Working, Leaving
<1>7. ASSUME NEW r \in Requests, StartPuff(r) PROVE TypeOK' /\ JobInv'
  <2>1. \A d \in DOMAIN dirs' : dirs'[d] \in Contents
    <3>1. CASE job[r].dir \notin DOMAIN dirs
      BY <1>7, <3>1 DEF StartPuff, TypeOK
    <3>2. CASE job[r].dir \in DOMAIN dirs
      <4> DEFINE log == dirs[job[r].dir].log
      <4>1. log \in Seq(Requests \cup {0})
        BY <3>2 DEF TypeOK, Contents
      <4>2. Append(log, r) \in Seq(Requests \cup {0})
        BY <4>1, LogAppend
      <4>3. dirs' = [dirs EXCEPT ![job[r].dir] = [@ EXCEPT !.log = Append(log, r)]]
        BY <1>7, <3>2 DEF StartPuff
      <4> QED
        BY <3>2, <4>2, <4>3 DEF TypeOK, Contents
    <3> QED
      BY <3>1, <3>2
  <2>2. DOMAIN dirs' = DOMAIN dirs
    BY <1>7 DEF StartPuff
  <2>3. TypeOK'
    BY <1>7, <2>1, <2>2 DEF StartPuff, Goto, TypeOK, Finished
  <2> QED
    BY <1>0, <1>7, <2>3 DEF StartPuff, Goto, JobInv, TypeOK, Job, Working, Leaving
<1>8. ASSUME NEW r \in Requests, Dump(r) PROVE TypeOK' /\ JobInv'
  <2>1. job[r].dir \in Names
    BY <1>8 DEF Dump, JobInv, Working
  <2> DEFINE was == IF job[r].dir \in DOMAIN dirs THEN dirs[job[r].dir] ELSE Empty
  <2>2. was \in Contents
    BY EmptyType DEF TypeOK
  <2>3. [was EXCEPT !.out = @ \cup {r}] \in Contents
    BY <2>2 DEF Contents
  <2>4. dirs' = [e \in DOMAIN dirs \cup {job[r].dir} |->
                   IF e = job[r].dir THEN [was EXCEPT !.out = @ \cup {r}] ELSE dirs[e]]
    BY <1>8 DEF Dump
  <2>5. \A d \in DOMAIN dirs' : dirs'[d] \in Contents
    BY <2>3, <2>4 DEF TypeOK
  <2>6. DOMAIN dirs' = DOMAIN dirs \cup {job[r].dir}
    BY <2>4
  <2>7. TypeOK'
    BY <1>8, <2>1, <2>5, <2>6, DumpDoes DEF Dump, TypeOK
  <2>8. /\ pc[r] = "puff" /\ pc' = pc /\ Alone(r) /\ job'[r].wrote = TRUE
        /\ job'[r].id = job[r].id /\ job'[r].dir = job[r].dir
        /\ job'[r].fresh = job[r].fresh
    BY <1>8, DumpDoes
  <2> QED
    BY <2>7, <2>8 DEF JobInv, Alone, Working, Leaving
<1>9. ASSUME NEW r \in Requests, EndPuff(r) PROVE TypeOK' /\ JobInv'
  <2>1. TypeOK'
    BY <1>9 DEF EndPuff, Goto, TypeOK, Finished
  <2>2. PICK end \in {"ok", "failed", "unnoticed"} : (end = "ok" => job[r].wrote) /\ Goto(r, end)
    BY <1>9 DEF EndPuff
  <2>3. pc[r] = "puff" /\ job' = job /\ \A q \in Requests : pc'[q] = IF q = r THEN end ELSE pc[q]
    BY <1>9, <2>2, Going DEF EndPuff
  <2> QED
    BY <2>1, <2>2, <2>3 DEF JobInv, Working, Leaving
<1>10. ASSUME NEW r \in Requests, RemoveFailed(r) PROVE TypeOK' /\ JobInv'
  <2>1. job[r].dir \in Names
    BY <1>10 DEF RemoveFailed, JobInv, Working
  <2>2. Removed(job[r].dir, r)
    BY <1>10 DEF RemoveFailed
  <2>5. Gone(job[r].dir, r)
    BY <2>1, <2>2, Removing
  <2>3. TypeOK'
    <3>1. Goto(r, "error") /\ UNCHANGED <<before, sessions, past>> /\ "error" \in Finished
      BY <1>10 DEF RemoveFailed, Finished
    <3> DEFINE d == job[r].dir
    <3>2. /\ DOMAIN dirs' = DOMAIN dirs \ {d}
          /\ \A e \in DOMAIN dirs' : dirs'[e] = dirs[e]
          /\ job' \in [Requests -> Job]
      BY <2>5 DEF Gone
    <3> HIDE DEF d
    <3> QED
      BY <3>1, <3>2, TypeRemoved
  <2>4. pc[r] = "failed" /\ \A q \in Requests : pc'[q] = IF q = r THEN "error" ELSE pc[q]
    BY <1>10, Going DEF RemoveFailed
  <2> QED
    <3>1. /\ \A q \in Requests \ {r} : pc'[q] = pc[q] /\ job'[q].dir = job[q].dir
          /\ \A q \in Requests : /\ job'[q].id = job[q].id
                                 /\ job'[q].fresh = job[q].fresh
                                 /\ job'[q].wrote = job[q].wrote
      <4>1. \A q \in Requests \ {r} : pc'[q] = pc[q]
        BY <2>4
      <4> QED
        BY <2>5, <4>1 DEF Gone
    <3> QED
      BY <2>3, <2>4, <3>1, JobRemoved
<1>11. ASSUME NEW r \in Requests, Abort(r) PROVE TypeOK' /\ JobInv'
  <2>1. TypeOK'
    BY <1>11 DEF Abort, Goto, TypeOK, Finished
  <2> QED
    BY <1>0, <1>11, <2>1 DEF Abort, Goto, JobInv, TypeOK, Job, Working, Leaving
<1>12. CASE UNCHANGED vars
  BY <1>12 DEF vars, TypeOK, JobInv
<1> QED
  BY <1>1, <1>2, <1>3, <1>4, <1>5, <1>6, <1>7, <1>8, <1>9, <1>10, <1>11, <1>12
     DEF Next, Served, Terminated

\* Every variable keeps its type, in any interleaving of the requests.
THEOREM WebTypes == Spec => []TypeOK
BY TypeInit, TypeNext, PTL DEF Spec

-----------------------------------------------------------------------------
\* What the other actions do to one request and to the directories.
LEMMA MakeSessionDoes ==
  ASSUME TypeOK, NEW r \in Requests, MakeSession(r)
  PROVE  /\ pc[r] = "tested" /\ pc'[r] \in {"created", "nosession"}
         /\ pc'[r] = "created" => Clean[job[r].id] \notin sessions
         /\ job' = job /\ Alone(r) /\ dirs' = dirs
BY DEF MakeSession, Goto, TypeOK, Alone

LEMMA EndPuffDoes ==
  ASSUME TypeOK, NEW r \in Requests, EndPuff(r)
  PROVE  /\ pc[r] = "puff" /\ pc'[r] \in {"ok", "failed", "unnoticed"}
         /\ job' = job /\ Alone(r) /\ dirs' = dirs /\ sessions' = sessions
BY DEF EndPuff, Goto, TypeOK, Alone

LEMMA AbortDoes ==
  ASSUME TypeOK, NEW r \in Requests, Abort(r)
  PROVE  /\ pc[r] \in Working \cup {"tested", "named"} /\ pc'[r] = "aborted"
         /\ job' = job /\ Alone(r) /\ dirs' = dirs /\ sessions' = sessions
BY DEF Abort, Goto, TypeOK, Alone, Working

LEMMA MakeDirDoes ==
  ASSUME TypeOK, NEW r \in Requests, MakeDir(r), NEW d, d = job[r].dir
  PROVE  /\ pc[r] = "named" /\ pc'[r] = "made" /\ job' = job /\ Alone(r)
         /\ sessions' = sessions
         /\ DOMAIN dirs' = DOMAIN dirs \cup {d}
         /\ \A e \in DOMAIN dirs : Users(e)' = Users(e)
         /\ d \notin DOMAIN dirs => Users(d)' = {}
<1>1. /\ DOMAIN dirs' = DOMAIN dirs \cup {d}
      /\ \A e \in DOMAIN dirs : dirs'[e] = dirs[e]
      /\ d \notin DOMAIN dirs => dirs'[d] = Empty
  BY DEF MakeDir
<1>2. /\ pc[r] = "named" /\ pc'[r] = "made" /\ job' = job /\ Alone(r)
      /\ sessions' = sessions
  BY DEF MakeDir, Goto, TypeOK, Alone
<1>3. ASSUME NEW e \in DOMAIN dirs PROVE Users(e)' = Users(e)
  BY <1>1, <1>3 DEF Users
<1>4. ASSUME d \notin DOMAIN dirs PROVE Users(d)' = {}
  BY <1>1, <1>2, <1>4, LogEmpty, EmptyType DEF Users
<1> QED
  BY <1>1, <1>2, <1>3, <1>4

LEMMA StartPuffDoes ==
  ASSUME TypeOK, NEW r \in Requests, StartPuff(r), NEW d, d = job[r].dir
  PROVE  /\ pc[r] = "made" /\ pc'[r] = "puff" /\ job' = job /\ Alone(r)
         /\ sessions' = sessions
         /\ DOMAIN dirs' = DOMAIN dirs
         /\ \A e \in DOMAIN dirs \ {d} : Users(e)' = Users(e)
         /\ d \in DOMAIN dirs =>
              Users(d)' = Users(d) \cup {r}
<1>1. /\ pc[r] = "made" /\ pc'[r] = "puff" /\ job' = job /\ Alone(r)
      /\ sessions' = sessions /\ DOMAIN dirs' = DOMAIN dirs
      /\ \A e \in DOMAIN dirs \ {d} : dirs'[e] = dirs[e]
  BY DEF StartPuff, Goto, TypeOK, Alone
<1>2. ASSUME NEW e \in DOMAIN dirs \ {d} PROVE Users(e)' = Users(e)
  BY <1>1, <1>2 DEF Users
<1>3. ASSUME d \in DOMAIN dirs
      PROVE  Users(d)' = Users(d) \cup {r}
  <2> DEFINE c == dirs[d]
  <2>1. c \in Contents
    BY <1>3 DEF TypeOK
  <2>2. dirs'[d] = [c EXCEPT !.log = Append(c.log, r)]
    BY <1>3 DEF StartPuff
  <2>3. c.log \in Seq(Requests \cup {0})
    BY <2>1 DEF Contents
  <2>4. dirs'[d].log = Append(c.log, r) /\ dirs'[d].out = c.out
    BY <2>1, <2>2 DEF Contents
  <2>5. ToSet(Append(c.log, r)) = ToSet(c.log) \cup {r}
    BY <2>3, LogAppend
  <2> QED
    BY <1>1, <2>4, <2>5 DEF Users
<1> QED
  BY <1>1, <1>2, <1>3

LEMMA DumpUsers ==
  ASSUME TypeOK, NEW r \in Requests, Dump(r), NEW d, d = job[r].dir
  PROVE  /\ sessions' = sessions
         /\ DOMAIN dirs' = DOMAIN dirs \cup {d}
         /\ \A e \in DOMAIN dirs \ {d} : Users(e)' = Users(e)
         /\ Users(d)' =
              (IF d \in DOMAIN dirs THEN Users(d) ELSE {}) \cup {r}
<1> DEFINE was == IF d \in DOMAIN dirs THEN dirs[d] ELSE Empty
<1>1. was \in Contents
  BY EmptyType DEF TypeOK
<1>2. dirs' = [e \in DOMAIN dirs \cup {d} |->
                 IF e = d THEN [was EXCEPT !.out = @ \cup {r}] ELSE dirs[e]]
  BY DEF Dump
<1>3. /\ DOMAIN dirs' = DOMAIN dirs \cup {d}
      /\ \A e \in DOMAIN dirs \ {d} : dirs'[e] = dirs[e]
      /\ dirs'[d] = [was EXCEPT !.out = @ \cup {r}]
  BY <1>2
<1>4. dirs'[d].log = was.log /\ dirs'[d].out = was.out \cup {r}
  BY <1>1, <1>3 DEF Contents
<1>5. ASSUME NEW e \in DOMAIN dirs \ {d} PROVE Users(e)' = Users(e)
  BY <1>3, <1>5 DEF Users
<1>6. ToSet(was.log) \cup was.out = IF d \in DOMAIN dirs THEN Users(d) ELSE {}
  BY LogEmpty, EmptyType DEF Users
<1>8. Users(d)' = ToSet(dirs'[d].log) \cup dirs'[d].out
  BY DEF Users
<1>9. Users(d)' = (IF d \in DOMAIN dirs THEN Users(d) ELSE {}) \cup {r}
  BY <1>4, <1>6, <1>8
<1> QED
  BY <1>3, <1>5, <1>9 DEF Dump

LEMMA RemovingUsers ==
  ASSUME NEW d, NEW r, Removed(d, r)
  PROVE  \A e \in DOMAIN dirs \ {d} : Users(e)' = Users(e)
<1>1. \A e \in DOMAIN dirs \ {d} : dirs'[e] = dirs[e]
  BY DEF Removed
<1> QED
  BY <1>1 DEF Users

-----------------------------------------------------------------------------
\* Who has left something in a directory, step by step.
LEMMA UsersElsewhere ==
  ASSUME UserInv, NEW r \in Requests, Alone(r), dirs' = dirs,
         pc[r] \notin Leaving \cup {"made"}
  PROVE  UserInv'
<1>1. \A d : Users(d)' = Users(d)
  BY DEF Users
<1>2. \A q \in Requests :
        pc[q] \in Leaving \cup {"made"} => pc'[q] = pc[q] /\ job'[q] = job[q]
  BY DEF Alone
<1> QED
  BY <1>1, <1>2 DEF UserInv, Leaving

LEMMA UserInit == Init => UserInv
<1> SUFFICES ASSUME Init PROVE UserInv
  OBVIOUS
<1>1. \A d \in DOMAIN dirs : dirs[d] = [log |-> <<0>>, out |-> {0}]
  BY DEF Init
<1>2. ToSet(<<0>>) = {0}
  BY DEF ToSet
<1>3. \A d \in DOMAIN dirs : Users(d) = {0}
  BY <1>1, <1>2 DEF Users
<1> QED
  BY <1>3 DEF UserInv

LEMMA UserNext == TypeOK /\ JobInv /\ UserInv /\ [Next]_vars => UserInv'
<1> SUFFICES ASSUME TypeOK, JobInv, UserInv, [Next]_vars PROVE UserInv'
  OBVIOUS
<1>1. ASSUME NEW r \in Requests, NEW t \in Typed, TestSession(r, t) PROVE UserInv'
  BY <1>1, TestSessionDoes, UsersElsewhere DEF TestSession, Leaving
<1>2. ASSUME NEW r \in Requests, MakeSession(r) PROVE UserInv'
  BY <1>2, MakeSessionDoes, UsersElsewhere DEF Leaving
<1>3. ASSUME NEW r \in Requests, NEW v \in Volcanos, NameRun(r, v) PROVE UserInv'
  BY <1>3, NameRunDoes, UsersElsewhere DEF NameRun, Leaving
<1>4. ASSUME NEW r \in Requests, NEW d \in past, Restart(r, d) PROVE UserInv'
  BY <1>4, RestartDoes, UsersElsewhere DEF Restart, Leaving
<1>5. ASSUME NEW r \in Requests, NEW d \in Names, Removed(d, r),
             pc[r] \in {"new", "failed"}, NEW label, Goto(r, label),
             pc[r] = "failed" => d = job[r].dir
      PROVE  UserInv'
  <2>1. /\ DOMAIN dirs' = DOMAIN dirs \ {d}
        /\ \A e \in DOMAIN dirs' : Users(e)' = Users(e)
        /\ \A q \in Requests \ {r} : job'[q].dir = job[q].dir
    <3>1. /\ DOMAIN dirs' = DOMAIN dirs \ {d}
          /\ \A q \in Requests \ {r} : job'[q].dir = job[q].dir
      <4>1. Gone(d, r)
        BY <1>5, Removing
      <4> QED
        BY <4>1 DEF Gone
    <3>2. \A e \in DOMAIN dirs \ {d} : Users(e)' = Users(e)
      BY <1>5, RemovingUsers
    <3> QED
      BY <3>1, <3>2
  <2>2. \A q \in Requests \ {r} : pc'[q] = pc[q]
    BY <1>5, Going
  <2>3. ASSUME NEW e \in DOMAIN dirs', r \in Users(e) \ {0} PROVE FALSE
    BY <1>5, <2>1, <2>3 DEF UserInv, Leaving
  <2> QED
    BY <1>5, <2>1, <2>2, <2>3 DEF UserInv
<1>6. ASSUME NEW r \in Requests, MakeDir(r) PROVE UserInv'
  <2>1. PICK d : d = job[r].dir
    OBVIOUS
  <2>2. /\ pc[r] = "named" /\ pc'[r] = "made" /\ job' = job /\ Alone(r)
        /\ DOMAIN dirs' = DOMAIN dirs \cup {d}
        /\ \A e \in DOMAIN dirs : Users(e)' = Users(e)
        /\ d \notin DOMAIN dirs => Users(d)' = {}
    BY <1>6, <2>1, MakeDirDoes
  <2> QED
    BY <2>1, <2>2 DEF UserInv, Alone, Leaving
<1>7. ASSUME NEW r \in Requests, StartPuff(r) PROVE UserInv'
  <2>1. PICK d : d = job[r].dir
    OBVIOUS
  <2>2. /\ pc[r] = "made" /\ pc'[r] = "puff" /\ job' = job /\ Alone(r)
        /\ DOMAIN dirs' = DOMAIN dirs
        /\ \A e \in DOMAIN dirs \ {d} : Users(e)' = Users(e)
        /\ d \in DOMAIN dirs => Users(d)' = Users(d) \cup {r}
    BY <1>7, <2>1, StartPuffDoes
  <2> QED
    BY <2>1, <2>2 DEF UserInv, Alone, Leaving
<1>8. ASSUME NEW r \in Requests, Dump(r) PROVE UserInv'
  <2>1. PICK d : d = job[r].dir
    OBVIOUS
  <2>2. /\ pc[r] = "puff" /\ pc' = pc /\ Alone(r) /\ job'[r].dir = d
        /\ DOMAIN dirs' = DOMAIN dirs \cup {d}
        /\ \A e \in DOMAIN dirs \ {d} : Users(e)' = Users(e)
        /\ Users(d)' = (IF d \in DOMAIN dirs THEN Users(d) ELSE {}) \cup {r}
    BY <1>8, <2>1, DumpDoes, DumpUsers
  <2> QED
    BY <2>1, <2>2 DEF UserInv, Alone, Leaving
<1>9. ASSUME NEW r \in Requests, EndPuff(r) \/ Abort(r) PROVE UserInv'
  <2>1. /\ pc'[r] \in Leaving /\ job' = job /\ Alone(r) /\ dirs' = dirs
        /\ pc[r] \in {"made", "aborted"} => pc'[r] = "aborted"
    BY <1>9, EndPuffDoes, AbortDoes DEF Leaving, Working
  <2>2. \A d : Users(d)' = Users(d)
    BY <2>1 DEF Users
  <2> QED
    BY <2>1, <2>2 DEF UserInv, Alone
<1>10. CASE UNCHANGED vars
  <2>1. \A d : Users(d)' = Users(d)
    BY <1>10 DEF vars, Users
  <2> QED
    BY <1>10, <2>1 DEF vars, UserInv
<1>11. ASSUME NEW r \in Requests, NEW d \in past, DeletePrevious(r, d) PROVE UserInv'
  BY <1>5, <1>11 DEF DeletePrevious, TypeOK
<1>12. ASSUME NEW r \in Requests, RemoveFailed(r) PROVE UserInv'
  <2>1. job[r].dir \in Names
    BY <1>12 DEF RemoveFailed, JobInv, Working
  <2> QED
    BY <1>5, <1>12, <2>1 DEF RemoveFailed
<1> QED
  BY <1>1, <1>2, <1>3, <1>4, <1>6, <1>7, <1>8, <1>9, <1>10, <1>11, <1>12
     DEF Next, Served, Terminated

LEMMA UserCorrect == Spec => [](TypeOK /\ JobInv /\ UserInv)
BY TypeInit, TypeNext, UserInit, UserNext, PTL DEF Spec

\* runParams.pl: process_form.  Whatever runs overlap, when nobody works in a
\* directory any more it holds the output of runs that succeeded, were broken off,
\* or failed without announcing it, and of these only.
THEOREM FailedLeaveNothing == Spec => []NoFailedLeft
<1>1. UserInv => NoFailedLeft
  BY DEF UserInv, NoFailedLeft, Quiet, Leaving
<1> QED
  BY <1>1, UserCorrect, PTL

-----------------------------------------------------------------------------
\* Sessions: only MakeSession lets a request be told that it opened one.
LEMMA SessionKept ==
  ASSUME SessionInv, before' = before, sessions \subseteq sessions',
         \A q \in Requests : pc'[q] = "created" =>
           pc[q] = "created" /\ job'[q].id = job[q].id
  PROVE  SessionInv'
BY DEF SessionInv, OneMakerEach

LEMMA BeforeStays == [Next]_vars => before' = before
BY DEF Next, Served, TestSession, MakeSession, NameRun, Restart, DeletePrevious, MakeDir,
       StartPuff, Dump, EndPuff, RemoveFailed, Abort, Terminated, vars

LEMMA SessionNext == TypeOK /\ JobInv /\ SessionInv /\ [Next]_vars => SessionInv'
<1> SUFFICES ASSUME TypeOK, JobInv, SessionInv, [Next]_vars PROVE SessionInv'
  OBVIOUS
<1>0. before' = before
  BY BeforeStays
<1>1. ASSUME NEW r \in Requests, NEW t \in Typed, TestSession(r, t) PROVE SessionInv'
  BY <1>1, TestSessionDoes, <1>0, SessionKept DEF TestSession, Alone
<1>2. ASSUME NEW r \in Requests, MakeSession(r) PROVE SessionInv'
  <2>1. sessions' = sessions \cup {Clean[job[r].id]}
    BY <1>2 DEF MakeSession
  <2>2. /\ pc'[r] = "created" => Clean[job[r].id] \notin sessions
        /\ job' = job /\ \A q \in Requests \ {r} : pc'[q] = pc[q]
    BY <1>2, MakeSessionDoes DEF Alone
  <2> QED
    BY <1>0, <2>1, <2>2 DEF SessionInv, OneMakerEach
<1>3. ASSUME NEW r \in Requests, NEW v \in Volcanos, NameRun(r, v) PROVE SessionInv'
  <2>1. pc'[r] = "named" /\ Alone(r) /\ sessions' = sessions
    BY <1>3, NameRunDoes DEF NameRun
  <2> QED
    BY <2>1, <1>0, SessionKept DEF Alone
<1>4. ASSUME NEW r \in Requests, NEW d \in past, Restart(r, d) PROVE SessionInv'
  <2>1. pc'[r] = "made" /\ Alone(r) /\ sessions' = sessions
    BY <1>4, RestartDoes DEF Restart
  <2> QED
    BY <2>1, <1>0, SessionKept DEF Alone
<1>5. ASSUME NEW r \in Requests, NEW d \in Names, Removed(d, r),
             NEW label, Goto(r, label), label # "created", sessions' = sessions
      PROVE  SessionInv'
  <2>1. \A q \in Requests : job'[q].id = job[q].id
    BY <1>5, Removing DEF Gone
  <2> QED
    BY <1>5, <2>1, Going, <1>0, SessionKept
<1>6. ASSUME NEW r \in Requests, MakeDir(r) PROVE SessionInv'
  <2>1. pc'[r] = "made" /\ Alone(r) /\ sessions' = sessions
    BY <1>6, MakeDirDoes
  <2> QED
    BY <2>1, <1>0, SessionKept DEF Alone
<1>7. ASSUME NEW r \in Requests, StartPuff(r) PROVE SessionInv'
  <2>1. pc'[r] = "puff" /\ Alone(r) /\ sessions' = sessions
    BY <1>7, StartPuffDoes
  <2> QED
    BY <2>1, <1>0, SessionKept DEF Alone
<1>8. ASSUME NEW r \in Requests, Dump(r) PROVE SessionInv'
  <2>1. pc[r] = "puff" /\ pc' = pc /\ Alone(r) /\ sessions' = sessions
    BY <1>8, DumpDoes DEF Dump
  <2> QED
    BY <2>1, <1>0, SessionKept DEF Alone
<1>9. ASSUME NEW r \in Requests, EndPuff(r) \/ Abort(r) PROVE SessionInv'
  <2>1. pc'[r] # "created" /\ Alone(r) /\ sessions' = sessions
    BY <1>9, EndPuffDoes, AbortDoes
  <2> QED
    BY <2>1, <1>0, SessionKept DEF Alone
<1>10. CASE UNCHANGED vars
  BY <1>10, <1>0, SessionKept DEF vars
<1>11. ASSUME NEW r \in Requests, NEW d \in past, DeletePrevious(r, d) PROVE SessionInv'
  BY <1>5, <1>11 DEF DeletePrevious, TypeOK
<1>12. ASSUME NEW r \in Requests, RemoveFailed(r) PROVE SessionInv'
  <2>1. job[r].dir \in Names
    BY <1>12 DEF RemoveFailed, JobInv, Working
  <2> QED
    BY <1>5, <1>12, <2>1 DEF RemoveFailed
<1> QED
  BY <1>1, <1>2, <1>3, <1>4, <1>6, <1>7, <1>8, <1>9, <1>10, <1>11, <1>12
     DEF Next, Served, Terminated

\* login.pl: createSession.  Of users who type IDs that clean to the same name
\* one at most is told that it opened the session, and none if it was there before:
\* mkdir decides, not the test.
THEOREM SessionsOpenedOnce == Spec => []OneMakerEach
<1>1. Init => SessionInv
  BY DEF Init, SessionInv, OneMakerEach
<1>2. SessionInv => OneMakerEach
  BY DEF SessionInv
<1> QED
  BY <1>1, <1>2, SessionNext, TypeInit, TypeNext, PTL DEF Spec

-----------------------------------------------------------------------------
\* What was written stays where it is, or somebody is to blame.
Blamed(d) == \E q \in Requests : pc[q] \in {"error", "deleted"} /\ job[q].dir = d

LEMMA BlameKept ==
  ASSUME NEW d, Blamed(d),
         \A q \in Requests : pc[q] \in {"error", "deleted"} =>
           pc'[q] = pc[q] /\ job'[q].dir = job[q].dir
  PROVE  Blamed(d)'
BY DEF Blamed

\* A step that removes nothing and writes for nobody but r.
LEMMA KeptElsewhere ==
  ASSUME TypeOK, JobInv, KeptInv, NEW r \in Requests, Alone(r),
         pc[r] \notin Finished, DOMAIN dirs \subseteq DOMAIN dirs',
         job'[r].wrote = TRUE => job'[r].dir \in DOMAIN dirs' \/ job' = job
  PROVE  KeptInv'
<1>1. \A d : Blamed(d) => Blamed(d)'
  BY BlameKept DEF Alone, Finished
<1>2. ASSUME NEW q \in Requests, job'[q] = job[q], job[q].wrote = TRUE
      PROVE  job'[q].dir \in DOMAIN dirs' \/ Blamed(job[q].dir)'
  BY <1>1, <1>2 DEF KeptInv, Blamed
<1> QED
  BY <1>1, <1>2 DEF KeptInv, Blamed, Alone

LEMMA KeptRemoved ==
  ASSUME TypeOK, JobInv, KeptInv, NEW d \in Names, NEW r \in Requests, Removed(d, r),
         pc[r] \in {"new", "failed"}, pc'[r] \in {"error", "deleted"},
         \A q \in Requests \ {r} : pc'[q] = pc[q]
  PROVE  KeptInv'
<1>1. /\ DOMAIN dirs' = DOMAIN dirs \ {d}
      /\ job'[r].dir = d /\ \A q \in Requests \ {r} : job'[q].dir = job[q].dir
      /\ \A q \in Requests : job'[q].wrote = job[q].wrote
  <2>1. Gone(d, r)
    BY Removing
  <2> QED
    BY <2>1 DEF Gone
<1>2. Blamed(d)'
  BY <1>1 DEF Blamed
<1>3. \A e : Blamed(e) => Blamed(e)'
  BY <1>1, BlameKept
<1>4. ASSUME NEW q \in Requests, job'[q].wrote, NEW e, e = job'[q].dir
      PROVE  e \in DOMAIN dirs' \/ Blamed(e)'
  <2>1. CASE q = r
    BY <1>1, <1>2, <1>4, <2>1
  <2>2. CASE q # r
    <3>1. e \in DOMAIN dirs \/ Blamed(e)
      BY <1>1, <1>4, <2>2 DEF KeptInv, Blamed
    <3>2. CASE e = d
      BY <1>2, <3>2
    <3>3. CASE e # d
      BY <1>1, <1>3, <3>1, <3>3
    <3> QED
      BY <3>2, <3>3
  <2> QED
    BY <2>1, <2>2
<1> QED
  BY <1>4 DEF KeptInv, Blamed

LEMMA KeptNext == TypeOK /\ JobInv /\ KeptInv /\ [Next]_vars => KeptInv'
<1> SUFFICES ASSUME TypeOK, JobInv, KeptInv, [Next]_vars PROVE KeptInv'
  OBVIOUS
<1>1. ASSUME NEW r \in Requests, NEW t \in Typed, TestSession(r, t) PROVE KeptInv'
  <2>1. /\ pc[r] = "new" /\ Alone(r) /\ job'[r].wrote = job[r].wrote /\ dirs' = dirs
    BY <1>1, TestSessionDoes DEF TestSession
  <2> QED
    BY <2>1, KeptElsewhere DEF JobInv, Leaving, Finished
<1>2. ASSUME NEW r \in Requests, MakeSession(r) PROVE KeptInv'
  BY <1>2, MakeSessionDoes, KeptElsewhere DEF Finished
<1>3. ASSUME NEW r \in Requests, NEW v \in Volcanos, NameRun(r, v) PROVE KeptInv'
  <2>1. /\ pc[r] = "new" /\ Alone(r) /\ job'[r].wrote = job[r].wrote /\ dirs' = dirs
    BY <1>3, NameRunDoes DEF NameRun
  <2> QED
    BY <2>1, KeptElsewhere DEF JobInv, Leaving, Finished
<1>4. ASSUME NEW r \in Requests, NEW d \in past, Restart(r, d) PROVE KeptInv'
  <2>1. /\ pc[r] = "new" /\ Alone(r) /\ job'[r].wrote = job[r].wrote /\ dirs' = dirs
    BY <1>4, RestartDoes DEF Restart
  <2> QED
    BY <2>1, KeptElsewhere DEF JobInv, Leaving, Finished
<1>5. ASSUME NEW r \in Requests, NEW d \in past, DeletePrevious(r, d) PROVE KeptInv'
  BY <1>5, Going, KeptRemoved DEF DeletePrevious, TypeOK
<1>6. ASSUME NEW r \in Requests, MakeDir(r) PROVE KeptInv'
  BY <1>6, MakeDirDoes, KeptElsewhere DEF Finished
<1>7. ASSUME NEW r \in Requests, StartPuff(r) PROVE KeptInv'
  BY <1>7, StartPuffDoes, KeptElsewhere DEF Finished
<1>8. ASSUME NEW r \in Requests, Dump(r) PROVE KeptInv'
  <2>1. pc[r] = "puff" /\ Alone(r) /\ job'[r].dir = job[r].dir
    BY <1>8, DumpDoes
  <2>2. DOMAIN dirs' = DOMAIN dirs \cup {job[r].dir}
    BY <1>8, DumpUsers
  <2> QED
    BY <2>1, <2>2, KeptElsewhere DEF Finished
<1>9. ASSUME NEW r \in Requests, EndPuff(r) \/ Abort(r) PROVE KeptInv'
  BY <1>9, EndPuffDoes, AbortDoes, KeptElsewhere DEF Finished, Working
<1>10. ASSUME NEW r \in Requests, RemoveFailed(r) PROVE KeptInv'
  <2>1. job[r].dir \in Names
    BY <1>10 DEF RemoveFailed, JobInv, Working
  <2> QED
    BY <1>10, <2>1, Going, KeptRemoved DEF RemoveFailed
<1>11. CASE UNCHANGED vars
  BY <1>11 DEF vars, KeptInv
<1> QED
  BY <1>1, <1>2, <1>3, <1>4, <1>5, <1>6, <1>7, <1>8, <1>9, <1>10, <1>11
     DEF Next, Served, Terminated

\* runParams.pl: process_form, delete_previous.  The output of a run that
\* succeeded is there until the user deletes it or a run that shares its
\* directory fails.
THEOREM SuccessKept == Spec => []KeptUntilError
<1>1. Init => KeptInv
  <2>1. NoJob.wrote = FALSE
    BY DEF NoJob
  <2> QED
    BY <2>1 DEF Init, KeptInv
<1>2. JobInv /\ KeptInv => KeptUntilError
  BY DEF JobInv, KeptInv, KeptUntilError, NotDeleted
<1> QED
  BY <1>1, <1>2, KeptNext, TypeInit, TypeNext, PTL DEF Spec

-----------------------------------------------------------------------------
\* Names.  The order of the listing has a last name, and the number after that
\* of the last name is free unless the listing misleads.
TopRank == 1000
Ranks   == 0 .. TopRank

LEMMA InOrderType ==
  ASSUME NEW n \in 0 .. 99
  PROVE  InOrder(n) \in Ranks
BY DEF InOrder, Ranks, TopRank

LEMMA SmallestExists ==
  ASSUME NEW S, S \subseteq Nat, S # {}
  PROVE  \E m \in S : \A n \in S : m <= n
<1>1. PICK m \in S : \A n \in S : ~(<<n, m>> \in OpToRel(<, Nat))
  BY WFMin, NatLessThanWellFounded, Zenon
<1>2. \A n \in S : ~(n < m)
  BY <1>1 DEF OpToRel
<1> QED
  BY <1>2

LEMMA LargestExists ==
  ASSUME NEW b \in Nat, NEW K, K \subseteq 0 .. b, K # {}
  PROVE  \E k \in K : \A j \in K : j <= k
<1> DEFINE T == {b - k : k \in K}
<1>1. T \subseteq Nat /\ T # {}
  <2>1. \A k \in K : b - k \in Nat
    OBVIOUS
  <2>2. PICK k \in K : TRUE
    OBVIOUS
  <2>3. b - k \in T
    BY <2>2
  <2> QED
    BY <2>1, <2>3
<1> HIDE DEF T
<1>4. PICK m \in T : \A n \in T : m <= n
  BY <1>1, SmallestExists, Zenon
<1>5. PICK k \in K : m = b - k
  BY DEF T
<1>6. ASSUME NEW j \in K PROVE j <= k
  <2>1. b - j \in T
    BY DEF T
  <2>2. m <= b - j
    BY <1>4, <2>1
  <2> QED
    BY <1>5, <2>2
<1> QED
  BY <1>6

LEMMA LastMatches ==
  ASSUME TypeOK, NEW v \in Volcanos, Matching(v) # {}
  PROVE  /\ LastMatching(v) \in Matching(v)
         /\ \A e \in Matching(v) : Sorted(v, e, LastMatching(v))
<1> DEFINE other == {d \in Matching(v) : d.volc # v}
           S == IF other = {} THEN Matching(v) ELSE other
           K == {InOrder(d.n) : d \in S}
<1>1. Matching(v) \subseteq Names
  BY DEF Matching, TypeOK
<1>2. \A d \in Matching(v) : d.n \in 0 .. 99
  BY <1>1, WebAssumption DEF Names
<1>3. S # {} /\ S \subseteq Matching(v)
  OBVIOUS
<1> HIDE DEF S
<1>4. K \subseteq Ranks /\ K # {}
  <2>1. ASSUME NEW d \in S PROVE InOrder(d.n) \in Ranks
    <3>1. PICK n \in 0 .. 99 : n = d.n
      BY <1>2, <1>3
    <3>2. InOrder(n) \in Ranks
      BY <3>1, InOrderType
    <3> QED
      BY <3>1, <3>2
  <2>2. PICK d \in S : TRUE
    BY <1>3
  <2>3. InOrder(d.n) \in K
    BY <2>2
  <2> QED
    BY <2>1, <2>3
<1> HIDE DEF K
<1>5. PICK k \in K : \A j \in K : j <= k
  <2>1. TopRank \in Nat
    BY DEF TopRank
  <2> QED
    BY <1>4, <2>1, LargestExists DEF Ranks
<1>6. PICK d \in S : \A e \in S : InOrder(e.n) <= InOrder(d.n)
  BY <1>5 DEF K
<1>7. ASSUME NEW e \in Matching(v) PROVE Sorted(v, e, d)
  <2>1. CASE e \in S
    BY <1>6, <2>1 DEF Sorted, S
  <2>2. CASE e \notin S
    BY <1>6, <2>2 DEF Sorted, S
  <2> QED
    BY <2>1, <2>2
<1>8. \E c \in Matching(v) : \A e \in Matching(v) : Sorted(v, e, c)
  BY <1>3, <1>7
<1> QED
  BY <1>8 DEF LastMatching

LEMMA TakenMisled ==
  ASSUME TypeOK, NEW v \in Volcanos, NEW d \in Names,
         d = [volc |-> v, n |-> NextNumber(v)], d \in DOMAIN dirs
  PROVE  Misled(d)
<1>1. d.volc = v /\ d.n = NextNumber(v) /\ d.n \in 0 .. 99
  BY WebAssumption DEF Names
<1>2. d \in Matching(v)
  BY <1>1 DEF Matching
<1> DEFINE e == LastMatching(v)
<1>3. e \in Matching(v) /\ Sorted(v, d, e)
  BY <1>2, LastMatches
<1>4. e \in Names /\ NextNumber(v) = e.n + 1
  BY <1>2, <1>3 DEF NextNumber, Matching, TypeOK
<1>5. e.n \in 0 .. 99 /\ e.volc \in Volcanos
  BY <1>4, WebAssumption DEF Names
<1> HIDE DEF e
<1>6. CASE e.volc # v
  BY <1>1, <1>3, <1>5, <1>6 DEF Matching, Misled
<1>7. CASE e.volc = v
  <2>1. InOrder(d.n) <= InOrder(e.n)
    BY <1>1, <1>3, <1>7 DEF Sorted
  <2>2. d.n = 10
    BY <1>1, <1>4, <1>5, <2>1 DEF InOrder
  <2> QED
    BY <2>2 DEF Misled
<1> QED
  BY <1>6, <1>7

-----------------------------------------------------------------------------
\* Every step but NameRun leaves what FreshInv says of a job as it was, adds
\* nobody but itself to a directory, and excuses whom it robs of one.
LEMMA FreshStep ==
  ASSUME TypeOK, JobInv, FreshInv, NEW r \in Requests, pc[r] \notin Finished,
         \A q \in Requests \ {r} : pc'[q] = pc[q] /\ job'[q].dir = job[q].dir,
         \A q \in Requests : job'[q].fresh = job[q].fresh,
         \A q \in Requests : job[q].fresh =>
           /\ job'[q].dir = job[q].dir
           /\ job'[q].saw = job[q].saw /\ job'[q].rivals = job[q].rivals
           /\ job[q].cut = TRUE => job'[q].cut = TRUE
           /\ pc'[q] \in Working => job'[q].cut = TRUE \/ job[q].dir \in DOMAIN dirs',
         \A d \in DOMAIN dirs' : \A u \in Users(d)' \ {r} :
           d \in DOMAIN dirs /\ u \in Users(d)
  PROVE  FreshInv'
<1>1. 0 # r
  BY WebAssumption
<1>2. ASSUME NEW q \in Requests, job[q].fresh, Past(q) PROVE Past(q)'
  <2>1. pc'[q] = pc[q] /\ job'[q].dir = job[q].dir /\ q # r
    BY <1>2 DEF Past
  <2>2. ASSUME NEW d, d = job[q].dir, d \in DOMAIN dirs' PROVE q \notin Users(d)'
    BY <1>2, <2>1, <2>2 DEF Past
  <2>3. ASSUME job'[q].dir \in DOMAIN dirs' PROVE q \notin Users(job[q].dir)'
    BY <2>1, <2>2, <2>3 DEF Users
  <2> QED
    BY <1>2, <2>1, <2>3 DEF Past
<1>3. ASSUME NEW q \in Requests, NEW p \in Requests, job[q].fresh, job[p].fresh,
             Excused(q, p)
      PROVE  Excused(q, p)'
  BY <1>3 DEF Excused
<1>4. ASSUME NEW q \in Requests, job'[q].fresh
      PROVE  /\ job'[q].saw => Misled(job'[q].dir)
             /\ pc'[q] \in Working => job'[q].cut \/ job'[q].dir \in DOMAIN dirs'
  BY <1>4 DEF FreshInv, Misled
<1>5. ASSUME NEW q \in Requests, job'[q].fresh, NEW d, d = job'[q].dir,
             d \in DOMAIN dirs', 0 \in Users(d)'
      PROVE  job'[q].saw
  BY <1>1, <1>5 DEF FreshInv
<1>6. ASSUME NEW q \in Requests, job'[q].fresh, NEW p \in Requests \ {q},
             job'[p].fresh, job'[p].dir = job'[q].dir
      PROVE  Excused(q, p)' \/ Past(q)' \/ Past(p)'
  BY <1>2, <1>3, <1>6 DEF FreshInv
<1> QED
  BY <1>4, <1>5, <1>6 DEF FreshInv

\* The one that has just been named: whoever has its directory as well is its
\* rival, is seen by it, was cut off, or is past.
LEMMA FreshNamed ==
  ASSUME TypeOK, JobInv, FreshInv, NEW r \in Requests, NEW v \in Volcanos, NameRun(r, v)
  PROVE  FreshInv'
<1> DEFINE d == [volc |-> v, n |-> NextNumber(v)]
<1>1. d \in Names /\ dirs' = dirs /\ (d \in DOMAIN dirs => Misled(d))
  BY TakenMisled DEF NameRun
<1>2. /\ pc[r] = "new" /\ pc'[r] = "named" /\ Alone(r) /\ dirs' = dirs
      /\ job'[r].dir = d /\ job'[r].saw = (d \in DOMAIN dirs)
      /\ job'[r].rivals = {q \in Requests : pc[q] = "named" /\ job[q].dir = d}
  BY <1>1, NameRunDoes
<1> HIDE DEF d
<1>3. \A e : Users(e)' = Users(e)
  BY <1>2 DEF Users
<1>4. ASSUME NEW q \in Requests \ {r} PROVE pc'[q] = pc[q] /\ job'[q] = job[q]
  BY <1>2 DEF Alone
<1>5. ASSUME NEW q \in Requests \ {r}, NEW p \in Requests \ {q, r}
      PROVE  /\ Excused(q, p) => Excused(q, p)'
             /\ (Past(q) => Past(q)') /\ (Past(p) => Past(p)')
  <2>1. pc'[q] = pc[q] /\ job'[q] = job[q] /\ pc'[p] = pc[p] /\ job'[p] = job[p]
    BY <1>4
  <2> QED
    BY <1>2, <2>1 DEF Excused, Past, Users
<1>6. ASSUME NEW q \in Requests \ {r}, job'[q].fresh, job'[q].dir = d
      PROVE  (Excused(r, q)' /\ Excused(q, r)') \/ Past(q)'
  <2>1. /\ pc[q] \in Working \cup {"named", "ok", "unnoticed", "aborted", "error"}
        /\ pc'[q] = pc[q] /\ job'[q] = job[q]
    BY <1>4, <1>6 DEF JobInv, Working, Leaving
  <2>2. CASE d \in DOMAIN dirs
    BY <1>2, <2>2 DEF Excused
  <2>3. CASE d \notin DOMAIN dirs
    <3>1. CASE pc[q] = "named"
      BY <1>2, <1>6, <2>1, <3>1 DEF Excused
    <3>2. CASE pc[q] \in Working
      <4>1. job[q].cut
        BY <1>6, <2>1, <2>3, <3>2 DEF FreshInv
      <4> QED
        BY <2>1, <4>1 DEF Excused
    <3>3. CASE pc[q] \in {"ok", "unnoticed", "aborted", "error"}
      BY <1>2, <1>6, <2>1, <2>3, <3>3 DEF Past, Finished
    <3> QED
      BY <2>1, <3>1, <3>2, <3>3
  <2> QED
    BY <2>2, <2>3
<1>7. ASSUME NEW q \in Requests, job'[q].fresh
      PROVE  /\ job'[q].saw => Misled(job'[q].dir)
             /\ pc'[q] \in Working => job'[q].cut \/ job'[q].dir \in DOMAIN dirs'
             /\ job'[q].dir \in DOMAIN dirs' /\ 0 \in Users(job[q].dir)' => job'[q].saw
  <2>1. CASE q = r
    BY <1>1, <1>2, <2>1 DEF Working
  <2>2. CASE q # r
    <3>1. pc'[q] = pc[q] /\ job'[q] = job[q]
      BY <1>4, <2>2
    <3> QED
      BY <1>2, <1>7, <3>1 DEF FreshInv, Users
  <2> QED
    BY <2>1, <2>2
<1>8. ASSUME NEW q \in Requests, job'[q].fresh, NEW p \in Requests \ {q},
             job'[p].fresh, job'[p].dir = job'[q].dir
      PROVE  Excused(q, p)' \/ Past(q)' \/ Past(p)'
  <2>1. CASE q = r
    BY <1>2, <1>6, <1>8, <2>1
  <2>2. CASE p = r
    BY <1>2, <1>6, <1>8, <2>2
  <2>3. CASE q # r /\ p # r
    <3>1. /\ job[q].fresh /\ job[p].fresh /\ job[p].dir = job[q].dir
      BY <1>4, <1>8, <2>3
    <3>2. Excused(q, p) \/ Past(q) \/ Past(p)
      BY <1>8, <3>1 DEF FreshInv
    <3>3. q \in Requests \ {r} /\ p \in Requests \ {q, r}
      BY <1>8, <2>3
    <3>4. /\ Excused(q, p) => Excused(q, p)'
          /\ (Past(q) => Past(q)') /\ (Past(p) => Past(p)')
      BY <1>5, <3>3
    <3> QED
      BY <3>2, <3>4
  <2> QED
    BY <2>1, <2>2, <2>3
<1> QED
  BY <1>7, <1>8 DEF FreshInv

LEMMA FreshRemoved ==
  ASSUME TypeOK, JobInv, FreshInv, NEW d \in Names, NEW r \in Requests, Removed(d, r),
         pc[r] \in {"new", "failed"}, pc'[r] \in {"error", "deleted"},
         pc[r] = "failed" => d = job[r].dir,
         \A q \in Requests \ {r} : pc'[q] = pc[q]
  PROVE  FreshInv'
<1>1. /\ DOMAIN dirs' = DOMAIN dirs \ {d}
      /\ job'[r].dir = d /\ \A q \in Requests \ {r} : job'[q].dir = job[q].dir
      /\ \A q \in Requests \ {r} :
           d \in DOMAIN dirs /\ q \in AtWork(d) => job'[q].cut = TRUE
      /\ \A q \in Requests :
           /\ job'[q].fresh = job[q].fresh /\ job'[q].saw = job[q].saw
           /\ job'[q].rivals = job[q].rivals
           /\ job[q].cut = TRUE => job'[q].cut = TRUE
  <2>1. Gone(d, r)
    BY Removing
  <2> QED
    BY <2>1 DEF Gone
<1>2. \A e \in DOMAIN dirs \ {d} : Users(e)' = Users(e)
  BY RemovingUsers
<1>3. job[r].fresh => job'[r].dir = job[r].dir
  BY <1>1 DEF JobInv, Working, Leaving
<1>4. ASSUME NEW q \in Requests, job[q].fresh, pc'[q] \in Working
      PROVE  job'[q].cut = TRUE \/ job[q].dir \in DOMAIN dirs'
  <2>1. q # r /\ pc[q] \in Working
    BY <1>4 DEF Working
  <2>2. job[q].cut \/ job[q].dir \in DOMAIN dirs
    BY <1>4, <2>1 DEF FreshInv
  <2>3. job[q].dir = d => q \in AtWork(d)
    BY <2>1 DEF AtWork, Working
  <2> QED
    BY <1>1, <2>1, <2>2, <2>3
<1>5. pc[r] \notin Finished
  BY DEF Finished
<1> QED
  BY <1>1, <1>2, <1>3, <1>4, <1>5, FreshStep

LEMMA FreshNext == TypeOK /\ JobInv /\ FreshInv /\ [Next]_vars => FreshInv'
<1> SUFFICES ASSUME TypeOK, JobInv, FreshInv, [Next]_vars PROVE FreshInv'
  OBVIOUS
<1>0. \A q \in Requests : job[q].fresh /\ pc[q] \in Working =>
        job[q].cut = TRUE \/ job[q].dir \in DOMAIN dirs
  BY DEF FreshInv
<1>1. ASSUME NEW r \in Requests, dirs' = dirs, Alone(r), pc[r] \in {"new", "tested"},
             job'[r].fresh = job[r].fresh
      PROVE  FreshInv'
  <2>1. \A d : Users(d)' = Users(d)
    BY <1>1 DEF Users
  <2>2. ~job[r].fresh /\ pc[r] \notin Finished
    BY <1>1 DEF JobInv, Working, Leaving, Finished
  <2> QED
    BY <1>0, <1>1, <2>1, <2>2, FreshStep DEF Alone
<1>2. ASSUME NEW r \in Requests, NEW t \in Typed, TestSession(r, t) PROVE FreshInv'
  <2>1. /\ pc[r] = "new" /\ Alone(r) /\ job'[r].fresh = job[r].fresh /\ dirs' = dirs
    BY <1>2, TestSessionDoes DEF TestSession
  <2> QED
    BY <1>1, <2>1
<1>3. ASSUME NEW r \in Requests, MakeSession(r) PROVE FreshInv'
  BY <1>1, <1>3, MakeSessionDoes
<1>4. ASSUME NEW r \in Requests, NEW d \in past, Restart(r, d) PROVE FreshInv'
  <2>1. /\ pc[r] = "new" /\ Alone(r) /\ job'[r].fresh = job[r].fresh /\ dirs' = dirs
    BY <1>4, RestartDoes DEF Restart
  <2> QED
    BY <1>1, <2>1
<1>5. ASSUME NEW r \in Requests, NEW d \in past, DeletePrevious(r, d) PROVE FreshInv'
  BY <1>5, Going, FreshRemoved DEF DeletePrevious, TypeOK
<1>6. ASSUME NEW r \in Requests, RemoveFailed(r) PROVE FreshInv'
  <2>1. job[r].dir \in Names
    BY <1>6 DEF RemoveFailed, JobInv, Working
  <2> QED
    BY <1>6, <2>1, Going, FreshRemoved DEF RemoveFailed
<1>7. ASSUME NEW r \in Requests, MakeDir(r) PROVE FreshInv'
  <2>1. PICK d : d = job[r].dir
    OBVIOUS
  <2>2. /\ pc[r] = "named" /\ job' = job /\ Alone(r)
        /\ DOMAIN dirs' = DOMAIN dirs \cup {d}
        /\ \A e \in DOMAIN dirs : Users(e)' = Users(e)
        /\ d \notin DOMAIN dirs => Users(d)' = {}
    BY <1>7, <2>1, MakeDirDoes
  <2>3. pc[r] \notin Finished
    BY <2>2 DEF Finished
  <2> QED
    BY <1>0, <2>1, <2>2, <2>3, FreshStep DEF Alone
<1>8. ASSUME NEW r \in Requests, StartPuff(r) PROVE FreshInv'
  <2>1. PICK d : d = job[r].dir
    OBVIOUS
  <2>2. /\ pc[r] = "made" /\ job' = job /\ Alone(r)
        /\ DOMAIN dirs' = DOMAIN dirs
        /\ \A e \in DOMAIN dirs \ {d} : Users(e)' = Users(e)
        /\ d \in DOMAIN dirs => Users(d)' = Users(d) \cup {r}
    BY <1>8, <2>1, StartPuffDoes
  <2>3. pc[r] \notin Finished /\ pc[r] \in Working
    BY <2>2 DEF Finished, Working
  <2> QED
    BY <1>0, <2>1, <2>2, <2>3, FreshStep DEF Alone
<1>9. ASSUME NEW r \in Requests, Dump(r) PROVE FreshInv'
  <2>1. PICK d : d = job[r].dir
    OBVIOUS
  <2>2. /\ pc[r] = "puff" /\ pc' = pc /\ Alone(r) /\ job'[r].dir = d
        /\ job'[r].fresh = job[r].fresh /\ job'[r].saw = job[r].saw
        /\ job'[r].rivals = job[r].rivals /\ job'[r].cut = job[r].cut
        /\ DOMAIN dirs' = DOMAIN dirs \cup {d}
        /\ \A e \in DOMAIN dirs \ {d} : Users(e)' = Users(e)
        /\ Users(d)' = (IF d \in DOMAIN dirs THEN Users(d) ELSE {}) \cup {r}
    BY <1>9, <2>1, DumpDoes, DumpUsers
  <2>3. pc[r] \notin Finished
    BY <2>2 DEF Finished
  <2>4. \A q \in Requests \ {r} : pc'[q] = pc[q] /\ job'[q] = job[q]
    BY <2>2 DEF Alone
  <2> QED
    BY <1>0, <2>1, <2>2, <2>3, <2>4, FreshStep
<1>10. ASSUME NEW r \in Requests, EndPuff(r) \/ Abort(r) PROVE FreshInv'
  <2>1. /\ pc[r] \in Working \cup {"tested", "named"} /\ job' = job /\ Alone(r)
        /\ dirs' = dirs
        /\ pc'[r] \in {"ok", "unnoticed", "aborted"} \/ pc[r] \in Working
    BY <1>10, EndPuffDoes, AbortDoes DEF Working
  <2>2. \A d : Users(d)' = Users(d)
    BY <2>1 DEF Users
  <2>3. pc[r] \notin Finished /\ (pc'[r] \in Working => pc[r] \in Working)
    BY <2>1 DEF Finished, Working
  <2> QED
    BY <1>0, <2>1, <2>2, <2>3, FreshStep DEF Alone
<1>11. CASE UNCHANGED vars
  BY <1>11 DEF vars, FreshInv, Misled, Users, Excused, Past
<1> QED
  BY <1>2, <1>3, <1>4, <1>5, <1>6, <1>7, <1>8, <1>9, <1>10, <1>11, FreshNamed
     DEF Next, Served, Terminated

\* runParams.pl: process_form.  Two runs that each asked for a directory of its
\* own write into the same one only when both were named before either made it,
\* when it was deleted under one of them, or when the listing misled one, which
\* it does behind number 9 and where one name continues another.
THEOREM SharedOnlyThus == Spec => []SharedWays
<1>1. Init => FreshInv
  <2>1. NoJob.fresh = FALSE
    BY DEF NoJob
  <2> QED
    BY <2>1 DEF Init, FreshInv
<1>2. JobInv /\ UserInv /\ FreshInv => SharedWays
  <2> SUFFICES ASSUME JobInv, UserInv, FreshInv, NEW d \in DOMAIN dirs,
                      NEW r \in Users(d) \ {0}, job[r].fresh
               PROVE  /\ job[r].saw => Misled(d)
                      /\ 0 \in Users(d) => job[r].saw \/ job[r].cut
                      /\ \A q \in Users(d) \ {0, r} : job[q].fresh => Excused(r, q)
    BY DEF SharedWays, Excused
  <2>1. r \in Requests /\ job[r].dir = d
    BY DEF UserInv
  <2>2. (job[r].saw => Misled(d)) /\ (0 \in Users(d) => job[r].saw)
    BY <2>1 DEF FreshInv
  <2>3. ASSUME NEW q \in Users(d) \ {0, r}, job[q].fresh PROVE Excused(r, q)
    <3>1. q \in Requests /\ job[q].dir = d
      BY DEF UserInv
    <3>2. ~Past(r) /\ ~Past(q)
      BY <2>1, <3>1 DEF Past
    <3> QED
      BY <2>1, <2>3, <3>1, <3>2 DEF FreshInv
  <2> QED
    BY <2>2, <2>3
<1> QED
  BY <1>1, <1>2, FreshNext, UserCorrect, PTL DEF Spec
=============================================================================

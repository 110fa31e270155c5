-------------------------- MODULE MiniHttpdProofs --------------------------
(***************************************************************************)
(* Theorems about MiniHttpd, for any number of connections, any requests   *)
(* and bodies, and pipes, sockets and buffers of any size.  ConnInv is     *)
(* about one connection: a step of another connection leaves all of it     *)
(* alone, and one of the main process no more than reaps its handler.      *)
(***************************************************************************)
EXTENDS MiniHttpd, SequenceTheorems, FiniteSetTheorems, TLAPS

Unit == {"408", "error", "file", "head", "data"}

Stage    == Handling \cup Running \cup {"none", "queued", "dead", "gone"}
InStage  == {"none", "push", "pull", "garbage", "clear", "gone"}
OutStage == {"none", "headers", "status", "echo", "write", "blocked", "gone"}

\* The types by themselves; what the counters are bounded by is in ConnInv.
Types ==
  /\ main \in {"top", "clear", "wait", "select", "accept", "down"}
  /\ got_hup \in BOOLEAN /\ due \in {"no", "yes", "lost"} /\ lag \in Nat
  /\ ask \in Scenes /\ hups \in 0 .. MaxHups[ask] /\ chld \in BOOLEAN
  /\ client \in [Conns -> {"away", "open", "closed"}]
  /\ pc \in [Conns -> Stage] /\ inp \in [Conns -> InStage] /\ outp \in [Conns -> OutStage]
  /\ down \in [Conns -> Seq(Unit)] /\ seen \in [Conns -> Seq(Unit)]
  /\ shut \in [Conns -> BOOLEAN] /\ ndelay \in [Conns -> BOOLEAN]
  /\ end \in [Conns -> SUBSET Tags]
  /\ sent \in [Conns -> Int] /\ up \in [Conns -> Int] /\ rest \in [Conns -> Int]
  /\ passed \in [Conns -> Int] /\ stdin \in [Conns -> Int] /\ eaten \in [Conns -> Int]
  /\ made \in [Conns -> Int] /\ stdout \in [Conns -> Int] /\ held \in [Conns -> Int]

Waiting == {"none", "queued", "read", "refused"}
Ended   == {"dead", "gone"}

Replied(c) == Len(Answered(c))

\* Pipes, socket and buffers hold no more than there is room for, and the
\* counters no less than nothing.
BoundInv(c) ==
  /\ 0 <= sent[c] /\ sent[c] <= ask[c].body + 1 /\ 0 <= up[c] /\ up[c] <= SockRoom
  /\ 0 <= rest[c] /\ 0 <= passed[c] /\ 0 <= eaten[c]
  /\ 0 <= stdin[c] /\ stdin[c] <= PipeRoom /\ 0 <= stdout[c] /\ stdout[c] <= PipeRoom
  /\ 0 <= made[c] /\ made[c] <= MaxOut /\ (pc[c] = "writes" => made[c] < MaxOut)
  /\ 0 <= held[c] /\ held[c] <= EchoSize
  /\ outp[c] \in {"write", "blocked"} => held[c] > 0
  /\ outp[c] \in {"none", "headers", "status", "echo"} => held[c] = 0

RoomInv(c) == 0 <= Room(c)

\* Which processes there are in which stage of the handler.
StageInv(c) ==
  /\ pc[c] = "none" <=> client[c] = "away"
  /\ pc[c] \in Waiting \cup {"serve", "input", "file"} => inp[c] = "none"
  /\ pc[c] \in Waiting \cup {"serve", "input", "file", "output"} => outp[c] = "none"
  /\ pc[c] \in Handling => outp[c] \in {"none", "headers"}
  /\ pc[c] \in Running => outp[c] # "none"
  /\ pc[c] \in Waiting \cup Handling =>
       made[c] = 0 /\ eaten[c] = 0 /\ "short" \notin end[c] /\ "raced" \notin end[c]
  /\ pc[c] = "exec" => outp[c] = "headers"
  /\ outp[c] = "none" => made[c] = 0 /\ stdout[c] = 0

\* What the client has been answered: nothing, or a page of the server by a
\* handler that has ended, or headers and data of a program.
Blank(c) ==
  /\ Answered(c) = <<>> /\ Replied(c) = 0
  /\ outp[c] \in {"echo", "write", "blocked"} => client[c] = "closed"
ByServer(c) ==
  /\ Replied(c) = 1
  /\ pc[c] \in Ended /\ outp[c] \in {"none", "headers", "gone"} /\ made[c] = 0
HeadAndData(s) == Len(s) >= 1 /\ s[1] = "head" /\ \A i \in 2 .. Len(s) : s[i] = "data"
ByProgram(c) ==
  /\ HeadAndData(Answered(c))
  /\ pc[c] \in Running \cup Ended
  /\ outp[c] \in {"echo", "write", "blocked", "gone"}
AnswerInv(c) == Blank(c) \/ ByServer(c) \/ ByProgram(c)

\* Where the units are that the program has made.
FlowInv(c) ==
  /\ outp[c] = "headers" => made[c] = stdout[c]
  /\ outp[c] = "status" => made[c] = stdout[c] + 1
  /\ outp[c] \in {"echo", "write", "blocked"} /\ client[c] = "open" =>
       made[c] = stdout[c] + held[c] + Replied(c)
  /\ /\ outp[c] = "gone" /\ "left" \notin end[c] /\ "raced" \notin end[c]
     /\ made[c] > 0
     => made[c] = Replied(c)

\* A client that closed at the end has seen all of the reply; nothing can be
\* added to it any more.
ClosedInv(c) ==
  /\ client[c] = "closed" /\ "left" \notin end[c] =>
       /\ down[c] = <<>> /\ outp[c] \in {"none", "gone"}
       /\ pc[c] \in Ended \/ (outp[c] = "gone" /\ "raced" \in end[c])
  /\ shut[c] =>
       /\ outp[c] = "gone"
       /\ pc[c] \in Ended \/ "left" \in end[c] \/ "raced" \in end[c]
  /\ "left" \in end[c] => client[c] = "closed"
  /\ "raced" \in end[c] =>
       outp[c] = "gone" /\ inp[c] # "none" /\ passed[c] >= Length(c)

\* Where the units are that the client has sent.
BodyInv(c) ==
  /\ inp[c] = "none" =>
       /\ passed[c] = 0 /\ stdin[c] = 0
       /\ \/ sent[c] = up[c] /\ rest[c] = 0 /\ eaten[c] = 0
             /\ pc[c] \in Waiting \cup Ended
          \/ sent[c] = 1 + up[c] + rest[c] + eaten[c] /\ pc[c] \notin Waiting
  /\ inp[c] # "none" =>
       /\ sent[c] = 1 + up[c] + rest[c] + passed[c]
       /\ passed[c] = stdin[c] + eaten[c] /\ ask[c].post /\ pc[c] \notin Waiting
  /\ pc[c] = "none" => sent[c] = 0

\* What the stages of handler, program and input interposer say of them.
InputInv(c) ==
  /\ pc[c] = "input" => ask[c].post /\ rest[c] > 0
  /\ inp[c] = "push" => rest[c] > 0
  /\ inp[c] \in {"pull", "garbage", "clear"} => rest[c] = 0
  /\ inp[c] \in {"garbage", "clear"} => passed[c] >= Length(c)
  /\ ndelay[c] => inp[c] = "clear"
  /\ pc[c] \in {"output", "exec"} \cup Running /\ inp[c] = "none" /\ ask[c].post =>
       rest[c] = 0
  /\ inp[c] = "gone" /\ pc[c] \in {"output", "exec", "page"} \cup Running =>
       \/ passed[c] >= Length(c)
       \/ up[c] = 0 /\ rest[c] = 0 /\ client[c] = "closed"
  /\ pc[c] = "reads" => eaten[c] < Length(c) /\ "short" \notin end[c]

ShortInv(c) ==
  "short" \in end[c] =>
    /\ "left" \in end[c] /\ up[c] = 0 /\ inp[c] \in {"none", "gone"}
    /\ sent[c] <= ask[c].body /\ eaten[c] = sent[c] - 1

ConnInv(c) ==
  /\ BoundInv(c) /\ RoomInv(c) /\ StageInv(c) /\ AnswerInv(c) /\ FlowInv(c)
  /\ ClosedInv(c) /\ BodyInv(c) /\ InputInv(c) /\ ShortInv(c)

\* After a SIGHUP the log is re-opened at the top of the loop, if the SIGHUP did
\* not come there itself.
FreshInv ==
  /\ lag <= 1 /\ (main # "top" => lag = 0)
  /\ (due = "yes" => got_hup /\ main # "clear") /\ (lag > 0 => due = "yes")

ServerInv == Types /\ FreshInv /\ \A c \in Conns : ConnInv(c)

-----------------------------------------------------------------------------
(* One connection at a time.                                               *)

\* The variables of a connection but pc.
SameButPc(d) ==
  /\ client'[d] = client[d] /\ sent'[d] = sent[d] /\ up'[d] = up[d]
  /\ down'[d] = down[d] /\ seen'[d] = seen[d] /\ shut'[d] = shut[d]
  /\ inp'[d] = inp[d] /\ outp'[d] = outp[d] /\ rest'[d] = rest[d]
  /\ passed'[d] = passed[d] /\ stdin'[d] = stdin[d] /\ eaten'[d] = eaten[d]
  /\ made'[d] = made[d] /\ stdout'[d] = stdout[d] /\ held'[d] = held[d]
  /\ ndelay'[d] = ndelay[d] /\ end'[d] = end[d] /\ ask' = ask

LEMMA ScenesAre ==
  ASSUME Types, NEW c \in Conns
  PROVE  ask[c].body \in Nat /\ ask[c].post \in BOOLEAN /\ Length(c) \in Nat
         /\ Length(c) <= ask[c].body
<1>1. ask[c] \in Ask
  BY ServerAssumption DEF Types
<1> QED
  BY <1>1 DEF Ask, Length

\* A connection that a step leaves alone, or of which it reaps the handler or
\* drops the place in the queue.
LEMMA SameKeeps ==
  ASSUME Types, NEW d \in Conns, ConnInv(d), SameButPc(d),
         \/ pc'[d] = pc[d]
         \/ pc[d] \in {"queued", "dead"} /\ pc'[d] = "gone"
  PROVE  ConnInv(d)'
<1> USE DEF SameButPc, Waiting, Ended, Handling, Running
<1>0. /\ Answered(d)' = Answered(d) /\ Replied(d)' = Replied(d)
      /\ Length(d)' = Length(d) /\ Room(d)' = Room(d)
  BY DEF Answered, Length, Replied, Room
<1>1. BoundInv(d)' /\ RoomInv(d)'
  BY <1>0 DEF ConnInv, BoundInv, RoomInv
<1>2. StageInv(d)'
  BY DEF ConnInv, StageInv
<1>3. AnswerInv(d)'
  BY <1>0 DEF ConnInv, AnswerInv, Blank, ByServer, ByProgram
<1>4. FlowInv(d)'
  BY <1>0 DEF ConnInv, FlowInv
<1>5. ClosedInv(d)'
  BY <1>0 DEF ConnInv, ClosedInv
<1>6. BodyInv(d)' /\ InputInv(d)'
  BY <1>0 DEF ConnInv, BodyInv, InputInv
<1>7. ShortInv(d)'
  BY DEF ConnInv, ShortInv
<1> QED
  BY <1>1, <1>2, <1>3, <1>4, <1>5, <1>6, <1>7 DEF ConnInv

\* What a step of a connection does to the answer: nothing, or a unit more.
LEMMA AnswerKept ==
  ASSUME NEW c \in Conns, down'[c] = down[c], seen'[c] = seen[c]
  PROVE  Answered(c)' = Answered(c)
BY DEF Answered

LEMMA AnswerGrows ==
  ASSUME Types, NEW c \in Conns, NEW u \in Unit,
         down'[c] = Append(down[c], u), seen'[c] = seen[c]
  PROVE  Answered(c)' = Append(Answered(c), u) /\ Answered(c) \in Seq(Unit)
<1>1. seen[c] \in Seq(Unit) /\ down[c] \in Seq(Unit)
  BY DEF Types
<1>2. \A r, s \in Seq(Unit) : r \o Append(s, u) = Append(r \o s, u) /\ r \o s \in Seq(Unit)
  OBVIOUS
<1> QED
  BY <1>1, <1>2 DEF Answered

\* The counters of a connection.
Counters(c) ==
  /\ sent[c] \in Int /\ up[c] \in Int /\ rest[c] \in Int /\ passed[c] \in Int
  /\ stdin[c] \in Int /\ eaten[c] \in Int /\ made[c] \in Int /\ stdout[c] \in Int
  /\ held[c] \in Int
  /\ ask[c].body \in Nat /\ Length(c) \in Nat /\ Length(c) <= ask[c].body
  /\ PipeRoom \in Nat /\ SockRoom \in Nat /\ EchoSize \in Nat /\ MaxOut \in Nat
  /\ EchoSize > 0

LEMMA CountersAt ==
  ASSUME Types, NEW c \in Conns
  PROVE  /\ Counters(c) /\ Answered(c) \in Seq(Unit) /\ down[c] \in Seq(Unit)
         /\ Replied(c) \in Nat /\ Room(c) \in Int /\ Len(down[c]) \in Nat
<1>1. seen[c] \in Seq(Unit) /\ down[c] \in Seq(Unit)
  BY DEF Types
<1>2. Answered(c) \in Seq(Unit)
  BY <1>1, ConcatProperties DEF Answered
<1>3. Replied(c) \in Nat /\ Len(down[c]) \in Nat
  BY <1>1, <1>2, LenProperties DEF Replied
<1>4. Room(c) \in Int
  BY <1>3, ServerAssumption DEF Room
<1>5. /\ sent[c] \in Int /\ up[c] \in Int /\ rest[c] \in Int /\ passed[c] \in Int
      /\ stdin[c] \in Int /\ eaten[c] \in Int /\ made[c] \in Int
      /\ stdout[c] \in Int /\ held[c] \in Int
  BY DEF Types
<1>6. /\ PipeRoom \in Nat /\ SockRoom \in Nat /\ EchoSize \in Nat /\ MaxOut \in Nat
      /\ EchoSize > 0
  BY ServerAssumption
<1>7. Counters(c)
  BY <1>5, <1>6, ScenesAre DEF Counters
<1> QED
  BY <1>1, <1>2, <1>3, <1>4, <1>7

LEMMA EnoughBody ==
  ASSUME NEW c \in Conns, Counters(c)
  PROVE  ~MoreBody(c) => passed[c] >= Length(c)
BY DEF Counters, MoreBody

LEMMA RoomPlus ==
  ASSUME NEW a \in Int, NEW b \in Int
  PROVE  a - (b - 1) = (a - b) + 1 /\ a - (b + 1) = (a - b) - 1
OBVIOUS

\* A unit that the client takes out of the socket stays answered.
LEMMA AnswerMoves ==
  ASSUME Types, NEW c \in Conns, down[c] # <<>>,
         seen'[c] = Append(seen[c], Head(down[c])), down'[c] = Tail(down[c])
  PROVE  Answered(c)' = Answered(c) /\ Len(down'[c]) = Len(down[c]) - 1
<1>1. seen[c] \in Seq(Unit) /\ down[c] \in Seq(Unit)
  BY DEF Types
<1>2. \A r, s \in Seq(Unit) : s # <<>> =>
        /\ Append(r, Head(s)) \o Tail(s) = r \o s
        /\ Len(Tail(s)) = Len(s) - 1
  OBVIOUS
<1> QED
  BY <1>1, <1>2 DEF Answered

LEMMA UnitNames == {"408", "error", "file", "head", "data"} \subseteq Unit
BY DEF Unit

LEMMA ReplyTypes ==
  ASSUME Types, NEW c \in Conns, NEW u \in Unit, Reply(c, u)
  PROVE  down' \in [Conns -> Seq(Unit)]
<1>1. down \in [Conns -> Seq(Unit)]
  BY DEF Types
<1>2. Append(down[c], u) \in Seq(Unit)
  BY <1>1, AppendProperties
<1> QED
  BY <1>1, <1>2 DEF Reply

\* A reply of the server adds a unit, or nothing if the client is gone.
LEMMA ReplyGrows ==
  ASSUME Types, NEW c \in Conns, NEW u \in Unit, CanReply(c), Reply(c, u),
         seen'[c] = seen[c], client'[c] = client[c]
  PROVE  \/ /\ client[c] # "open" /\ down'[c] = down[c] /\ Answered(c)' = Answered(c)
            /\ Replied(c)' = Replied(c) /\ Room(c)' = Room(c)
         \/ /\ client[c] = "open" /\ Room(c) > 0 /\ Answered(c)' = Append(Answered(c), u)
            /\ Replied(c)' = Replied(c) + 1 /\ Room(c)' = Room(c) - 1
<1>1. CASE client[c] # "open"
  BY <1>1 DEF Reply, Answered, Replied, Room
<1>2. CASE client[c] = "open"
  <2>1. down'[c] = Append(down[c], u) /\ Room(c) > 0
    BY <1>2 DEF Reply, CanReply, Types
  <2>2. Answered(c)' = Append(Answered(c), u) /\ Answered(c) \in Seq(Unit)
        /\ down[c] \in Seq(Unit) /\ Len(down[c]) \in Nat
    BY <2>1, AnswerGrows, LenProperties DEF Types
  <2>3. Len(down'[c]) = Len(down[c]) + 1 /\ Replied(c)' = Replied(c) + 1
    BY <2>1, <2>2, AppendProperties DEF Replied
  <2> QED
    BY <1>2, <2>1, <2>2, <2>3, RoomPlus, ServerAssumption DEF Room
<1> QED
  BY <1>1, <1>2

LEMMA StagesAt ==
  ASSUME Types, NEW c \in Conns
  PROVE  pc[c] \in Stage /\ client[c] \in {"away", "open", "closed"}
BY DEF Types

LEMMA LeastOfTwo ==
  ASSUME NEW a \in Int, NEW b \in Int
  PROVE  /\ LeastOf(a, b) \in Int /\ LeastOf(a, b) <= a /\ LeastOf(a, b) <= b
         /\ LeastOf(a, b) = a \/ LeastOf(a, b) = b
BY DEF LeastOf

LEMMA HeadFirst == HeadAndData(Append(<<>>, "head"))
BY DEF HeadAndData

LEMMA MoreData ==
  ASSUME NEW s \in Seq(Unit), HeadAndData(s), "data" \in Unit
  PROVE  HeadAndData(Append(s, "data"))
<1>1. /\ Len(Append(s, "data")) = Len(s) + 1 /\ Len(s) \in Nat
      /\ \A i \in 1 .. Len(s) : Append(s, "data")[i] = s[i]
      /\ Append(s, "data")[Len(s) + 1] = "data"
  BY AppendProperties, LenProperties
<1> QED
  BY <1>1 DEF HeadAndData

LEMMA DataUnits ==
  ASSUME NEW k \in Nat
  PROVE  /\ Units(k) \in Seq(Unit) /\ Len(Units(k)) = k
         /\ \A i \in 1 .. k : Units(k)[i] = "data"
<1>1. Units(k) = [i \in 1 .. k |-> "data"] /\ "data" \in Unit
  BY DEF Units, Unit
<1> QED
  BY <1>1

LEMMA MoreUnits ==
  ASSUME NEW s \in Seq(Unit), HeadAndData(s), NEW k \in Nat
  PROVE  HeadAndData(s \o Units(k))
<1>1. /\ Units(k) \in Seq(Unit) /\ Len(Units(k)) = k /\ Len(s) \in Nat
      /\ \A i \in 1 .. k : Units(k)[i] = "data"
  BY DataUnits, LenProperties
<1>2. /\ Len(s \o Units(k)) = Len(s) + k
      /\ \A i \in 1 .. Len(s) + k :
           (s \o Units(k))[i] = IF i <= Len(s) THEN s[i] ELSE Units(k)[i - Len(s)]
  BY <1>1, ConcatProperties
<1>3. Len(s) >= 1 /\ s[1] = "head" /\ \A i \in 2 .. Len(s) : s[i] = "data"
  BY DEF HeadAndData
<1>4. ASSUME NEW i \in 2 .. Len(s) + k
      PROVE  (s \o Units(k))[i] = "data"
  <2>1. CASE i <= Len(s)
    BY <2>1, <1>1, <1>2, <1>3
  <2>2. CASE i > Len(s)
    <3>1. i - Len(s) \in 1 .. k
      BY <2>2, <1>1
    <3> QED
      BY <2>2, <3>1, <1>1, <1>2
  <2> QED
    BY <2>1, <2>2, <1>1
<1> QED
  BY <1>1, <1>2, <1>3, <1>4 DEF HeadAndData

LEMMA JoinUnits ==
  \A r, s, t \in Seq(Unit) : r \o (s \o t) = (r \o s) \o t
OBVIOUS

LEMMA JoinLengths ==
  ASSUME NEW r \in Seq(Unit), NEW s \in Seq(Unit)
  PROVE  Len(r \o s) = Len(r) + Len(s)
OBVIOUS

\* Units that go from the buffer into the socket.
LEMMA UnitsMove ==
  ASSUME NEW m \in Int, NEW s \in Int, NEW h \in Int, NEW r \in Int, NEW k \in Int,
         m = s + h + r
  PROVE  m = s + (h - k) + (r + k)
OBVIOUS

-----------------------------------------------------------------------------
(* The actions of a connection keep its types and its invariant.  Of each, *)
(* <1>1 says what it does to the variables of the connection and <1>2 what *)
(* to the answer; from there on the action itself is not looked at.        *)

LEMMA ConnectKeeps ==
  ASSUME Types, NEW c \in Conns, ConnInv(c), Connect(c)
  PROVE  Types' /\ ConnInv(c)'
<1> USE DEF ConnInv, Waiting, Ended, Handling, Running
<1>0. Counters(c) /\ Replied(c) \in Nat /\ Room(c) \in Int
  BY CountersAt
<1>1. /\ client[c] = "away" /\ client'[c] = "open" /\ pc'[c] = "queued"
      /\ ask'[c] = ask[c] /\ sent'[c] = sent[c] /\ up'[c] = up[c]
      /\ down'[c] = down[c] /\ seen'[c] = seen[c] /\ shut'[c] = shut[c]
      /\ inp'[c] = inp[c] /\ outp'[c] = outp[c] /\ rest'[c] = rest[c]
      /\ passed'[c] = passed[c] /\ stdin'[c] = stdin[c] /\ eaten'[c] = eaten[c]
      /\ made'[c] = made[c] /\ stdout'[c] = stdout[c] /\ held'[c] = held[c]
      /\ ndelay'[c] = ndelay[c] /\ end'[c] = end[c]
  BY DEF Connect, serverVars, clientVars, inputVars, outputVars, Set, Types
<1>2. /\ Answered(c)' = Answered(c) /\ Replied(c)' = Replied(c)
      /\ Length(c)' = Length(c) /\ Room(c)' = Room(c)
  BY <1>1 DEF Answered, Replied, Length, Room
<1>3. Types'
  BY DEF Connect, serverVars, clientVars, inputVars, outputVars, Set, Types, Stage,
         InStage, OutStage
<1>4. BoundInv(c)'
  BY <1>0, <1>1, <1>2 DEF Counters, BoundInv
<1>5. RoomInv(c)'
  BY <1>0, <1>1, <1>2 DEF Counters, RoomInv
<1>6. StageInv(c)'
  BY <1>0, <1>1, <1>2 DEF Counters, StageInv
<1>7. AnswerInv(c)'
  BY <1>0, <1>1, <1>2 DEF Counters, AnswerInv, Blank, ByServer, ByProgram, StageInv
<1>8. FlowInv(c)'
  BY <1>0, <1>1, <1>2 DEF Counters, FlowInv, StageInv
<1>9. ClosedInv(c)'
  BY <1>0, <1>1, <1>2 DEF Counters, ClosedInv, StageInv
<1>10. BodyInv(c)'
  BY <1>0, <1>1, <1>2 DEF Counters, BodyInv, StageInv
<1>11. InputInv(c)'
  BY <1>0, <1>1, <1>2 DEF Counters, InputInv, BodyInv, StageInv
<1>12. ShortInv(c)'
  BY <1>0, <1>1, <1>2 DEF Counters, ShortInv, StageInv
<1> QED
  BY <1>3, <1>4, <1>5, <1>6, <1>7, <1>8, <1>9, <1>10, <1>11, <1>12

LEMMA SendKeeps ==
  ASSUME Types, NEW c \in Conns, ConnInv(c), Send(c)
  PROVE  Types' /\ ConnInv(c)'
<1> USE DEF ConnInv, Waiting, Ended, Handling, Running
<1>0. Counters(c) /\ Replied(c) \in Nat /\ Room(c) \in Int
  BY CountersAt
<1>1. /\ sent'[c] = sent[c] + 1 /\ up'[c] = up[c] + 1
      /\ client[c] = "open" /\ sent[c] <= ask[c].body /\ up[c] < SockRoom
      /\ ask'[c] = ask[c] /\ client'[c] = client[c] /\ down'[c] = down[c]
      /\ seen'[c] = seen[c] /\ shut'[c] = shut[c] /\ pc'[c] = pc[c]
      /\ inp'[c] = inp[c] /\ outp'[c] = outp[c] /\ rest'[c] = rest[c]
      /\ passed'[c] = passed[c] /\ stdin'[c] = stdin[c] /\ eaten'[c] = eaten[c]
      /\ made'[c] = made[c] /\ stdout'[c] = stdout[c] /\ held'[c] = held[c]
      /\ ndelay'[c] = ndelay[c] /\ end'[c] = end[c]
  BY DEF Send, serverVars, clientVars, inputVars, outputVars, Set, Types
<1>2. /\ Answered(c)' = Answered(c) /\ Replied(c)' = Replied(c)
      /\ Length(c)' = Length(c) /\ Room(c)' = Room(c)
  BY <1>1 DEF Answered, Replied, Length, Room
<1>3. Types'
  BY DEF Send, serverVars, clientVars, inputVars, outputVars, Set, Types, Stage,
         InStage, OutStage
<1>4. BoundInv(c)'
  BY <1>0, <1>1, <1>2 DEF Counters, BoundInv
<1>5. RoomInv(c)'
  BY <1>0, <1>1, <1>2 DEF Counters, RoomInv
<1>6. StageInv(c)'
  BY <1>0, <1>1, <1>2 DEF Counters, StageInv
<1>7. AnswerInv(c)'
  BY <1>0, <1>1, <1>2 DEF Counters, AnswerInv, Blank, ByServer, ByProgram, StageInv
<1>8. FlowInv(c)'
  BY <1>0, <1>1, <1>2 DEF Counters, FlowInv, StageInv
<1>9. ClosedInv(c)'
  BY <1>0, <1>1, <1>2 DEF Counters, ClosedInv, StageInv
<1>10. BodyInv(c)'
  BY <1>0, <1>1, <1>2 DEF Counters, BodyInv, StageInv
<1>11. InputInv(c)'
  BY <1>0, <1>1, <1>2 DEF Counters, InputInv, BodyInv, StageInv
<1>12. ShortInv(c)'
  BY <1>0, <1>1, <1>2 DEF Counters, ShortInv, ClosedInv
<1> QED
  BY <1>3, <1>4, <1>5, <1>6, <1>7, <1>8, <1>9, <1>10, <1>11, <1>12

LEMMA RefuseKeeps ==
  ASSUME Types, NEW c \in Conns, ConnInv(c), Refuse(c)
  PROVE  Types' /\ ConnInv(c)'
<1> USE DEF ConnInv, Waiting, Ended, Handling, Running
<1>0. Counters(c) /\ Replied(c) \in Nat /\ Room(c) \in Int
  BY CountersAt
<1>1. /\ pc[c] = "refused" /\ pc'[c] \in Ended
      /\ ask'[c] = ask[c] /\ client'[c] = client[c] /\ sent'[c] = sent[c]
      /\ up'[c] = up[c] /\ down'[c] = down[c] /\ seen'[c] = seen[c]
      /\ shut'[c] = shut[c] /\ inp'[c] = inp[c] /\ outp'[c] = outp[c]
      /\ rest'[c] = rest[c] /\ passed'[c] = passed[c] /\ stdin'[c] = stdin[c]
      /\ eaten'[c] = eaten[c] /\ made'[c] = made[c] /\ stdout'[c] = stdout[c]
      /\ held'[c] = held[c] /\ ndelay'[c] = ndelay[c] /\ end'[c] = end[c]
  BY DEF Refuse, keepInHandler, Exit, serverVars, clientVars, inputVars,
         outputVars, Set, Types
<1>2. /\ Answered(c)' = Answered(c) /\ Replied(c)' = Replied(c)
      /\ Length(c)' = Length(c) /\ Room(c)' = Room(c)
  BY <1>1 DEF Answered, Replied, Length, Room
<1>3. Types'
  BY DEF Refuse, keepInHandler, Exit, serverVars, clientVars, inputVars,
         outputVars, Set, Types, Stage, InStage, OutStage
<1>4. BoundInv(c)'
  BY <1>0, <1>1, <1>2 DEF Counters, BoundInv
<1>5. RoomInv(c)'
  BY <1>0, <1>1, <1>2 DEF Counters, RoomInv
<1>6. StageInv(c)'
  BY <1>0, <1>1, <1>2 DEF Counters, StageInv
<1>7. AnswerInv(c)'
  BY <1>0, <1>1, <1>2 DEF Counters, AnswerInv, Blank, ByServer, ByProgram, StageInv
<1>8. FlowInv(c)'
  BY <1>0, <1>1, <1>2 DEF Counters, FlowInv, StageInv
<1>9. ClosedInv(c)'
  BY <1>0, <1>1, <1>2 DEF Counters, ClosedInv, StageInv
<1>10. BodyInv(c)'
  BY <1>0, <1>1, <1>2 DEF Counters, BodyInv, StageInv
<1>11. InputInv(c)'
  BY <1>0, <1>1, <1>2 DEF Counters, InputInv, BodyInv, StageInv
<1>12. ShortInv(c)'
  BY <1>0, <1>1, <1>2 DEF Counters, ShortInv, StageInv
<1> QED
  BY <1>3, <1>4, <1>5, <1>6, <1>7, <1>8, <1>9, <1>10, <1>11, <1>12

LEMMA ServeKeeps ==
  ASSUME Types, NEW c \in Conns, ConnInv(c), Serve(c)
  PROVE  Types' /\ ConnInv(c)'
<1> USE DEF ConnInv, Waiting, Ended, Handling, Running
<1>0. Counters(c) /\ Replied(c) \in Nat /\ Room(c) \in Int
  BY CountersAt
<1>1. /\ pc[c] = "serve" /\ pc'[c] \in {"page", "file", "input", "output"}
      /\ pc'[c] = "input" => ask[c].post /\ rest[c] > 0
      /\ pc'[c] = "output" => ~(ask[c].post /\ rest[c] > 0)
      /\ ask'[c] = ask[c] /\ client'[c] = client[c] /\ sent'[c] = sent[c]
      /\ up'[c] = up[c] /\ down'[c] = down[c] /\ seen'[c] = seen[c]
      /\ shut'[c] = shut[c] /\ inp'[c] = inp[c] /\ outp'[c] = outp[c]
      /\ rest'[c] = rest[c] /\ passed'[c] = passed[c] /\ stdin'[c] = stdin[c]
      /\ eaten'[c] = eaten[c] /\ made'[c] = made[c] /\ stdout'[c] = stdout[c]
      /\ held'[c] = held[c] /\ ndelay'[c] = ndelay[c] /\ end'[c] = end[c]
  BY DEF Serve, keepInHandler, Exit, serverVars, clientVars, inputVars, outputVars,
         Set, Types
<1>2. /\ Answered(c)' = Answered(c) /\ Replied(c)' = Replied(c)
      /\ Length(c)' = Length(c) /\ Room(c)' = Room(c)
  BY <1>1 DEF Answered, Replied, Length, Room
<1>3. Types'
  BY DEF Serve, keepInHandler, Exit, serverVars, clientVars, inputVars, outputVars,
         Set, Types, Stage, InStage, OutStage
<1>4. BoundInv(c)'
  BY <1>0, <1>1, <1>2 DEF Counters, BoundInv
<1>5. RoomInv(c)'
  BY <1>0, <1>1, <1>2 DEF Counters, RoomInv
<1>6. StageInv(c)'
  BY <1>0, <1>1, <1>2 DEF Counters, StageInv
<1>7. AnswerInv(c)'
  BY <1>0, <1>1, <1>2 DEF Counters, AnswerInv, Blank, ByServer, ByProgram, StageInv
<1>8. FlowInv(c)'
  BY <1>0, <1>1, <1>2 DEF Counters, FlowInv, StageInv
<1>9. ClosedInv(c)'
  BY <1>0, <1>1, <1>2 DEF Counters, ClosedInv, StageInv
<1>10. BodyInv(c)'
  BY <1>0, <1>1, <1>2 DEF Counters, BodyInv, StageInv
<1>11. InputInv(c)'
  BY <1>0, <1>1, <1>2 DEF Counters, InputInv, BodyInv, StageInv, BoundInv
<1>12. ShortInv(c)'
  BY <1>0, <1>1, <1>2 DEF Counters, ShortInv, StageInv
<1> QED
  BY <1>3, <1>4, <1>5, <1>6, <1>7, <1>8, <1>9, <1>10, <1>11, <1>12

LEMMA WriteTimeoutKeeps ==
  ASSUME Types, NEW c \in Conns, ConnInv(c), WriteTimeout(c)
  PROVE  Types' /\ ConnInv(c)'
<1> USE DEF ConnInv, Waiting, Ended, Handling, Running
<1>0. Counters(c) /\ Replied(c) \in Nat /\ Room(c) \in Int
  BY CountersAt
<1>1. /\ pc[c] \in (Handling \ {"read", "refused"}) \cup Running /\ pc'[c] \in Ended
      /\ ask'[c] = ask[c] /\ client'[c] = client[c] /\ sent'[c] = sent[c]
      /\ up'[c] = up[c] /\ down'[c] = down[c] /\ seen'[c] = seen[c]
      /\ shut'[c] = shut[c] /\ inp'[c] = inp[c] /\ outp'[c] = outp[c]
      /\ rest'[c] = rest[c] /\ passed'[c] = passed[c] /\ stdin'[c] = stdin[c]
      /\ eaten'[c] = eaten[c] /\ made'[c] = made[c] /\ stdout'[c] = stdout[c]
      /\ held'[c] = held[c] /\ ndelay'[c] = ndelay[c] /\ end'[c] = end[c]
  BY DEF WriteTimeout, keepInHandler, Exit, serverVars, clientVars, inputVars,
         outputVars, Alarmed, Set, Types
<1>2. /\ Answered(c)' = Answered(c) /\ Replied(c)' = Replied(c)
      /\ Length(c)' = Length(c) /\ Room(c)' = Room(c)
  BY <1>1 DEF Answered, Replied, Length, Room
<1>3. Types'
  BY DEF WriteTimeout, keepInHandler, Exit, serverVars, clientVars, inputVars,
         outputVars, Alarmed, Set, Types, Stage, InStage, OutStage
<1>4. BoundInv(c)'
  BY <1>0, <1>1, <1>2 DEF Counters, BoundInv
<1>5. RoomInv(c)'
  BY <1>0, <1>1, <1>2 DEF Counters, RoomInv
<1>6. StageInv(c)'
  BY <1>0, <1>1, <1>2 DEF Counters, StageInv
<1>7. AnswerInv(c)'
  BY <1>0, <1>1, <1>2 DEF Counters, AnswerInv, Blank, ByServer, ByProgram, StageInv
<1>8. FlowInv(c)'
  BY <1>0, <1>1, <1>2 DEF Counters, FlowInv, StageInv
<1>9. ClosedInv(c)'
  BY <1>0, <1>1, <1>2 DEF Counters, ClosedInv, StageInv
<1>10. BodyInv(c)'
  BY <1>0, <1>1, <1>2 DEF Counters, BodyInv, StageInv
<1>11. InputInv(c)'
  BY <1>0, <1>1, <1>2 DEF Counters, InputInv, BodyInv, StageInv
<1>12. ShortInv(c)'
  BY <1>0, <1>1, <1>2 DEF Counters, ShortInv, StageInv
<1> QED
  BY <1>3, <1>4, <1>5, <1>6, <1>7, <1>8, <1>9, <1>10, <1>11, <1>12

LEMMA ForkInputKeeps ==
  ASSUME Types, NEW c \in Conns, ConnInv(c), ForkInput(c)
  PROVE  Types' /\ ConnInv(c)'
<1> USE DEF ConnInv, Waiting, Ended, Handling, Running
<1>0. Counters(c) /\ Replied(c) \in Nat /\ Room(c) \in Int
  BY CountersAt
<1>1. /\ pc[c] = "input"
      /\ \/ pc'[c] = "output" /\ inp'[c] = "push"
         \/ pc'[c] = "page" /\ inp'[c] = inp[c]
      /\ ask'[c] = ask[c] /\ client'[c] = client[c] /\ sent'[c] = sent[c]
      /\ up'[c] = up[c] /\ down'[c] = down[c] /\ seen'[c] = seen[c]
      /\ shut'[c] = shut[c] /\ outp'[c] = outp[c] /\ rest'[c] = rest[c]
      /\ passed'[c] = passed[c] /\ stdin'[c] = stdin[c] /\ eaten'[c] = eaten[c]
      /\ made'[c] = made[c] /\ stdout'[c] = stdout[c] /\ held'[c] = held[c]
      /\ ndelay'[c] = ndelay[c] /\ end'[c] = end[c]
  BY DEF ForkInput, serverVars, clientVars, inputVars, outputVars, Set, Types
<1>2. /\ Answered(c)' = Answered(c) /\ Replied(c)' = Replied(c)
      /\ Length(c)' = Length(c) /\ Room(c)' = Room(c)
  BY <1>1 DEF Answered, Replied, Length, Room
<1>3. Types'
  BY DEF ForkInput, serverVars, clientVars, inputVars, outputVars, Set, Types,
         Stage, InStage, OutStage
<1>4. BoundInv(c)'
  BY <1>0, <1>1, <1>2 DEF Counters, BoundInv
<1>5. RoomInv(c)'
  BY <1>0, <1>1, <1>2 DEF Counters, RoomInv
<1>6. StageInv(c)'
  BY <1>0, <1>1, <1>2 DEF Counters, StageInv
<1>7. AnswerInv(c)'
  BY <1>0, <1>1, <1>2 DEF Counters, AnswerInv, Blank, ByServer, ByProgram, StageInv
<1>8. FlowInv(c)'
  BY <1>0, <1>1, <1>2 DEF Counters, FlowInv, StageInv
<1>9. ClosedInv(c)'
  BY <1>0, <1>1, <1>2 DEF Counters, ClosedInv, StageInv
<1>10. BodyInv(c)'
  BY <1>0, <1>1, <1>2 DEF Counters, BodyInv, InputInv, StageInv
<1>11. InputInv(c)'
  BY <1>0, <1>1, <1>2 DEF Counters, InputInv, BodyInv, StageInv
<1>12. ShortInv(c)'
  BY <1>0, <1>1, <1>2 DEF Counters, ShortInv, StageInv
<1> QED
  BY <1>3, <1>4, <1>5, <1>6, <1>7, <1>8, <1>9, <1>10, <1>11, <1>12

LEMMA ForkOutputKeeps ==
  ASSUME Types, NEW c \in Conns, ConnInv(c), ForkOutput(c)
  PROVE  Types' /\ ConnInv(c)'
<1> USE DEF ConnInv, Waiting, Ended, Handling, Running
<1>0. Counters(c) /\ Replied(c) \in Nat /\ Room(c) \in Int
  BY CountersAt
<1>1. /\ pc[c] = "output"
      /\ \/ pc'[c] = "exec" /\ outp'[c] = "headers"
         \/ pc'[c] = "page" /\ outp'[c] = outp[c]
      /\ ask'[c] = ask[c] /\ client'[c] = client[c] /\ sent'[c] = sent[c]
      /\ up'[c] = up[c] /\ down'[c] = down[c] /\ seen'[c] = seen[c]
      /\ shut'[c] = shut[c] /\ inp'[c] = inp[c] /\ rest'[c] = rest[c]
      /\ passed'[c] = passed[c] /\ stdin'[c] = stdin[c] /\ eaten'[c] = eaten[c]
      /\ made'[c] = made[c] /\ stdout'[c] = stdout[c] /\ held'[c] = held[c]
      /\ ndelay'[c] = ndelay[c] /\ end'[c] = end[c]
  BY DEF ForkOutput, serverVars, clientVars, inputVars, outputVars, Set, Types
<1>2. /\ Answered(c)' = Answered(c) /\ Replied(c)' = Replied(c)
      /\ Length(c)' = Length(c) /\ Room(c)' = Room(c)
  BY <1>1 DEF Answered, Replied, Length, Room
<1>3. Types'
  BY DEF ForkOutput, serverVars, clientVars, inputVars, outputVars, Set, Types,
         Stage, InStage, OutStage
<1>4. BoundInv(c)'
  BY <1>0, <1>1, <1>2 DEF Counters, BoundInv, StageInv
<1>5. RoomInv(c)'
  BY <1>0, <1>1, <1>2 DEF Counters, RoomInv
<1>6. StageInv(c)'
  BY <1>0, <1>1, <1>2 DEF Counters, StageInv
<1>7. AnswerInv(c)'
  BY <1>0, <1>1, <1>2 DEF Counters, AnswerInv, Blank, ByServer, ByProgram, StageInv
<1>8. FlowInv(c)'
  BY <1>0, <1>1, <1>2 DEF Counters, FlowInv, StageInv
<1>9. ClosedInv(c)'
  BY <1>0, <1>1, <1>2 DEF Counters, ClosedInv, StageInv
<1>10. BodyInv(c)'
  BY <1>0, <1>1, <1>2 DEF Counters, BodyInv, StageInv
<1>11. InputInv(c)'
  BY <1>0, <1>1, <1>2 DEF Counters, InputInv, BodyInv, StageInv
<1>12. ShortInv(c)'
  BY <1>0, <1>1, <1>2 DEF Counters, ShortInv, StageInv
<1> QED
  BY <1>3, <1>4, <1>5, <1>6, <1>7, <1>8, <1>9, <1>10, <1>11, <1>12

LEMMA ExecKeeps ==
  ASSUME Types, NEW c \in Conns, ConnInv(c), Exec(c)
  PROVE  Types' /\ ConnInv(c)'
<1> USE DEF ConnInv, Waiting, Ended, Handling, Running
<1>0. Counters(c) /\ Replied(c) \in Nat /\ Room(c) \in Int
  BY CountersAt
<1>1. /\ pc[c] = "exec" /\ pc'[c] \in {"cgi", "page"}
      /\ ask'[c] = ask[c] /\ client'[c] = client[c] /\ sent'[c] = sent[c]
      /\ up'[c] = up[c] /\ down'[c] = down[c] /\ seen'[c] = seen[c]
      /\ shut'[c] = shut[c] /\ inp'[c] = inp[c] /\ outp'[c] = outp[c]
      /\ rest'[c] = rest[c] /\ passed'[c] = passed[c] /\ stdin'[c] = stdin[c]
      /\ eaten'[c] = eaten[c] /\ made'[c] = made[c] /\ stdout'[c] = stdout[c]
      /\ held'[c] = held[c] /\ ndelay'[c] = ndelay[c] /\ end'[c] = end[c]
  BY DEF Exec, serverVars, clientVars, inputVars, outputVars, Set, Types
<1>2. /\ Answered(c)' = Answered(c) /\ Replied(c)' = Replied(c)
      /\ Length(c)' = Length(c) /\ Room(c)' = Room(c)
  BY <1>1 DEF Answered, Replied, Length, Room
<1>3. Types'
  BY DEF Exec, serverVars, clientVars, inputVars, outputVars, Set, Types, Stage,
         InStage, OutStage
<1>4. BoundInv(c)'
  BY <1>0, <1>1, <1>2 DEF Counters, BoundInv
<1>5. RoomInv(c)'
  BY <1>0, <1>1, <1>2 DEF Counters, RoomInv
<1>6. StageInv(c)'
  BY <1>0, <1>1, <1>2 DEF Counters, StageInv
<1>7. AnswerInv(c)'
  BY <1>0, <1>1, <1>2 DEF Counters, AnswerInv, Blank, ByServer, ByProgram, StageInv
<1>8. FlowInv(c)'
  BY <1>0, <1>1, <1>2 DEF Counters, FlowInv, StageInv
<1>9. ClosedInv(c)'
  BY <1>0, <1>1, <1>2 DEF Counters, ClosedInv, StageInv
<1>10. BodyInv(c)'
  BY <1>0, <1>1, <1>2 DEF Counters, BodyInv, StageInv
<1>11. InputInv(c)'
  BY <1>0, <1>1, <1>2 DEF Counters, InputInv, BodyInv, StageInv
<1>12. ShortInv(c)'
  BY <1>0, <1>1, <1>2 DEF Counters, ShortInv, StageInv
<1> QED
  BY <1>3, <1>4, <1>5, <1>6, <1>7, <1>8, <1>9, <1>10, <1>11, <1>12

LEMMA ProgramGoesOnKeeps ==
  ASSUME Types, NEW c \in Conns, ConnInv(c), ProgramGoesOn(c)
  PROVE  Types' /\ ConnInv(c)'
<1> USE DEF ConnInv, Waiting, Ended, Handling, Running
<1>0. Counters(c) /\ Replied(c) \in Nat /\ Room(c) \in Int
  BY CountersAt
<1>1. /\ pc[c] = "cgi" /\ pc'[c] \in Running \ {"cgi"}
      /\ pc'[c] = "reads" => eaten[c] < Length(c) /\ "short" \notin end[c]
      /\ pc'[c] = "writes" => made[c] < MaxOut
      /\ ask'[c] = ask[c] /\ client'[c] = client[c] /\ sent'[c] = sent[c]
      /\ up'[c] = up[c] /\ down'[c] = down[c] /\ seen'[c] = seen[c]
      /\ shut'[c] = shut[c] /\ inp'[c] = inp[c] /\ outp'[c] = outp[c]
      /\ rest'[c] = rest[c] /\ passed'[c] = passed[c] /\ stdin'[c] = stdin[c]
      /\ eaten'[c] = eaten[c] /\ made'[c] = made[c] /\ stdout'[c] = stdout[c]
      /\ held'[c] = held[c] /\ ndelay'[c] = ndelay[c] /\ end'[c] = end[c]
  BY DEF ProgramGoesOn, keepInProgram, Exit, serverVars, clientVars, inputVars,
         outputVars, Set, Types
<1>2. /\ Answered(c)' = Answered(c) /\ Replied(c)' = Replied(c)
      /\ Length(c)' = Length(c) /\ Room(c)' = Room(c)
  BY <1>1 DEF Answered, Replied, Length, Room
<1>3. Types'
  <2>0. /\ pc \in [Conns -> Stage]
    BY DEF Types
  <2>1. pc' \in [Conns -> Stage]
    BY <2>0 DEF ProgramGoesOn, keepInProgram, Exit, serverVars, clientVars,
           inputVars, outputVars, Set, Stage
  <2> QED
    BY <2>1 DEF ProgramGoesOn, keepInProgram, Exit, serverVars, clientVars,
           inputVars, outputVars, Types
<1>4. BoundInv(c)'
  BY <1>0, <1>1, <1>2 DEF Counters, BoundInv
<1>5. RoomInv(c)'
  BY <1>0, <1>1, <1>2 DEF Counters, RoomInv
<1>6. StageInv(c)'
  BY <1>0, <1>1, <1>2 DEF Counters, StageInv
<1>7. AnswerInv(c)'
  BY <1>0, <1>1, <1>2 DEF Counters, AnswerInv, Blank, ByServer, ByProgram, StageInv
<1>8. FlowInv(c)'
  BY <1>0, <1>1, <1>2 DEF Counters, FlowInv, StageInv
<1>9. ClosedInv(c)'
  BY <1>0, <1>1, <1>2 DEF Counters, ClosedInv, StageInv
<1>10. BodyInv(c)'
  BY <1>0, <1>1, <1>2 DEF Counters, BodyInv, StageInv
<1>11. InputInv(c)'
  BY <1>0, <1>1, <1>2 DEF Counters, InputInv, BodyInv, StageInv
<1>12. ShortInv(c)'
  BY <1>0, <1>1, <1>2 DEF Counters, ShortInv, StageInv
<1> QED
  BY <1>3, <1>4, <1>5, <1>6, <1>7, <1>8, <1>9, <1>10, <1>11, <1>12

LEMMA ProgramExitsKeeps ==
  ASSUME Types, NEW c \in Conns, ConnInv(c), ProgramExits(c)
  PROVE  Types' /\ ConnInv(c)'
<1> USE DEF ConnInv, Waiting, Ended, Handling, Running
<1>0. Counters(c) /\ Replied(c) \in Nat /\ Room(c) \in Int
  BY CountersAt
<1>1. /\ pc[c] = "cgi" /\ pc'[c] \in Ended
      /\ ask'[c] = ask[c] /\ client'[c] = client[c] /\ sent'[c] = sent[c]
      /\ up'[c] = up[c] /\ down'[c] = down[c] /\ seen'[c] = seen[c]
      /\ shut'[c] = shut[c] /\ inp'[c] = inp[c] /\ outp'[c] = outp[c]
      /\ rest'[c] = rest[c] /\ passed'[c] = passed[c] /\ stdin'[c] = stdin[c]
      /\ eaten'[c] = eaten[c] /\ made'[c] = made[c] /\ stdout'[c] = stdout[c]
      /\ held'[c] = held[c] /\ ndelay'[c] = ndelay[c] /\ end'[c] = end[c]
  BY DEF ProgramExits, keepInProgram, Exit, serverVars, clientVars, inputVars,
         outputVars, Set, Types
<1>2. /\ Answered(c)' = Answered(c) /\ Replied(c)' = Replied(c)
      /\ Length(c)' = Length(c) /\ Room(c)' = Room(c)
  BY <1>1 DEF Answered, Replied, Length, Room
<1>3. Types'
  BY DEF ProgramExits, keepInProgram, Exit, serverVars, clientVars, inputVars,
         outputVars, Set, Types, Stage, InStage, OutStage
<1>4. BoundInv(c)'
  BY <1>0, <1>1, <1>2 DEF Counters, BoundInv
<1>5. RoomInv(c)'
  BY <1>0, <1>1, <1>2 DEF Counters, RoomInv
<1>6. StageInv(c)'
  BY <1>0, <1>1, <1>2 DEF Counters, StageInv
<1>7. AnswerInv(c)'
  BY <1>0, <1>1, <1>2 DEF Counters, AnswerInv, Blank, ByServer, ByProgram, StageInv
<1>8. FlowInv(c)'
  BY <1>0, <1>1, <1>2 DEF Counters, FlowInv, StageInv
<1>9. ClosedInv(c)'
  BY <1>0, <1>1, <1>2 DEF Counters, ClosedInv, StageInv
<1>10. BodyInv(c)'
  BY <1>0, <1>1, <1>2 DEF Counters, BodyInv, StageInv
<1>11. InputInv(c)'
  BY <1>0, <1>1, <1>2 DEF Counters, InputInv, BodyInv, StageInv
<1>12. ShortInv(c)'
  BY <1>0, <1>1, <1>2 DEF Counters, ShortInv, StageInv
<1> QED
  BY <1>3, <1>4, <1>5, <1>6, <1>7, <1>8, <1>9, <1>10, <1>11, <1>12

LEMMA ProgramWritesKeeps ==
  ASSUME Types, NEW c \in Conns, ConnInv(c), ProgramWrites(c)
  PROVE  Types' /\ ConnInv(c)'
<1> USE DEF ConnInv, Waiting, Ended, Handling, Running
<1>0. Counters(c) /\ Replied(c) \in Nat /\ Room(c) \in Int
  BY CountersAt
<1>1. /\ pc[c] = "writes"
      /\ \/ /\ outp[c] # "gone" /\ stdout[c] < PipeRoom /\ pc'[c] = "cgi"
            /\ stdout'[c] = stdout[c] + 1 /\ made'[c] = made[c] + 1
         \/ /\ outp[c] = "gone" /\ pc'[c] \in Ended
            /\ stdout'[c] = stdout[c] /\ made'[c] = made[c]
      /\ ask'[c] = ask[c] /\ client'[c] = client[c] /\ sent'[c] = sent[c]
      /\ up'[c] = up[c] /\ down'[c] = down[c] /\ seen'[c] = seen[c]
      /\ shut'[c] = shut[c] /\ inp'[c] = inp[c] /\ outp'[c] = outp[c]
      /\ rest'[c] = rest[c] /\ passed'[c] = passed[c] /\ stdin'[c] = stdin[c]
      /\ eaten'[c] = eaten[c] /\ held'[c] = held[c] /\ ndelay'[c] = ndelay[c]
      /\ end'[c] = end[c]
  BY DEF ProgramWrites, keepInProgram, Exit, serverVars, clientVars, inputVars,
         outputVars, Set, Types
<1>2. /\ Answered(c)' = Answered(c) /\ Replied(c)' = Replied(c)
      /\ Length(c)' = Length(c) /\ Room(c)' = Room(c)
  BY <1>1 DEF Answered, Replied, Length, Room
<1>3. Types'
  <2>0. /\ pc \in [Conns -> Stage]
        /\ stdout \in [Conns -> Int]
        /\ made \in [Conns -> Int]
    BY DEF Types
  <2>1. pc' \in [Conns -> Stage]
    BY <2>0 DEF ProgramWrites, keepInProgram, Exit, serverVars, clientVars,
           inputVars, outputVars, Set, Stage
  <2>2. chld' \in BOOLEAN
    BY DEF ProgramWrites, keepInProgram, Exit, serverVars, clientVars, inputVars,
           outputVars, Types
  <2>3. stdout' \in [Conns -> Int]
    BY <2>0 DEF ProgramWrites, keepInProgram, Exit, serverVars, clientVars,
           inputVars, outputVars, Set
  <2>4. made' \in [Conns -> Int]
    BY <2>0 DEF ProgramWrites, keepInProgram, Exit, serverVars, clientVars,
           inputVars, outputVars, Set
  <2> QED
    BY <2>1, <2>2, <2>3, <2>4 DEF ProgramWrites, keepInProgram, Exit, serverVars,
           clientVars, inputVars, outputVars, Types
<1>4. BoundInv(c)'
  BY <1>0, <1>1, <1>2 DEF Counters, BoundInv
<1>5. RoomInv(c)'
  BY <1>0, <1>1, <1>2 DEF Counters, RoomInv
<1>6. StageInv(c)'
  BY <1>0, <1>1, <1>2 DEF Counters, StageInv
<1>7. AnswerInv(c)'
  BY <1>0, <1>1, <1>2 DEF Counters, AnswerInv, Blank, ByServer, ByProgram, StageInv
<1>8. FlowInv(c)'
  BY <1>0, <1>1, <1>2 DEF Counters, FlowInv, StageInv
<1>9. ClosedInv(c)'
  BY <1>0, <1>1, <1>2 DEF Counters, ClosedInv, StageInv
<1>10. BodyInv(c)'
  BY <1>0, <1>1, <1>2 DEF Counters, BodyInv, StageInv
<1>11. InputInv(c)'
  BY <1>0, <1>1, <1>2 DEF Counters, InputInv, BodyInv, StageInv
<1>12. ShortInv(c)'
  BY <1>0, <1>1, <1>2 DEF Counters, ShortInv, StageInv
<1> QED
  BY <1>3, <1>4, <1>5, <1>6, <1>7, <1>8, <1>9, <1>10, <1>11, <1>12

LEMMA SetNdelayKeeps ==
  ASSUME Types, NEW c \in Conns, ConnInv(c), SetNdelay(c)
  PROVE  Types' /\ ConnInv(c)'
<1> USE DEF ConnInv, Waiting, Ended, Handling, Running
<1>0. Counters(c) /\ Replied(c) \in Nat /\ Room(c) \in Int
  BY CountersAt
<1>1. /\ inp[c] = "garbage" /\ inp'[c] = "clear" /\ ndelay'[c]
      /\ ask'[c] = ask[c] /\ client'[c] = client[c] /\ sent'[c] = sent[c]
      /\ up'[c] = up[c] /\ down'[c] = down[c] /\ seen'[c] = seen[c]
      /\ shut'[c] = shut[c] /\ pc'[c] = pc[c] /\ outp'[c] = outp[c]
      /\ rest'[c] = rest[c] /\ passed'[c] = passed[c] /\ stdin'[c] = stdin[c]
      /\ eaten'[c] = eaten[c] /\ made'[c] = made[c] /\ stdout'[c] = stdout[c]
      /\ held'[c] = held[c] /\ end'[c] = end[c]
  BY DEF SetNdelay, keepInInput, serverVars, clientVars, inputVars, outputVars,
         Set, Types
<1>2. /\ Answered(c)' = Answered(c) /\ Replied(c)' = Replied(c)
      /\ Length(c)' = Length(c) /\ Room(c)' = Room(c)
  BY <1>1 DEF Answered, Replied, Length, Room
<1>3. Types'
  BY DEF SetNdelay, keepInInput, serverVars, clientVars, inputVars, outputVars,
         Set, Types, Stage, InStage, OutStage
<1>4. BoundInv(c)'
  BY <1>0, <1>1, <1>2 DEF Counters, BoundInv
<1>5. RoomInv(c)'
  BY <1>0, <1>1, <1>2 DEF Counters, RoomInv
<1>6. StageInv(c)'
  BY <1>0, <1>1, <1>2 DEF Counters, StageInv
<1>7. AnswerInv(c)'
  BY <1>0, <1>1, <1>2 DEF Counters, AnswerInv, Blank, ByServer, ByProgram, StageInv
<1>8. FlowInv(c)'
  BY <1>0, <1>1, <1>2 DEF Counters, FlowInv, StageInv
<1>9. ClosedInv(c)'
  BY <1>0, <1>1, <1>2 DEF Counters, ClosedInv, StageInv
<1>10. BodyInv(c)'
  BY <1>0, <1>1, <1>2 DEF Counters, BodyInv, StageInv
<1>11. InputInv(c)'
  BY <1>0, <1>1, <1>2 DEF Counters, InputInv, BodyInv, StageInv
<1>12. ShortInv(c)'
  BY <1>0, <1>1, <1>2 DEF Counters, ShortInv, StageInv
<1> QED
  BY <1>3, <1>4, <1>5, <1>6, <1>7, <1>8, <1>9, <1>10, <1>11, <1>12

LEMMA ClearNdelayKeeps ==
  ASSUME Types, NEW c \in Conns, ConnInv(c), ClearNdelay(c)
  PROVE  Types' /\ ConnInv(c)'
<1> USE DEF ConnInv, Waiting, Ended, Handling, Running
<1>0. Counters(c) /\ Replied(c) \in Nat /\ Room(c) \in Int
  BY CountersAt
<1>1. /\ inp[c] = "clear" /\ inp'[c] = "gone" /\ ~ndelay'[c]
      /\ ask'[c] = ask[c] /\ client'[c] = client[c] /\ sent'[c] = sent[c]
      /\ up'[c] = up[c] /\ down'[c] = down[c] /\ seen'[c] = seen[c]
      /\ shut'[c] = shut[c] /\ pc'[c] = pc[c] /\ outp'[c] = outp[c]
      /\ rest'[c] = rest[c] /\ passed'[c] = passed[c] /\ stdin'[c] = stdin[c]
      /\ eaten'[c] = eaten[c] /\ made'[c] = made[c] /\ stdout'[c] = stdout[c]
      /\ held'[c] = held[c] /\ end'[c] = end[c]
  BY DEF ClearNdelay, keepInInput, serverVars, clientVars, inputVars, outputVars,
         Set, Types
<1>2. /\ Answered(c)' = Answered(c) /\ Replied(c)' = Replied(c)
      /\ Length(c)' = Length(c) /\ Room(c)' = Room(c)
  BY <1>1 DEF Answered, Replied, Length, Room
<1>3. Types'
  BY DEF ClearNdelay, keepInInput, serverVars, clientVars, inputVars, outputVars,
         Set, Types, Stage, InStage, OutStage
<1>4. BoundInv(c)'
  BY <1>0, <1>1, <1>2 DEF Counters, BoundInv
<1>5. RoomInv(c)'
  BY <1>0, <1>1, <1>2 DEF Counters, RoomInv
<1>6. StageInv(c)'
  BY <1>0, <1>1, <1>2 DEF Counters, StageInv
<1>7. AnswerInv(c)'
  BY <1>0, <1>1, <1>2 DEF Counters, AnswerInv, Blank, ByServer, ByProgram, StageInv
<1>8. FlowInv(c)'
  BY <1>0, <1>1, <1>2 DEF Counters, FlowInv, StageInv
<1>9. ClosedInv(c)'
  BY <1>0, <1>1, <1>2 DEF Counters, ClosedInv, StageInv
<1>10. BodyInv(c)'
  BY <1>0, <1>1, <1>2 DEF Counters, BodyInv, StageInv
<1>11. InputInv(c)'
  BY <1>0, <1>1, <1>2 DEF Counters, InputInv, BodyInv, StageInv
<1>12. ShortInv(c)'
  BY <1>0, <1>1, <1>2 DEF Counters, ShortInv, StageInv
<1> QED
  BY <1>3, <1>4, <1>5, <1>6, <1>7, <1>8, <1>9, <1>10, <1>11, <1>12

LEMMA PushKeeps ==
  ASSUME Types, NEW c \in Conns, ConnInv(c), Push(c)
  PROVE  Types' /\ ConnInv(c)'
<1> USE DEF ConnInv, Waiting, Ended, Handling, Running
<1>0. Counters(c) /\ Replied(c) \in Nat /\ Room(c) \in Int
  BY CountersAt
<1>1. /\ inp[c] = "push"
      /\ \/ /\ pc[c] \notin {"output", "exec", "page"} \cup Running /\ inp'[c] = "gone"
            /\ rest'[c] = rest[c] /\ passed'[c] = passed[c] /\ stdin'[c] = stdin[c]
         \/ /\ stdin[c] < PipeRoom /\ stdin'[c] = stdin[c] + 1
            /\ rest'[c] = rest[c] - 1 /\ passed'[c] = passed[c] + 1
            /\ inp'[c] = IF rest[c] = 1 THEN "pull" ELSE "push"
      /\ ask'[c] = ask[c] /\ client'[c] = client[c] /\ sent'[c] = sent[c]
      /\ up'[c] = up[c] /\ down'[c] = down[c] /\ seen'[c] = seen[c]
      /\ shut'[c] = shut[c] /\ pc'[c] = pc[c] /\ outp'[c] = outp[c]
      /\ eaten'[c] = eaten[c] /\ made'[c] = made[c] /\ stdout'[c] = stdout[c]
      /\ held'[c] = held[c] /\ ndelay'[c] = ndelay[c] /\ end'[c] = end[c]
  BY DEF Push, keepInInput, serverVars, clientVars, inputVars, outputVars,
         ReadsStdin, Set, Types
<1>2. /\ Answered(c)' = Answered(c) /\ Replied(c)' = Replied(c)
      /\ Length(c)' = Length(c) /\ Room(c)' = Room(c)
  BY <1>1 DEF Answered, Replied, Length, Room
<1>3. Types'
  <2>0. /\ inp \in [Conns -> InStage]
        /\ rest \in [Conns -> Int]
        /\ passed \in [Conns -> Int]
        /\ stdin \in [Conns -> Int]
    BY DEF Types
  <2>1. inp' \in [Conns -> InStage]
    BY <2>0 DEF Push, keepInInput, serverVars, clientVars, inputVars, outputVars,
           ReadsStdin, Set, InStage
  <2>2. rest' \in [Conns -> Int]
    BY <2>0 DEF Push, keepInInput, serverVars, clientVars, inputVars, outputVars,
           ReadsStdin, Set
  <2>3. passed' \in [Conns -> Int]
    BY <2>0 DEF Push, keepInInput, serverVars, clientVars, inputVars, outputVars,
           ReadsStdin, Set
  <2>4. stdin' \in [Conns -> Int]
    BY <2>0 DEF Push, keepInInput, serverVars, clientVars, inputVars, outputVars,
           ReadsStdin, Set
  <2> QED
    BY <2>1, <2>2, <2>3, <2>4 DEF Push, keepInInput, serverVars, clientVars,
           inputVars, outputVars, ReadsStdin, Types
<1>4. BoundInv(c)'
  BY <1>0, <1>1, <1>2 DEF Counters, BoundInv, InputInv
<1>5. RoomInv(c)'
  BY <1>0, <1>1, <1>2 DEF Counters, RoomInv
<1>6. StageInv(c)'
  BY <1>0, <1>1, <1>2 DEF Counters, StageInv
<1>7. AnswerInv(c)'
  BY <1>0, <1>1, <1>2 DEF Counters, AnswerInv, Blank, ByServer, ByProgram, StageInv
<1>8. FlowInv(c)'
  BY <1>0, <1>1, <1>2 DEF Counters, FlowInv, StageInv
<1>9. ClosedInv(c)'
  BY <1>0, <1>1, <1>2 DEF Counters, ClosedInv
<1>10. BodyInv(c)'
  BY <1>0, <1>1, <1>2 DEF Counters, BodyInv, StageInv
<1>11. InputInv(c)'
  BY <1>0, <1>1, <1>2 DEF Counters, InputInv, BodyInv, StageInv
<1>12. ShortInv(c)'
  BY <1>0, <1>1, <1>2 DEF Counters, ShortInv, StageInv
<1> QED
  BY <1>3, <1>4, <1>5, <1>6, <1>7, <1>8, <1>9, <1>10, <1>11, <1>12

LEMMA PullKeeps ==
  ASSUME Types, NEW c \in Conns, ConnInv(c), Pull(c)
  PROVE  Types' /\ ConnInv(c)'
<1> USE DEF ConnInv, Waiting, Ended, Handling, Running
<1>0. Counters(c) /\ Replied(c) \in Nat /\ Room(c) \in Int
  BY CountersAt
<1>1. /\ inp[c] = "pull"
      /\ \/ /\ passed[c] >= Length(c) /\ inp'[c] = "garbage"
            /\ rest'[c] = rest[c] /\ up'[c] = up[c]
         \/ /\ up[c] > 0 /\ rest'[c] = up[c] /\ up'[c] = 0 /\ inp'[c] = "push"
         \/ /\ up[c] = 0 /\ client[c] = "closed" /\ inp'[c] = "gone"
            /\ rest'[c] = rest[c] /\ up'[c] = up[c]
      /\ ask'[c] = ask[c] /\ client'[c] = client[c] /\ sent'[c] = sent[c]
      /\ down'[c] = down[c] /\ seen'[c] = seen[c] /\ shut'[c] = shut[c]
      /\ pc'[c] = pc[c] /\ outp'[c] = outp[c] /\ passed'[c] = passed[c]
      /\ stdin'[c] = stdin[c] /\ eaten'[c] = eaten[c] /\ made'[c] = made[c]
      /\ stdout'[c] = stdout[c] /\ held'[c] = held[c] /\ ndelay'[c] = ndelay[c]
      /\ end'[c] = end[c]
  BY <1>0, EnoughBody DEF Pull, keepInInput, serverVars, clientVars, inputVars,
         outputVars, Set, Types
<1>2. /\ Answered(c)' = Answered(c) /\ Replied(c)' = Replied(c)
      /\ Length(c)' = Length(c) /\ Room(c)' = Room(c)
  BY <1>1 DEF Answered, Replied, Length, Room
<1>3. Types'
  <2>0. /\ inp \in [Conns -> InStage]
        /\ rest \in [Conns -> Int]
        /\ up \in [Conns -> Int]
    BY DEF Types
  <2>1. inp' \in [Conns -> InStage]
    BY <2>0 DEF Pull, keepInInput, serverVars, clientVars, inputVars, outputVars,
           Set, InStage
  <2>2. rest' \in [Conns -> Int]
    BY <2>0 DEF Pull, keepInInput, serverVars, clientVars, inputVars, outputVars, Set
  <2>3. up' \in [Conns -> Int]
    BY <2>0 DEF Pull, keepInInput, serverVars, clientVars, inputVars, outputVars, Set
  <2> QED
    BY <2>1, <2>2, <2>3 DEF Pull, keepInInput, serverVars, clientVars, inputVars,
           outputVars, Types
<1>4. BoundInv(c)'
  BY <1>0, <1>1, <1>2 DEF Counters, BoundInv
<1>5. RoomInv(c)'
  BY <1>0, <1>1, <1>2 DEF Counters, RoomInv
<1>6. StageInv(c)'
  BY <1>0, <1>1, <1>2 DEF Counters, StageInv
<1>7. AnswerInv(c)'
  BY <1>0, <1>1, <1>2 DEF Counters, AnswerInv, Blank, ByServer, ByProgram, StageInv
<1>8. FlowInv(c)'
  BY <1>0, <1>1, <1>2 DEF Counters, FlowInv, StageInv
<1>9. ClosedInv(c)'
  BY <1>0, <1>1, <1>2 DEF Counters, ClosedInv, StageInv
<1>10. BodyInv(c)'
  BY <1>0, <1>1, <1>2 DEF Counters, BodyInv, InputInv, StageInv
<1>11. InputInv(c)'
  BY <1>0, <1>1, <1>2 DEF Counters, InputInv, BodyInv, StageInv
<1>12. ShortInv(c)'
  BY <1>0, <1>1, <1>2 DEF Counters, ShortInv, StageInv
<1> QED
  BY <1>3, <1>4, <1>5, <1>6, <1>7, <1>8, <1>9, <1>10, <1>11, <1>12

LEMMA ReadRequestKeeps ==
  ASSUME Types, NEW c \in Conns, ConnInv(c), ReadRequest(c)
  PROVE  Types' /\ ConnInv(c)'
<1> USE DEF ConnInv, Waiting, Ended, Handling, Running
<1>0. Counters(c) /\ Replied(c) \in Nat /\ Room(c) \in Int
  BY CountersAt
<1>1. /\ pc[c] = "read"
      /\ \/ /\ up[c] > 0 /\ rest'[c] = up[c] - 1 /\ up'[c] = 0 /\ pc'[c] = "serve"
         \/ pc'[c] = "refused" /\ rest'[c] = rest[c] /\ up'[c] = up[c]
      /\ ask'[c] = ask[c] /\ client'[c] = client[c] /\ sent'[c] = sent[c]
      /\ down'[c] = down[c] /\ seen'[c] = seen[c] /\ shut'[c] = shut[c]
      /\ inp'[c] = inp[c] /\ outp'[c] = outp[c] /\ passed'[c] = passed[c]
      /\ stdin'[c] = stdin[c] /\ eaten'[c] = eaten[c] /\ made'[c] = made[c]
      /\ stdout'[c] = stdout[c] /\ held'[c] = held[c] /\ ndelay'[c] = ndelay[c]
      /\ end'[c] = end[c]
  BY DEF ReadRequest, keepInHandler, Exit, serverVars, clientVars, inputVars,
         outputVars, Set, Types
<1>2. /\ Answered(c)' = Answered(c) /\ Replied(c)' = Replied(c)
      /\ Length(c)' = Length(c) /\ Room(c)' = Room(c)
  BY <1>1 DEF Answered, Replied, Length, Room
<1>3. Types'
  <2>0. /\ pc \in [Conns -> Stage]
        /\ rest \in [Conns -> Int]
        /\ up \in [Conns -> Int]
    BY DEF Types
  <2>1. pc' \in [Conns -> Stage]
    BY <2>0 DEF ReadRequest, keepInHandler, Exit, serverVars, clientVars,
           inputVars, outputVars, Set, Stage
  <2>2. rest' \in [Conns -> Int]
    BY <2>0 DEF ReadRequest, keepInHandler, Exit, serverVars, clientVars,
           inputVars, outputVars, Set
  <2>3. up' \in [Conns -> Int]
    BY <2>0 DEF ReadRequest, keepInHandler, Exit, serverVars, clientVars,
           inputVars, outputVars, Set
  <2> QED
    BY <2>1, <2>2, <2>3 DEF ReadRequest, keepInHandler, Exit, serverVars,
           clientVars, inputVars, outputVars, Types
<1>4. BoundInv(c)'
  BY <1>0, <1>1, <1>2 DEF Counters, BoundInv
<1>5. RoomInv(c)'
  BY <1>0, <1>1, <1>2 DEF Counters, RoomInv
<1>6. StageInv(c)'
  BY <1>0, <1>1, <1>2 DEF Counters, StageInv
<1>7. AnswerInv(c)'
  BY <1>0, <1>1, <1>2 DEF Counters, AnswerInv, Blank, ByServer, ByProgram, StageInv
<1>8. FlowInv(c)'
  BY <1>0, <1>1, <1>2 DEF Counters, FlowInv, StageInv
<1>9. ClosedInv(c)'
  BY <1>0, <1>1, <1>2 DEF Counters, ClosedInv, StageInv
<1>10. BodyInv(c)'
  BY <1>0, <1>1, <1>2 DEF Counters, BodyInv, StageInv
<1>11. InputInv(c)'
  BY <1>0, <1>1, <1>2 DEF Counters, InputInv, BodyInv, StageInv
<1>12. ShortInv(c)'
  BY <1>0, <1>1, <1>2 DEF Counters, ShortInv, StageInv
<1> QED
  BY <1>3, <1>4, <1>5, <1>6, <1>7, <1>8, <1>9, <1>10, <1>11, <1>12

LEMMA ReceiveKeeps ==
  ASSUME Types, NEW c \in Conns, ConnInv(c), Receive(c)
  PROVE  Types' /\ ConnInv(c)'
<1> USE DEF ConnInv, Waiting, Ended, Handling, Running
<1>0. Counters(c) /\ Replied(c) \in Nat /\ Room(c) \in Int
  BY CountersAt
<1>1. /\ client[c] = "open" /\ down[c] # <<>>
      /\ seen'[c] = Append(seen[c], Head(down[c])) /\ down'[c] = Tail(down[c])
      /\ ask'[c] = ask[c] /\ client'[c] = client[c] /\ sent'[c] = sent[c]
      /\ up'[c] = up[c] /\ shut'[c] = shut[c] /\ pc'[c] = pc[c]
      /\ inp'[c] = inp[c] /\ outp'[c] = outp[c] /\ rest'[c] = rest[c]
      /\ passed'[c] = passed[c] /\ stdin'[c] = stdin[c] /\ eaten'[c] = eaten[c]
      /\ made'[c] = made[c] /\ stdout'[c] = stdout[c] /\ held'[c] = held[c]
      /\ ndelay'[c] = ndelay[c] /\ end'[c] = end[c]
  BY DEF Receive, serverVars, clientVars, inputVars, outputVars, Set, Types
<1>2. /\ Answered(c)' = Answered(c) /\ Replied(c)' = Replied(c)
      /\ Length(c)' = Length(c) /\ Room(c)' = Room(c) + 1
  <2>1. Answered(c)' = Answered(c) /\ Len(down'[c]) = Len(down[c]) - 1
    BY <1>1, AnswerMoves DEF Types
  <2>2. Len(down[c]) \in Int /\ SockRoom \in Int
    BY CountersAt, ServerAssumption
  <2> QED
    BY <1>1, <2>1, <2>2, RoomPlus DEF Replied, Length, Room
<1>3. Types'
  <2>0. /\ down \in [Conns -> Seq(Unit)]
        /\ seen \in [Conns -> Seq(Unit)]
    BY DEF Types
  <2>1. down' \in [Conns -> Seq(Unit)]
    BY <2>0 DEF Receive, serverVars, clientVars, inputVars, outputVars, Set
  <2>2. seen' \in [Conns -> Seq(Unit)]
    BY <2>0 DEF Receive, serverVars, clientVars, inputVars, outputVars, Set
  <2> QED
    BY <2>1, <2>2 DEF Receive, serverVars, clientVars, inputVars, outputVars, Types
<1>4. BoundInv(c)'
  BY <1>0, <1>1, <1>2 DEF Counters, BoundInv
<1>5. RoomInv(c)'
  BY <1>0, <1>1, <1>2 DEF Counters, RoomInv
<1>6. StageInv(c)'
  BY <1>0, <1>1, <1>2 DEF Counters, StageInv
<1>7. AnswerInv(c)'
  BY <1>0, <1>1, <1>2 DEF Counters, AnswerInv, Blank, ByServer, ByProgram, StageInv
<1>8. FlowInv(c)'
  BY <1>0, <1>1, <1>2 DEF Counters, FlowInv, StageInv
<1>9. ClosedInv(c)'
  BY <1>0, <1>1, <1>2 DEF Counters, ClosedInv, StageInv
<1>10. BodyInv(c)'
  BY <1>0, <1>1, <1>2 DEF Counters, BodyInv, StageInv
<1>11. InputInv(c)'
  BY <1>0, <1>1, <1>2 DEF Counters, InputInv, BodyInv, StageInv
<1>12. ShortInv(c)'
  BY <1>0, <1>1, <1>2 DEF Counters, ShortInv, StageInv
<1> QED
  BY <1>3, <1>4, <1>5, <1>6, <1>7, <1>8, <1>9, <1>10, <1>11, <1>12

LEMMA CloseKeeps ==
  ASSUME Types, NEW c \in Conns, ConnInv(c), Close(c)
  PROVE  Types' /\ ConnInv(c)'
<1> USE DEF ConnInv, Waiting, Ended, Handling, Running
<1>0. Counters(c) /\ Replied(c) \in Nat /\ Room(c) \in Int
  BY CountersAt
<1>1. /\ client[c] = "open" /\ client'[c] = "closed"
      /\ \/ /\ end'[c] = end[c] /\ pc[c] \notin {"none", "queued"} /\ down[c] = <<>>
            /\ \/ shut[c]
               \/ pc[c] \in Ended /\ outp[c] \in {"none", "gone"}
         \/ /\ "left" \in end'[c]
            /\ "short" \in end'[c] <=> "short" \in end[c]
            /\ "raced" \in end'[c] <=> "raced" \in end[c]
      /\ ask'[c] = ask[c] /\ sent'[c] = sent[c] /\ up'[c] = up[c]
      /\ down'[c] = down[c] /\ seen'[c] = seen[c] /\ shut'[c] = shut[c]
      /\ pc'[c] = pc[c] /\ inp'[c] = inp[c] /\ outp'[c] = outp[c]
      /\ rest'[c] = rest[c] /\ passed'[c] = passed[c] /\ stdin'[c] = stdin[c]
      /\ eaten'[c] = eaten[c] /\ made'[c] = made[c] /\ stdout'[c] = stdout[c]
      /\ held'[c] = held[c] /\ ndelay'[c] = ndelay[c]
  BY DEF Close, serverVars, clientVars, inputVars, outputVars, ClientSeesEnd,
         HoldsSocket, Stage, Set, Types
<1>2. /\ Answered(c)' = Answered(c) /\ Replied(c)' = Replied(c)
      /\ Length(c)' = Length(c) /\ Room(c)' = Room(c)
  BY <1>1 DEF Answered, Replied, Length, Room
<1>3. Types'
  <2>0. /\ client \in [Conns -> {"away", "open", "closed"}]
        /\ end \in [Conns -> SUBSET Tags]
    BY DEF Types
  <2>1. client' \in [Conns -> {"away", "open", "closed"}]
    BY <2>0 DEF Close, serverVars, clientVars, inputVars, outputVars,
           ClientSeesEnd, HoldsSocket, Stage, Set
  <2>2. end' \in [Conns -> SUBSET Tags]
    BY <2>0 DEF Close, serverVars, clientVars, inputVars, outputVars,
           ClientSeesEnd, HoldsSocket, Stage, Set, Tags
  <2> QED
    BY <2>1, <2>2 DEF Close, serverVars, clientVars, inputVars, outputVars,
           ClientSeesEnd, HoldsSocket, Stage, Types
<1>4. BoundInv(c)'
  BY <1>0, <1>1, <1>2 DEF Counters, BoundInv
<1>5. RoomInv(c)'
  BY <1>0, <1>1, <1>2 DEF Counters, RoomInv
<1>6. StageInv(c)'
  BY <1>0, <1>1, <1>2 DEF Counters, StageInv
<1>7. AnswerInv(c)'
  BY <1>0, <1>1, <1>2 DEF Counters, AnswerInv, Blank, ByServer, ByProgram, StageInv
<1>8. FlowInv(c)'
  BY <1>0, <1>1, <1>2 DEF Counters, FlowInv, StageInv
<1>9. ClosedInv(c)'
  BY <1>0, <1>1, <1>2 DEF Counters, ClosedInv, StageInv
<1>10. BodyInv(c)'
  BY <1>0, <1>1, <1>2 DEF Counters, BodyInv, StageInv
<1>11. InputInv(c)'
  BY <1>0, <1>1, <1>2 DEF Counters, InputInv, BodyInv, StageInv
<1>12. ShortInv(c)'
  BY <1>0, <1>1, <1>2 DEF Counters, ShortInv, StageInv
<1> QED
  BY <1>3, <1>4, <1>5, <1>6, <1>7, <1>8, <1>9, <1>10, <1>11, <1>12

LEMMA ReadTimeoutKeeps ==
  ASSUME Types, NEW c \in Conns, ConnInv(c), ReadTimeout(c)
  PROVE  Types' /\ ConnInv(c)'
<1> USE DEF ConnInv, Waiting, Ended, Handling, Running
<1>0. Counters(c) /\ Replied(c) \in Nat /\ Room(c) \in Int
  BY CountersAt
<1>1. /\ pc[c] \in {"read", "refused"} /\ pc'[c] \in Ended
      /\ ask'[c] = ask[c] /\ client'[c] = client[c] /\ sent'[c] = sent[c]
      /\ up'[c] = up[c] /\ seen'[c] = seen[c] /\ shut'[c] = shut[c]
      /\ inp'[c] = inp[c] /\ outp'[c] = outp[c] /\ rest'[c] = rest[c]
      /\ passed'[c] = passed[c] /\ stdin'[c] = stdin[c] /\ eaten'[c] = eaten[c]
      /\ made'[c] = made[c] /\ stdout'[c] = stdout[c] /\ held'[c] = held[c]
      /\ ndelay'[c] = ndelay[c] /\ end'[c] = end[c]
  BY DEF ReadTimeout, keepInHandler, Exit, serverVars, clientVars, inputVars,
         outputVars, Set, Types
<1>2. /\ Length(c)' = Length(c)
      /\ \/ /\ client[c] # "open" /\ down'[c] = down[c] /\ Answered(c)' = Answered(c)
            /\ Replied(c)' = Replied(c) /\ Room(c)' = Room(c)
         \/ /\ client[c] = "open" /\ Room(c) > 0 /\ Answered(c)' = Append(Answered(c), "408")
            /\ Replied(c)' = Replied(c) + 1 /\ Room(c)' = Room(c) - 1
  BY <1>1, ReplyGrows, UnitNames DEF ReadTimeout, keepInHandler, Exit, serverVars,
         clientVars, inputVars, outputVars, Length
<1>3. Types'
  <2>0. /\ pc \in [Conns -> Stage]
        /\ down \in [Conns -> Seq(Unit)]
    BY DEF Types
  <2>1. pc' \in [Conns -> Stage]
    BY <2>0 DEF ReadTimeout, keepInHandler, Exit, serverVars, clientVars,
           inputVars, outputVars, Set, Stage
  <2>2. chld' \in BOOLEAN
    BY DEF ReadTimeout, keepInHandler, Exit, serverVars, clientVars, inputVars,
           outputVars, Types
  <2>3. down' \in [Conns -> Seq(Unit)]
    BY ReplyTypes, UnitNames DEF ReadTimeout, keepInHandler, Exit, serverVars,
           clientVars, inputVars, outputVars
  <2> QED
    BY <2>1, <2>2, <2>3 DEF ReadTimeout, keepInHandler, Exit, serverVars,
           clientVars, inputVars, outputVars, Types
<1>4. BoundInv(c)'
  BY <1>0, <1>1, <1>2 DEF Counters, BoundInv
<1>5. RoomInv(c)'
  BY <1>0, <1>1, <1>2 DEF Counters, RoomInv
<1>6. StageInv(c)'
  BY <1>0, <1>1, <1>2 DEF Counters, StageInv
<1>7. AnswerInv(c)'
  <2>1. Answered(c) = <<>> /\ Replied(c) = 0
    BY <1>1 DEF AnswerInv, Blank, ByServer, ByProgram, StageInv
  <2>2. outp[c] \in {"none", "headers"} /\ made[c] = 0
    BY <1>1 DEF StageInv
  <2> QED
    BY <1>1, <1>2, <2>1, <2>2 DEF AnswerInv, Blank, ByServer
<1>8. FlowInv(c)'
  BY <1>0, <1>1, <1>2 DEF Counters, FlowInv, StageInv
<1>9. ClosedInv(c)'
  BY <1>0, <1>1, <1>2 DEF Counters, ClosedInv, StageInv
<1>10. BodyInv(c)'
  BY <1>1, <1>2 DEF BodyInv
<1>11. InputInv(c)'
  BY <1>0, <1>1, <1>2 DEF Counters, InputInv, BodyInv, StageInv
<1>12. ShortInv(c)'
  BY <1>0, <1>1, <1>2 DEF Counters, ShortInv, StageInv
<1> QED
  BY <1>3, <1>4, <1>5, <1>6, <1>7, <1>8, <1>9, <1>10, <1>11, <1>12

LEMMA SendPageKeeps ==
  ASSUME Types, NEW c \in Conns, ConnInv(c), SendPage(c)
  PROVE  Types' /\ ConnInv(c)'
<1> USE DEF ConnInv, Waiting, Ended, Handling, Running
<1>0. Counters(c) /\ Replied(c) \in Nat /\ Room(c) \in Int
  BY CountersAt
<1>1. /\ pc[c] \in {"page"} /\ pc'[c] \in Ended
      /\ ask'[c] = ask[c] /\ client'[c] = client[c] /\ sent'[c] = sent[c]
      /\ up'[c] = up[c] /\ seen'[c] = seen[c] /\ shut'[c] = shut[c]
      /\ inp'[c] = inp[c] /\ outp'[c] = outp[c] /\ rest'[c] = rest[c]
      /\ passed'[c] = passed[c] /\ stdin'[c] = stdin[c] /\ eaten'[c] = eaten[c]
      /\ made'[c] = made[c] /\ stdout'[c] = stdout[c] /\ held'[c] = held[c]
      /\ ndelay'[c] = ndelay[c] /\ end'[c] = end[c]
  BY DEF SendPage, keepInHandler, Exit, serverVars, clientVars, inputVars,
         outputVars, Set, Types
<1>2. /\ Length(c)' = Length(c)
      /\ \/ /\ client[c] # "open" /\ down'[c] = down[c] /\ Answered(c)' = Answered(c)
            /\ Replied(c)' = Replied(c) /\ Room(c)' = Room(c)
         \/ /\ client[c] = "open" /\ Room(c) > 0 /\ Answered(c)' = Append(Answered(c), "error")
            /\ Replied(c)' = Replied(c) + 1 /\ Room(c)' = Room(c) - 1
  BY <1>1, ReplyGrows, UnitNames DEF SendPage, keepInHandler, Exit, serverVars,
         clientVars, inputVars, outputVars, Length
<1>3. Types'
  <2>0. /\ pc \in [Conns -> Stage]
        /\ down \in [Conns -> Seq(Unit)]
    BY DEF Types
  <2>1. pc' \in [Conns -> Stage]
    BY <2>0 DEF SendPage, keepInHandler, Exit, serverVars, clientVars, inputVars,
           outputVars, Set, Stage
  <2>2. chld' \in BOOLEAN
    BY DEF SendPage, keepInHandler, Exit, serverVars, clientVars, inputVars,
           outputVars, Types
  <2>3. down' \in [Conns -> Seq(Unit)]
    BY ReplyTypes, UnitNames DEF SendPage, keepInHandler, Exit, serverVars,
           clientVars, inputVars, outputVars
  <2> QED
    BY <2>1, <2>2, <2>3 DEF SendPage, keepInHandler, Exit, serverVars, clientVars,
           inputVars, outputVars, Types
<1>4. BoundInv(c)'
  BY <1>0, <1>1, <1>2 DEF Counters, BoundInv
<1>5. RoomInv(c)'
  BY <1>0, <1>1, <1>2 DEF Counters, RoomInv
<1>6. StageInv(c)'
  BY <1>0, <1>1, <1>2 DEF Counters, StageInv
<1>7. AnswerInv(c)'
  <2>1. Answered(c) = <<>> /\ Replied(c) = 0
    BY <1>1 DEF AnswerInv, Blank, ByServer, ByProgram, StageInv
  <2>2. outp[c] \in {"none", "headers"} /\ made[c] = 0
    BY <1>1 DEF StageInv
  <2> QED
    BY <1>1, <1>2, <2>1, <2>2 DEF AnswerInv, Blank, ByServer
<1>8. FlowInv(c)'
  BY <1>0, <1>1, <1>2 DEF Counters, FlowInv, StageInv
<1>9. ClosedInv(c)'
  BY <1>0, <1>1, <1>2 DEF Counters, ClosedInv, StageInv
<1>10. BodyInv(c)'
  BY <1>1, <1>2 DEF BodyInv
<1>11. InputInv(c)'
  BY <1>0, <1>1, <1>2 DEF Counters, InputInv, BodyInv, StageInv
<1>12. ShortInv(c)'
  BY <1>0, <1>1, <1>2 DEF Counters, ShortInv, StageInv
<1> QED
  BY <1>3, <1>4, <1>5, <1>6, <1>7, <1>8, <1>9, <1>10, <1>11, <1>12

LEMMA SendFileKeeps ==
  ASSUME Types, NEW c \in Conns, ConnInv(c), SendFile(c)
  PROVE  Types' /\ ConnInv(c)'
<1> USE DEF ConnInv, Waiting, Ended, Handling, Running
<1>0. Counters(c) /\ Replied(c) \in Nat /\ Room(c) \in Int
  BY CountersAt
<1>1. /\ pc[c] \in {"file"} /\ pc'[c] \in Ended
      /\ ask'[c] = ask[c] /\ client'[c] = client[c] /\ sent'[c] = sent[c]
      /\ up'[c] = up[c] /\ seen'[c] = seen[c] /\ shut'[c] = shut[c]
      /\ inp'[c] = inp[c] /\ outp'[c] = outp[c] /\ rest'[c] = rest[c]
      /\ passed'[c] = passed[c] /\ stdin'[c] = stdin[c] /\ eaten'[c] = eaten[c]
      /\ made'[c] = made[c] /\ stdout'[c] = stdout[c] /\ held'[c] = held[c]
      /\ ndelay'[c] = ndelay[c] /\ end'[c] = end[c]
  BY DEF SendFile, keepInHandler, Exit, serverVars, clientVars, inputVars,
         outputVars, Set, Types
<1>2. /\ Length(c)' = Length(c)
      /\ \/ /\ client[c] # "open" /\ down'[c] = down[c] /\ Answered(c)' = Answered(c)
            /\ Replied(c)' = Replied(c) /\ Room(c)' = Room(c)
         \/ /\ client[c] = "open" /\ Room(c) > 0 /\ Answered(c)' = Append(Answered(c), "file")
            /\ Replied(c)' = Replied(c) + 1 /\ Room(c)' = Room(c) - 1
  BY <1>1, ReplyGrows, UnitNames DEF SendFile, keepInHandler, Exit, serverVars,
         clientVars, inputVars, outputVars, Length
<1>3. Types'
  <2>0. /\ pc \in [Conns -> Stage]
        /\ down \in [Conns -> Seq(Unit)]
    BY DEF Types
  <2>1. pc' \in [Conns -> Stage]
    BY <2>0 DEF SendFile, keepInHandler, Exit, serverVars, clientVars, inputVars,
           outputVars, Set, Stage
  <2>2. chld' \in BOOLEAN
    BY DEF SendFile, keepInHandler, Exit, serverVars, clientVars, inputVars,
           outputVars, Types
  <2>3. down' \in [Conns -> Seq(Unit)]
    BY ReplyTypes, UnitNames DEF SendFile, keepInHandler, Exit, serverVars,
           clientVars, inputVars, outputVars
  <2> QED
    BY <2>1, <2>2, <2>3 DEF SendFile, keepInHandler, Exit, serverVars, clientVars,
           inputVars, outputVars, Types
<1>4. BoundInv(c)'
  BY <1>0, <1>1, <1>2 DEF Counters, BoundInv
<1>5. RoomInv(c)'
  BY <1>0, <1>1, <1>2 DEF Counters, RoomInv
<1>6. StageInv(c)'
  BY <1>0, <1>1, <1>2 DEF Counters, StageInv
<1>7. AnswerInv(c)'
  <2>1. Answered(c) = <<>> /\ Replied(c) = 0
    BY <1>1 DEF AnswerInv, Blank, ByServer, ByProgram, StageInv
  <2>2. outp[c] \in {"none", "headers"} /\ made[c] = 0
    BY <1>1 DEF StageInv
  <2> QED
    BY <1>1, <1>2, <2>1, <2>2 DEF AnswerInv, Blank, ByServer
<1>8. FlowInv(c)'
  BY <1>0, <1>1, <1>2 DEF Counters, FlowInv, StageInv
<1>9. ClosedInv(c)'
  BY <1>0, <1>1, <1>2 DEF Counters, ClosedInv, StageInv
<1>10. BodyInv(c)'
  BY <1>1, <1>2 DEF BodyInv
<1>11. InputInv(c)'
  BY <1>0, <1>1, <1>2 DEF Counters, InputInv, BodyInv, StageInv
<1>12. ShortInv(c)'
  BY <1>0, <1>1, <1>2 DEF Counters, ShortInv, StageInv
<1> QED
  BY <1>3, <1>4, <1>5, <1>6, <1>7, <1>8, <1>9, <1>10, <1>11, <1>12

LEMMA ProgramReadsKeeps ==
  ASSUME Types, NEW c \in Conns, ConnInv(c), ProgramReads(c)
  PROVE  Types' /\ ConnInv(c)'
<1> USE DEF ConnInv, Waiting, Ended, Handling, Running
<1>0. Counters(c) /\ Replied(c) \in Nat /\ Room(c) \in Int
  BY CountersAt
<1>1. /\ pc[c] = "reads" /\ pc'[c] = "cgi"
      /\ \/ /\ inp[c] # "none" /\ stdin[c] > 0 /\ stdin'[c] = stdin[c] - 1
            /\ eaten'[c] = eaten[c] + 1 /\ up'[c] = up[c] /\ end'[c] = end[c]
         \/ /\ inp[c] = "none" /\ up[c] > 0 /\ up'[c] = up[c] - 1
            /\ eaten'[c] = eaten[c] + 1 /\ stdin'[c] = stdin[c] /\ end'[c] = end[c]
         \/ /\ \/ stdin[c] = 0 /\ inp[c] = "gone"
               \/ inp[c] = "none" /\ up[c] = 0 /\ client[c] = "closed"
            /\ stdin'[c] = stdin[c] /\ up'[c] = up[c] /\ eaten'[c] = eaten[c]
            /\ "short" \in end'[c]
            /\ "left" \in end'[c] <=> "left" \in end[c]
            /\ "raced" \in end'[c] <=> "raced" \in end[c]
      /\ ask'[c] = ask[c] /\ client'[c] = client[c] /\ sent'[c] = sent[c]
      /\ down'[c] = down[c] /\ seen'[c] = seen[c] /\ shut'[c] = shut[c]
      /\ inp'[c] = inp[c] /\ outp'[c] = outp[c] /\ rest'[c] = rest[c]
      /\ passed'[c] = passed[c] /\ made'[c] = made[c] /\ stdout'[c] = stdout[c]
      /\ held'[c] = held[c] /\ ndelay'[c] = ndelay[c]
  <2> USE DEF Types
  <2>1. /\ pc[c] = "reads" /\ pc'[c] = "cgi"
        /\ UNCHANGED <<client, sent, down, seen, shut, inp, outp, rest, passed, made,
                       stdout, held, ndelay, ask>>
    BY DEF ProgramReads, keepInProgram, clientVars, Set
  <2>2. CASE inp[c] # "none" /\ stdin[c] > 0 /\ eaten' = [eaten EXCEPT ![c] = @ + 1]
             /\ stdin' = [stdin EXCEPT ![c] = @ - 1] /\ UNCHANGED <<up, end>>
    BY <2>1, <2>2
  <2>3. CASE inp[c] = "none" /\ up[c] > 0 /\ eaten' = [eaten EXCEPT ![c] = @ + 1]
             /\ up' = [up EXCEPT ![c] = @ - 1] /\ UNCHANGED <<stdin, end>>
    BY <2>1, <2>3
  <2>4. CASE /\ \/ stdin[c] = 0 /\ inp[c] = "gone"
                \/ inp[c] = "none" /\ up[c] = 0 /\ client[c] = "closed"
             /\ end' = [end EXCEPT ![c] = @ \cup {"short"}] /\ UNCHANGED <<up, stdin, eaten>>
    <3>1. end'[c] = end[c] \cup {"short"}
      BY <2>4
    <3>2. /\ "short" \in end'[c]
          /\ "left" \in end'[c] <=> "left" \in end[c]
          /\ "raced" \in end'[c] <=> "raced" \in end[c]
      BY <3>1
    <3>3. stdin'[c] = stdin[c] /\ up'[c] = up[c] /\ eaten'[c] = eaten[c]
      BY <2>4
    <3> QED
      BY <2>1, <2>4, <3>2, <3>3
  <2> QED
    BY <2>2, <2>3, <2>4 DEF ProgramReads, Interposed
<1>2. /\ Answered(c)' = Answered(c) /\ Replied(c)' = Replied(c)
      /\ Length(c)' = Length(c) /\ Room(c)' = Room(c)
  BY <1>1 DEF Answered, Replied, Length, Room
<1>3. Types'
  <2>0. /\ pc \in [Conns -> Stage]
        /\ up \in [Conns -> Int]
        /\ stdin \in [Conns -> Int]
        /\ eaten \in [Conns -> Int]
        /\ end \in [Conns -> SUBSET Tags]
    BY DEF Types
  <2>1. pc' \in [Conns -> Stage]
    BY <2>0 DEF ProgramReads, keepInProgram, Exit, serverVars, clientVars,
           inputVars, outputVars, Interposed, Set, Stage
  <2>2. up' \in [Conns -> Int]
    BY <2>0 DEF ProgramReads, keepInProgram, Exit, serverVars, clientVars,
           inputVars, outputVars, Interposed, Set
  <2>3. stdin' \in [Conns -> Int]
    BY <2>0 DEF ProgramReads, keepInProgram, Exit, serverVars, clientVars,
           inputVars, outputVars, Interposed, Set
  <2>4. eaten' \in [Conns -> Int]
    BY <2>0 DEF ProgramReads, keepInProgram, Exit, serverVars, clientVars,
           inputVars, outputVars, Interposed, Set
  <2>5. end' \in [Conns -> SUBSET Tags]
    BY <2>0 DEF ProgramReads, keepInProgram, Exit, serverVars, clientVars,
           inputVars, outputVars, Interposed, Set, Tags
  <2> QED
    BY <2>1, <2>2, <2>3, <2>4, <2>5 DEF ProgramReads, keepInProgram, Exit,
           serverVars, clientVars, inputVars, outputVars, Interposed, Types
<1>4. BoundInv(c)'
  BY <1>0, <1>1, <1>2 DEF Counters, BoundInv
<1>5. RoomInv(c)'
  BY <1>0, <1>1, <1>2 DEF Counters, RoomInv
<1>6. StageInv(c)'
  BY <1>0, <1>1, <1>2 DEF Counters, StageInv
<1>7. AnswerInv(c)'
  BY <1>0, <1>1, <1>2 DEF Counters, AnswerInv, Blank, ByServer, ByProgram, StageInv
<1>8. FlowInv(c)'
  BY <1>0, <1>1, <1>2 DEF Counters, FlowInv, StageInv
<1>9. ClosedInv(c)'
  BY <1>0, <1>1, <1>2 DEF Counters, ClosedInv, StageInv
<1>10. BodyInv(c)'
  BY <1>0, <1>1, <1>2 DEF Counters, BodyInv, StageInv
<1>11. InputInv(c)'
  BY <1>0, <1>1, <1>2 DEF Counters, InputInv, BodyInv, StageInv
<1>12. ShortInv(c)'
  <2>1. CASE "short" \in end[c]
    BY <2>1, <1>1 DEF InputInv
  <2>2. CASE "short" \notin end[c] /\ "short" \in end'[c]
    <3>1. /\ eaten[c] < Length(c) /\ up'[c] = up[c] /\ eaten'[c] = eaten[c]
          /\ "left" \in end'[c] <=> "left" \in end[c]
          /\ \/ stdin[c] = 0 /\ inp[c] = "gone"
             \/ inp[c] = "none" /\ up[c] = 0 /\ client[c] = "closed"
      BY <2>2, <1>1 DEF InputInv
    <3>2. ask[c].post
      BY <3>1, <1>0 DEF Length, Counters, BoundInv
    <3>3. CASE inp[c] = "gone"
      <4>1. passed[c] = eaten[c] /\ ~(passed[c] >= Length(c))
        BY <3>1, <3>3, <1>0 DEF BodyInv, Counters
      <4>2. up[c] = 0 /\ rest[c] = 0 /\ client[c] = "closed" /\ "raced" \notin end[c]
        BY <4>1, <3>3, <1>1 DEF InputInv, ClosedInv
      <4>3. sent[c] = 1 + eaten[c] /\ "left" \in end[c]
        BY <4>1, <4>2, <3>3, <1>0, <1>1 DEF BodyInv, ClosedInv, Counters
      <4> QED
        BY <4>2, <4>3, <3>1, <3>3, <1>0, <1>1 DEF ShortInv, Counters
    <3>4. CASE inp[c] = "none"
      <4>1. rest[c] = 0 /\ up[c] = 0 /\ client[c] = "closed" /\ "raced" \notin end[c]
        BY <3>1, <3>2, <3>4, <1>1 DEF InputInv, ClosedInv
      <4>2. sent[c] = 1 + eaten[c] /\ "left" \in end[c]
        BY <4>1, <3>4, <1>0, <1>1 DEF BodyInv, ClosedInv, Counters
      <4> QED
        BY <4>1, <4>2, <3>1, <3>4, <1>0, <1>1 DEF ShortInv, Counters
    <3> QED
      BY <3>1, <3>3, <3>4
  <2> QED
    BY <2>1, <2>2 DEF ShortInv
<1> QED
  BY <1>3, <1>4, <1>5, <1>6, <1>7, <1>8, <1>9, <1>10, <1>11, <1>12

LEMMA SlurpHeadersKeeps ==
  ASSUME Types, NEW c \in Conns, ConnInv(c), SlurpHeaders(c)
  PROVE  Types' /\ ConnInv(c)'
<1> USE DEF ConnInv, Waiting, Ended, Handling, Running
<1>0. Counters(c) /\ Replied(c) \in Nat /\ Room(c) \in Int
  BY CountersAt
<1>1. /\ outp[c] = "headers"
      /\ \/ stdout[c] > 0 /\ stdout'[c] = stdout[c] - 1 /\ outp'[c] = "status"
         \/ /\ stdout[c] = 0 /\ stdout'[c] = stdout[c] /\ outp'[c] = "gone"
            /\ pc[c] \notin {"exec", "page"} \cup Running
      /\ ask'[c] = ask[c] /\ client'[c] = client[c] /\ sent'[c] = sent[c]
      /\ up'[c] = up[c] /\ down'[c] = down[c] /\ seen'[c] = seen[c]
      /\ shut'[c] = shut[c] /\ pc'[c] = pc[c] /\ inp'[c] = inp[c]
      /\ rest'[c] = rest[c] /\ passed'[c] = passed[c] /\ stdin'[c] = stdin[c]
      /\ eaten'[c] = eaten[c] /\ made'[c] = made[c] /\ held'[c] = held[c]
      /\ ndelay'[c] = ndelay[c] /\ end'[c] = end[c]
  BY DEF SlurpHeaders, keepInOutput, Done, serverVars, clientVars, inputVars,
         outputVars, WritesStdout, Set, Types
<1>2. /\ Answered(c)' = Answered(c) /\ Replied(c)' = Replied(c)
      /\ Length(c)' = Length(c) /\ Room(c)' = Room(c)
  BY <1>1 DEF Answered, Replied, Length, Room
<1>3. Types'
  <2>0. /\ outp \in [Conns -> OutStage]
        /\ stdout \in [Conns -> Int]
    BY DEF Types
  <2>1. outp' \in [Conns -> OutStage]
    BY <2>0 DEF SlurpHeaders, keepInOutput, Done, serverVars, clientVars,
           inputVars, outputVars, WritesStdout, Set, OutStage
  <2>2. stdout' \in [Conns -> Int]
    BY <2>0 DEF SlurpHeaders, keepInOutput, Done, serverVars, clientVars,
           inputVars, outputVars, WritesStdout, Set
  <2> QED
    BY <2>1, <2>2 DEF SlurpHeaders, keepInOutput, Done, serverVars, clientVars,
           inputVars, outputVars, WritesStdout, Types
<1>4. BoundInv(c)'
  BY <1>0, <1>1, <1>2 DEF Counters, BoundInv
<1>5. RoomInv(c)'
  BY <1>0, <1>1, <1>2 DEF Counters, RoomInv
<1>6. StageInv(c)'
  BY <1>0, <1>1, <1>2 DEF Counters, StageInv, FlowInv
<1>7. AnswerInv(c)'
  BY <1>0, <1>1, <1>2 DEF Counters, AnswerInv, Blank, ByServer, ByProgram, FlowInv
<1>8. FlowInv(c)'
  BY <1>0, <1>1, <1>2 DEF Counters, FlowInv, StageInv
<1>9. ClosedInv(c)'
  BY <1>0, <1>1, <1>2 DEF Counters, ClosedInv, StageInv
<1>10. BodyInv(c)'
  BY <1>0, <1>1, <1>2 DEF Counters, BodyInv, StageInv
<1>11. InputInv(c)'
  BY <1>0, <1>1, <1>2 DEF Counters, InputInv, BodyInv, StageInv
<1>12. ShortInv(c)'
  BY <1>0, <1>1, <1>2 DEF Counters, ShortInv, StageInv
<1> QED
  BY <1>3, <1>4, <1>5, <1>6, <1>7, <1>8, <1>9, <1>10, <1>11, <1>12

LEMMA WriteHeadersKeeps ==
  ASSUME Types, NEW c \in Conns, ConnInv(c), WriteHeaders(c)
  PROVE  Types' /\ ConnInv(c)'
<1> USE DEF ConnInv, Waiting, Ended, Handling, Running
<1>0. Counters(c) /\ Replied(c) \in Nat /\ Room(c) \in Int
  BY CountersAt
<1>1. /\ outp[c] = "status" /\ outp'[c] = "echo"
      /\ ask'[c] = ask[c] /\ client'[c] = client[c] /\ sent'[c] = sent[c]
      /\ up'[c] = up[c] /\ seen'[c] = seen[c] /\ shut'[c] = shut[c]
      /\ pc'[c] = pc[c] /\ inp'[c] = inp[c] /\ rest'[c] = rest[c]
      /\ passed'[c] = passed[c] /\ stdin'[c] = stdin[c] /\ eaten'[c] = eaten[c]
      /\ made'[c] = made[c] /\ stdout'[c] = stdout[c] /\ held'[c] = held[c]
      /\ ndelay'[c] = ndelay[c] /\ end'[c] = end[c]
  BY DEF WriteHeaders, keepInOutput, Done, serverVars, clientVars, inputVars,
         outputVars, Set, Types
<1>2. /\ Length(c)' = Length(c)
      /\ \/ /\ client[c] # "open" /\ down'[c] = down[c] /\ Answered(c)' = Answered(c)
            /\ Replied(c)' = Replied(c) /\ Room(c)' = Room(c)
         \/ /\ client[c] = "open" /\ Room(c) > 0 /\ Answered(c)' = Append(Answered(c), "head")
            /\ Replied(c)' = Replied(c) + 1 /\ Room(c)' = Room(c) - 1
  BY <1>1, ReplyGrows, UnitNames DEF WriteHeaders, keepInOutput, Done, serverVars,
         clientVars, inputVars, outputVars, Length
<1>3. Types'
  <2>0. /\ outp \in [Conns -> OutStage]
        /\ down \in [Conns -> Seq(Unit)]
    BY DEF Types
  <2>1. outp' \in [Conns -> OutStage]
    BY <2>0 DEF WriteHeaders, keepInOutput, Done, serverVars, clientVars,
           inputVars, outputVars, Set, OutStage
  <2>2. down' \in [Conns -> Seq(Unit)]
    BY ReplyTypes, UnitNames DEF WriteHeaders, keepInOutput, Done, serverVars,
           clientVars, inputVars, outputVars
  <2> QED
    BY <2>1, <2>2 DEF WriteHeaders, keepInOutput, Done, serverVars, clientVars,
           inputVars, outputVars, Types
<1>4. BoundInv(c)'
  BY <1>0, <1>1, <1>2 DEF Counters, BoundInv
<1>5. RoomInv(c)'
  BY <1>0, <1>1, <1>2 DEF Counters, RoomInv
<1>6. StageInv(c)'
  BY <1>0, <1>1, <1>2 DEF Counters, StageInv
<1>7. AnswerInv(c)'
  <2>1. Answered(c) = <<>> /\ Replied(c) = 0
    BY <1>1 DEF AnswerInv, Blank, ByServer, ByProgram
  <2>2. pc[c] \in Running \cup Ended /\ client[c] \in {"open", "closed"}
    BY <1>1, StagesAt DEF StageInv, Stage
  <2> QED
    BY <1>1, <1>2, <2>1, <2>2, HeadFirst DEF AnswerInv, Blank, ByProgram
<1>8. FlowInv(c)'
  <2>1. Replied(c) = 0 /\ held[c] = 0
    BY <1>1 DEF AnswerInv, Blank, ByServer, ByProgram, BoundInv
  <2> QED
    BY <1>0, <1>1, <1>2, <2>1 DEF Counters, FlowInv
<1>9. ClosedInv(c)'
  BY <1>0, <1>1, <1>2 DEF Counters, ClosedInv, StageInv
<1>10. BodyInv(c)'
  BY <1>0, <1>1, <1>2 DEF Counters, BodyInv, StageInv
<1>11. InputInv(c)'
  BY <1>0, <1>1, <1>2 DEF Counters, InputInv, BodyInv, StageInv
<1>12. ShortInv(c)'
  BY <1>0, <1>1, <1>2 DEF Counters, ShortInv, StageInv
<1> QED
  BY <1>3, <1>4, <1>5, <1>6, <1>7, <1>8, <1>9, <1>10, <1>11, <1>12

LEMMA EchoKeeps ==
  ASSUME Types, NEW c \in Conns, ConnInv(c), Echo(c)
  PROVE  Types' /\ ConnInv(c)'
<1> USE DEF ConnInv, Waiting, Ended, Handling, Running
<1>0. Counters(c) /\ Replied(c) \in Nat /\ Room(c) \in Int
  BY CountersAt
<1>1. /\ outp[c] = "echo"
      /\ \/ /\ stdout[c] > 0 /\ stdout'[c] = stdout[c] - held'[c] /\ outp'[c] = "write"
            /\ 0 < held'[c] /\ held'[c] <= EchoSize /\ held'[c] <= stdout[c]
            /\ held'[c] \in Int /\ shut'[c] = shut[c]
         \/ /\ stdout[c] = 0 /\ stdout'[c] = stdout[c] /\ held'[c] = held[c]
            /\ outp'[c] = "gone" /\ shut'[c] /\ pc[c] \notin Running
      /\ ask'[c] = ask[c] /\ client'[c] = client[c] /\ sent'[c] = sent[c]
      /\ up'[c] = up[c] /\ down'[c] = down[c] /\ seen'[c] = seen[c]
      /\ pc'[c] = pc[c] /\ inp'[c] = inp[c] /\ rest'[c] = rest[c]
      /\ passed'[c] = passed[c] /\ stdin'[c] = stdin[c] /\ eaten'[c] = eaten[c]
      /\ made'[c] = made[c] /\ ndelay'[c] = ndelay[c] /\ end'[c] = end[c]
  <2>1. /\ outp[c] = "echo"
        /\ \/ /\ stdout[c] > 0 /\ outp' = Set(outp, c, "write") /\ UNCHANGED shut
              /\ held' = Set(held, c, LeastOf(EchoSize, stdout[c]))
              /\ stdout' = [stdout EXCEPT ![c] = @ - LeastOf(EchoSize, stdout[c])]
           \/ /\ stdout[c] = 0 /\ Done(c) /\ UNCHANGED <<held, stdout>>
              /\ pc[c] \notin Running
        /\ UNCHANGED <<serverVars, clientVars, up, down, seen, pc, inp, inputVars,
                       made, ndelay, end>>
    BY DEF Echo, keepInOutput, WritesStdout
  <2>2. LET k == LeastOf(EchoSize, stdout[c])
        IN  k \in Int /\ k <= EchoSize /\ k <= stdout[c] /\ (stdout[c] > 0 => k > 0)
    <3>1. EchoSize \in Int /\ EchoSize > 0
      BY ServerAssumption
    <3>2. stdout[c] \in Int
      BY <1>0 DEF Counters
    <3> QED
      BY <3>1, <3>2, LeastOfTwo
  <2> QED
    BY <2>1, <2>2 DEF Done, Set, Types, serverVars, clientVars, inputVars
<1>2. /\ Answered(c)' = Answered(c) /\ Replied(c)' = Replied(c)
      /\ Length(c)' = Length(c) /\ Room(c)' = Room(c)
  BY <1>1 DEF Answered, Replied, Length, Room
<1>3. Types'
  <2>0. /\ outp \in [Conns -> OutStage] /\ stdout \in [Conns -> Int]
        /\ held \in [Conns -> Int] /\ shut \in [Conns -> BOOLEAN]
    BY DEF Types
  <2>1. LeastOf(EchoSize, stdout[c]) \in Int
    BY <1>0, LeastOfTwo DEF Counters
  <2>2. outp' \in [Conns -> OutStage] /\ shut' \in [Conns -> BOOLEAN]
    BY <2>0 DEF Echo, Done, Set, OutStage
  <2>3. stdout' \in [Conns -> Int]
    BY <2>0, <2>1 DEF Echo, Set
  <2>4. held' \in [Conns -> Int]
    BY <2>0, <2>1 DEF Echo, Set
  <2> QED
    BY <2>2, <2>3, <2>4 DEF Echo, keepInOutput, serverVars, clientVars, inputVars,
           Types
<1>4. BoundInv(c)'
  BY <1>0, <1>1, <1>2 DEF Counters, BoundInv
<1>5. RoomInv(c)'
  BY <1>0, <1>1, <1>2 DEF Counters, RoomInv
<1>6. StageInv(c)'
  BY <1>0, <1>1, <1>2 DEF Counters, StageInv
<1>7. AnswerInv(c)'
  BY <1>0, <1>1, <1>2 DEF Counters, AnswerInv, Blank, ByServer, ByProgram, StageInv
<1>8. FlowInv(c)'
  <2>1. client[c] \in {"open", "closed"} /\ held[c] = 0
    BY <1>1, StagesAt DEF StageInv, BoundInv
  <2>2. client[c] = "closed" => "left" \in end[c]
    BY <1>1 DEF ClosedInv
  <2> QED
    BY <1>0, <1>1, <1>2, <2>1, <2>2 DEF Counters, FlowInv
<1>9. ClosedInv(c)'
  BY <1>1, <1>2, StagesAt DEF ClosedInv, StageInv, Stage
<1>10. BodyInv(c)'
  BY <1>0, <1>1, <1>2 DEF Counters, BodyInv, StageInv
<1>11. InputInv(c)'
  BY <1>0, <1>1, <1>2 DEF Counters, InputInv, BodyInv, StageInv
<1>12. ShortInv(c)'
  BY <1>0, <1>1, <1>2 DEF Counters, ShortInv, StageInv
<1> QED
  BY <1>3, <1>4, <1>5, <1>6, <1>7, <1>8, <1>9, <1>10, <1>11, <1>12

LEMMA WriteOnKeeps ==
  ASSUME Types, NEW c \in Conns, ConnInv(c), WriteOn(c)
  PROVE  Types' /\ ConnInv(c)'
<1> USE DEF ConnInv, Waiting, Ended, Handling, Running
<1>0. Counters(c) /\ Replied(c) \in Nat /\ Room(c) \in Int
  BY CountersAt
<1>1. /\ outp[c] = "blocked"
      /\ \/ /\ client[c] = "closed" /\ outp'[c] = "gone" /\ shut'[c]
            /\ down'[c] = down[c] /\ held'[c] = held[c]
         \/ /\ client[c] = "open" /\ Room(c) > 0 /\ down'[c] = Append(down[c], "data")
            /\ held'[c] = held[c] - 1 /\ shut'[c] = shut[c]
            /\ outp'[c] = IF held[c] = 1 THEN "echo" ELSE "blocked"
      /\ ask'[c] = ask[c] /\ client'[c] = client[c] /\ sent'[c] = sent[c]
      /\ up'[c] = up[c] /\ seen'[c] = seen[c] /\ pc'[c] = pc[c]
      /\ inp'[c] = inp[c] /\ rest'[c] = rest[c] /\ passed'[c] = passed[c]
      /\ stdin'[c] = stdin[c] /\ eaten'[c] = eaten[c] /\ made'[c] = made[c]
      /\ stdout'[c] = stdout[c] /\ ndelay'[c] = ndelay[c] /\ end'[c] = end[c]
  BY DEF WriteOn, keepInOutput, Done, serverVars, clientVars, inputVars,
         outputVars, Set, Types
<1>2. /\ Length(c)' = Length(c)
      /\ \/ /\ client[c] = "closed" /\ Answered(c)' = Answered(c)
            /\ Replied(c)' = Replied(c) /\ Room(c)' = Room(c)
         \/ /\ client[c] = "open" /\ Answered(c)' = Append(Answered(c), "data")
            /\ Replied(c)' = Replied(c) + 1 /\ Room(c)' = Room(c) - 1
  <2>1. CASE client[c] = "closed"
    BY <2>1, <1>1 DEF Answered, Replied, Room, Length
  <2>2. CASE client[c] = "open"
    <3>1. down'[c] = Append(down[c], "data") /\ "data" \in Unit
      BY <2>2, <1>1 DEF Unit
    <3>2. Answered(c)' = Append(Answered(c), "data") /\ Answered(c) \in Seq(Unit)
      BY <3>1, <1>1, AnswerGrows
    <3>3. Replied(c)' = Replied(c) + 1
      BY <3>1, <3>2, AppendProperties DEF Replied
    <3>4. Len(down'[c]) = Len(down[c]) + 1 /\ Len(down[c]) \in Int /\ SockRoom \in Int
      BY <3>1, CountersAt, AppendProperties, ServerAssumption DEF Types
    <3> QED
      BY <2>2, <3>2, <3>3, <3>4, <1>1, RoomPlus DEF Room, Length
  <2> QED
    BY <2>1, <2>2, <1>1
<1>3. Types'
  <2>0. /\ outp \in [Conns -> OutStage] /\ held \in [Conns -> Int]
        /\ down \in [Conns -> Seq(Unit)] /\ shut \in [Conns -> BOOLEAN]
    BY DEF Types
  <2>1. outp' \in [Conns -> OutStage] /\ shut' \in [Conns -> BOOLEAN]
    BY <2>0 DEF WriteOn, Done, Set, OutStage
  <2>2. held' \in [Conns -> Int]
    BY <2>0 DEF WriteOn
  <2>3. Append(down[c], "data") \in Seq(Unit)
    BY <2>0, UnitNames, AppendProperties
  <2>4. down' \in [Conns -> Seq(Unit)]
    BY <2>0, <2>3 DEF WriteOn
  <2> QED
    BY <2>1, <2>2, <2>4 DEF WriteOn, keepInOutput, serverVars, clientVars,
           inputVars, Types
<1>4. BoundInv(c)'
  <2>1. /\ 0 <= held'[c] /\ held'[c] <= EchoSize
        /\ outp'[c] \in {"write", "blocked"} => held'[c] > 0
        /\ outp'[c] \in {"none", "headers", "status", "echo"} => held'[c] = 0
    <3>1. 0 <= held[c] /\ held[c] <= EchoSize /\ held[c] > 0 /\ held[c] \in Int
      BY <1>0, <1>1 DEF BoundInv, Counters
    <3>2. CASE client[c] = "closed"
      <4>1. held'[c] = held[c] /\ outp'[c] = "gone"
        BY <3>2, <1>1
      <4> QED
        BY <3>1, <4>1
    <3>3. CASE client[c] = "open"
      <4>1. /\ held'[c] = held[c] - 1
            /\ outp'[c] = IF held[c] = 1 THEN "echo" ELSE "blocked"
        BY <3>3, <1>1
      <4> QED
        BY <3>1, <4>1, <1>0 DEF Counters
    <3> QED
      BY <3>2, <3>3, <1>1
  <2> QED
    BY <1>1, <2>1 DEF BoundInv
<1>5. RoomInv(c)'
  BY <1>0, <1>1, <1>2 DEF Counters, RoomInv
<1>6. StageInv(c)'
  BY <1>0, <1>1, <1>2 DEF Counters, StageInv
<1>7. AnswerInv(c)'
  <2>1. CASE client[c] = "closed"
    <3>1. Answered(c)' = Answered(c) /\ Replied(c)' = Replied(c) /\ outp'[c] = "gone"
      BY <2>1, <1>1, <1>2
    <3> QED
      BY <3>1, <1>1 DEF AnswerInv, Blank, ByServer, ByProgram
  <2>2. CASE client[c] = "open"
    <3>1. HeadAndData(Answered(c)) /\ pc[c] \in Running \cup Ended
      BY <2>2, <1>1 DEF AnswerInv, Blank, ByServer, ByProgram
    <3>2. HeadAndData(Append(Answered(c), "data"))
      BY <3>1, CountersAt, MoreData, UnitNames
    <3> QED
      BY <2>2, <3>1, <3>2, <1>1, <1>2 DEF AnswerInv, ByProgram
  <2> QED
    BY <2>1, <2>2, <1>1
<1>8. FlowInv(c)'
  <2>1. CASE client[c] = "closed"
    <3>1. outp'[c] = "gone" /\ "left" \in end'[c]
      BY <2>1, <1>1 DEF ClosedInv
    <3> QED
      BY <3>1 DEF FlowInv
  <2>2. CASE client[c] = "open"
    <3>1. made[c] = stdout[c] + held[c] + Replied(c)
      BY <2>2, <1>1 DEF FlowInv
    <3>2. /\ made'[c] = made[c] /\ stdout'[c] = stdout[c]
          /\ held'[c] = held[c] - 1 /\ Replied(c)' = Replied(c) + 1
      BY <2>2, <1>1, <1>2
    <3>2a. made'[c] = stdout'[c] + held'[c] + Replied(c)'
      <4>1. /\ made[c] \in Int /\ stdout[c] \in Int /\ held[c] \in Int
            /\ Replied(c) \in Int
        BY <1>0 DEF Counters
      <4> QED
        BY <3>1, <3>2, <4>1
    <3>3. outp'[c] \in {"echo", "blocked"} /\ client'[c] = "open"
      BY <2>2, <1>1
    <3> QED
      BY <3>2a, <3>3 DEF FlowInv
  <2> QED
    BY <2>1, <2>2, <1>1
<1>9. ClosedInv(c)'
  BY <1>1, <1>2 DEF ClosedInv
<1>10. BodyInv(c)'
  BY <1>0, <1>1, <1>2 DEF Counters, BodyInv, StageInv
<1>11. InputInv(c)'
  BY <1>0, <1>1, <1>2 DEF Counters, InputInv, BodyInv, StageInv
<1>12. ShortInv(c)'
  BY <1>0, <1>1, <1>2 DEF Counters, ShortInv, StageInv
<1> QED
  BY <1>3, <1>4, <1>5, <1>6, <1>7, <1>8, <1>9, <1>10, <1>11, <1>12

LEMMA WriteKeeps ==
  ASSUME Types, NEW c \in Conns, ConnInv(c), Write(c)
  PROVE  Types' /\ ConnInv(c)'
<1> USE DEF ConnInv, Waiting, Ended, Handling, Running
<1>0. Counters(c) /\ Replied(c) \in Nat /\ Room(c) \in Int
  BY CountersAt
<1> DEFINE k == LeastOf(held[c], Room(c))
<1>a. outp[c] = "write" /\ k \in Nat /\ k <= held[c] /\ k <= Room(c)
  <2>1. held[c] \in Int /\ held[c] >= 0 /\ Room(c) \in Int /\ Room(c) >= 0
    BY <1>0 DEF Counters, BoundInv, RoomInv
  <2>2. k \in Int /\ k <= held[c] /\ k <= Room(c) /\ (k = held[c] \/ k = Room(c))
    BY <2>1, LeastOfTwo
  <2> QED
    BY <2>1, <2>2 DEF Write
<1>1. /\ outp[c] = "write"
      /\ \/ /\ client[c] = "closed" /\ outp'[c] = "gone" /\ shut'[c]
            /\ down'[c] = down[c] /\ held'[c] = held[c] /\ end'[c] = end[c]
         \/ /\ client[c] = "open" /\ down'[c] = down[c] \o Units(k)
            /\ held'[c] = held[c] - k
            /\ \/ /\ ndelay[c] /\ outp'[c] = "gone" /\ shut'[c] /\ "raced" \in end'[c]
                  /\ "left" \in end'[c] <=> "left" \in end[c]
                  /\ "short" \in end'[c] <=> "short" \in end[c]
               \/ /\ k = held[c] /\ outp'[c] = "echo" /\ shut'[c] = shut[c] /\ end'[c] = end[c]
               \/ /\ k < held[c] /\ outp'[c] = "blocked"
                  /\ shut'[c] = shut[c] /\ end'[c] = end[c]
      /\ ask'[c] = ask[c] /\ client'[c] = client[c] /\ sent'[c] = sent[c]
      /\ up'[c] = up[c] /\ seen'[c] = seen[c] /\ pc'[c] = pc[c]
      /\ inp'[c] = inp[c] /\ rest'[c] = rest[c] /\ passed'[c] = passed[c]
      /\ stdin'[c] = stdin[c] /\ eaten'[c] = eaten[c] /\ made'[c] = made[c]
      /\ stdout'[c] = stdout[c] /\ ndelay'[c] = ndelay[c]
  <2>1. \/ client[c] = "closed" /\ Done(c) /\ UNCHANGED <<down, held, end>>
        \/ /\ client[c] = "open"
           /\ down' = [down EXCEPT ![c] = @ \o Units(k)]
           /\ held' = [held EXCEPT ![c] = @ - k]
           /\ \/ ndelay[c] /\ Done(c) /\ end' = [end EXCEPT ![c] = @ \cup {"raced"}]
              \/ k = held[c] /\ outp' = Set(outp, c, "echo") /\ UNCHANGED <<shut, end>>
              \/ k # held[c] /\ outp' = Set(outp, c, "blocked") /\ UNCHANGED <<shut, end>>
    BY DEF Write
  <2>2. held[c] \in Int /\ (k # held[c] => k < held[c])
    BY <1>0, <1>a DEF Counters
  <2>3. UNCHANGED <<serverVars, clientVars, up, seen, pc, inp, inputVars, made, ndelay,
                   stdout>>
    BY DEF Write, keepInOutput
  <2> HIDE DEF k
  <2>4. /\ outp \in [Conns -> OutStage] /\ shut \in [Conns -> BOOLEAN]
        /\ held \in [Conns -> Int] /\ down \in [Conns -> Seq(Unit)]
        /\ end \in [Conns -> SUBSET Tags]
    BY DEF Types
  <2>5. \/ /\ client[c] = "closed" /\ outp'[c] = "gone" /\ shut'[c]
           /\ down'[c] = down[c] /\ held'[c] = held[c] /\ end'[c] = end[c]
        \/ /\ client[c] = "open" /\ down'[c] = down[c] \o Units(k)
           /\ held'[c] = held[c] - k
           /\ \/ ndelay[c] /\ outp'[c] = "gone" /\ shut'[c] /\ end'[c] = end[c] \cup {"raced"}
              \/ /\ k = held[c] /\ outp'[c] = "echo"
                 /\ shut'[c] = shut[c] /\ end'[c] = end[c]
              \/ /\ k < held[c] /\ outp'[c] = "blocked"
                 /\ shut'[c] = shut[c] /\ end'[c] = end[c]
    <3>1. CASE client[c] = "closed"
      BY <3>1, <2>1, <2>4 DEF Done, Set
    <3>2. CASE client[c] = "open"
      <4>1. down'[c] = down[c] \o Units(k)
        BY <3>2, <2>1, <2>4
      <4>2. held'[c] = held[c] - k
        BY <3>2, <2>1, <2>4
      <4>3. \/ ndelay[c] /\ outp'[c] = "gone" /\ shut'[c] /\ end'[c] = end[c] \cup {"raced"}
            \/ /\ k = held[c] /\ outp'[c] = "echo"
               /\ shut'[c] = shut[c] /\ end'[c] = end[c]
            \/ /\ k < held[c] /\ outp'[c] = "blocked"
               /\ shut'[c] = shut[c] /\ end'[c] = end[c]
        <5>1. \/ ndelay[c] /\ Done(c) /\ end' = [end EXCEPT ![c] = @ \cup {"raced"}]
              \/ k = held[c] /\ outp' = Set(outp, c, "echo") /\ UNCHANGED <<shut, end>>
              \/ k < held[c] /\ outp' = Set(outp, c, "blocked") /\ UNCHANGED <<shut, end>>
          BY <3>2, <2>1, <2>2
        <5> QED
          BY <5>1, <2>4 DEF Done, Set
      <4> QED
        BY <3>2, <4>1, <4>2, <4>3
    <3> QED
      BY <3>1, <3>2, <2>1
  <2>6. /\ pc'[c] = pc[c] /\ stdout'[c] = stdout[c] /\ made'[c] = made[c]
        /\ ask'[c] = ask[c] /\ client'[c] = client[c] /\ sent'[c] = sent[c]
        /\ up'[c] = up[c] /\ seen'[c] = seen[c] /\ inp'[c] = inp[c] /\ rest'[c] = rest[c]
        /\ passed'[c] = passed[c] /\ stdin'[c] = stdin[c] /\ eaten'[c] = eaten[c]
        /\ ndelay'[c] = ndelay[c]
    BY <2>3 DEF clientVars, inputVars
  <2>7. \A x \in {"left", "short"} : x \in end[c] \cup {"raced"} <=> x \in end[c]
    OBVIOUS
  <2>8. "raced" \in end[c] \cup {"raced"}
    OBVIOUS
  <2> QED
    BY <1>a, <2>5, <2>6, <2>7, <2>8
<1>2. /\ Length(c)' = Length(c)
      /\ \/ /\ client[c] = "closed" /\ Answered(c)' = Answered(c)
            /\ Replied(c)' = Replied(c) /\ Room(c)' = Room(c)
         \/ /\ client[c] = "open" /\ Answered(c)' = Answered(c) \o Units(k)
            /\ Replied(c)' = Replied(c) + k /\ Room(c)' = Room(c) - k
  <2>1. CASE client[c] = "closed"
    BY <2>1, <1>1 DEF Answered, Replied, Room, Length
  <2>2. CASE client[c] = "open"
    <3>1. down'[c] = down[c] \o Units(k) /\ Units(k) \in Seq(Unit) /\ Len(Units(k)) = k
      BY <2>2, <1>1, <1>a, DataUnits
    <3>a. seen[c] \in Seq(Unit) /\ down[c] \in Seq(Unit) /\ seen'[c] = seen[c]
      BY <1>1 DEF Types
    <3> HIDE DEF k
    <3>2. Answered(c)' = Answered(c) \o Units(k)
      <4>1. seen[c] \o (down[c] \o Units(k)) = (seen[c] \o down[c]) \o Units(k)
        BY <3>1, <3>a, JoinUnits
      <4> QED
        BY <3>1, <3>a, <4>1 DEF Answered
    <3>b. Answered(c) \in Seq(Unit)
      BY CountersAt
    <3>3. Replied(c)' = Replied(c) + k /\ Len(down'[c]) = Len(down[c]) + k
      <4>1. /\ Len(Answered(c) \o Units(k)) = Len(Answered(c)) + k
            /\ Len(down[c] \o Units(k)) = Len(down[c]) + k
        BY <3>1, <3>a, <3>b, JoinLengths
      <4> QED
        BY <3>1, <3>2, <4>1 DEF Replied
    <3>4. Room(c)' = Room(c) - k
      BY <3>3, <1>a, CountersAt, ServerAssumption DEF Room
    <3> QED
      BY <2>2, <3>2, <3>3, <3>4, <1>1 DEF Length
  <2> QED
    BY <2>1, <2>2, <1>1
<1>3. Types'
  <2>0. /\ outp \in [Conns -> OutStage] /\ held \in [Conns -> Int] /\ down \in [Conns -> Seq(Unit)]
        /\ shut \in [Conns -> BOOLEAN] /\ end \in [Conns -> SUBSET Tags]
    BY DEF Types
  <2>1. outp' \in [Conns -> OutStage] /\ shut' \in [Conns -> BOOLEAN]
    BY <2>0 DEF Write, Done, Set, OutStage
  <2>2. end' \in [Conns -> SUBSET Tags]
    <3>1. \/ end' = end
          \/ end' = [end EXCEPT ![c] = @ \cup {"raced"}]
      BY DEF Write
    <3>2. end[c] \cup {"raced"} \in SUBSET Tags
      BY <2>0 DEF Tags
    <3> QED
      BY <2>0, <3>1, <3>2
  <2>3. held' \in [Conns -> Int]
    BY <2>0, <1>a DEF Write
  <2>4. down[c] \o Units(k) \in Seq(Unit)
    BY <2>0, <1>a, DataUnits, ConcatProperties
  <2>5. down' \in [Conns -> Seq(Unit)]
    BY <2>0, <2>4 DEF Write
  <2> QED
    BY <2>1, <2>2, <2>3, <2>5 DEF Write, keepInOutput, serverVars, clientVars,
           inputVars, Types
<1>4. BoundInv(c)'
  <2>1. /\ 0 <= held'[c] /\ held'[c] <= EchoSize
        /\ outp'[c] \in {"write", "blocked"} => held'[c] > 0
        /\ outp'[c] \in {"none", "headers", "status", "echo"} => held'[c] = 0
    <3>1. 0 <= held[c] /\ held[c] <= EchoSize /\ held[c] > 0 /\ held[c] \in Int
      BY <1>0, <1>1 DEF BoundInv, Counters
    <3>2. CASE client[c] = "closed"
      <4>1. held'[c] = held[c] /\ outp'[c] = "gone"
        BY <3>2, <1>1
      <4> QED
        BY <3>1, <4>1
    <3>3. CASE client[c] = "open"
      <4>1. /\ held'[c] = held[c] - k /\ k \in Nat /\ k <= held[c]
            /\ \/ outp'[c] = "gone"
               \/ k = held[c] /\ outp'[c] = "echo"
               \/ k < held[c] /\ outp'[c] = "blocked"
        BY <3>3, <1>1, <1>a
      <4> HIDE DEF k
      <4> QED
        BY <3>1, <4>1, <1>0 DEF Counters
    <3> QED
      BY <3>2, <3>3, <1>1
  <2> QED
    BY <1>1, <2>1 DEF BoundInv
<1>5. RoomInv(c)'
  BY <1>0, <1>2, <1>a DEF RoomInv
<1>6. StageInv(c)'
  BY <1>1 DEF StageInv
<1>7. AnswerInv(c)'
  <2>1. CASE client[c] = "closed"
    <3>1. Answered(c)' = Answered(c) /\ Replied(c)' = Replied(c) /\ outp'[c] = "gone"
      BY <2>1, <1>1, <1>2
    <3> QED
      BY <3>1, <1>1 DEF AnswerInv, Blank, ByServer, ByProgram
  <2>2. CASE client[c] = "open"
    <3>1. HeadAndData(Answered(c)) /\ pc[c] \in Running \cup Ended
      BY <2>2, <1>1 DEF AnswerInv, Blank, ByServer, ByProgram
    <3>2. HeadAndData(Answered(c) \o Units(k))
      BY <3>1, <1>a, CountersAt, MoreUnits
    <3> QED
      BY <2>2, <3>1, <3>2, <1>1, <1>2 DEF AnswerInv, ByProgram
  <2> QED
    BY <2>1, <2>2, <1>1
<1>8. FlowInv(c)'
  <2>1. CASE client[c] = "closed"
    <3>1. outp'[c] = "gone" /\ "left" \in end'[c]
      BY <2>1, <1>1 DEF ClosedInv
    <3> QED
      BY <3>1 DEF FlowInv
  <2>2. CASE client[c] = "open"
    <3>1. made[c] = stdout[c] + held[c] + Replied(c)
      BY <2>2, <1>1 DEF FlowInv
    <3>2. made'[c] = stdout'[c] + held'[c] + Replied(c)'
      <4>1. /\ held'[c] = held[c] - k /\ Replied(c)' = Replied(c) + k
            /\ made'[c] = made[c] /\ stdout'[c] = stdout[c]
        BY <2>2, <1>1, <1>2
      <4> HIDE DEF k
      <4> QED
        <5>1. k \in Int
          BY <1>a
        <5>2. made[c] = stdout[c] + (held[c] - k) + (Replied(c) + k)
          BY <3>1, <5>1, <1>0, UnitsMove DEF Counters
        <5> QED
          BY <4>1, <5>2
    <3>3. \/ outp'[c] \in {"echo", "blocked"} /\ client'[c] = "open"
          \/ outp'[c] = "gone" /\ "raced" \in end'[c]
      BY <2>2, <1>1
    <3> QED
      BY <3>2, <3>3 DEF FlowInv
  <2> QED
    BY <2>1, <2>2, <1>1
<1>9. ClosedInv(c)'
  BY <1>1, <1>2 DEF ClosedInv, InputInv
<1>10. BodyInv(c)'
  BY <1>1, <1>2 DEF BodyInv
<1>11. InputInv(c)'
  BY <1>1, <1>2 DEF InputInv
<1>12. ShortInv(c)'
  BY <1>1 DEF ShortInv
<1> QED
  BY <1>3, <1>4, <1>5, <1>6, <1>7, <1>8, <1>9, <1>10, <1>11, <1>12

LEMMA AcceptKeeps ==
  ASSUME Types, NEW c \in Conns, ConnInv(c), Accept(c)
  PROVE  Types' /\ ConnInv(c)'
<1> USE DEF ConnInv, Waiting, Ended, Handling, Running
<1>0. Counters(c) /\ Replied(c) \in Nat /\ Room(c) \in Int
  BY CountersAt
<1>1. /\ pc[c] = "queued" /\ pc'[c] = "read"
      /\ ask'[c] = ask[c] /\ client'[c] = client[c] /\ sent'[c] = sent[c]
      /\ up'[c] = up[c] /\ down'[c] = down[c] /\ seen'[c] = seen[c]
      /\ shut'[c] = shut[c] /\ inp'[c] = inp[c] /\ outp'[c] = outp[c]
      /\ rest'[c] = rest[c] /\ passed'[c] = passed[c] /\ stdin'[c] = stdin[c]
      /\ eaten'[c] = eaten[c] /\ made'[c] = made[c] /\ stdout'[c] = stdout[c]
      /\ held'[c] = held[c] /\ ndelay'[c] = ndelay[c] /\ end'[c] = end[c]
  BY DEF Accept, serverVars, clientVars, inputVars, outputVars, Set, Types
<1>2. /\ Answered(c)' = Answered(c) /\ Replied(c)' = Replied(c)
      /\ Length(c)' = Length(c) /\ Room(c)' = Room(c)
  BY <1>1 DEF Answered, Replied, Length, Room
<1>3. Types'
  BY DEF Accept, serverVars, clientVars, inputVars, outputVars, Set, Types, Stage,
         InStage, OutStage
<1>4. BoundInv(c)'
  BY <1>0, <1>1, <1>2 DEF Counters, BoundInv
<1>5. RoomInv(c)'
  BY <1>0, <1>1, <1>2 DEF Counters, RoomInv
<1>6. StageInv(c)'
  BY <1>0, <1>1, <1>2 DEF Counters, StageInv
<1>7. AnswerInv(c)'
  BY <1>0, <1>1, <1>2 DEF Counters, AnswerInv, Blank, ByServer, ByProgram, StageInv
<1>8. FlowInv(c)'
  BY <1>0, <1>1, <1>2 DEF Counters, FlowInv, StageInv
<1>9. ClosedInv(c)'
  BY <1>0, <1>1, <1>2 DEF Counters, ClosedInv, StageInv
<1>10. BodyInv(c)'
  BY <1>0, <1>1, <1>2 DEF Counters, BodyInv, StageInv
<1>11. InputInv(c)'
  BY <1>0, <1>1, <1>2 DEF Counters, InputInv, BodyInv, StageInv
<1>12. ShortInv(c)'
  BY <1>0, <1>1, <1>2 DEF Counters, ShortInv, StageInv
<1> QED
  BY <1>3, <1>4, <1>5, <1>6, <1>7, <1>8, <1>9, <1>10, <1>11, <1>12

-----------------------------------------------------------------------------
(* A step of one connection, and the others.                               *)

\* A step of a connection that the main process has no part in.
ConnStep(c) ==
  \/ Connect(c) \/ Send(c) \/ Receive(c) \/ Close(c)
  \/ Handler(c) \/ Timeout(c) \/ Input(c) \/ Output(c)

LEMMA ConnStepIs ==
  ASSUME NEW c \in Conns, ConnStep(c)
  PROVE  \/ Connect(c) \/ Send(c) \/ Receive(c) \/ Close(c)
         \/ ReadRequest(c) \/ Refuse(c) \/ Serve(c) \/ SendPage(c) \/ SendFile(c)
         \/ ForkInput(c) \/ ForkOutput(c) \/ Exec(c)
         \/ ProgramGoesOn(c) \/ ProgramReads(c) \/ ProgramWrites(c) \/ ProgramExits(c)
         \/ ReadTimeout(c) \/ WriteTimeout(c)
         \/ Push(c) \/ Pull(c) \/ SetNdelay(c) \/ ClearNdelay(c)
         \/ SlurpHeaders(c) \/ WriteHeaders(c) \/ Echo(c) \/ Write(c) \/ WriteOn(c)
BY DEF ConnStep, Handler, Timeout, Input, Output

LEMMA ConnStepKeeps ==
  ASSUME Types, NEW c \in Conns, ConnInv(c), ConnStep(c)
  PROVE  Types' /\ ConnInv(c)'
BY ConnStepIs,
   ConnectKeeps, SendKeeps, ReceiveKeeps, CloseKeeps, ReadRequestKeeps,
   RefuseKeeps, ServeKeeps, SendPageKeeps, SendFileKeeps, ForkInputKeeps,
   ForkOutputKeeps, ExecKeeps, ProgramGoesOnKeeps, ProgramReadsKeeps,
   ProgramWritesKeeps, ProgramExitsKeeps, ReadTimeoutKeeps,
   WriteTimeoutKeeps, PushKeeps, PullKeeps, SetNdelayKeeps, ClearNdelayKeeps,
   SlurpHeadersKeeps, WriteHeadersKeeps, EchoKeeps, WriteKeeps, WriteOnKeeps

LEMMA MainAlone ==
  ASSUME NEW c \in Conns, ConnStep(c)
  PROVE  UNCHANGED <<main, got_hup, due, lag>>
<1>1. Connect(c) => UNCHANGED <<main, got_hup, due, lag>>
  BY DEF Connect, serverVars
<1>2. Send(c) => UNCHANGED <<main, got_hup, due, lag>>
  BY DEF Send, serverVars
<1>3. Receive(c) => UNCHANGED <<main, got_hup, due, lag>>
  BY DEF Receive, serverVars
<1>4. Close(c) => UNCHANGED <<main, got_hup, due, lag>>
  BY DEF Close, serverVars
<1>5. ReadRequest(c) => UNCHANGED <<main, got_hup, due, lag>>
  BY DEF ReadRequest, keepInHandler, serverVars
<1>6. Refuse(c) => UNCHANGED <<main, got_hup, due, lag>>
  BY DEF Refuse, keepInHandler, serverVars
<1>7. Serve(c) => UNCHANGED <<main, got_hup, due, lag>>
  BY DEF Serve, keepInHandler, serverVars
<1>8. SendPage(c) => UNCHANGED <<main, got_hup, due, lag>>
  BY DEF SendPage, keepInHandler, serverVars
<1>9. SendFile(c) => UNCHANGED <<main, got_hup, due, lag>>
  BY DEF SendFile, keepInHandler, serverVars
<1>10. ForkInput(c) => UNCHANGED <<main, got_hup, due, lag>>
  BY DEF ForkInput, serverVars
<1>11. ForkOutput(c) => UNCHANGED <<main, got_hup, due, lag>>
  BY DEF ForkOutput, serverVars
<1>12. Exec(c) => UNCHANGED <<main, got_hup, due, lag>>
  BY DEF Exec, serverVars
<1>13. ProgramGoesOn(c) => UNCHANGED <<main, got_hup, due, lag>>
  BY DEF ProgramGoesOn, keepInProgram, serverVars
<1>14. ProgramReads(c) => UNCHANGED <<main, got_hup, due, lag>>
  BY DEF ProgramReads, keepInProgram, serverVars
<1>15. ProgramWrites(c) => UNCHANGED <<main, got_hup, due, lag>>
  BY DEF ProgramWrites, keepInProgram, serverVars
<1>16. ProgramExits(c) => UNCHANGED <<main, got_hup, due, lag>>
  BY DEF ProgramExits, keepInProgram, serverVars
<1>17. ReadTimeout(c) => UNCHANGED <<main, got_hup, due, lag>>
  BY DEF ReadTimeout, keepInHandler, serverVars
<1>18. WriteTimeout(c) => UNCHANGED <<main, got_hup, due, lag>>
  BY DEF WriteTimeout, keepInHandler, serverVars
<1>19. Push(c) => UNCHANGED <<main, got_hup, due, lag>>
  BY DEF Push, keepInInput, serverVars
<1>20. Pull(c) => UNCHANGED <<main, got_hup, due, lag>>
  BY DEF Pull, keepInInput, serverVars
<1>21. SetNdelay(c) => UNCHANGED <<main, got_hup, due, lag>>
  BY DEF SetNdelay, keepInInput, serverVars
<1>22. ClearNdelay(c) => UNCHANGED <<main, got_hup, due, lag>>
  BY DEF ClearNdelay, keepInInput, serverVars
<1>23. SlurpHeaders(c) => UNCHANGED <<main, got_hup, due, lag>>
  BY DEF SlurpHeaders, keepInOutput, serverVars
<1>24. WriteHeaders(c) => UNCHANGED <<main, got_hup, due, lag>>
  BY DEF WriteHeaders, keepInOutput, serverVars
<1>25. Echo(c) => UNCHANGED <<main, got_hup, due, lag>>
  BY DEF Echo, keepInOutput, serverVars
<1>26. Write(c) => UNCHANGED <<main, got_hup, due, lag>>
  BY DEF Write, keepInOutput, serverVars
<1>27. WriteOn(c) => UNCHANGED <<main, got_hup, due, lag>>
  BY DEF WriteOn, keepInOutput, serverVars
<1> QED
  BY ConnStepIs,
     <1>1, <1>2, <1>3, <1>4, <1>5, <1>6, <1>7, <1>8, <1>9, <1>10, <1>11,
     <1>12, <1>13, <1>14, <1>15, <1>16, <1>17, <1>18, <1>19, <1>20, <1>21,
     <1>22, <1>23, <1>24, <1>25, <1>26, <1>27

LEMMA OthersAlone ==
  ASSUME Types, NEW c \in Conns, NEW d \in Conns, c # d, ConnStep(c)
  PROVE  SameButPc(d) /\ pc'[d] = pc[d]
<1> USE DEF Types, Set, SameButPc, serverVars, clientVars, inputVars, outputVars
<1>1. Connect(c) => SameButPc(d) /\ pc'[d] = pc[d]
  BY DEF Connect
<1>2. Send(c) => SameButPc(d) /\ pc'[d] = pc[d]
  BY DEF Send
<1>3. Receive(c) => SameButPc(d) /\ pc'[d] = pc[d]
  BY DEF Receive
<1>4. Close(c) => SameButPc(d) /\ pc'[d] = pc[d]
  BY DEF Close
<1>5. ReadRequest(c) => SameButPc(d) /\ pc'[d] = pc[d]
  BY DEF ReadRequest, keepInHandler, Exit
<1>6. Refuse(c) => SameButPc(d) /\ pc'[d] = pc[d]
  BY DEF Refuse, keepInHandler, Exit
<1>7. Serve(c) => SameButPc(d) /\ pc'[d] = pc[d]
  BY DEF Serve, keepInHandler, Exit
<1>8. SendPage(c) => SameButPc(d) /\ pc'[d] = pc[d]
  BY DEF SendPage, Reply, keepInHandler, Exit
<1>9. SendFile(c) => SameButPc(d) /\ pc'[d] = pc[d]
  BY DEF SendFile, Reply, keepInHandler, Exit
<1>10. ForkInput(c) => SameButPc(d) /\ pc'[d] = pc[d]
  BY DEF ForkInput
<1>11. ForkOutput(c) => SameButPc(d) /\ pc'[d] = pc[d]
  BY DEF ForkOutput
<1>12. Exec(c) => SameButPc(d) /\ pc'[d] = pc[d]
  BY DEF Exec
<1>13. ProgramGoesOn(c) => SameButPc(d) /\ pc'[d] = pc[d]
  BY DEF ProgramGoesOn, keepInProgram, Exit
<1>14. ProgramReads(c) => SameButPc(d) /\ pc'[d] = pc[d]
  <2> SUFFICES ASSUME ProgramReads(c)
               PROVE  SameButPc(d) /\ pc'[d] = pc[d]
    OBVIOUS
  <2>1. pc'[d] = pc[d]
    <3>1. pc' = Set(pc, c, "cgi")
      BY DEF ProgramReads
    <3> QED
      BY <3>1
  <2>2. up'[d] = up[d]
    <3>1. up' = up \/ up' = [up EXCEPT ![c] = @ - 1]
      BY DEF ProgramReads
    <3> QED
      BY <3>1
  <2>3. stdin'[d] = stdin[d]
    <3>1. stdin' = stdin \/ stdin' = [stdin EXCEPT ![c] = @ - 1]
      BY DEF ProgramReads
    <3> QED
      BY <3>1
  <2>4. eaten'[d] = eaten[d]
    <3>1. eaten' = eaten \/ eaten' = [eaten EXCEPT ![c] = @ + 1]
      BY DEF ProgramReads
    <3> QED
      BY <3>1
  <2>5. end'[d] = end[d]
    <3>1. end' = end \/ end' = [end EXCEPT ![c] = @ \cup {"short"}]
      BY DEF ProgramReads
    <3> QED
      BY <3>1
  <2> QED
    BY <2>1, <2>2, <2>3, <2>4, <2>5 DEF ProgramReads, keepInProgram
<1>15. ProgramWrites(c) => SameButPc(d) /\ pc'[d] = pc[d]
  <2> SUFFICES ASSUME ProgramWrites(c)
               PROVE  SameButPc(d) /\ pc'[d] = pc[d]
    OBVIOUS
  <2>1. pc'[d] = pc[d]
    <3>1. \E next : pc' = Set(pc, c, next)
      BY DEF ProgramWrites, Exit
    <3> QED
      BY <3>1
  <2>2. stdout'[d] = stdout[d]
    <3>1. stdout' = stdout \/ stdout' = [stdout EXCEPT ![c] = @ + 1]
      BY DEF ProgramWrites
    <3> QED
      BY <3>1
  <2>3. made'[d] = made[d]
    <3>1. made' = made \/ made' = [made EXCEPT ![c] = @ + 1]
      BY DEF ProgramWrites
    <3> QED
      BY <3>1
  <2> QED
    BY <2>1, <2>2, <2>3 DEF ProgramWrites, keepInProgram
<1>16. ProgramExits(c) => SameButPc(d) /\ pc'[d] = pc[d]
  BY DEF ProgramExits, keepInProgram, Exit
<1>17. ReadTimeout(c) => SameButPc(d) /\ pc'[d] = pc[d]
  BY DEF ReadTimeout, Reply, keepInHandler, Exit
<1>18. WriteTimeout(c) => SameButPc(d) /\ pc'[d] = pc[d]
  BY DEF WriteTimeout, keepInHandler, Exit
<1>19. Push(c) => SameButPc(d) /\ pc'[d] = pc[d]
  <2> SUFFICES ASSUME Push(c)
               PROVE  SameButPc(d) /\ pc'[d] = pc[d]
    OBVIOUS
  <2>1. inp'[d] = inp[d]
    <3>1. \E next : inp' = Set(inp, c, next)
      BY DEF Push
    <3> QED
      BY <3>1
  <2>2. rest'[d] = rest[d]
    <3>1. rest' = rest \/ rest' = [rest EXCEPT ![c] = @ - 1]
      BY DEF Push
    <3> QED
      BY <3>1
  <2>3. passed'[d] = passed[d]
    <3>1. passed' = passed \/ passed' = [passed EXCEPT ![c] = @ + 1]
      BY DEF Push
    <3> QED
      BY <3>1
  <2>4. stdin'[d] = stdin[d]
    <3>1. stdin' = stdin \/ stdin' = [stdin EXCEPT ![c] = @ + 1]
      BY DEF Push
    <3> QED
      BY <3>1
  <2> QED
    BY <2>1, <2>2, <2>3, <2>4 DEF Push, keepInInput
<1>20. Pull(c) => SameButPc(d) /\ pc'[d] = pc[d]
  BY DEF Pull, keepInInput
<1>21. SetNdelay(c) => SameButPc(d) /\ pc'[d] = pc[d]
  BY DEF SetNdelay, keepInInput
<1>22. ClearNdelay(c) => SameButPc(d) /\ pc'[d] = pc[d]
  BY DEF ClearNdelay, keepInInput
<1>23. SlurpHeaders(c) => SameButPc(d) /\ pc'[d] = pc[d]
  BY DEF SlurpHeaders, keepInOutput, Done
<1>24. WriteHeaders(c) => SameButPc(d) /\ pc'[d] = pc[d]
  BY DEF WriteHeaders, Reply, keepInOutput, Done
<1>25. Echo(c) => SameButPc(d) /\ pc'[d] = pc[d]
  <2> SUFFICES ASSUME Echo(c)
               PROVE  SameButPc(d) /\ pc'[d] = pc[d]
    OBVIOUS
  <2>1. held'[d] = held[d]
    <3>1. held' = held \/ \E k : held' = Set(held, c, k)
      BY DEF Echo
    <3> QED
      BY <3>1
  <2>2. stdout'[d] = stdout[d]
    <3>1. stdout' = stdout \/ \E k : stdout' = [stdout EXCEPT ![c] = @ - k]
      BY DEF Echo
    <3> QED
      BY <3>1
  <2>3. outp'[d] = outp[d]
    <3>1. outp' = Set(outp, c, "write") \/ outp' = Set(outp, c, "gone")
      BY DEF Echo, Done
    <3> QED
      BY <3>1
  <2>4. shut'[d] = shut[d]
    <3>1. shut' = shut \/ shut' = Set(shut, c, TRUE)
      BY DEF Echo, Done
    <3> QED
      BY <3>1
  <2> QED
    BY <2>1, <2>2, <2>3, <2>4 DEF Echo, keepInOutput
<1>26. Write(c) => SameButPc(d) /\ pc'[d] = pc[d]
  <2> SUFFICES ASSUME Write(c)
               PROVE  SameButPc(d) /\ pc'[d] = pc[d]
    OBVIOUS
  <2>1. down'[d] = down[d]
    BY DEF Write
  <2>2. held'[d] = held[d]
    BY DEF Write
  <2>3. end'[d] = end[d]
    <3>1. end' = end \/ end' = [end EXCEPT ![c] = @ \cup {"raced"}]
      BY DEF Write
    <3> QED
      BY <3>1
  <2>4. outp'[d] = outp[d]
    <3>1. \E next \in OutStage : outp' = Set(outp, c, next)
      BY DEF Write, Done, OutStage
    <3> QED
      BY <3>1
  <2>5. shut'[d] = shut[d]
    <3>1. shut' = shut \/ shut' = Set(shut, c, TRUE)
      BY DEF Write, Done
    <3> QED
      BY <3>1
  <2> QED
    BY <2>1, <2>2, <2>3, <2>4, <2>5 DEF Write, keepInOutput
<1>27. WriteOn(c) => SameButPc(d) /\ pc'[d] = pc[d]
  BY DEF WriteOn, keepInOutput, Done
<1> QED
  BY ConnStepIs,
     <1>1, <1>2, <1>3, <1>4, <1>5, <1>6, <1>7, <1>8, <1>9, <1>10, <1>11,
     <1>12, <1>13, <1>14, <1>15, <1>16, <1>17, <1>18, <1>19, <1>20, <1>21,
     <1>22, <1>23, <1>24, <1>25, <1>26, <1>27

LEMMA ConnStepServer ==
  ASSUME ServerInv, NEW c \in Conns, ConnStep(c)
  PROVE  ServerInv'
<1>1. Types' /\ ConnInv(c)'
  BY ConnStepKeeps DEF ServerInv
<1>2. ASSUME NEW d \in Conns, d # c
      PROVE  ConnInv(d)'
  BY <1>2, OthersAlone, SameKeeps DEF ServerInv
<1>3. FreshInv'
  BY MainAlone DEF ServerInv, FreshInv
<1> QED
  BY <1>1, <1>2, <1>3 DEF ServerInv

LEMMA AcceptServer ==
  ASSUME ServerInv, NEW c \in Conns, Accept(c)
  PROVE  ServerInv'
<1>1. Types' /\ ConnInv(c)'
  BY AcceptKeeps DEF ServerInv
<1>2. ASSUME NEW d \in Conns, d # c
      PROVE  ConnInv(d)'
  <2>1. SameButPc(d) /\ pc'[d] = pc[d]
    BY <1>2 DEF Accept, Set, SameButPc, ServerInv, Types, clientVars, inputVars,
           outputVars
  <2> QED
    BY <2>1, SameKeeps DEF ServerInv
<1>3. FreshInv'
  BY DEF Accept, ServerInv, FreshInv, Types
<1> QED
  BY <1>1, <1>2, <1>3 DEF ServerInv

-----------------------------------------------------------------------------
(* The main process.                                                       *)

\* A step of the main process leaves every connection alone, or reaps some
\* handlers and drops what is queued.
LEMMA MainServer ==
  ASSUME ServerInv, Hup \/ Down \/ HandleChld \/ Top \/ Clear \/ Wait \/ Select
  PROVE  ServerInv'
<1>1. ASSUME NEW d \in Conns
      PROVE  /\ SameButPc(d)
             /\ \/ pc'[d] = pc[d]
                \/ pc[d] \in {"queued", "dead"} /\ pc'[d] = "gone"
  <2> USE DEF ServerInv, Types, SameButPc, clientVars, inputVars, outputVars, childVars
  <2>1. CASE Hup
    BY <2>1 DEF Hup
  <2>2. CASE Down
    BY <2>2 DEF Down
  <2>3. CASE HandleChld
    BY <2>3 DEF HandleChld
  <2>4. CASE Top
    BY <2>4 DEF Top
  <2>5. CASE Wait
    BY <2>5 DEF Wait
  <2>6. CASE Select
    BY <2>6 DEF Select
  <2>7. CASE Clear
    BY <2>7 DEF Clear
  <2> QED
    BY <2>1, <2>2, <2>3, <2>4, <2>5, <2>6, <2>7
<1>2. ASSUME NEW d \in Conns
      PROVE  ConnInv(d)'
  BY <1>1, SameKeeps DEF ServerInv
<1>3. FreshInv'
  <2> USE DEF ServerInv, FreshInv
  <2>1. CASE Hup
    BY <2>1 DEF Hup
  <2>2. CASE Down
    BY <2>2 DEF Down
  <2>3. CASE HandleChld
    BY <2>3 DEF HandleChld
  <2>4. CASE Top
    BY <2>4 DEF Top, Types
  <2>5. CASE Clear
    BY <2>5 DEF Clear
  <2>6. CASE Wait
    BY <2>6 DEF Wait
  <2>7. CASE Select
    BY <2>7 DEF Select
  <2> QED
    BY <2>1, <2>2, <2>3, <2>4, <2>5, <2>6, <2>7
<1>4. pc' \in [Conns -> Stage]
  BY DEF Hup, Down, HandleChld, Top, Clear, Wait, Select, childVars, ServerInv, Types, Stage
<1>5. /\ main' \in {"top", "clear", "wait", "select", "accept", "down"} /\ got_hup' \in BOOLEAN
      /\ due' \in {"no", "yes", "lost"} /\ lag' \in Nat /\ chld' \in BOOLEAN
  <2> USE DEF Hup, Down, HandleChld, Top, Clear, Wait, Select, ServerInv, Types
  <2>1. main' \in {"top", "clear", "wait", "select", "accept", "down"}
    OBVIOUS
  <2>2. got_hup' \in BOOLEAN
    OBVIOUS
  <2>3. lag' \in Nat
    OBVIOUS
  <2>4. chld' \in BOOLEAN
    OBVIOUS
  <2>5. due' \in {"no", "yes", "lost"}
    OBVIOUS
  <2> QED
    BY <2>1, <2>2, <2>3, <2>4, <2>5
<1>6. ask' \in Scenes /\ hups' \in 0 .. MaxHups[ask']
  <2> USE DEF ServerInv, Types, childVars, clientVars
  <2>1. ask' = ask /\ ask \in Scenes /\ MaxHups[ask] \in Nat
    BY ServerAssumption DEF Hup, Down, HandleChld, Top, Clear, Wait, Select
  <2>2. hups' \in 0 .. MaxHups[ask]
    BY <2>1 DEF Hup, Down, HandleChld, Top, Clear, Wait, Select
  <2> QED
    BY <2>1, <2>2
<1>7. UNCHANGED <<clientVars, up, down, seen, shut, inp, outp, inputVars, outputVars,
                 ndelay, end>>
  BY DEF Hup, Down, HandleChld, Top, Clear, Wait, Select, childVars
<1>8. Types'
  BY <1>4, <1>5, <1>6, <1>7 DEF ServerInv, Types, clientVars, inputVars, outputVars
<1> QED
  BY <1>2, <1>3, <1>8 DEF ServerInv

LEMMA StutterServer ==
  ASSUME ServerInv, UNCHANGED vars
  PROVE  ServerInv'
<1> USE DEF vars, serverVars, clientVars, inputVars, outputVars, ServerInv
<1>1. Types' /\ FreshInv'
  BY DEF Types, FreshInv
<1>2. ASSUME NEW d \in Conns
      PROVE  ConnInv(d)'
  BY SameKeeps DEF SameButPc
<1> QED
  BY <1>1, <1>2

LEMMA ServerInit == Init => ServerInv
<1> SUFFICES ASSUME Init
             PROVE  ServerInv
  OBVIOUS
<1>1. Types
  <2>1. /\ main \in {"top", "clear", "wait", "select", "accept", "down"}
        /\ got_hup \in BOOLEAN /\ due \in {"no", "yes", "lost"} /\ lag \in Nat
        /\ hups \in 0 .. MaxHups[ask] /\ chld \in BOOLEAN
        /\ ask \in Scenes
    <3>1. ask \in Scenes /\ MaxHups[ask] \in Nat
      BY ServerAssumption DEF Init
    <3>2. 0 \in 0 .. MaxHups[ask]
      BY <3>1
    <3> QED
      BY <3>1, <3>2 DEF Init
  <2>2. /\ client \in [Conns -> {"away", "open", "closed"}] /\ pc \in [Conns -> Stage]
        /\ inp \in [Conns -> InStage] /\ outp \in [Conns -> OutStage]
    BY DEF Init, Stage, InStage, OutStage
  <2>3. /\ shut \in [Conns -> BOOLEAN] /\ ndelay \in [Conns -> BOOLEAN]
        /\ end \in [Conns -> SUBSET Tags]
    BY DEF Init
  <2>4. down \in [Conns -> Seq(Unit)] /\ seen \in [Conns -> Seq(Unit)]
    BY DEF Init
  <2>5. /\ sent \in [Conns -> Int] /\ up \in [Conns -> Int] /\ rest \in [Conns -> Int]
        /\ passed \in [Conns -> Int] /\ stdin \in [Conns -> Int]
        /\ eaten \in [Conns -> Int] /\ made \in [Conns -> Int]
        /\ stdout \in [Conns -> Int] /\ held \in [Conns -> Int]
    BY DEF Init
  <2> QED
    BY <2>1, <2>2, <2>3, <2>4, <2>5 DEF Types
<1>2. FreshInv
  BY DEF Init, FreshInv
<1>3. ASSUME NEW c \in Conns
      PROVE  ConnInv(c)
  <2> USE DEF Waiting, Ended, Handling, Running
  <2>1. /\ client[c] = "away" /\ pc[c] = "none" /\ inp[c] = "none" /\ outp[c] = "none"
        /\ sent[c] = 0 /\ up[c] = 0 /\ rest[c] = 0 /\ passed[c] = 0 /\ stdin[c] = 0
        /\ eaten[c] = 0 /\ made[c] = 0 /\ stdout[c] = 0 /\ held[c] = 0
        /\ ~ndelay[c] /\ ~shut[c] /\ end[c] = {} /\ down[c] = <<>> /\ seen[c] = <<>>
    BY DEF Init
  <2>2. Answered(c) = <<>> /\ Replied(c) = 0 /\ Len(down[c]) = 0
    BY <2>1 DEF Answered, Replied
  <2>3. BoundInv(c) /\ RoomInv(c)
    BY <1>1, <2>1, <2>2, CountersAt, ServerAssumption
       DEF BoundInv, RoomInv, Room, Counters
  <2>4. StageInv(c) /\ AnswerInv(c) /\ FlowInv(c)
    BY <2>1, <2>2 DEF StageInv, AnswerInv, Blank, FlowInv
  <2>5. ClosedInv(c) /\ BodyInv(c) /\ InputInv(c) /\ ShortInv(c)
    BY <2>1 DEF ClosedInv, BodyInv, InputInv, ShortInv
  <2> QED
    BY <2>3, <2>4, <2>5 DEF ConnInv
<1> QED
  BY <1>1, <1>2, <1>3 DEF ServerInv

LEMMA ServerStep == ServerInv /\ [Next]_vars => ServerInv'
<1> SUFFICES ASSUME ServerInv, [Next]_vars
             PROVE  ServerInv'
  OBVIOUS
<1>1. CASE \E c \in Conns : ConnStep(c)
  BY <1>1, ConnStepServer
<1>2. CASE \E c \in Conns : Accept(c)
  BY <1>2, AcceptServer
<1>3. CASE Hup \/ Down \/ HandleChld \/ Top \/ Clear \/ Wait \/ Select
  BY <1>3, MainServer
<1>4. CASE UNCHANGED vars
  BY <1>4, StutterServer
<1> QED
  BY <1>1, <1>2, <1>3, <1>4 DEF Next, Main, Stopped, ConnStep

LEMMA ServerAlways == Spec => []ServerInv
BY ServerInit, ServerStep, PTL DEF Spec

-----------------------------------------------------------------------------
(* What the invariant says.                                                *)

LEMMA TypesOfAll == ServerInv => TypeOK
<1> SUFFICES ASSUME ServerInv
             PROVE  TypeOK
  OBVIOUS
<1>1. ASSUME NEW c \in Conns
      PROVE  /\ sent[c] \in 0 .. ask[c].body + 1 /\ up[c] \in 0 .. SockRoom
             /\ Len(down[c]) <= SockRoom
             /\ stdin[c] \in 0 .. PipeRoom /\ stdout[c] \in 0 .. PipeRoom
             /\ made[c] \in 0 .. MaxOut /\ held[c] \in 0 .. EchoSize
  <2>1. Counters(c) /\ Len(down[c]) \in Nat /\ BoundInv(c) /\ 0 <= Room(c)
    BY CountersAt DEF ServerInv, ConnInv, RoomInv
  <2>2. Len(down[c]) <= SockRoom
    BY <2>1 DEF Room, Counters
  <2>3. sent[c] \in 0 .. ask[c].body + 1 /\ up[c] \in 0 .. SockRoom
    BY <2>1, SMTT(20) DEF BoundInv, Counters
  <2>4. stdin[c] \in 0 .. PipeRoom /\ stdout[c] \in 0 .. PipeRoom
    BY <2>1, SMTT(20) DEF BoundInv, Counters
  <2>5. made[c] \in 0 .. MaxOut /\ held[c] \in 0 .. EchoSize
    BY <2>1 DEF BoundInv, Counters
  <2> QED
    BY <2>2, <2>3, <2>4, <2>5
<1>2. ASSUME NEW c \in Conns
      PROVE  {rest[c], passed[c], eaten[c]} \subseteq 0 .. ask[c].body
  <2>1. Counters(c) /\ BoundInv(c) /\ BodyInv(c)
    BY CountersAt DEF ServerInv, ConnInv
  <2>2. /\ 0 <= rest[c] /\ 0 <= passed[c] /\ 0 <= eaten[c] /\ 0 <= up[c] /\ 0 <= stdin[c]
        /\ sent[c] <= ask[c].body + 1
    BY <2>1 DEF BoundInv
  <2>3. rest[c] <= ask[c].body /\ passed[c] <= ask[c].body /\ eaten[c] <= ask[c].body
    <3>1. CASE inp[c] = "none"
      BY <3>1, <2>1, <2>2 DEF BodyInv, Counters
    <3>2. CASE inp[c] # "none"
      BY <3>2, <2>1, <2>2 DEF BodyInv, Counters
    <3> QED
      BY <3>1, <3>2
  <2> QED
    BY <2>1, <2>2, <2>3 DEF Counters
<1>3. ASSUME NEW c \in Conns
      PROVE  /\ client[c] \in {"away", "open", "closed"} /\ pc[c] \in Stage
             /\ inp[c] \in InStage /\ outp[c] \in OutStage
             /\ ndelay[c] \in BOOLEAN /\ shut[c] \in BOOLEAN /\ end[c] \subseteq Tags
  BY DEF ServerInv, Types
<1>4. /\ main \in {"top", "clear", "wait", "select", "accept", "down"}
      /\ got_hup \in BOOLEAN /\ due \in {"no", "yes", "lost"} /\ lag \in Nat
        /\ hups \in 0 .. MaxHups[ask] /\ chld \in BOOLEAN
      /\ ask \in Scenes
  BY DEF ServerInv, Types
<1> QED
  BY <1>1, <1>2, <1>3, <1>4 DEF TypeOK, Stage, InStage, OutStage

LEMMA OneAnswerOfAll == ServerInv => OneAnswer
<1> SUFFICES ASSUME ServerInv, NEW c \in Conns
             PROVE  LET s == Answered(c)
                    IN  \/ Len(s) <= 1
                        \/ s[1] = "head" /\ \A i \in 2 .. Len(s) : s[i] = "data"
  BY DEF OneAnswer
<1>1. AnswerInv(c)
  BY DEF ServerInv, ConnInv
<1>2. Replied(c) = 0 \/ Replied(c) = 1 \/ HeadAndData(Answered(c))
  BY <1>1 DEF AnswerInv, Blank, ByServer, ByProgram
<1>3. Replied(c) <= 1 \/ HeadAndData(Answered(c))
  BY <1>2
<1> QED
  BY <1>3 DEF HeadAndData, Replied

\* One unit of headers, and all others data.
LEMMA HeadAndDataCounts ==
  ASSUME NEW s \in Seq(Unit), HeadAndData(s)
  PROVE  Count(s, "head") = 1 /\ Count(s, "data") = Len(s) - 1
<1>1. /\ DOMAIN s = 1 .. Len(s) /\ Len(s) \in Nat /\ Len(s) >= 1
      /\ s[1] = "head" /\ \A i \in 2 .. Len(s) : s[i] = "data"
  BY DEF HeadAndData
<1>2. {i \in DOMAIN s : s[i] = "head"} = {1}
  <2>1. \A i \in 1 .. Len(s) : i = 1 \/ i \in 2 .. Len(s)
    BY <1>1
  <2> QED
    BY <1>1, <2>1
<1>3. {i \in DOMAIN s : s[i] = "data"} = 2 .. Len(s)
  <2>1. \A i \in 1 .. Len(s) : i = 1 \/ i \in 2 .. Len(s)
    BY <1>1
  <2>2. \A i \in 2 .. Len(s) : i \in 1 .. Len(s)
    BY <1>1
  <2> QED
    BY <1>1, <2>1, <2>2
<1>4. Cardinality({1}) = 1
  BY FS_Singleton
<1>5. Cardinality(2 .. Len(s)) = Len(s) - 1
  BY <1>1, FS_Interval
<1> QED
  BY <1>2, <1>3, <1>4, <1>5 DEF Count

LEMMA ReplyWholeOfAll == ServerInv => ReplyWhole
<1> SUFFICES ASSUME ServerInv, NEW c \in Conns, client[c] = "closed",
                    "left" \notin end[c], made[c] > 0, "raced" \notin end[c]
             PROVE  Count(seen[c], "head") = 1 /\ Count(seen[c], "data") = made[c] - 1
  BY DEF ReplyWhole
<1>1. ConnInv(c) /\ Types
  BY DEF ServerInv
<1>2. /\ Counters(c) /\ seen[c] \in Seq(Unit)
  BY <1>1, CountersAt DEF Types
<1>3. down[c] = <<>> /\ outp[c] \in {"none", "gone"}
  BY <1>1 DEF ConnInv, ClosedInv
<1>4. outp[c] = "gone"
  BY <1>2, <1>3, <1>1 DEF ConnInv, StageInv, Counters
<1>5. Answered(c) = seen[c]
  BY <1>2, <1>3 DEF Answered
<1>6. made[c] = Len(seen[c])
  BY <1>1, <1>4, <1>5 DEF ConnInv, FlowInv, Replied
<1>7. HeadAndData(seen[c])
  <2>1. Replied(c) = made[c]
    BY <1>5, <1>6 DEF Replied
  <2>2. made[c] # 0
    BY <1>2 DEF Counters
  <2> QED
    BY <1>1, <1>5, <2>1, <2>2 DEF ConnInv, AnswerInv, Blank, ByServer, ByProgram
<1> QED
  BY <1>2, <1>6, <1>7, HeadAndDataCounts

LEMMA BodyWholeOfAll == ServerInv => BodyWhole
BY DEF ServerInv, ConnInv, ShortInv, BodyWhole

-----------------------------------------------------------------------------
(* Theorems.                                                               *)

\* Every variable keeps its type; no pipe, socket or buffer is ever over-full,
\* and no more of a body is passed on or read than Content-Length says.
THEOREM ServerTypes == Spec => []TypeOK
BY ServerAlways, TypesOfAll, PTL

\* A SIGHUP that does not come between re_open_logfile and got_hup = 0 keeps its
\* flag up, and at most one connection is accepted before the log is re-opened,
\* however many come.
THEOREM LogCorrect == Spec => []LogSoonFresh
<1>1. ServerInv => LogSoonFresh
  BY DEF ServerInv, FreshInv, LogSoonFresh
<1> QED
  BY <1>1, ServerAlways, PTL

\* A client gets one answer: a page, a file, or headers and data of a program.
THEOREM OneAnswerCorrect == Spec => []OneAnswer
BY ServerAlways, OneAnswerOfAll, PTL

\* The reply of a program reaches a client that waits for its end whole, unless
\* a write met the O_NDELAY of the input interposer.
THEOREM ReplyCorrect == Spec => []ReplyWhole
BY ServerAlways, ReplyWholeOfAll, PTL

\* A program meets the end of its body early only if the client left early, and
\* not before it has read all that the client had sent.
THEOREM BodyCorrect == Spec => []BodyWhole
BY ServerAlways, BodyWholeOfAll, PTL
=============================================================================

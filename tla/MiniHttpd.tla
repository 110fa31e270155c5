----------------------------- MODULE MiniHttpd -----------------------------
(***************************************************************************)
(* The server of the web interface: the main process accepts connections   *)
(* and forks a handler for each.  A handler reads the request and answers  *)
(* it, or becomes the CGI program, after forking up to two more processes: *)
(* one that passes the body of a POST to the program, one that passes the  *)
(* program's output to the client.  Nothing but pipes, the socket and      *)
(* signals joins them; every call that can block is a step of its own.     *)
(*                                                                         *)
(* Data are counted in units.  A request is a unit of headers and as many  *)
(* of body as its Content-Length says.  What the program writes is a unit  *)
(* of headers and then units of data.  Programs that write the status line *)
(* themselves (nph-), SSL and virtual hosts are not modelled; no page of   *)
(* the web interface uses them.  A definition that nothing uses is a       *)
(* plausible mistake in the definition after it.                           *)
(***************************************************************************)
EXTENDS Integers, Sequences, FiniteSets

CONSTANTS
  Conns,      \* connections, each with at most one request
  Scenes,     \* what their clients ask together
  MaxOut,     \* bound on the units a program writes
  PipeRoom, SockRoom,   \* units a pipe holds, and each way of a socket
  EchoSize,   \* units the output interposer reads at once
  MaxHups     \* bound on the SIGHUPs sent in each scene

\* "away": the client does not come.
Ask == [target : {"cgi", "file", "none", "away"}, post : BOOLEAN, body : Nat]

ASSUME ServerAssumption ==
  /\ Scenes \subseteq [Conns -> Ask]
  /\ MaxOut \in Nat /\ MaxHups \in [Scenes -> Nat]
  /\ {PipeRoom, SockRoom, EchoSize} \subseteq Nat \ {0}

VARIABLES
  main,       \* the main process: "top", "clear", "wait", "select", "accept", "down"
  got_hup,    \* its flag of that name
  due,        \* history: a SIGHUP came after the log was opened last ("yes"), the
              \* last one between re_open_logfile and got_hup = 0 ("lost"), or "no"
  lag,        \* history: connections accepted while it is "yes"
  hups,       \* SIGHUPs sent so far
  chld,       \* SIGCHLD is pending at the main process
  ask,        \* what the client of each connection asks
  client,     \* the client: "away", "open", "closed"
  sent, up,   \* units sent by the client; those that nobody has read
  down, seen, \* reply units in the socket; those the client has read
  shut,       \* the sending half of the socket was shut down
  pc,         \* the handler, and the program it becomes
  inp, outp,  \* the interposers
  rest,       \* units of body in the hands of handler or input interposer
  passed,     \* units the input interposer has put into its pipe (local c)
  stdin,      \* units in that pipe
  eaten,      \* units the program has read
  made,       \* units it has written
  stdout,     \* units in its pipe
  held,       \* units in the buffer of the output interposer
  ndelay,     \* O_NDELAY is set on the socket
  end         \* how program and output ended, for the properties

serverVars == <<main, got_hup, due, lag, hups, chld>>
clientVars == <<ask, client, sent>>
inputVars  == <<rest, passed, stdin, eaten>>
outputVars == <<made, stdout, held>>
vars == <<serverVars, clientVars, up, down, seen, shut, pc, inp, outp, inputVars,
          outputVars, ndelay, end>>

Handling == {"read", "refused", "serve", "input", "output", "exec", "page", "file"}
Running  == {"cgi", "reads", "writes", "hangs"}

Set(f, c, v) == [f EXCEPT ![c] = v]

-----------------------------------------------------------------------------
(* Who holds what: the reader of a pipe gets EOF, and its writer EPIPE,    *)
(* only when nobody has the other end any more.                            *)

\* The read end of the input pipe is standard input of the program, and of the
\* output interposer, which was forked after it had been set up.
ReadsStdin(c) == pc[c] \in {"input", "output", "exec", "page"} \cup Running
                 \/ outp[c] \notin {"none", "gone"}

WritesStdout(c) == pc[c] \in {"exec", "page"} \cup Running

HoldsSocket(c) == pc[c] \in Handling \cup Running
                  \/ inp[c] \notin {"none", "gone"} \/ outp[c] \notin {"none", "gone"}

ClientSeesEnd(c) ==
  pc[c] \notin {"none", "queued"} /\ down[c] = <<>> /\ (shut[c] \/ ~HoldsSocket(c))

Room(c) == SockRoom - Len(down[c])

\* The body that the handler read with the headers goes through an interposer;
\* any other body the program reads from the socket.
Interposed(c) == inp[c] # "none"

-----------------------------------------------------------------------------
Init ==
  /\ main = "top" /\ got_hup = FALSE /\ due = "no" /\ lag = 0
  /\ hups = 0 /\ chld = FALSE
  /\ ask \in Scenes
  /\ client = [c \in Conns |-> "away"] /\ sent = [c \in Conns |-> 0]
  /\ up = [c \in Conns |-> 0]
  /\ down = [c \in Conns |-> <<>>] /\ seen = [c \in Conns |-> <<>>]
  /\ shut = [c \in Conns |-> FALSE]
  /\ pc = [c \in Conns |-> "none"]
  /\ inp = [c \in Conns |-> "none"] /\ outp = [c \in Conns |-> "none"]
  /\ rest = [c \in Conns |-> 0] /\ passed = [c \in Conns |-> 0]
  /\ stdin = [c \in Conns |-> 0] /\ eaten = [c \in Conns |-> 0]
  /\ made = [c \in Conns |-> 0]
  /\ stdout = [c \in Conns |-> 0] /\ held = [c \in Conns |-> 0]
  /\ ndelay = [c \in Conns |-> FALSE] /\ end = [c \in Conns |-> {}]

-----------------------------------------------------------------------------
(* The client and the signals.                                             *)

Connect(c) ==
  /\ client[c] = "away" /\ ask[c].target # "away" /\ main # "down"
  /\ client' = Set(client, c, "open") /\ pc' = Set(pc, c, "queued")
  /\ UNCHANGED <<serverVars, ask, sent, up, down, seen, shut, inp, outp, inputVars,
                 outputVars, ndelay, end>>

Send(c) ==
  /\ client[c] = "open" /\ sent[c] <= ask[c].body /\ up[c] < SockRoom
  /\ sent' = [sent EXCEPT ![c] = @ + 1] /\ up' = [up EXCEPT ![c] = @ + 1]
  /\ UNCHANGED <<serverVars, ask, client, down, seen, shut, pc, inp, outp, inputVars,
                 outputVars, ndelay, end>>

Receive(c) ==
  /\ client[c] = "open" /\ down[c] # <<>>
  /\ seen' = [seen EXCEPT ![c] = Append(@, Head(down[c]))]
  /\ down' = [down EXCEPT ![c] = Tail(@)]
  /\ UNCHANGED <<serverVars, clientVars, up, shut, pc, inp, outp, inputVars,
                 outputVars, ndelay, end>>

\* The client closes at the end of the reply, or, impatient, before.
Close(c) ==
  /\ client[c] = "open"
  /\ client' = Set(client, c, "closed")
  /\ end' = IF ClientSeesEnd(c) THEN end ELSE [end EXCEPT ![c] = @ \cup {"left"}]
  /\ UNCHANGED <<serverVars, ask, sent, up, down, seen, shut, pc, inp, outp, inputVars,
                 outputVars, ndelay>>

childVars == <<clientVars, up, down, seen, shut, pc, inp, outp, inputVars,
               outputVars, ndelay, end>>

\* handle_sighup; select, and nothing else, is interrupted by it.
Hup ==
  /\ main # "down" /\ hups < MaxHups[ask]
  /\ hups' = hups + 1 /\ got_hup' = TRUE
  /\ main' = IF main = "select" THEN "top" ELSE main
  /\ due' = IF main = "clear" THEN "lost" ELSE "yes"
  /\ UNCHANGED <<lag, chld, childVars>>

\* handle_sigterm, sent by logout.pl, and the errors that end the main process.
\* Its children go on.
Down ==
  /\ main # "down"
  /\ main' = "down" /\ got_hup' = FALSE /\ due' = "no" /\ lag' = 0 /\ chld' = FALSE
  /\ pc' = [c \in Conns |-> IF pc[c] \in {"queued", "dead"} THEN "gone" ELSE pc[c]]
  /\ UNCHANGED <<hups, clientVars, up, down, seen, shut, inp, outp, inputVars,
                 outputVars, ndelay, end>>

-----------------------------------------------------------------------------
(* The main process.                                                       *)

\* "Do we need to re-open the log file?"  If so, re_open_logfile.
Top ==
  /\ main = "top"
  /\ IF got_hup THEN main' = "clear" /\ due' = "no" /\ lag' = 0
                 ELSE main' = "wait" /\ UNCHANGED <<due, lag>>
  /\ UNCHANGED <<got_hup, hups, chld, childVars>>

\* got_hup = 0; a SIGHUP that came meanwhile goes with it.
Clear ==
  /\ main = "clear"
  /\ main' = "wait" /\ got_hup' = FALSE
  /\ UNCHANGED <<due, lag, hups, chld, childVars>>

Wait ==
  /\ main = "wait"
  /\ main' = "select"
  /\ UNCHANGED <<got_hup, due, lag, hups, chld, childVars>>

Select ==
  /\ main = "select" /\ \E c \in Conns : pc[c] = "queued"
  /\ main' = "accept"
  /\ UNCHANGED <<got_hup, due, lag, hups, chld, childVars>>

AcceptAgain(c) ==
  /\ main = "accept" /\ pc[c] = "queued"
  /\ main' = "wait"
  /\ pc' = Set(pc, c, "read")
  /\ lag' = IF due = "yes" THEN lag + 1 ELSE lag
  /\ UNCHANGED <<got_hup, due, hups, chld, clientVars, up, down, seen, shut, inp, outp,
                 inputVars, outputVars, ndelay, end>>

\* accept and fork.
Accept(c) ==
  /\ main = "accept" /\ pc[c] = "queued"
  /\ main' = "top"
  /\ pc' = Set(pc, c, "read")
  /\ lag' = IF due = "yes" THEN lag + 1 ELSE lag
  /\ UNCHANGED <<got_hup, due, hups, chld, clientVars, up, down, seen, shut, inp, outp,
                 inputVars, outputVars, ndelay, end>>

HandleChldOnce ==
  /\ chld /\ main # "down"
  /\ \E c \in Conns : pc[c] = "dead" /\ pc' = Set(pc, c, "gone")
  /\ chld' = FALSE /\ main' = IF main = "select" THEN "top" ELSE main
  /\ UNCHANGED <<got_hup, due, lag, hups, clientVars, up, down, seen, shut, inp, outp,
                 inputVars, outputVars, ndelay, end>>

\* handle_sigchld: one signal may stand for several children.
HandleChld ==
  /\ chld /\ main # "down"
  /\ pc' = [c \in Conns |-> IF pc[c] = "dead" THEN "gone" ELSE pc[c]]
  /\ chld' = FALSE /\ main' = IF main = "select" THEN "top" ELSE main
  /\ UNCHANGED <<got_hup, due, lag, hups, clientVars, up, down, seen, shut, inp, outp,
                 inputVars, outputVars, ndelay, end>>

\* The end of a handler or of the program it became.
Exit(c) ==
  /\ pc' = Set(pc, c, IF main = "down" THEN "gone" ELSE "dead")
  /\ chld' = (main # "down")

-----------------------------------------------------------------------------
(* handle_request.                                                         *)

keepInHandler == <<main, got_hup, due, lag, hups, clientVars, seen, shut, inp, outp, passed,
                   stdin, eaten, outputVars, ndelay>>

\* A reply of the server itself; lost if the client is gone.
Reply(c, unit) ==
  down' = IF client[c] = "open" THEN [down EXCEPT ![c] = Append(@, unit)] ELSE down

CanReply(c) == client[c] # "open" \/ Room(c) > 0

\* One read gets what has arrived; the headers are in it.  At the end of input
\* there is no request to parse.
ReadRequest(c) ==
  /\ pc[c] = "read"
  /\ \/ /\ up[c] > 0 /\ rest' = Set(rest, c, up[c] - 1)
        /\ up' = Set(up, c, 0) /\ pc' = Set(pc, c, "serve")
     \/ /\ up[c] = 0 /\ client[c] = "closed"
        /\ pc' = Set(pc, c, "refused") /\ UNCHANGED <<rest, up>>
  /\ UNCHANGED <<keepInHandler, chld, down, end>>

\* "Can't parse request." cannot be said any more: the client is gone.
Refuse(c) ==
  /\ pc[c] = "refused"
  /\ Exit(c)
  /\ UNCHANGED <<keepInHandler, up, down, rest, end>>

\* handle_read_timeout
ReadTimeout(c) ==
  /\ pc[c] \in {"read", "refused"} /\ CanReply(c)
  /\ Reply(c, "408")
  /\ Exit(c)
  /\ UNCHANGED <<keepInHandler, up, rest, end>>

\* stat, do_file: what the request is for.
Serve(c) ==
  /\ pc[c] = "serve"
  /\ pc' = Set(pc, c, CASE ask[c].target = "none" -> "page"
                        [] ask[c].target = "file" -> "file"
                        [] OTHER -> IF ask[c].post /\ rest[c] > 0 THEN "input" ELSE "output")
  /\ UNCHANGED <<keepInHandler, up, down, rest, end, chld>>

\* send_error, once its page is written, ends the process.
SendPage(c) ==
  /\ pc[c] = "page" /\ CanReply(c)
  /\ Reply(c, "error")
  /\ Exit(c)
  /\ UNCHANGED <<keepInHandler, up, rest, end>>

SendFile(c) ==
  /\ pc[c] = "file" /\ CanReply(c)
  /\ Reply(c, "file")
  /\ Exit(c)
  /\ UNCHANGED <<keepInHandler, up, rest, end>>

\* handle_write_timeout; after exec the alarm goes on, with its default action.
Alarmed(c) == pc[c] \in (Handling \ {"read", "refused"}) \cup Running

WriteTimeout(c) ==
  /\ Alarmed(c)
  /\ Exit(c)
  /\ UNCHANGED <<keepInHandler, up, down, rest, end>>

-----------------------------------------------------------------------------
(* do_cgi.                                                                 *)

\* pipe and fork, or "Something unexpected went wrong".  The interposer has its
\* own copy of the request read so far.
ForkInput(c) ==
  /\ pc[c] = "input"
  /\ \/ pc' = Set(pc, c, "output") /\ inp' = Set(inp, c, "push")
     \/ pc' = Set(pc, c, "page") /\ UNCHANGED inp
  /\ UNCHANGED <<serverVars, clientVars, up, down, seen, shut, outp, inputVars,
                 outputVars, ndelay, end>>

ForkOutput(c) ==
  /\ pc[c] = "output"
  /\ \/ pc' = Set(pc, c, "exec") /\ outp' = Set(outp, c, "headers")
     \/ pc' = Set(pc, c, "page") /\ UNCHANGED outp
  /\ UNCHANGED <<serverVars, clientVars, up, down, seen, shut, inp, inputVars,
                 outputVars, ndelay, end>>

Exec(c) ==
  /\ pc[c] = "exec"
  /\ \E next \in {"cgi", "page"} : pc' = Set(pc, c, next)
  /\ UNCHANGED <<serverVars, clientVars, up, down, seen, shut, inp, outp, inputVars,
                 outputVars, ndelay, end>>

-----------------------------------------------------------------------------
(* The program: it reads its body and writes its output in any order it    *)
(* likes, and exits or hangs.                                              *)

keepInProgram == <<main, got_hup, due, lag, hups, clientVars, down, seen, shut, inp, outp,
                   rest, passed, held, ndelay>>

Length(c) == IF ask[c].post THEN ask[c].body ELSE 0

\* Once it reads or writes it is held up until it can.
ProgramGoesOn(c) ==
  /\ pc[c] = "cgi"
  /\ \E next \in Running \ {"cgi"} :
       /\ next = "reads" => eaten[c] < Length(c) /\ "short" \notin end[c]
       /\ next = "writes" => made[c] < MaxOut
       /\ pc' = Set(pc, c, next)
  /\ UNCHANGED <<keepInProgram, chld, up, stdin, eaten, made, stdout, end>>

\* From the pipe of the interposer, or from the socket.
ProgramReads(c) ==
  /\ pc[c] = "reads"
  /\ \/ /\ Interposed(c) /\ stdin[c] > 0
        /\ stdin' = [stdin EXCEPT ![c] = @ - 1] /\ UNCHANGED up
        /\ eaten' = [eaten EXCEPT ![c] = @ + 1] /\ UNCHANGED end
     \/ /\ ~Interposed(c) /\ up[c] > 0
        /\ up' = [up EXCEPT ![c] = @ - 1] /\ UNCHANGED stdin
        /\ eaten' = [eaten EXCEPT ![c] = @ + 1] /\ UNCHANGED end
     \/ /\ IF Interposed(c) THEN stdin[c] = 0 /\ inp[c] = "gone"
                            ELSE up[c] = 0 /\ client[c] = "closed"
        /\ end' = [end EXCEPT ![c] = @ \cup {"short"}] /\ UNCHANGED <<up, stdin, eaten>>
  /\ pc' = Set(pc, c, "cgi")
  /\ UNCHANGED <<keepInProgram, chld, made, stdout>>

\* Written into the pipe, or killed by SIGPIPE.
ProgramWrites(c) ==
  /\ pc[c] = "writes"
  /\ \/ /\ outp[c] # "gone" /\ stdout[c] < PipeRoom
        /\ stdout' = [stdout EXCEPT ![c] = @ + 1] /\ made' = [made EXCEPT ![c] = @ + 1]
        /\ pc' = Set(pc, c, "cgi") /\ UNCHANGED chld
     \/ /\ outp[c] = "gone" /\ Exit(c)
        /\ UNCHANGED <<stdout, made>>
  /\ UNCHANGED <<keepInProgram, up, stdin, eaten, end>>

ProgramExits(c) ==
  /\ pc[c] = "cgi"
  /\ Exit(c)
  /\ UNCHANGED <<keepInProgram, up, stdin, eaten, made, stdout, end>>

-----------------------------------------------------------------------------
(* cgi_interpose_input.                                                    *)

keepInInput == <<serverVars, clientVars, down, seen, shut, pc, outp, eaten,
                 outputVars, end>>

\* write to the pipe; without a reader the interposer ends.
Push(c) ==
  /\ inp[c] = "push"
  /\ \/ /\ ~ReadsStdin(c) /\ inp' = Set(inp, c, "gone")
        /\ UNCHANGED <<rest, passed, stdin>>
     \/ /\ ReadsStdin(c) /\ stdin[c] < PipeRoom
        /\ stdin' = [stdin EXCEPT ![c] = @ + 1]
        /\ rest' = [rest EXCEPT ![c] = @ - 1] /\ passed' = [passed EXCEPT ![c] = @ + 1]
        /\ inp' = Set(inp, c, IF rest[c] = 1 THEN "pull" ELSE "push")
  /\ UNCHANGED <<keepInInput, up, ndelay>>

MoreBodyShort(c) == passed[c] + 1 < Length(c)

MoreBody(c) == passed[c] < Length(c)

PullSpinning(c) ==
  /\ inp[c] = "pull"
  /\ IF ~MoreBody(c)
     THEN inp' = Set(inp, c, "garbage") /\ UNCHANGED <<rest, up>>
     ELSE \/ /\ up[c] > 0 /\ rest' = Set(rest, c, up[c]) /\ up' = Set(up, c, 0)
             /\ inp' = Set(inp, c, "push")
          \/ /\ up[c] = 0 /\ client[c] = "closed"
             /\ UNCHANGED <<inp, rest, up>>
  /\ UNCHANGED <<keepInInput, passed, stdin, ndelay>>

\* read from the socket, up to Content-Length; the end of input ends it.
Pull(c) ==
  /\ inp[c] = "pull"
  /\ IF ~MoreBody(c)
     THEN inp' = Set(inp, c, "garbage") /\ UNCHANGED <<rest, up>>
     ELSE \/ /\ up[c] > 0 /\ rest' = Set(rest, c, up[c]) /\ up' = Set(up, c, 0)
             /\ inp' = Set(inp, c, "push")
          \/ /\ up[c] = 0 /\ client[c] = "closed"
             /\ inp' = Set(inp, c, "gone") /\ UNCHANGED <<rest, up>>
  /\ UNCHANGED <<keepInInput, passed, stdin, ndelay>>

\* post_post_garbage_hack: O_NDELAY goes on and, after a read that finds
\* nothing, off.  The flag belongs to the socket, not to the process.
SetNdelay(c) ==
  /\ inp[c] = "garbage"
  /\ inp' = Set(inp, c, "clear") /\ ndelay' = Set(ndelay, c, TRUE)
  /\ UNCHANGED <<keepInInput, up, rest, passed, stdin>>

ClearNdelay(c) ==
  /\ inp[c] = "clear"
  /\ inp' = Set(inp, c, "gone") /\ ndelay' = Set(ndelay, c, FALSE)
  /\ UNCHANGED <<keepInInput, up, rest, passed, stdin>>

-----------------------------------------------------------------------------
(* cgi_interpose_output.                                                   *)

keepInOutput == <<serverVars, clientVars, up, seen, pc, inp, inputVars, made, ndelay>>

SlurpHeadersAlways(c) ==
  /\ outp[c] = "headers"
  /\ \/ stdout[c] > 0 /\ stdout' = [stdout EXCEPT ![c] = @ - 1]
     \/ stdout[c] = 0 /\ ~WritesStdout(c) /\ UNCHANGED stdout
  /\ outp' = Set(outp, c, "status")
  /\ UNCHANGED <<keepInOutput, down, shut, held, end>>

\* "Slurp in all headers"; "If there were no headers, bail."
SlurpHeaders(c) ==
  /\ outp[c] = "headers"
  /\ \/ /\ stdout[c] > 0 /\ stdout' = [stdout EXCEPT ![c] = @ - 1]
        /\ outp' = Set(outp, c, "status")
     \/ /\ stdout[c] = 0 /\ ~WritesStdout(c)
        /\ outp' = Set(outp, c, "gone") /\ UNCHANGED stdout
  /\ UNCHANGED <<keepInOutput, down, shut, held, end>>

\* The status line and the saved headers, whose writing is not tested.  They go
\* out whole, under O_NDELAY too: the socket is still empty, with room for them.
WriteHeaders(c) ==
  /\ outp[c] = "status" /\ CanReply(c)
  /\ Reply(c, "head")
  /\ outp' = Set(outp, c, "echo")
  /\ UNCHANGED <<keepInOutput, shut, stdout, held, end>>

\* done: shutdown; the process exits.
Done(c) == outp' = Set(outp, c, "gone") /\ shut' = Set(shut, c, TRUE)

LeastOf(a, b) == IF a <= b THEN a ELSE b

Echo(c) ==
  /\ outp[c] = "echo"
  /\ \/ /\ stdout[c] > 0
        /\ LET k == LeastOf(EchoSize, stdout[c])
           IN  held' = Set(held, c, k) /\ stdout' = [stdout EXCEPT ![c] = @ - k]
        /\ outp' = Set(outp, c, "write") /\ UNCHANGED shut
     \/ /\ stdout[c] = 0 /\ ~WritesStdout(c)
        /\ Done(c) /\ UNCHANGED <<held, stdout>>
  /\ UNCHANGED <<keepInOutput, down, end>>

Units(k) == [i \in 1 .. k |-> "data"]

\* my_write begins.  It fails when the client is gone.  What there is room for
\* goes into the socket; for the rest it waits, unless O_NDELAY is set: then it
\* is tried again if nothing was written, and given up if something was.
WriteNoRetry(c) ==
  /\ outp[c] = "write"
  /\ LET k == LeastOf(held[c], Room(c))
     IN  \/ /\ client[c] = "closed" /\ Done(c) /\ UNCHANGED <<down, held, end>>
         \/ /\ client[c] = "open"
            /\ down' = [down EXCEPT ![c] = @ \o Units(k)]
            /\ held' = [held EXCEPT ![c] = @ - k]
            /\ IF ndelay[c] /\ k < held[c]
               THEN Done(c) /\ UNCHANGED end
               ELSE /\ outp' = Set(outp, c, IF k = held[c] THEN "echo" ELSE "blocked")
                    /\ UNCHANGED <<shut, end>>
  /\ UNCHANGED <<keepInOutput, stdout>>

Write(c) ==
  /\ outp[c] = "write"
  /\ LET k == LeastOf(held[c], Room(c))
     IN  \/ /\ client[c] = "closed" /\ Done(c) /\ UNCHANGED <<down, held, end>>
         \/ /\ client[c] = "open" /\ ~(ndelay[c] /\ k = 0)
            /\ down' = [down EXCEPT ![c] = @ \o Units(k)]
            /\ held' = [held EXCEPT ![c] = @ - k]
            /\ IF ndelay[c] /\ k < held[c]
               THEN Done(c) /\ end' = [end EXCEPT ![c] = @ \cup {"raced"}]
               ELSE /\ outp' = Set(outp, c, IF k = held[c] THEN "echo" ELSE "blocked")
                    /\ UNCHANGED <<shut, end>>
  /\ UNCHANGED <<keepInOutput, stdout>>

\* A write that waits goes on when there is room.
WriteOn(c) ==
  /\ outp[c] = "blocked"
  /\ \/ /\ client[c] = "closed" /\ Done(c) /\ UNCHANGED <<down, held>>
     \/ /\ client[c] = "open" /\ Room(c) > 0
        /\ down' = [down EXCEPT ![c] = Append(@, "data")]
        /\ held' = [held EXCEPT ![c] = @ - 1]
        /\ outp' = Set(outp, c, IF held[c] = 1 THEN "echo" ELSE "blocked")
        /\ UNCHANGED shut
  /\ UNCHANGED <<keepInOutput, stdout, end>>

-----------------------------------------------------------------------------
Handler(c) == ReadRequest(c) \/ Refuse(c) \/ Serve(c) \/ SendPage(c) \/ SendFile(c)
              \/ ForkInput(c) \/ ForkOutput(c) \/ Exec(c)
              \/ ProgramGoesOn(c) \/ ProgramReads(c) \/ ProgramWrites(c)
              \/ ProgramExits(c)
Timeout(c) == ReadTimeout(c) \/ WriteTimeout(c)
Input(c)   == Push(c) \/ Pull(c) \/ SetNdelay(c) \/ ClearNdelay(c)
Output(c)  == SlurpHeaders(c) \/ WriteHeaders(c) \/ Echo(c) \/ Write(c) \/ WriteOn(c)
Client(c)  == Send(c) \/ Receive(c) \/ (ClientSeesEnd(c) /\ Close(c))
Main       == Top \/ Clear \/ Wait \/ Select \/ (\E c \in Conns : Accept(c))

Resting == \A c \in Conns : client[c] # "open" /\ ~HoldsSocket(c)
                            /\ pc[c] \in {"none", "gone"}
Stopped == Resting /\ UNCHANGED vars

Next ==
  \/ \E c \in Conns : \/ Connect(c) \/ Send(c) \/ Receive(c) \/ Close(c)
                      \/ Handler(c) \/ Timeout(c) \/ Input(c) \/ Output(c)
  \/ Hup \/ Down \/ HandleChld \/ Main
  \/ Stopped

Spec == Init /\ [][Next]_vars

\* Every process goes on when it can, signals arrive, alarms go off in the end,
\* and a client sends its request and reads its reply.
FairSpec ==
  /\ Spec
  /\ WF_vars(Main) /\ WF_vars(HandleChld)
  /\ \A c \in Conns : /\ WF_vars(Handler(c)) /\ WF_vars(Timeout(c))
                       /\ WF_vars(Input(c)) /\ WF_vars(Output(c)) /\ WF_vars(Client(c))

-----------------------------------------------------------------------------
(* Properties.                                                             *)

Tags == {"left", "short", "raced"}

\* Every variable holds a value of its type.
TypeOK ==
  /\ main \in {"top", "clear", "wait", "select", "accept", "down"}
  /\ got_hup \in BOOLEAN /\ due \in {"no", "yes", "lost"} /\ lag \in Nat
  /\ ask \in Scenes /\ hups \in 0 .. MaxHups[ask] /\ chld \in BOOLEAN
  /\ \A c \in Conns :
       /\ client[c] \in {"away", "open", "closed"}
       /\ sent[c] \in 0 .. ask[c].body + 1 /\ up[c] \in 0 .. SockRoom
       /\ Len(down[c]) <= SockRoom
       /\ pc[c] \in Handling \cup Running \cup {"none", "queued", "dead", "gone"}
       /\ inp[c] \in {"none", "push", "pull", "garbage", "clear", "gone"}
       /\ outp[c] \in {"none", "headers", "status", "echo", "write", "blocked", "gone"}
       /\ {rest[c], passed[c], eaten[c]} \subseteq 0 .. ask[c].body
       /\ {stdin[c], stdout[c]} \subseteq 0 .. PipeRoom /\ made[c] \in 0 .. MaxOut
       /\ held[c] \in 0 .. EchoSize
       /\ ndelay[c] \in BOOLEAN /\ shut[c] \in BOOLEAN /\ end[c] \subseteq Tags

\* A child that has ended and is not reaped has its signal still to come.
NoZombieLeft == (\E c \in Conns : pc[c] = "dead") => chld

\* A SIGHUP that comes between the test of the flag and select does not wake the
\* server, but the flag stays, and at most one connection is accepted before the
\* log is re-opened.  Only a SIGHUP between re_open_logfile and got_hup = 0 is
\* forgotten.
LogSoonFresh == due # "lost" => lag <= 1 /\ (due = "yes" => got_hup)

Answered(c) == seen[c] \o down[c]
Count(s, u) == Cardinality({i \in DOMAIN s : s[i] = u})

\* The client gets one answer: a page of the server, a file, or the program's
\* headers and behind them nothing but its data.
OneAnswer ==
  \A c \in Conns : LET s == Answered(c)
                   IN  \/ Len(s) <= 1
                       \/ s[1] = "head" /\ \A i \in 2 .. Len(s) : s[i] = "data"

\* What a program wrote reaches the client whole, unless the client left, or a
\* write fell between SetNdelay and ClearNdelay.
ReplyWhole ==
  \A c \in Conns :
    client[c] = "closed" /\ "left" \notin end[c] /\ made[c] > 0 /\ "raced" \notin end[c] =>
      Count(seen[c], "head") = 1 /\ Count(seen[c], "data") = made[c] - 1

\* A program that reads its body gets all of it, through the pipe or from the
\* socket; it meets the end earlier only if the client left earlier, and then
\* behind all that the client had sent.
BodyWhole ==
  \A c \in Conns : "short" \in end[c] =>
    "left" \in end[c] /\ sent[c] <= ask[c].body /\ eaten[c] = sent[c] - 1

\* All processes of a connection that was accepted come to an end, and the
\* handler is reaped: interposers have no timeout, and end by pipes and socket.
AllEnd == \A c \in Conns : pc[c] = "read" ~> pc[c] = "gone" /\ ~HoldsSocket(c)
=============================================================================

---------------------------- MODULE MCMiniHttpd ----------------------------
(* One connection for a program, with and without a body longer than pipe  *)
(* and socket hold at once, and one for a file or a page that is missing,  *)
(* so that two children may end behind one signal.                         *)
EXTENDS MiniHttpd, TLC

TwoConns == {"first", "second"}
Get(what)      == [target |-> what, post |-> FALSE, body |-> 0]
Post(what, n)  == [target |-> what, post |-> TRUE, body |-> n]
Away           == Get("away")
Two(a, b)      == "first" :> a @@ "second" :> b
Big == Two(Post("cgi", 2), Away)
SomeScenes == {Big, Two(Get("cgi"), Away), Two(Get("file"), Post("none", 1))}
\* The second SIGHUP is the one that can be forgotten.
SomeHups == [scene \in SomeScenes |-> IF scene = Big THEN 1 ELSE 2]
=============================================================================

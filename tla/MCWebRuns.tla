----------------------------- MODULE MCWebRuns ------------------------------
(* Values for the constants of WebRuns that a configuration cannot spell.  *)
EXTENDS WebRuns

\* Two spellings of the session "my_run", one of another, and a bad one.
CleanIDs == [t \in {"my run", "my_run", "other", "../up"} |->
               IF t \in {"my run", "my_run"} THEN "my_run" ELSE t]

\* Two names of volcanos.txt, the second a continuation of the first.
LongerNames == {<<"Pavlof", "Pavlof_sister">>}

\* Requests are alike, for the invariants.
Alike == Permutations(Requests)
=============================================================================

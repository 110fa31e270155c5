------------------------------ MODULE MCAshSim ------------------------------
(* Values for the constants of AshSim that a configuration cannot spell.   *)
EXTENDS AshSim

\* argument.repeat when -repeat is absent
NoRepeat == -1
=============================================================================

--------------------------- MODULE MCWiperProgram ---------------------------
(* Instances of WiperProgram for TLC.                                       *)
EXTENDS WiperProgram, Sequences

\* A mode set twice, one set for a moment, and a value that is taken away.
MCModeOf(e) == <<"SLOW", "SLOW", "OFF", "FAST", None>>[e]
=============================================================================

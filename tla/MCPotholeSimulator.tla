------------------------- MODULE MCPotholeSimulator -------------------------
(* Instances of PotholeSimulator for TLC.                                   *)
EXTENDS PotholeSimulator

\* For ever, one loop, and two loops that follow each other.
SomeLoops == 0..2
=============================================================================

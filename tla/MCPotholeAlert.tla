--------------------------- MODULE MCPotholeAlert ---------------------------
(* Instances of PotholeAlert for TLC.                                       *)
EXTENDS PotholeAlert

\* No dictionary; near on the left; far on the right; near in the middle;
\* both lanes at once, as no view of the simulator is.
SomeViews == {Garbled, {7}, {3}, {8}, {4, 9}}
=============================================================================

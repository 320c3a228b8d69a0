--------------------------- MODULE MCPotholeFeeder --------------------------
(* Instances of PotholeFeeder for TLC.                                      *)
EXTENDS PotholeFeeder

CONSTANTS left, right   \* the two lanes the model reads

ReadLanes == {left, right}
=============================================================================

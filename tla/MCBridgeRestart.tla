-------------------------- MODULE MCBridgeRestart ---------------------------
(* Instances of BridgeRestart for TLC.                                      *)
EXTENDS BridgeRestart, TLC

CONSTANTS p1, p2, p3, left, right

ThreeProcs == {p1, p2, p3}
TwoLanes == {left, right}

\* The instances differ by nothing but their names.
AnyInstance == Permutations(ThreeProcs)
=============================================================================

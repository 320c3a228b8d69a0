--------------------------- MODULE PotholeReadings --------------------------
(***************************************************************************)
(* What a path from the broker promises the Simulink model.  A value at    *)
(* the broker (PotholeView, or the steering angle) is replaced from time   *)
(* to time: view counts the replacements.  What the model reads of it      *)
(* comes from one of these values, and never from an older one than what   *)
(* it read before, of one lane or of another.  PotholeFeeder.tla and       *)
(* SteeringFeeder.tla implement it and PotholeAlert.tla relies on it;      *)
(* WiperProgram.tla implements it for the modes of the wipers.             *)
(***************************************************************************)
EXTENDS Naturals

VARIABLES view,     \* number of views published
          seen      \* the view the last reading came from; 0 for none

vars == <<view, seen>>

Init == view = 0 /\ seen = 0

PublishView == view' = view + 1 /\ UNCHANGED seen

Read == seen' \in seen..view /\ UNCHANGED view

Next == PublishView \/ Read

Spec == Init /\ [][Next]_vars
=============================================================================

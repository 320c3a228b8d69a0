-------------------------- MODULE MCSteeringFeeder --------------------------
(* Instances of SteeringFeeder for TLC: its constants are numbers.          *)
EXTENDS SteeringFeeder
=============================================================================

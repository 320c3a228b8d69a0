-------------------------- MODULE MCHazardListener --------------------------
(* Instances of HazardListener for TLC: the faults of each question.        *)
EXTENDS HazardListener

\* Everything but the faults that change the order of values.
OrderlyFaults == FaultKinds \ {"overtaking"}

\* Everything but the two faults that make the publisher's memory wrong.
CoherentFaults == FaultKinds \ {"lostReply", "brokerRestart"}
=============================================================================

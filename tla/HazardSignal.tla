---------------------------- MODULE HazardSignal ----------------------------
(***************************************************************************)
(* What the hazard path promises a driver: the value of                    *)
(* Vehicle.Body.Lights.Hazard.IsSignaling at the broker is a value the     *)
(* Simulink model did output, and it never goes back to an output older    *)
(* than the one it shows.                                                  *)
(*                                                                         *)
(* An output is named by its epoch: 0 for the value the model starts with, *)
(* 1 for the first different value, and so on.  Two consecutive epochs     *)
(* have opposite signals.  The promise does not name a socket, a listener  *)
(* or a publisher: HazardListener.tla implements it with those.            *)
(***************************************************************************)
EXTENDS Naturals

CONSTANT None           \* no target value at the broker

VARIABLES epoch,        \* the model's current output
          target        \* the output the broker's target value comes from

vars == <<epoch, target>>

Init == epoch = 0 /\ target = None

\* The model outputs the opposite signal.
OutputChanges == epoch' = epoch + 1 /\ UNCHANGED target

\* The broker takes an output that is newer than the one it shows.
Publish ==
    \E e \in 0..epoch : /\ target # None => target < e
                        /\ target' = e
                        /\ UNCHANGED epoch

\* The broker loses its target values (it keeps them in memory).
Lose == target # None /\ target' = None /\ UNCHANGED epoch

Next == OutputChanges \/ Publish \/ Lose

Spec == Init /\ [][Next]_vars
=============================================================================

---------------------------- MODULE PotholeAlert ----------------------------
(***************************************************************************)
(* The pothole alert from end to end: views are set at the broker, the     *)
(* driver turns the wheel, the Simulink model reads both lanes and the     *)
(* steering angle in every step and outputs a hazard signal, which comes   *)
(* to the broker.  The paths between them are what they promise:           *)
(* PotholeReadings (implemented by PotholeFeeder and by SteeringFeeder)    *)
(* from the broker to the model, HazardSignal (implemented by              *)
(* HazardListener) from the model to the broker.                           *)
(*                                                                         *)
(* Views and positions of the wheel are numbered in the order in which the *)
(* broker got them.                                                        *)
(***************************************************************************)
EXTENDS Naturals, Sequences

CONSTANTS
    None,           \* no target value at the broker
    Garbled,        \* a view that does not parse
    RoadViews,      \* the views that are set; a view is the set of its zones
    MaxViews,       \* bound of the model: views set
    MaxTurns,       \* bound of the model: turns of the wheel
    MaxFaults       \* bound of the model: reads that fail

Zones == 1..9

ASSUME NoneAssumption == None \notin Nat
ASSUME GarbledAssumption == \A v \in SUBSET Zones : v # Garbled
ASSUME ViewsAssumption == RoadViews \subseteq {Garbled} \union SUBSET Zones
ASSUME BoundAssumption == {MaxViews, MaxTurns, MaxFaults} \subseteq Nat

VARIABLES
    views,          \* the broker's PotholeViews, the last one now
    wheel,          \* the positions of the wheel, the last one now
    seen,           \* the view of the last reading of a lane; 0 for none
    felt,           \* the position of the last reading of the angle
    unread,         \* what the model has yet to read in this step
    sample,         \* what it has read in this step
    opened,         \* history: seen when the step began
    hazard,         \* the model's output, named by its epoch
    target,         \* the output the broker's target value comes from
    faults          \* reads that failed so far

stepVars == <<unread, sample, opened>>
vars == <<views, wheel, seen, felt, stepVars, hazard, target, faults>>

\* An angle below -5, above 5, or between: what the model tells apart.
Positions == {"left", "straight", "right"}
Lanes == {"left", "right"}
Inputs == Lanes \union {"angle"}

\* The two paths to the model, and the path from it.
LanePath == INSTANCE PotholeReadings WITH view <- Len(views), seen <- seen
AnglePath == INSTANCE PotholeReadings WITH view <- Len(wheel), seen <- felt
HazardPath == INSTANCE HazardSignal WITH epoch <- hazard, target <- target

\* Epochs alternate between off and on, and start with off.
Signals(e) == e # None /\ e % 2 = 1

TypeOK ==
    /\ views \in Seq(RoadViews) /\ wheel \in Seq(Positions) \ {<<>>}
    /\ seen \in 0..Len(views) /\ felt \in 0..Len(wheel)
    /\ unread \subseteq Inputs
    /\ sample \in [left : BOOLEAN, right : BOOLEAN, angle : Positions]
    /\ opened \in 0..seen
    /\ hazard \in Nat /\ target \in {None} \union Nat
    /\ faults \in Nat

\* [mutant] An angle that was not read is told apart.
UnknownAngle == [left |-> FALSE, right |-> FALSE, angle |-> "unknown"]

\* What uds_read yields when it fails, 0.0: no pothole, straight ahead.
NothingRead == [left |-> FALSE, right |-> FALSE, angle |-> "straight"]

Init ==
    /\ views = <<>>
    /\ \E p \in Positions : wheel = <<p>>
    /\ seen = 0 /\ felt = 0
    /\ unread = Inputs /\ sample = NothingRead /\ opened = 0
    /\ hazard = 0 /\ target = None
    /\ faults = 0

-----------------------------------------------------------------------------
(* What the feeder makes of a view                                         *)

LaneZones == [left |-> {1, 4, 7}, center |-> {2, 5, 8}, right |-> {3, 6, 9}]

\* A view that does not parse is the empty dictionary.
Parsed(v) == IF v = Garbled THEN {} ELSE v

\* _lane_has_pothole: any zone of the lane, absent ones being false.
LaneHasPothole(l, v) == LaneZones[l] \intersect Parsed(v) # {}

-----------------------------------------------------------------------------
(* The road and the driver                                                 *)

\* simulate_pothole.py, or any other client, sets PotholeView.
SetView ==
    /\ Len(views) < MaxViews
    /\ \E v \in RoadViews : views' = Append(views, v)
    /\ UNCHANGED <<wheel, seen, felt, stepVars, hazard, target, faults>>

\* The driver turns the wheel.
Turn ==
    /\ Len(wheel) <= MaxTurns
    /\ \E p \in Positions \ {wheel[Len(wheel)]} : wheel' = Append(wheel, p)
    /\ UNCHANGED <<views, seen, felt, stepVars, hazard, target, faults>>

-----------------------------------------------------------------------------
(* A step of the model: three C Caller blocks, the logic, a fourth one     *)

\* [mutant] A value that was read is kept for the next step.
ReadLaneOnce(l) ==
    /\ l \in unread
    /\ UNCHANGED <<views, wheel, felt, opened, hazard, target, faults>>
    /\ LanePath!Read /\ (seen # 0 => seen' = seen)
    /\ unread' = unread \ {l}
    /\ sample' = [sample EXCEPT
                    ![l] = seen' # 0 /\ LaneHasPothole(l, views[seen'])]

\* da_get_pothole_left, da_get_pothole_right.  Before the feeder has a view
\* its lanes are False.
ReadLane(l) ==
    /\ l \in unread
    /\ UNCHANGED <<views, wheel, felt, opened, hazard, target, faults>>
    /\ LanePath!Read
    /\ unread' = unread \ {l}
    /\ sample' = [sample EXCEPT
                    ![l] = seen' # 0 /\ LaneHasPothole(l, views[seen'])]

\* da_get_steering_angle.
ReadAngle ==
    /\ "angle" \in unread
    /\ UNCHANGED <<views, wheel, seen, opened, hazard, target, faults>>
    /\ AnglePath!Read
    /\ unread' = unread \ {"angle"}
    /\ sample' = [sample EXCEPT
                    !.angle = IF felt' = 0 THEN "straight" ELSE wheel[felt']]

\* uds_read fails.
ReadFails(input) ==
    /\ input \in unread /\ faults < MaxFaults
    /\ unread' = unread \ {input}
    /\ sample' = [sample EXCEPT ![input] = NothingRead[input]]
    /\ faults' = faults + 1
    /\ UNCHANGED <<views, wheel, seen, felt, opened, hazard, target>>

\* [mutant] The lanes are not told apart.
AnyLane(s) == (s.left \/ s.right) /\ s.angle # "straight"

\* The blocks and_left, and_right and or.
Decides(s) == (s.left /\ s.angle = "left") \/ (s.right /\ s.angle = "right")

\* [mutant] The output is computed from what has been read so far.
StepEndsEarly ==
    /\ hazard' = IF Decides(sample) = Signals(hazard) THEN hazard ELSE hazard + 1
    /\ unread' = Inputs /\ sample' = NothingRead /\ opened' = seen
    /\ UNCHANGED <<views, wheel, seen, felt, target, faults>>

\* The output is computed and the next step begins.
StepEnds ==
    /\ unread = {}
    /\ hazard' = IF Decides(sample) = Signals(hazard) THEN hazard ELSE hazard + 1
    /\ unread' = Inputs /\ sample' = NothingRead /\ opened' = seen
    /\ UNCHANGED <<views, wheel, seen, felt, target, faults>>

\* hazard_listener.py brings an output to the broker.
Publish ==
    /\ UNCHANGED <<views, wheel, seen, felt, stepVars, faults>>
    /\ HazardPath!Publish

Model == \/ \E l \in Lanes : ReadLane(l)
         \/ ReadAngle
         \/ \E input \in Inputs : ReadFails(input)
         \/ StepEnds

Next == \/ SetView
        \/ Turn
        \/ Model
        \/ Publish

Spec == Init /\ [][Next]_vars

\* The paths promise more than safety when their scripts run: readings of a
\* value that stays catch up with it (ReadingsCatchUp), and the broker comes to
\* follow the output (FollowsModel).
Fairness ==
    /\ \A l \in Lanes : SF_vars(ReadLane(l) /\ seen' = Len(views))
    /\ SF_vars(ReadAngle /\ felt' = Len(wheel))
    /\ WF_vars(StepEnds)
    /\ WF_vars(Publish /\ target' = hazard)

FairSpec == Spec /\ Fairness

-----------------------------------------------------------------------------
(* Properties                                                              *)

\* "Steering towards a lane with a detected pothole", the lanes being the
\* columns of the zones.
Alert(v, position) ==
    \E z \in Parsed(v) : \/ z % 3 = 1 /\ position = "left"
                         \/ z % 3 = 0 /\ position = "right"

\* The two lanes are read one after the other, and may come from two views;
\* still an output is what the model would have output had it read all lanes
\* of one of these views at once.  If a read has failed, only an alarm is.
OutputOfOneView ==
    [][ StepEnds =>
          \E i \in opened..seen :
              LET atOnce == i # 0 /\ Alert(views[i], sample.angle)
              IN  /\ Signals(hazard') => atOnce
                  /\ faults = 0 /\ atOnce => Signals(hazard')
      ]_vars

\* The output has changed no more often than the readings have, but for two
\* changes, there and back, for every read that failed: a step that begins
\* while the road or the wheel changes does not make the lights flicker.
NoFlicker == hazard <= seen + felt + 2 * faults

\* The hazard lights are on only if a view and a position of the wheel that
\* were read deserve it: no failed read, no mixture of two views and no output
\* that comes late to the broker makes up an alarm.
NoFalseAlarm ==
    Signals(target) =>
        \E i \in 1..seen, j \in 1..felt : Alert(views[i], wheel[j])

\* When the views and the wheel stay as they are, the broker comes to show the
\* alert that they deserve: the hazard lights go off once the simulator has
\* cleared the view, wherever the wheel points.
LightsFollowRoad ==
    <>[][FALSE]_<<views, wheel>>
        => <>[](Signals(target) = (/\ views # <<>>
                                   /\ Alert(views[Len(views)], wheel[Len(wheel)])))
=============================================================================

------------------------- MODULE PotholeAlertProofs -------------------------
(***************************************************************************)
(* The composition of the paths: whatever views are set, and whenever, an  *)
(* output of the model is one that a single view asks for.                 *)
(***************************************************************************)
EXTENDS PotholeAlert, SequenceTheorems, TLAPS

\* What was read of a lane in this step comes from a view between the one
\* known when the step began and the newest one seen; if a read has failed,
\* only what is true does.
FromOneView(l) ==
    \E i \in opened..seen :
        LET has == i # 0 /\ LaneHasPothole(l, views[i])
        IN  /\ sample[l] => has
            /\ faults = 0 /\ has => sample[l]

Witnessed == \A l \in Lanes \ unread : FromOneView(l)

Inv == TypeOK /\ Witnessed

-----------------------------------------------------------------------------
(* Lanes, zones and signals                                                *)

\* The lanes' tuples are the columns of the zones.
LEMMA LanesAreColumns ==
    ASSUME NEW v \in RoadViews, NEW p \in Positions
    PROVE  Alert(v, p) <=> \/ p = "left" /\ LaneHasPothole("left", v)
                           \/ p = "right" /\ LaneHasPothole("right", v)
  <1>1. Parsed(v) \subseteq Zones
    BY ViewsAssumption, GarbledAssumption DEF Parsed
  <1>2. \A z \in Zones : (z % 3 = 1 <=> z \in {1, 4, 7})
    <2> SUFFICES ASSUME NEW z \in Zones PROVE z % 3 = 1 <=> z \in {1, 4, 7}
      OBVIOUS
    <2>1. z \in {1, 2, 3, 4, 5, 6, 7, 8, 9}
      BY DEF Zones
    <2> QED
      BY <2>1
  <1>3. \A z \in Zones : (z % 3 = 0 <=> z \in {3, 6, 9})
    <2> SUFFICES ASSUME NEW z \in Zones PROVE z % 3 = 0 <=> z \in {3, 6, 9}
      OBVIOUS
    <2>1. z \in {1, 2, 3, 4, 5, 6, 7, 8, 9}
      BY DEF Zones
    <2> QED
      BY <2>1
  <1>4. LaneZones["left"] = {1, 4, 7} /\ LaneZones["right"] = {3, 6, 9}
    BY DEF LaneZones
  <1>5. LaneHasPothole("left", v) <=> \E z \in Parsed(v) : z % 3 = 1
    BY <1>1, <1>2, <1>4 DEF LaneHasPothole
  <1>6. LaneHasPothole("right", v) <=> \E z \in Parsed(v) : z % 3 = 0
    BY <1>1, <1>3, <1>4 DEF LaneHasPothole
  <1> QED
    BY <1>5, <1>6 DEF Alert

\* The epoch changes exactly when the signal does.
LEMMA SignalsDecision ==
    ASSUME NEW h \in Nat, NEW d \in BOOLEAN, NEW h2,
           h2 = IF d = Signals(h) THEN h ELSE h + 1
    PROVE  h2 \in Nat /\ (Signals(h2) <=> d)
  <1>1. h # None /\ h + 1 # None /\ h2 \in Nat
    BY NoneAssumption
  <1>2. (h + 1) % 2 = 1 <=> ~(h % 2 = 1)
    OBVIOUS
  <1>3. Signals(h) <=> h % 2 = 1
    BY <1>1 DEF Signals
  <1>4. Signals(h + 1) <=> (h + 1) % 2 = 1
    BY <1>1 DEF Signals
  <1>5. Signals(h) \in BOOLEAN
    BY DEF Signals
  <1>6. CASE d = Signals(h)
    BY <1>1, <1>6
  <1>7. CASE d # Signals(h)
    <2>1. h2 = h + 1
      BY <1>7
    <2>2. d <=> ~Signals(h)
      BY <1>5, <1>7
    <2> QED
      BY <1>1, <1>2, <1>3, <1>4, <2>1, <2>2
  <1> QED
    BY <1>6, <1>7

-----------------------------------------------------------------------------
(* The invariant                                                           *)

LEMMA InitInv == Init => Inv
  <1> SUFFICES ASSUME Init PROVE Inv
    OBVIOUS
  <1>1. PICK p \in Positions : wheel = <<p>>
    BY DEF Init
  <1>2. views \in Seq(RoadViews) /\ Len(views) = 0
    BY DEF Init
  <1>3. wheel \in Seq(Positions) /\ wheel # <<>> /\ Len(wheel) = 1
    BY <1>1, EmptySeq
  <1>4. sample \in [left : BOOLEAN, right : BOOLEAN, angle : Positions]
    BY DEF Init, NothingRead, Positions
  <1>5. TypeOK
    BY <1>2, <1>3, <1>4 DEF Init, TypeOK
  <1>6. Witnessed
    BY DEF Init, Witnessed, Inputs
  <1> QED
    BY <1>5, <1>6 DEF Inv

\* A reading of a lane replaces the sample of that lane only.
LEMMA ReadsLane ==
    ASSUME NEW l \in Lanes, NEW b \in BOOLEAN, TypeOK,
           sample' = [sample EXCEPT ![l] = b]
    PROVE  /\ sample' \in [left : BOOLEAN, right : BOOLEAN, angle : Positions]
           /\ sample'[l] = b
           /\ \A m \in Lanes \ {l} : sample'[m] = sample[m]
  <1>1. sample \in [left : BOOLEAN, right : BOOLEAN, angle : Positions]
    BY DEF TypeOK
  <1>2. CASE l = "left"
    BY <1>1, <1>2 DEF Lanes
  <1>3. CASE l = "right"
    BY <1>1, <1>3 DEF Lanes
  <1> QED
    BY <1>2, <1>3 DEF Lanes

LEMMA ReadLaneInv ==
    ASSUME NEW l \in Lanes, Inv, ReadLane(l)
    PROVE  Inv'
  <1> DEFINE has == seen' # 0 /\ LaneHasPothole(l, views[seen'])
  <1>1. seen' \in seen..Len(views) /\ seen \in 0..Len(views) /\ opened \in 0..seen
        /\ Len(views) \in Nat
    BY DEF ReadLane, LanePath!Read, Inv, TypeOK
  <1>2. /\ UNCHANGED <<views, wheel, felt, opened, hazard, target, faults>>
        /\ unread' = unread \ {l}
        /\ sample' = [sample EXCEPT ![l] = has]
    BY DEF ReadLane
  <1>3. has \in BOOLEAN
    OBVIOUS
  <1> HIDE DEF has
  <1>4. /\ sample' \in [left : BOOLEAN, right : BOOLEAN, angle : Positions]
        /\ sample'[l] = has
        /\ \A m \in Lanes \ {l} : sample'[m] = sample[m]
    BY <1>2, <1>3, ReadsLane DEF Inv
  <1>5. TypeOK'
    BY <1>1, <1>2, <1>4 DEF Inv, TypeOK
  <1>6. ASSUME NEW m \in Lanes \ unread'
        PROVE  FromOneView(m)'
    <2>1. CASE m = l
      <3>1. seen' \in opened'..seen'
        BY <1>1, <1>2
      <3>2. sample'[m] = (seen' # 0 /\ LaneHasPothole(m, views'[seen']))
        BY <1>2, <1>4, <2>1 DEF has
      <3> QED
        BY <3>1, <3>2 DEF FromOneView, LaneHasPothole, Parsed
    <2>2. CASE m # l
      <3>1. m \in Lanes \ unread /\ sample'[m] = sample[m]
        BY <1>2, <1>4, <2>2
      <3>2. opened..seen \subseteq opened'..seen'
        BY <1>1, <1>2
      <3>3. FromOneView(m)
        BY <3>1 DEF Inv, Witnessed
      <3> QED
        BY <1>2, <3>1, <3>2, <3>3 DEF FromOneView, LaneHasPothole, Parsed
    <2> QED
      BY <2>1, <2>2
  <1> QED
    BY <1>5, <1>6 DEF Inv, Witnessed

LEMMA ReadFailsInv ==
    ASSUME NEW input \in Inputs, Inv, ReadFails(input)
    PROVE  Inv'
  <1>1. /\ UNCHANGED <<views, wheel, seen, felt, opened, hazard, target>>
        /\ unread' = unread \ {input} /\ faults' = faults + 1 /\ faults \in Nat
        /\ sample' = [sample EXCEPT ![input] = NothingRead[input]]
        /\ sample \in [left : BOOLEAN, right : BOOLEAN, angle : Positions]
        /\ opened \in 0..seen /\ seen \in 0..Len(views)
    BY DEF ReadFails, Inv, TypeOK
  <1>2. /\ sample' \in [left : BOOLEAN, right : BOOLEAN, angle : Positions]
        /\ \A m \in Lanes : IF m = input THEN sample'[m] = FALSE
                                         ELSE sample'[m] = sample[m]
    <2>1. CASE input = "left"
      BY <1>1, <2>1 DEF NothingRead, Lanes
    <2>2. CASE input = "right"
      BY <1>1, <2>2 DEF NothingRead, Lanes
    <2>3. CASE input = "angle"
      BY <1>1, <2>3 DEF NothingRead, Lanes, Positions
    <2> QED
      BY <2>1, <2>2, <2>3 DEF Inputs, Lanes
  <1>3. TypeOK'
    BY <1>1, <1>2 DEF Inv, TypeOK
  <1>4. faults' # 0
    BY <1>1
  <1>5. ASSUME NEW m \in Lanes \ unread'
        PROVE  FromOneView(m)'
    <2>1. CASE m = input
      <3>1. seen' \in opened'..seen'
        <4>1. Len(views) \in Nat
          BY DEF Inv, TypeOK
        <4> QED
          BY <1>1, <4>1
      <3>2. ~sample'[m]
        BY <1>2, <2>1
      <3> QED
        BY <1>4, <3>1, <3>2 DEF FromOneView
    <2>2. CASE m # input
      <3>1. m \in Lanes \ unread /\ sample'[m] = sample[m]
        BY <1>1, <1>2, <2>2
      <3>2. FromOneView(m)
        BY <3>1 DEF Inv, Witnessed
      <3>3. PICK i \in opened..seen :
               sample[m] => (i # 0 /\ LaneHasPothole(m, views[i]))
        BY <3>2 DEF FromOneView
      <3> QED
        BY <1>1, <1>4, <3>1, <3>3 DEF FromOneView, LaneHasPothole, Parsed
    <2> QED
      BY <2>1, <2>2
  <1> QED
    BY <1>3, <1>5 DEF Inv, Witnessed

LEMMA NextInv == Inv /\ [Next]_vars => Inv'
  <1> SUFFICES ASSUME Inv, [Next]_vars PROVE Inv'
    OBVIOUS
  <1>t. /\ views \in Seq(RoadViews) /\ wheel \in Seq(Positions) \ {<<>>}
        /\ Len(views) \in Nat /\ Len(wheel) \in Nat
        /\ seen \in 0..Len(views) /\ felt \in 0..Len(wheel)
        /\ unread \subseteq Inputs
        /\ sample \in [left : BOOLEAN, right : BOOLEAN, angle : Positions]
        /\ opened \in 0..seen
        /\ hazard \in Nat /\ target \in {None} \union Nat /\ faults \in Nat
    BY DEF Inv, TypeOK
  <1>1. CASE SetView
    <2>1. PICK v \in RoadViews : views' = Append(views, v)
      BY <1>1 DEF SetView
    <2>2. UNCHANGED <<wheel, seen, felt, unread, sample, opened, hazard, target, faults>>
      BY <1>1 DEF SetView, stepVars
    <2>3. /\ views' \in Seq(RoadViews) /\ Len(views') = Len(views) + 1
          /\ \A i \in 1..Len(views) : views'[i] = views[i]
      BY <1>t, <2>1
    <2>4. TypeOK'
      BY <1>t, <2>2, <2>3 DEF TypeOK
    <2>5. ASSUME NEW m \in Lanes \ unread' PROVE FromOneView(m)'
      <3>1. FromOneView(m)
        BY <2>2 DEF Inv, Witnessed
      <3>2. PICK i \in opened..seen :
               LET has == i # 0 /\ LaneHasPothole(m, views[i])
               IN  /\ sample[m] => has
                   /\ faults = 0 /\ has => sample[m]
        BY <3>1 DEF FromOneView
      <3>3. i = 0 \/ views'[i] = views[i]
        BY <1>t, <2>3
      <3>4. i \in opened'..seen'
        BY <2>2
      <3>5. (i # 0 /\ LaneHasPothole(m, views'[i]))
               <=> (i # 0 /\ LaneHasPothole(m, views[i]))
        BY <3>3
      <3> QED
        BY <2>2, <3>2, <3>4, <3>5 DEF FromOneView, LaneHasPothole, Parsed
    <2> QED
      BY <2>4, <2>5 DEF Inv, Witnessed
  <1>2. CASE Turn
    <2>1. PICK p \in Positions : wheel' = Append(wheel, p)
      BY <1>2 DEF Turn
    <2>2. UNCHANGED <<views, seen, felt, unread, sample, opened, hazard, target, faults>>
      BY <1>2 DEF Turn, stepVars
    <2>3. wheel' \in Seq(Positions) /\ Len(wheel') = Len(wheel) + 1
      BY <1>t, <2>1
    <2>4. wheel' # <<>>
      BY <1>t, <2>3, EmptySeq
    <2>5. TypeOK'
      BY <1>t, <2>2, <2>3, <2>4 DEF TypeOK
    <2> QED
      BY <2>2, <2>5 DEF Inv, Witnessed, FromOneView, LaneHasPothole, Parsed
  <1>3. CASE \E l \in Lanes : ReadLane(l)
    BY <1>3, ReadLaneInv
  <1>4. CASE ReadAngle
    <2>1. /\ UNCHANGED <<views, wheel, seen, opened, hazard, target, faults>>
          /\ unread' = unread \ {"angle"} /\ felt' \in felt..Len(wheel)
          /\ sample' = [sample EXCEPT
                          !.angle = IF felt' = 0 THEN "straight" ELSE wheel[felt']]
      BY <1>4 DEF ReadAngle, AnglePath!Read
    <2>2. felt' \in 0..Len(wheel) /\ (felt' # 0 => felt' \in 1..Len(wheel))
      BY <1>t, <2>1
    <2>3. (IF felt' = 0 THEN "straight" ELSE wheel[felt']) \in Positions
      BY <1>t, <2>2 DEF Positions
    <2>4. /\ sample' \in [left : BOOLEAN, right : BOOLEAN, angle : Positions]
          /\ \A m \in Lanes : sample'[m] = sample[m]
      BY <1>t, <2>1, <2>3 DEF Lanes
    <2>5. TypeOK'
      BY <1>t, <2>1, <2>2, <2>4 DEF TypeOK
    <2>6. Lanes \ unread' = Lanes \ unread
      BY <2>1 DEF Lanes
    <2>7. Witnessed'
      BY <2>1, <2>4, <2>6 DEF Inv, Witnessed, FromOneView, LaneHasPothole, Parsed
    <2> QED
      BY <2>5, <2>7 DEF Inv
  <1>5. CASE \E input \in Inputs : ReadFails(input)
    BY <1>5, ReadFailsInv
  <1>6. CASE StepEnds
    <2>1. /\ hazard' \in Nat /\ unread' = Inputs /\ sample' = NothingRead
          /\ opened' = seen /\ UNCHANGED <<views, wheel, seen, felt, target, faults>>
      BY <1>6, <1>t DEF StepEnds
    <2>2. NothingRead \in [left : BOOLEAN, right : BOOLEAN, angle : Positions]
      BY DEF NothingRead, Positions
    <2>3. TypeOK'
      BY <1>t, <2>1, <2>2 DEF TypeOK
    <2>4. Witnessed'
      BY <2>1 DEF Witnessed, Inputs
    <2> QED
      BY <2>3, <2>4 DEF Inv
  <1>7. CASE Publish
    <2>1. /\ UNCHANGED <<views, wheel, seen, felt, unread, sample, opened, hazard, faults>>
          /\ target' \in Nat
      BY <1>7, <1>t DEF Publish, HazardPath!Publish, stepVars
    <2>2. TypeOK'
      BY <1>t, <2>1 DEF TypeOK
    <2> QED
      BY <2>1, <2>2 DEF Inv, Witnessed, FromOneView, LaneHasPothole, Parsed
  <1>8. CASE UNCHANGED vars
    BY <1>8 DEF vars, stepVars, Inv, TypeOK, Witnessed, FromOneView,
                LaneHasPothole, Parsed
  <1> QED
    BY <1>1, <1>2, <1>3, <1>4, <1>5, <1>6, <1>7, <1>8 DEF Next, Model

LEMMA Invariance == Spec => []Inv
  BY InitInv, NextInv, PTL DEF Spec

-----------------------------------------------------------------------------

\* The lanes and the angle of a step, and the signals, keep their ranges.
THEOREM AlertTypeCorrect == Spec => []TypeOK
  <1>1. Inv => TypeOK
    BY DEF Inv
  <1> QED
    BY <1>1, Invariance, PTL

\* For every set of views: although da_get_pothole_left and
\* da_get_pothole_right read one after the other, and some reads fail, a step
\* outputs what a single view asks for.
THEOREM AlertIsOfOneView == Spec => OutputOfOneView
  <1> DEFINE atOnce(i) == i # 0 /\ Alert(views[i], sample.angle)
             A == StepEnds =>
                    \E i \in opened..seen :
                        /\ Signals(hazard') => atOnce(i)
                        /\ faults = 0 /\ atOnce(i) => Signals(hazard')
  <1>1. Inv /\ [Next]_vars => A
    <2> SUFFICES ASSUME Inv, StepEnds
                 PROVE  \E i \in opened..seen :
                           /\ Signals(hazard') => atOnce(i)
                           /\ faults = 0 /\ atOnce(i) => Signals(hazard')
      OBVIOUS
    <2>t. /\ views \in Seq(RoadViews) /\ Len(views) \in Nat
          /\ seen \in 0..Len(views) /\ opened \in 0..seen /\ hazard \in Nat
          /\ sample \in [left : BOOLEAN, right : BOOLEAN, angle : Positions]
      BY DEF Inv, TypeOK
    <2>1. Decides(sample) \in BOOLEAN
      BY DEF Decides
    <2>2. Signals(hazard') <=> Decides(sample)
      BY <2>1, <2>t, SignalsDecision DEF StepEnds
    <2>3. \A i \in opened..seen : i # 0 => views[i] \in RoadViews
      <3> SUFFICES ASSUME NEW i \in opened..seen, i # 0
                   PROVE  views[i] \in RoadViews
        OBVIOUS
      <3>1. i \in 1..Len(views)
        BY <2>t
      <3> QED
        BY <2>t, <3>1
    <2>4. ASSUME NEW l \in Lanes, sample.angle = l
          PROVE  \E i \in opened..seen :
                    /\ Signals(hazard') => atOnce(i)
                    /\ faults = 0 /\ atOnce(i) => Signals(hazard')
      <3>1. Decides(sample) <=> sample[l]
        <4>1. CASE l = "left"
          BY <2>4, <4>1 DEF Decides
        <4>2. CASE l = "right"
          BY <2>4, <4>2 DEF Decides
        <4> QED
          BY <4>1, <4>2 DEF Lanes
      <3>2. PICK i \in opened..seen :
               LET has == i # 0 /\ LaneHasPothole(l, views[i])
               IN  /\ sample[l] => has
                   /\ faults = 0 /\ has => sample[l]
        BY DEF StepEnds, Inv, Witnessed, FromOneView
      <3>3. atOnce(i) <=> (i # 0 /\ LaneHasPothole(l, views[i]))
        <4>1. CASE i = 0
          BY <4>1
        <4>2. CASE i # 0
          <5>1. views[i] \in RoadViews /\ l \in Positions
            BY <2>3, <4>2 DEF Lanes, Positions
          <5>2. Alert(views[i], l) <=> LaneHasPothole(l, views[i])
            BY <5>1, LanesAreColumns DEF Lanes
          <5> QED
            BY <2>4, <4>2, <5>2
        <4> QED
          BY <4>1, <4>2
      <3> QED
        BY <2>2, <3>1, <3>2, <3>3
    <2>5. CASE sample.angle = "straight"
      <3>1. ~Decides(sample)
        BY <2>5 DEF Decides
      <3>2. ~atOnce(seen)
        BY <2>5 DEF Alert
      <3>3. seen \in opened..seen
        BY <2>t
      <3> QED
        BY <2>2, <3>1, <3>2, <3>3
    <2>6. sample.angle \in Lanes \/ sample.angle = "straight"
      BY <2>t DEF Lanes, Positions
    <2> QED
      BY <2>4, <2>5, <2>6
  <1>2. ASSUME Inv, [Next]_vars
        PROVE  [A]_vars
    BY <1>1, <1>2
  <1> QED
    BY <1>2, Invariance, PTL DEF Spec, OutputOfOneView

-----------------------------------------------------------------------------
(* How often the output changes                                            *)

\* What the model outputs for the view i and the position j of the wheel.
Due(i, j) == i # 0 /\ j # 0 /\ Alert(views[i], wheel[j])

\* The output is what one pair of readings made before this step asks for, and
\* there were as many readings as changes.
Settled ==
    \E i \in 0..opened, j \in 0..felt :
        /\ Signals(hazard) <=> Due(i, j)
        /\ hazard <= i + j + 2 * faults

\* It may change n times before as many changes as readings are made.
Spare(n) == \E i \in 0..opened, j \in 0..felt : hazard + n <= i + j + 2 * faults

Paced == Settled \/ Spare(1)

\* What was read of a lane in this step is what a view of this step has there,
\* or a read has failed, and with it two more changes are allowed.
LaneRead(l) ==
    \/ Spare(2)
    \/ \E i \in opened..seen :
          sample[l] <=> (i # 0 /\ LaneHasPothole(l, views[i]))

\* The same for the angle.
AngleRead ==
    \/ Spare(2)
    \/ sample.angle = IF felt = 0 THEN "straight" ELSE wheel[felt]

Pace ==
    /\ Paced
    /\ \A l \in Lanes \ unread : LaneRead(l)
    /\ "angle" \notin unread => AngleRead

LEMMA PaceInit == Init => Pace
  <1> SUFFICES ASSUME Init PROVE Pace
    OBVIOUS
  <1>1. Settled
    <2>1. 0 \in 0..opened /\ 0 \in 0..felt /\ 0 # None
      BY NoneAssumption DEF Init
    <2>2. ~Signals(hazard) /\ ~Due(0, 0)
      BY DEF Init, Signals, Due
    <2>3. hazard <= 0 + 0 + 2 * faults
      BY DEF Init
    <2> QED
      BY <2>1, <2>2, <2>3 DEF Settled
  <1> QED
    BY <1>1 DEF Init, Pace, Paced, Inputs

\* Views and positions are only added, and readings only become newer.
Extends ==
    /\ \A i \in 1..Len(views) : views'[i] = views[i]
    /\ \A j \in 1..Len(wheel) : wheel'[j] = wheel[j]
    /\ opened' = opened /\ felt' \in felt..Len(wheel')

\* Such a step, if it leaves the output as it is, leaves room for changes.
LEMMA ExtendsSpare ==
    ASSUME TypeOK, Extends, UNCHANGED <<hazard, faults>>, NEW n \in Nat, Spare(n)
    PROVE  Spare(n)'
  <1>1. PICK i \in 0..opened, j \in 0..felt : hazard + n <= i + j + 2 * faults
    BY DEF Spare
  <1>2. i \in 0..opened' /\ j \in 0..felt'
    BY DEF Extends, TypeOK
  <1> QED
    BY <1>1, <1>2 DEF Spare

\* Such a step leaves what is due for earlier readings as it is.
LEMMA ExtendsDue ==
    ASSUME TypeOK, Extends, NEW i \in 0..seen, NEW j \in 0..felt
    PROVE  Due(i, j)' <=> Due(i, j)
  <1>1. i # 0 => views'[i] = views[i]
    BY DEF Extends, TypeOK
  <1>2. j # 0 => wheel'[j] = wheel[j]
    BY DEF Extends, TypeOK
  <1> QED
    BY <1>1, <1>2 DEF Due, Alert, Parsed

LEMMA ExtendsPaced ==
    ASSUME TypeOK, Extends, UNCHANGED <<hazard, faults>>, Paced
    PROVE  Paced'
  <1>1. CASE Spare(1)
    BY <1>1, ExtendsSpare DEF Paced
  <1>2. CASE Settled
    <2>1. PICK i \in 0..opened, j \in 0..felt :
             /\ Signals(hazard) <=> Due(i, j)
             /\ hazard <= i + j + 2 * faults
      BY <1>2 DEF Settled
    <2>2. i \in 0..opened' /\ j \in 0..felt' /\ i \in 0..seen
      BY DEF Extends, TypeOK
    <2>3. Due(i, j)' <=> Due(i, j)
      BY <2>2, ExtendsDue
    <2>4. Signals(hazard)' <=> Signals(hazard)
      BY DEF Signals
    <2>5. hazard' <= i + j + 2 * faults'
      BY <2>1
    <2>6. Settled'
      BY <2>1, <2>2, <2>3, <2>4, <2>5 DEF Settled
    <2> QED
      BY <2>6 DEF Paced
  <1> QED
    BY <1>1, <1>2 DEF Paced

\* Such a step leaves what was read of a lane as it is.
LEMMA ExtendsLaneRead ==
    ASSUME TypeOK, Extends, UNCHANGED <<hazard, faults>>,
           seen' \in seen..Len(views'), Len(views') \in Nat,
           NEW l \in Lanes, LaneRead(l), sample'[l] = sample[l]
    PROVE  LaneRead(l)'
  <1>1. CASE Spare(2)
    BY <1>1, ExtendsSpare DEF LaneRead
  <1>2. CASE ~Spare(2)
    <2>1. PICK i \in opened..seen :
             sample[l] <=> (i # 0 /\ LaneHasPothole(l, views[i]))
      BY <1>2 DEF LaneRead
    <2>2. i \in opened'..seen'
      BY DEF Extends, TypeOK
    <2>3. i # 0 => views'[i] = views[i]
      BY DEF Extends, TypeOK
    <2>4. sample'[l] <=> (i # 0 /\ LaneHasPothole(l, views'[i]))
      BY <2>1, <2>3
    <2>5. \E k \in opened'..seen' :
             sample'[l] <=> (k # 0 /\ LaneHasPothole(l, views'[k]))
      BY <2>2, <2>4
    <2> QED
      BY <2>5 DEF LaneRead, LaneHasPothole, Parsed
  <1> QED
    BY <1>1, <1>2

\* A read that fails allows two more changes, whatever it was to read.
LEMMA FailurePays ==
    ASSUME TypeOK, Paced, NEW input \in Inputs, ReadFails(input)
    PROVE  Spare(2)' /\ Spare(1)'
  <1>1. PICK i \in 0..opened, j \in 0..felt : hazard <= i + j + 2 * faults
    <2>1. CASE Settled
      BY <2>1 DEF Settled
    <2>2. CASE Spare(1)
      <3>1. PICK i \in 0..opened, j \in 0..felt :
               hazard + 1 <= i + j + 2 * faults
        BY <2>2 DEF Spare
      <3>2. hazard <= i + j + 2 * faults
        BY <3>1 DEF TypeOK
      <3> QED
        BY <3>2
    <2> QED
      BY <2>1, <2>2 DEF Paced
  <1>2. /\ UNCHANGED <<hazard, opened, felt>> /\ faults' = faults + 1
        /\ hazard \in Nat /\ faults \in Nat /\ opened \in Nat /\ felt \in Nat
    BY DEF ReadFails, TypeOK
  <1>3. hazard' + 2 <= i + j + 2 * faults' /\ hazard' + 1 <= i + j + 2 * faults'
    BY <1>1, <1>2
  <1> QED
    BY <1>1, <1>2, <1>3 DEF Spare

\* When all was read, and nothing failed, the output is due for the pair of
\* readings of this step.
LEMMA StepIsDue ==
    ASSUME Inv, Pace, unread = {}, ~Spare(2)
    PROVE  \E i \in opened..seen : Decides(sample) <=> Due(i, felt)
  <1>t. /\ views \in Seq(RoadViews) /\ Len(views) \in Nat
        /\ wheel \in Seq(Positions) /\ Len(wheel) \in Nat
        /\ seen \in 0..Len(views) /\ opened \in 0..seen /\ felt \in 0..Len(wheel)
        /\ sample \in [left : BOOLEAN, right : BOOLEAN, angle : Positions]
    BY DEF Inv, TypeOK
  <1>1. sample.angle = IF felt = 0 THEN "straight" ELSE wheel[felt]
    BY DEF Pace, AngleRead
  <1>2. CASE sample.angle = "straight"
    <2>1. ~Decides(sample)
      BY <1>2 DEF Decides
    <2>2. ~Due(seen, felt)
      BY <1>1, <1>2 DEF Due, Alert
    <2>3. seen \in opened..seen
      BY <1>t
    <2> QED
      BY <2>1, <2>2, <2>3
  <1>3. ASSUME NEW l \in Lanes, sample.angle = l
        PROVE  \E i \in opened..seen : Decides(sample) <=> Due(i, felt)
    <2>1. Decides(sample) <=> sample[l]
      BY <1>3 DEF Decides, Lanes
    <2>2. felt # 0 /\ wheel[felt] = l
      BY <1>1, <1>3 DEF Lanes
    <2>3. LaneRead(l)
      BY DEF Pace
    <2>4. PICK i \in opened..seen :
             sample[l] <=> (i # 0 /\ LaneHasPothole(l, views[i]))
      BY <2>3 DEF LaneRead
    <2>5. CASE i = 0
      BY <2>1, <2>4, <2>5 DEF Due
    <2>6. CASE i # 0
      <3>1. i \in 1..Len(views)
        BY <1>t, <2>6
      <3>2. views[i] \in RoadViews /\ l \in Positions
        BY <1>t, <3>1 DEF Lanes, Positions
      <3>3. Alert(views[i], l) <=> LaneHasPothole(l, views[i])
        BY <3>2, LanesAreColumns DEF Lanes
      <3> QED
        BY <2>1, <2>2, <2>4, <2>6, <3>3 DEF Due
    <2> QED
      BY <2>5, <2>6
  <1> QED
    BY <1>2, <1>3, <1>t DEF Positions, Lanes

\* At most one change, and only if a reading has changed or one is to spare.
LEMMA StepEndsPace == ASSUME Inv, Pace, StepEnds PROVE Pace'
  <1>t. /\ seen \in Nat /\ opened \in 0..seen /\ felt \in Nat
        /\ hazard \in Nat /\ faults \in Nat
    BY DEF Inv, TypeOK
  <1>1. /\ unread = {} /\ unread' = Inputs /\ opened' = seen
        /\ UNCHANGED <<views, wheel, seen, felt, faults>>
        /\ hazard' = IF Decides(sample) = Signals(hazard) THEN hazard ELSE hazard + 1
    BY DEF StepEnds
  <1>2. Decides(sample) \in BOOLEAN
    BY DEF Decides
  <1>3. hazard' \in Nat /\ (Signals(hazard') <=> Decides(sample))
    BY <1>t, <1>1, <1>2, SignalsDecision
  <1>4. hazard' \in {hazard, hazard + 1}
    BY <1>1
  <1>5. Paced'
    <2>1. CASE Spare(2)
      <3>1. PICK i \in 0..opened, j \in 0..felt :
               hazard + 2 <= i + j + 2 * faults
        BY <2>1 DEF Spare
      <3>2. i \in 0..opened' /\ j \in 0..felt'
        BY <1>t, <1>1
      <3>3. hazard' + 1 <= i + j + 2 * faults'
        BY <1>t, <1>1, <1>4, <3>1
      <3> QED
        BY <3>2, <3>3 DEF Paced, Spare
    <2>2. CASE ~Spare(2)
      <3>1. PICK i2 \in opened..seen : Decides(sample) <=> Due(i2, felt)
        BY <1>1, <2>2, StepIsDue
      <3>2. i2 \in 0..opened' /\ i2 \in Nat /\ opened <= i2
        BY <1>t, <1>1
      <3> PICK j2 \in 0..felt : j2 = felt
        BY <1>t
      <3>3. Signals(hazard)' <=> Due(i2, j2)'
        <4>1. Due(i2, j2)' <=> Due(i2, felt)
          BY <1>1 DEF Due, Alert, Parsed
        <4>2. Signals(hazard)' <=> Signals(hazard')
          BY DEF Signals
        <4> QED
          BY <1>3, <3>1, <4>1, <4>2
      <3>4. hazard' <= i2 + felt + 2 * faults'
        <4>1. CASE Spare(1)
          <5>1. PICK i \in 0..opened, j \in 0..felt :
                   hazard + 1 <= i + j + 2 * faults
            BY <4>1 DEF Spare
          <5> QED
            BY <1>t, <1>1, <1>4, <3>2, <5>1
        <4>2. CASE Settled
          <5>1. PICK i \in 0..opened, j \in 0..felt :
                   /\ Signals(hazard) <=> Due(i, j)
                   /\ hazard <= i + j + 2 * faults
            BY <4>2 DEF Settled
          <5>2. CASE hazard' = hazard
            BY <1>t, <1>1, <3>2, <5>1, <5>2
          <5>3. CASE hazard' # hazard
            <6>1. ~(Decides(sample) <=> Signals(hazard))
              <7>1. Signals(hazard) \in BOOLEAN
                BY DEF Signals
              <7>2. Decides(sample) # Signals(hazard)
                BY <1>1, <5>3
              <7> QED
                BY <1>2, <7>1, <7>2
            <6>2. ~(i = i2 /\ j = felt)
              BY <3>1, <5>1, <6>1
            <6>3. i + j + 1 <= i2 + felt
              BY <1>t, <3>2, <5>1, <6>2
            <6> QED
              BY <1>t, <1>1, <1>4, <3>2, <5>1, <6>3
          <5> QED
            BY <5>2, <5>3
        <4> QED
          BY <4>1, <4>2 DEF Pace, Paced
      <3>5. j2 \in 0..felt' /\ hazard' <= i2 + j2 + 2 * faults'
        BY <1>1, <3>4
      <3>6. Settled'
        BY <3>2, <3>3, <3>5 DEF Settled
      <3> QED
        BY <3>6 DEF Paced
    <2> QED
      BY <2>1, <2>2
  <1> QED
    BY <1>1, <1>5 DEF Pace, Inputs, Lanes

LEMMA ReadLanePace ==
    ASSUME NEW l \in Lanes, Inv, Pace, ReadLane(l)
    PROVE  Pace'
  <1> DEFINE has == seen' # 0 /\ LaneHasPothole(l, views[seen'])
  <1>1. /\ seen' \in seen..Len(views) /\ seen \in 0..Len(views)
        /\ opened \in 0..seen /\ felt \in 0..Len(wheel)
        /\ Len(views) \in Nat /\ Len(wheel) \in Nat
    BY DEF ReadLane, LanePath!Read, Inv, TypeOK
  <1>2. /\ UNCHANGED <<views, wheel, felt, opened, hazard, target, faults>>
        /\ unread' = unread \ {l}
        /\ sample' = [sample EXCEPT ![l] = has]
    BY DEF ReadLane
  <1>3. Extends
    BY <1>1, <1>2 DEF Extends
  <1>4. Paced'
    BY <1>2, <1>3, ExtendsPaced DEF Inv, Pace
  <1>5. has \in BOOLEAN
    OBVIOUS
  <1> HIDE DEF has
  <1>6. /\ sample'[l] = has
        /\ \A m \in Lanes \ {l} : sample'[m] = sample[m]
    BY <1>2, <1>5, ReadsLane DEF Inv
  <1>7. ASSUME NEW m \in Lanes \ unread'
        PROVE  LaneRead(m)'
    <2>1. CASE m = l
      <3>1. seen' \in opened'..seen'
        BY <1>1, <1>2
      <3>2. sample'[m] <=> (seen' # 0 /\ LaneHasPothole(m, views'[seen']))
        BY <1>2, <1>6, <2>1 DEF has
      <3>3. \E i \in opened'..seen' :
               sample'[m] <=> (i # 0 /\ LaneHasPothole(m, views'[i]))
        BY <3>1, <3>2
      <3> QED
        BY <3>3 DEF LaneRead, LaneHasPothole, Parsed
    <2>2. CASE m # l
      <3>1. LaneRead(m) /\ sample'[m] = sample[m]
        BY <1>2, <1>6, <2>2 DEF Pace
      <3>2. seen' \in seen..Len(views') /\ Len(views') \in Nat
        BY <1>1, <1>2
      <3> QED
        BY <1>2, <1>3, <3>1, <3>2, ExtendsLaneRead DEF Inv
    <2> QED
      BY <2>1, <2>2
  <1>8. "angle" \notin unread' => AngleRead'
    <2> SUFFICES ASSUME "angle" \notin unread' PROVE AngleRead'
      OBVIOUS
    <2>1. AngleRead
      BY <1>2 DEF Pace, Lanes
    <2>2. CASE Spare(2)
      BY <1>2, <1>3, <2>2, ExtendsSpare DEF Inv, AngleRead
    <2>3. CASE ~Spare(2)
      <3>1. sample'.angle = sample.angle
        BY <1>2 DEF Lanes, Inv, TypeOK
      <3> QED
        BY <1>2, <2>1, <2>3, <3>1 DEF AngleRead
    <2> QED
      BY <2>2, <2>3
  <1> QED
    BY <1>4, <1>7, <1>8 DEF Pace

LEMMA ReadAnglePace == ASSUME Inv, Pace, ReadAngle PROVE Pace'
  <1>1. /\ felt' \in felt..Len(wheel) /\ seen \in 0..Len(views)
        /\ opened \in 0..seen /\ felt \in 0..Len(wheel)
        /\ Len(views) \in Nat /\ Len(wheel) \in Nat
    BY DEF ReadAngle, AnglePath!Read, Inv, TypeOK
  <1>2. /\ UNCHANGED <<views, wheel, seen, opened, hazard, target, faults>>
        /\ unread' = unread \ {"angle"}
        /\ sample' = [sample EXCEPT
                        !.angle = IF felt' = 0 THEN "straight" ELSE wheel[felt']]
    BY DEF ReadAngle
  <1>3. Extends
    BY <1>1, <1>2 DEF Extends
  <1>4. Paced'
    BY <1>2, <1>3, ExtendsPaced DEF Inv, Pace
  <1>5. /\ sample'.angle = IF felt' = 0 THEN "straight" ELSE wheel'[felt']
        /\ \A m \in Lanes : sample'[m] = sample[m]
    BY <1>2 DEF Inv, TypeOK, Lanes
  <1>6. ASSUME NEW m \in Lanes \ unread' PROVE LaneRead(m)'
    <2>1. LaneRead(m)
      BY <1>2 DEF Pace, Lanes
    <2>2. seen' \in seen..Len(views') /\ Len(views') \in Nat
      BY <1>1, <1>2
    <2> QED
      BY <1>2, <1>3, <1>5, <2>1, <2>2, ExtendsLaneRead DEF Inv
  <1>7. AngleRead'
    BY <1>5 DEF AngleRead
  <1> QED
    BY <1>4, <1>6, <1>7 DEF Pace

LEMMA ReadFailsPace ==
    ASSUME NEW input \in Inputs, Inv, Pace, ReadFails(input)
    PROVE  Pace'
  <1>1. Spare(2)' /\ Spare(1)'
    BY FailurePays DEF Inv, Pace
  <1> QED
    BY <1>1 DEF Pace, Paced, LaneRead, AngleRead

\* What happens outside a step leaves what it has read as it is.
LEMMA OthersPace ==
    ASSUME Inv, Pace, Extends,
           seen' = seen, Len(views') \in Nat, Len(views) <= Len(views'),
           UNCHANGED <<felt, unread, sample, hazard, faults>>
    PROVE  Pace'
  <1>1. Paced'
    BY ExtendsPaced DEF Inv, Pace
  <1>2. ASSUME NEW m \in Lanes \ unread' PROVE LaneRead(m)'
    <2>1. LaneRead(m)
      BY DEF Pace
    <2>2. seen' \in seen..Len(views')
      BY DEF Inv, TypeOK
    <2> QED
      BY <2>1, <2>2, ExtendsLaneRead DEF Inv
  <1>3. "angle" \notin unread' => AngleRead'
    <2> SUFFICES ASSUME "angle" \notin unread' PROVE AngleRead'
      OBVIOUS
    <2>1. AngleRead
      BY DEF Pace
    <2>2. CASE Spare(2)
      BY <2>2, ExtendsSpare DEF Inv, AngleRead
    <2>3. CASE ~Spare(2)
      <3>1. felt # 0 => wheel'[felt] = wheel[felt]
        BY DEF Inv, TypeOK, Extends
      <3> QED
        BY <2>1, <2>3, <3>1 DEF AngleRead
    <2> QED
      BY <2>2, <2>3
  <1> QED
    BY <1>1, <1>2, <1>3 DEF Pace

LEMMA NextPace == Inv /\ Pace /\ [Next]_vars => Pace'
  <1> SUFFICES ASSUME Inv, Pace, [Next]_vars PROVE Pace'
    OBVIOUS
  <1>t. /\ views \in Seq(RoadViews) /\ wheel \in Seq(Positions)
        /\ Len(views) \in Nat /\ Len(wheel) \in Nat /\ felt \in 0..Len(wheel)
    BY DEF Inv, TypeOK
  <1>1. CASE SetView
    <2>1. PICK v \in RoadViews : views' = Append(views, v)
      BY <1>1 DEF SetView
    <2>2. UNCHANGED <<wheel, seen, felt, unread, sample, opened, hazard, faults>>
      BY <1>1 DEF SetView, stepVars
    <2>3. /\ Len(views') = Len(views) + 1
          /\ \A i \in 1..Len(views) : views'[i] = views[i]
      BY <1>t, <2>1
    <2>4. Extends
      BY <1>t, <2>2, <2>3 DEF Extends
    <2> QED
      BY <1>t, <2>2, <2>3, <2>4, OthersPace
  <1>2. CASE Turn
    <2>1. PICK p \in Positions : wheel' = Append(wheel, p)
      BY <1>2 DEF Turn
    <2>2. UNCHANGED <<views, seen, felt, unread, sample, opened, hazard, faults>>
      BY <1>2 DEF Turn, stepVars
    <2>3. /\ Len(wheel') = Len(wheel) + 1
          /\ \A j \in 1..Len(wheel) : wheel'[j] = wheel[j]
      BY <1>t, <2>1
    <2>4. Extends
      BY <1>t, <2>2, <2>3 DEF Extends
    <2> QED
      BY <1>t, <2>2, <2>4, OthersPace
  <1>3. CASE \E l \in Lanes : ReadLane(l)
    BY <1>3, ReadLanePace
  <1>4. CASE ReadAngle
    BY <1>4, ReadAnglePace
  <1>5. CASE \E input \in Inputs : ReadFails(input)
    BY <1>5, ReadFailsPace
  <1>6. CASE StepEnds
    BY <1>6, StepEndsPace
  <1>7. CASE Publish \/ UNCHANGED vars
    <2>1. UNCHANGED <<views, wheel, seen, felt, unread, sample, opened, hazard, faults>>
      BY <1>7 DEF Publish, HazardPath!Publish, vars, stepVars
    <2>2. Extends
      BY <1>t, <2>1 DEF Extends
    <2> QED
      BY <1>t, <2>1, <2>2, OthersPace
  <1> QED
    BY <1>1, <1>2, <1>3, <1>4, <1>5, <1>6, <1>7 DEF Next, Model

\* The output changes no more often than the readings do, but for twice the
\* failed reads, however views, turns and the steps of the model interleave.
THEOREM LightsDoNotFlicker == Spec => []NoFlicker
  <1>1. Inv /\ Pace => NoFlicker
    <2> SUFFICES ASSUME Inv, Pace PROVE NoFlicker
      OBVIOUS
    <2>1. CASE Settled
      <3>1. PICK i \in 0..opened, j \in 0..felt : hazard <= i + j + 2 * faults
        BY <2>1 DEF Settled
      <3> QED
        BY <3>1 DEF Inv, TypeOK, NoFlicker
    <2>2. CASE Spare(1)
      <3>1. PICK i \in 0..opened, j \in 0..felt : hazard + 1 <= i + j + 2 * faults
        BY <2>2 DEF Spare
      <3> QED
        BY <3>1 DEF Inv, TypeOK, NoFlicker
    <2> QED
      BY <2>1, <2>2 DEF Pace, Paced
  <1> QED
    BY <1>1, PaceInit, NextPace, Invariance, PTL DEF Spec

-----------------------------------------------------------------------------
(* Why the lights are on                                                   *)

\* The angle of a step is straight ahead or one the wheel had.
AngleFelt == sample.angle = "straight" \/ \E j \in 1..felt : wheel[j] = sample.angle

\* Something that was read deserves an alarm.
Deserved == \E i \in 1..seen, j \in 1..felt : Alert(views[i], wheel[j])

\* The output has never been an alarm, or some reading deserved one.
Caused == hazard = 0 \/ Deserved

\* The broker shows an output that the model has made.
Shown == target # None => target <= hazard

Grounds == AngleFelt /\ Caused /\ Shown

LEMMA GroundsInit == Init => Grounds
  BY DEF Init, NothingRead, Grounds, AngleFelt, Caused, Shown

\* Views and positions are only added, and what was read stays read.
Grows ==
    /\ \A i \in 1..seen : views'[i] = views[i]
    /\ \A j \in 1..felt : wheel'[j] = wheel[j]
    /\ seen' \in Nat /\ felt' \in Nat /\ seen <= seen' /\ felt <= felt'

LEMMA GrowsDeserved == ASSUME TypeOK, Grows, Deserved PROVE Deserved'
  <1>1. PICK i \in 1..seen, j \in 1..felt : Alert(views[i], wheel[j])
    BY DEF Deserved
  <1>2. views'[i] = views[i] /\ wheel'[j] = wheel[j]
    BY DEF Grows
  <1>3. i \in 1..seen' /\ j \in 1..felt'
    BY DEF Grows, TypeOK
  <1>4. Alert(views'[i], wheel'[j])
    BY <1>1, <1>2
  <1> QED
    BY <1>3, <1>4 DEF Deserved, Alert, Parsed

\* A step that alarms has read a view and a position that deserve it.
LEMMA AlarmIsDeserved ==
    ASSUME Inv, AngleFelt, unread = {}, Decides(sample)
    PROVE  Deserved
  <1>t. /\ views \in Seq(RoadViews) /\ Len(views) \in Nat
        /\ seen \in 0..Len(views) /\ opened \in 0..seen
    BY DEF Inv, TypeOK
  <1>1. PICK l \in Lanes : sample.angle = l /\ sample[l]
    BY DEF Decides, Lanes
  <1>2. PICK j \in 1..felt : wheel[j] = l
    BY <1>1 DEF AngleFelt, Lanes
  <1>3. FromOneView(l)
    BY DEF Inv, Witnessed
  <1>4. PICK i \in opened..seen : sample[l] => i # 0 /\ LaneHasPothole(l, views[i])
    BY <1>3 DEF FromOneView
  <1>5. i \in 1..seen /\ i \in 1..Len(views) /\ LaneHasPothole(l, views[i])
    BY <1>t, <1>1, <1>4
  <1>6. views[i] \in RoadViews /\ l \in Positions
    BY <1>t, <1>5 DEF Lanes, Positions
  <1>7. Alert(views[i], l)
    BY <1>5, <1>6, LanesAreColumns DEF Lanes
  <1> QED
    BY <1>2, <1>5, <1>7 DEF Deserved

LEMMA GroundsNext == Inv /\ Grounds /\ [Next]_vars => Grounds'
  <1> SUFFICES ASSUME Inv, Grounds, [Next]_vars PROVE Grounds'
    OBVIOUS
  <1>t. /\ views \in Seq(RoadViews) /\ wheel \in Seq(Positions)
        /\ Len(views) \in Nat /\ Len(wheel) \in Nat
        /\ seen \in 0..Len(views) /\ felt \in 0..Len(wheel)
        /\ sample \in [left : BOOLEAN, right : BOOLEAN, angle : Positions]
        /\ hazard \in Nat /\ target \in {None} \union Nat
    BY DEF Inv, TypeOK
  <1>1. CASE SetView \/ Turn \/ UNCHANGED vars
    <2>1. UNCHANGED <<seen, felt, sample, hazard, target>>
      BY <1>1 DEF SetView, Turn, vars, stepVars
    <2>2. /\ \A i \in 1..Len(views) : views'[i] = views[i]
          /\ \A j \in 1..Len(wheel) : wheel'[j] = wheel[j]
      <3>1. CASE SetView
        BY <1>t, <3>1 DEF SetView
      <3>2. CASE Turn
        BY <1>t, <3>2 DEF Turn
      <3>3. CASE UNCHANGED vars
        BY <3>3 DEF vars
      <3> QED
        BY <1>1, <3>1, <3>2, <3>3
    <2>3. Grows
      BY <1>t, <2>1, <2>2 DEF Grows
    <2>4. Caused'
      BY <2>1, <2>3, GrowsDeserved DEF Grounds, Caused, Inv
    <2>5. AngleFelt'
      <3>1. \A j \in 1..felt : wheel'[j] = wheel[j]
        BY <2>3 DEF Grows
      <3> QED
        BY <2>1, <3>1 DEF Grounds, AngleFelt
    <2> QED
      BY <2>1, <2>4, <2>5 DEF Grounds, Shown
  <1>2. ASSUME NEW l \in Lanes, ReadLane(l) PROVE Grounds'
    <2>1. /\ UNCHANGED <<views, wheel, felt, hazard, target>>
          /\ seen' \in seen..Len(views) /\ sample'.angle = sample.angle
      BY <1>t, <1>2 DEF ReadLane, LanePath!Read, Lanes
    <2>2. Grows
      BY <1>t, <2>1 DEF Grows
    <2>3. Caused'
      BY <2>1, <2>2, GrowsDeserved DEF Grounds, Caused, Inv
    <2> QED
      BY <2>1, <2>3 DEF Grounds, AngleFelt, Shown
  <1>3. CASE ReadAngle
    <2>1. /\ UNCHANGED <<views, wheel, seen, hazard, target>>
          /\ felt' \in felt..Len(wheel)
          /\ sample'.angle = IF felt' = 0 THEN "straight" ELSE wheel[felt']
      BY <1>t, <1>3 DEF ReadAngle, AnglePath!Read
    <2>2. Grows
      BY <1>t, <2>1 DEF Grows
    <2>3. Caused'
      BY <2>1, <2>2, GrowsDeserved DEF Grounds, Caused, Inv
    <2>4. AngleFelt'
      <3>1. CASE felt' = 0
        BY <2>1, <3>1 DEF AngleFelt
      <3>2. CASE felt' # 0
        <4>1. felt' \in 1..felt' /\ wheel'[felt'] = sample'.angle
          BY <1>t, <2>1, <3>2
        <4> QED
          BY <4>1 DEF AngleFelt
      <3> QED
        BY <3>1, <3>2
    <2> QED
      BY <2>1, <2>3, <2>4 DEF Grounds, Shown
  <1>4. ASSUME NEW input \in Inputs, ReadFails(input) PROVE Grounds'
    <2>1. /\ UNCHANGED <<views, wheel, seen, felt, hazard, target>>
          /\ sample'.angle \in {sample.angle, "straight"}
      BY <1>t, <1>4 DEF ReadFails, NothingRead, Inputs, Lanes
    <2> QED
      BY <2>1 DEF Grounds, AngleFelt, Caused, Deserved, Alert, Parsed, Shown
  <1>5. CASE StepEnds
    <2>1. /\ UNCHANGED <<views, wheel, seen, felt, target>> /\ unread = {}
          /\ sample' = NothingRead
          /\ hazard' = IF Decides(sample) = Signals(hazard) THEN hazard ELSE hazard + 1
      BY <1>5 DEF StepEnds
    <2>2. hazard' \in {hazard, hazard + 1}
      BY <2>1
    <2>3. Deserved' <=> Deserved
      BY <2>1 DEF Deserved, Alert, Parsed
    <2>4. Caused'
      <3>1. CASE Deserved
        BY <2>3, <3>1 DEF Caused
      <3>2. CASE ~Deserved
        <4>1. hazard = 0 /\ ~Decides(sample)
          BY <2>1, <3>2, AlarmIsDeserved DEF Grounds, Caused
        <4>2. ~Signals(hazard)
          BY <4>1 DEF Signals
        <4>3. Decides(sample) \in BOOLEAN /\ Signals(hazard) \in BOOLEAN
          BY DEF Decides, Signals
        <4>4. Decides(sample) = Signals(hazard)
          BY <4>1, <4>2, <4>3
        <4>5. hazard' = 0
          BY <2>1, <4>1, <4>4
        <4> QED
          BY <4>5 DEF Caused
      <3> QED
        BY <3>1, <3>2
    <2>5. AngleFelt'
      BY <2>1 DEF AngleFelt, NothingRead
    <2>6. Shown'
      BY <1>t, <2>1, <2>2 DEF Grounds, Shown
    <2> QED
      BY <2>4, <2>5, <2>6 DEF Grounds
  <1>6. CASE Publish
    <2>1. UNCHANGED <<views, wheel, seen, felt, sample, hazard>>
      BY <1>6 DEF Publish, HazardPath!Publish, stepVars
    <2>2. target' \in 0..hazard
      BY <1>6 DEF Publish, HazardPath!Publish
    <2>3. Caused'
      BY <2>1 DEF Grounds, Caused, Deserved, Alert, Parsed
    <2> QED
      BY <1>t, <2>1, <2>2, <2>3 DEF Grounds, AngleFelt, Shown
  <1> QED
    BY <1>1, <1>2, <1>3, <1>4, <1>5, <1>6 DEF Next, Model

\* Whatever fails, and however late an output comes to the broker: the lights
\* are on only if some view and some position of the wheel deserve it.
THEOREM NoAlarmIsMadeUp == Spec => []NoFalseAlarm
  <1>1. Inv /\ Grounds => NoFalseAlarm
    <2> SUFFICES ASSUME Inv, Grounds, Signals(target) PROVE Deserved
      BY DEF NoFalseAlarm, Deserved
    <2>1. target # None /\ target % 2 = 1
      BY DEF Signals
    <2>2. target \in Nat /\ hazard \in Nat
      BY <2>1 DEF Inv, TypeOK
    <2>3. hazard # 0
      BY <2>1, <2>2 DEF Grounds, Shown
    <2> QED
      BY <2>3 DEF Grounds, Caused
  <1> QED
    BY <1>1, GroundsInit, GroundsNext, Invariance, PTL DEF Spec
=============================================================================

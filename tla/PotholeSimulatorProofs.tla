----------------------- MODULE PotholeSimulatorProofs -----------------------
(***************************************************************************)
(* The invariants of PotholeSimulator, for every set of numbers of loops.  *)
(***************************************************************************)
EXTENDS PotholeSimulator, SequenceTheorems, TLAPS

\* Before an entry after the first, and in its interval, the last view is the
\* one that the sequence says; an entry is set only when there is one.
FollowsSequence ==
    /\ pc = "setting" => row \in 1..3
    /\ pc \in {"next", "setting"} /\ row > 1 =>
           views[Len(views)] = {Sequence[lane][row - 1]}
    /\ pc = "interval" =>
           row \in 1..3 /\ views[Len(views)] = {Sequence[lane][row]}

\* After a late zone the loops are left, without another look at a sequence.
LateLeaves ==
    /\ ~stop => late = 0
    /\ late # 0 => pc \notin {"connecting", "setup", "loop", "next", "setting"}

IsClear == pc \in {"clear", "done"} => views[Len(views)] = {}

Inv ==
    /\ TypeOK /\ FollowsSequence /\ LateLeaves
    /\ ComesNearer /\ OneZoneAfterStop /\ IsClear

-----------------------------------------------------------------------------
(* What a call of set_current_values leaves.                               *)

LEMMA Appended ==
    ASSUME NEW s \in Seq(Views), s # <<>>, NEW active \in SUBSET Zones
    PROVE  LET t == Append(s, active)
           IN  /\ t \in Seq(Views) /\ t # <<>>
               /\ Len(s) \in Nat /\ Len(s) >= 1
               /\ Len(t) = Len(s) + 1
               /\ t[Len(t)] = active
               /\ t[Len(t) - 1] = s[Len(s)]
               /\ \A i \in 1..Len(s) : t[i] = s[i]
  <1> DEFINE t == Append(s, active)
  <1>1. active \in Views
    BY DEF Views
  <1>2. Len(s) \in Nat /\ Len(s) >= 1
    BY EmptySeq
  <1>3. Len(t) = Len(s) + 1 /\ t \in Seq(Views)
    BY <1>1
  <1>4. t # <<>>
    BY <1>2, <1>3, EmptySeq
  <1> QED
    BY <1>1, <1>2, <1>3, <1>4

LEMMA Rows ==
    ASSUME NEW l \in {"left", "right"}, NEW r \in 1..3
    PROVE  /\ Sequence[l][r] \in Zones
           /\ r = 1 => Sequence[l][r] \in {1, 3}
           /\ r > 1 => /\ Sequence[l][r - 1] \in Zones
                       /\ Sequence[l][r - 1] = Sequence[l][r] - 3
  <1>1. CASE l = "left"
    <2>1. Sequence[l] = <<1, 4, 7>>
      BY <1>1 DEF Sequence
    <2>2. r = 1 \/ r = 2 \/ r = 3
      OBVIOUS
    <2> QED
      BY <2>1, <2>2 DEF Zones
  <1>2. CASE l = "right"
    <2>1. Sequence[l] = <<3, 6, 9>>
      BY <1>2 DEF Sequence
    <2>2. r = 1 \/ r = 2 \/ r = 3
      OBVIOUS
    <2> QED
      BY <2>1, <2>2 DEF Zones
  <1> QED
    BY <1>1, <1>2

\* A zone that is set keeps the road's order.
LEMMA NextZone ==
    ASSUME Inv, pc = "setting", Sets({Sequence[lane][row]})
    PROVE  /\ views' \in Seq(Views) \ {<<>>}
           /\ ComesNearer'
           /\ views'[Len(views')] = {Sequence[lane][row]}
  <1> DEFINE z == Sequence[lane][row]
  <1>1. row \in 1..3 /\ lane \in {"left", "right"}
    BY DEF Inv, TypeOK, FollowsSequence
  <1>2. /\ z \in Zones
        /\ row = 1 => z \in {1, 3}
        /\ row > 1 => /\ Sequence[lane][row - 1] \in Zones
                      /\ Sequence[lane][row - 1] = z - 3
    BY <1>1, Rows
  <1>3. row > 1 => views[Len(views)] = {Sequence[lane][row - 1]}
    BY DEF Inv, FollowsSequence
  <1>4. views' = Append(views, {z})
    BY DEF Sets, BuildView
  <1>s. views \in Seq(Views) /\ views # <<>> /\ {z} \in SUBSET Zones
    BY <1>2 DEF Inv, TypeOK
  <1>5. /\ views' \in Seq(Views) /\ views' # <<>>
        /\ Len(views) \in Nat /\ Len(views) >= 1
        /\ Len(views') = Len(views) + 1
        /\ views'[Len(views')] = {z}
        /\ views'[Len(views') - 1] = views[Len(views)]
        /\ \A i \in 1..Len(views) : views'[i] = views[i]
    BY <1>4, <1>s, Appended
  <1>6. ASSUME NEW i \in 2..Len(views')
        PROVE  \/ views'[i] = {}
               \/ \E y \in Zones : /\ views'[i] = {y}
                                   /\ y \in {1, 3} \/ views'[i - 1] = {y - 3}
    <2>1. CASE i = Len(views')
      <3>1. z \in {1, 3} \/ views'[i - 1] = {z - 3}
        <4>1. CASE row = 1
          BY <1>2, <4>1
        <4>2. CASE row > 1
          <5>1. Sequence[lane][row - 1] = z - 3
            BY <1>2, <4>2
          <5>2. views'[i - 1] = {Sequence[lane][row - 1]}
            BY <1>3, <1>5, <2>1, <4>2
          <5> QED
            BY <5>1, <5>2
        <4> QED
          BY <1>1, <4>1, <4>2
      <3> QED
        BY <1>2, <1>5, <2>1, <3>1
    <2>2. CASE i # Len(views')
      <3>1. i \in 2..Len(views) /\ i \in 1..Len(views) /\ i - 1 \in 1..Len(views)
        BY <1>5, <2>2
      <3>2. views'[i] = views[i] /\ views'[i - 1] = views[i - 1]
        BY <1>5, <3>1
      <3> QED
        BY <3>1, <3>2 DEF Inv, ComesNearer
    <2> QED
      BY <2>1, <2>2
  <1>7. ComesNearer'
    BY <1>6 DEF ComesNearer
  <1> QED
    BY <1>5, <1>7

\* The view that main clears at its end.
LEMMA ClearedView ==
    ASSUME Inv, Sets({})
    PROVE  /\ views' \in Seq(Views) \ {<<>>}
           /\ ComesNearer'
           /\ views'[Len(views')] = {}
  <1>1. views' = Append(views, {})
    BY DEF Sets, BuildView
  <1>s. views \in Seq(Views) /\ views # <<>> /\ {} \in SUBSET Zones
    BY DEF Inv, TypeOK
  <1>2. /\ views' \in Seq(Views) /\ views' # <<>>
        /\ Len(views) \in Nat /\ Len(views) >= 1
        /\ Len(views') = Len(views) + 1
        /\ views'[Len(views')] = {}
        /\ \A i \in 1..Len(views) : views'[i] = views[i]
    BY <1>1, <1>s, Appended
  <1>3. ASSUME NEW i \in 2..Len(views')
        PROVE  \/ views'[i] = {}
               \/ \E y \in Zones : /\ views'[i] = {y}
                                   /\ y \in {1, 3} \/ views'[i - 1] = {y - 3}
    <2>1. CASE i # Len(views')
      <3>1. i \in 2..Len(views) /\ i \in 1..Len(views) /\ i - 1 \in 1..Len(views)
        BY <1>2, <2>1
      <3>2. views'[i] = views[i] /\ views'[i - 1] = views[i - 1]
        BY <1>2, <3>1
      <3> QED
        BY <3>1, <3>2 DEF Inv, ComesNearer
    <2> QED
      BY <1>2, <2>1
  <1> QED
    BY <1>2, <1>3 DEF ComesNearer

-----------------------------------------------------------------------------
(* The invariant                                                           *)

LEMMA InitInv == Init => Inv
  <1> SUFFICES ASSUME Init PROVE Inv
    OBVIOUS
  <1> PICK v \in Leftovers : views = <<v>>
    BY DEF Init
  <1>1. v \in Views /\ Len(views) = 1
    BY DEF Leftovers, Views, Zones
  <1>2. views \in Seq(Views) /\ views # <<>>
    BY <1>1, EmptySeq
  <1>3. TypeOK
    <2>1. stop \in BOOLEAN
      BY DEF Init
    <2> QED
      BY <1>2, <2>1, LoopsAssumption DEF Init, TypeOK, Points
  <1> QED
    BY <1>1, <1>3 DEF Init, Inv, FollowsSequence, LateLeaves, ComesNearer,
                      OneZoneAfterStop, IsClear

LEMMA NextInv == Inv /\ [Next]_vars => Inv'
  <1> SUFFICES ASSUME Inv, [Next]_vars PROVE Inv'
    OBVIOUS
  <1>t. /\ pc \in Points /\ stop \in BOOLEAN /\ loops \in Nat
        /\ loopCount \in Nat /\ lane \in {"left", "right"} /\ row \in 1..4
        /\ views \in Seq(Views) \ {<<>>} /\ late \in Nat
    BY DEF Inv, TypeOK
  <1> USE DEF Goto
  <1>1. CASE SetsZone
    <2>1. /\ views' \in Seq(Views) \ {<<>>} /\ ComesNearer'
          /\ views'[Len(views')] = {Sequence[lane][row]}
      BY <1>1, NextZone DEF SetsZone
    <2>2. pc = "setting" /\ pc' = "interval" /\ row \in 1..3
      BY <1>1 DEF SetsZone, Inv, FollowsSequence
    <2>3. late = 0 /\ late' \in {0, 1} /\ (~stop => late' = 0)
      BY <1>1, <2>2 DEF SetsZone, Inv, LateLeaves
    <2>4. TypeOK'
      BY <1>1, <1>t, <2>1, <2>2, <2>3 DEF SetsZone, TypeOK, Points
    <2> QED
      BY <1>1, <2>1, <2>2, <2>3, <2>4
         DEF SetsZone, Inv, FollowsSequence, LateLeaves, OneZoneAfterStop,
             IsClear
  <1>2. CASE Raises
    <2>1. views' \in Seq(Views) \ {<<>>} /\ ComesNearer'
      <3>1. CASE Sets({Sequence[lane][row]}) /\ pc = "setting"
        BY <3>1, NextZone
      <3>2. CASE UNCHANGED views
        BY <1>t, <3>2 DEF Inv, ComesNearer
      <3> QED
        BY <1>2, <3>1, <3>2 DEF Raises
    <2>2. pc' = "clearing"
      BY <1>2 DEF Raises
    <2>3. late = 0 /\ late' \in {0, 1} /\ (~stop => late' = 0)
      BY <1>2 DEF Raises, Inv, LateLeaves
    <2>4. TypeOK'
      BY <1>2, <1>t, <2>1, <2>2, <2>3 DEF Raises, TypeOK, Points
    <2> QED
      BY <1>2, <2>1, <2>2, <2>3, <2>4
         DEF Raises, Inv, FollowsSequence, LateLeaves, OneZoneAfterStop,
             IsClear
  <1>3. CASE ClearsView
    <2>1. /\ views' \in Seq(Views) \ {<<>>} /\ ComesNearer'
          /\ pc' = "clear" => views'[Len(views')] = {}
      <3>1. CASE Sets({})
        BY <3>1, ClearedView
      <3>2. CASE UNCHANGED views /\ pc' = "unclear"
        BY <1>t, <3>2 DEF Inv, ComesNearer
      <3> QED
        BY <1>3, <3>1, <3>2 DEF ClearsView
    <2>2. pc' \in {"clear", "unclear"} /\ UNCHANGED <<stop, row, late>>
      BY <1>3 DEF ClearsView
    <2>3. TypeOK'
      BY <1>3, <1>t, <2>1, <2>2 DEF ClearsView, TypeOK, Points
    <2> QED
      BY <2>1, <2>2, <2>3
         DEF Inv, FollowsSequence, LateLeaves, OneZoneAfterStop, IsClear
  <1>4. CASE UNCHANGED views /\ UNCHANGED late
             /\ \/ Connects \/ SetsUp \/ LoopBegins \/ LoopEnds \/ TakesEntry
                \/ IntervalEnds \/ PauseEnds \/ Disconnects
                \/ Signalled \/ Killed \/ UNCHANGED vars
    <2> USE <1>4, <1>t DEF Inv
    <2>1. ComesNearer' /\ OneZoneAfterStop'
      BY DEF ComesNearer, OneZoneAfterStop
    <2>2. stop' \in BOOLEAN
      BY Zenon DEF Connects, SetsUp, LoopBegins, LoopEnds, TakesEntry,
                   IntervalEnds, PauseEnds, Disconnects, Signalled, Killed, vars
    <2>3. TypeOK'
      <3>1. /\ pc' \in Points /\ loops' \in Nat /\ loopCount' \in Nat
            /\ lane' \in {"left", "right"} /\ row' \in 1..4
        BY DEF Connects, SetsUp, LoopBegins, LoopEnds, TakesEntry,
               IntervalEnds, PauseEnds, Disconnects, Signalled, Killed, vars,
               Points, FollowsSequence
      <3> QED
        BY <2>2, <3>1 DEF TypeOK
    <2>4. FollowsSequence'
      BY DEF Connects, SetsUp, LoopBegins, LoopEnds, TakesEntry,
             IntervalEnds, PauseEnds, Disconnects, Signalled, Killed, vars,
             FollowsSequence
    <2>5. LateLeaves'
      BY DEF Connects, SetsUp, LoopBegins, LoopEnds, TakesEntry,
             IntervalEnds, PauseEnds, Disconnects, Signalled, Killed, vars,
             LateLeaves
    <2>6. IsClear'
      BY DEF Connects, SetsUp, LoopBegins, LoopEnds, TakesEntry,
             IntervalEnds, PauseEnds, Disconnects, Signalled, Killed, vars,
             IsClear
    <2> QED
      BY <2>1, <2>3, <2>4, <2>5, <2>6
  <1>5. \/ SetsZone \/ Raises \/ ClearsView
        \/ UNCHANGED views /\ UNCHANGED late
           /\ \/ Connects \/ SetsUp \/ LoopBegins \/ LoopEnds \/ TakesEntry
              \/ IntervalEnds \/ PauseEnds \/ Disconnects
              \/ Signalled \/ Killed \/ UNCHANGED vars
    BY DEF Next, Step, Connects, SetsUp, LoopBegins, LoopEnds, TakesEntry,
           IntervalEnds, PauseEnds, Disconnects, Signalled, Killed, vars
  <1> QED
    BY <1>1, <1>2, <1>3, <1>4, <1>5

LEMMA Invariance == Spec => []Inv
  BY InitInv, NextInv, PTL DEF Spec

-----------------------------------------------------------------------------

\* The variables of simulate_pothole.py keep their ranges.
THEOREM SimulatorTypeCorrect == Spec => []TypeOK
  <1>1. Inv => TypeOK
    BY DEF Inv
  <1> QED
    BY <1>1, Invariance, PTL

\* run_simulation and main never show a pothole out of the order of its
\* sequence, whichever calls of set_current_values fail.
THEOREM PotholesComeNearer == Spec => []ComesNearer
  <1>1. Inv => ComesNearer
    BY DEF Inv
  <1> QED
    BY <1>1, Invariance, PTL

\* After the stop event is set, at most the call under way sets a zone.
THEOREM StopsWithinOneZone == Spec => []OneZoneAfterStop
  <1>1. Inv => OneZoneAfterStop
    BY DEF Inv
  <1> QED
    BY <1>1, Invariance, PTL

\* The finally clause of main leaves a clear view.
THEOREM SimulatorEndsClear == Spec => []EndsClear
  <1>1. Inv => EndsClear
    BY DEF Inv, IsClear, EndsClear
  <1> QED
    BY <1>1, Invariance, PTL

-----------------------------------------------------------------------------
(* Why the simulator ends                                                  *)

\* The loops that are still to be begun; none is counted when they are endless.
LoopsLeft == IF loops = 0 THEN 0 ELSE loops - loopCount

\* The steps that a sequence, and the lane after it, have left in this loop.
LanesLeft == IF lane = "left" THEN 12 ELSE 0
EntriesLeft == 3 * (4 - row) + LanesLeft

\* What main has left to do: a loop has two lanes of three entries, an entry
\* three steps.
StepsLeft ==
    CASE pc \in {"done", "undone", "failed", "killed"} -> 0
      [] pc \in {"clear", "unclear"} -> 1
      [] pc = "clearing"   -> 2
      [] pc = "loop"       -> 24 * LoopsLeft + 3
      [] pc = "setup"      -> 24 * LoopsLeft + 4
      [] pc = "connecting" -> 24 * LoopsLeft + 5
      [] pc = "pause"      -> 24 * LoopsLeft + LanesLeft + 4
      [] pc = "interval"   -> 24 * LoopsLeft + EntriesLeft + 3
      [] pc = "setting"    -> 24 * LoopsLeft + EntriesLeft + 4
      [] pc = "next"       -> 24 * LoopsLeft + EntriesLeft + 5

\* After a signal, and with a number of loops, every step of main brings it
\* nearer to its end; nothing takes it back.
EndComesNearer ==
    [][stop \/ loops # 0 => /\ StepsLeft' <= StepsLeft
                            /\ Step => StepsLeft' < StepsLeft]_vars

\* The loops counted are not more than those asked for.
LoopsCounted == loops = 0 \/ loopCount <= loops

LEMMA LoopsCountedNext == Inv /\ LoopsCounted /\ [Next]_vars => LoopsCounted'
  <1> SUFFICES ASSUME Inv, LoopsCounted, [Next]_vars PROVE LoopsCounted'
    OBVIOUS
  <1>t. loops \in Nat /\ loopCount \in Nat
    BY DEF Inv, TypeOK
  <1>1. CASE LoopBegins
    BY <1>1, <1>t DEF LoopBegins, LoopsCounted
  <1>2. CASE UNCHANGED <<loops, loopCount>>
    BY <1>2 DEF LoopsCounted
  <1>3. LoopBegins \/ UNCHANGED <<loops, loopCount>>
    BY DEF Next, Step, Connects, SetsUp, LoopEnds, TakesEntry, SetsZone, Raises,
           IntervalEnds, PauseEnds, ClearsView, Disconnects, Signalled, Killed,
           vars
  <1> QED
    BY <1>1, <1>2, <1>3

LEMMA StepsLeftIsNat ==
    ASSUME Inv, LoopsCounted PROVE StepsLeft \in Nat
  <1>1. /\ pc \in Points /\ loops \in Nat /\ loopCount \in Nat
        /\ lane \in {"left", "right"} /\ row \in 1..4
    BY DEF Inv, TypeOK
  <1>2. LoopsLeft \in Nat /\ LanesLeft \in Nat /\ EntriesLeft \in Nat
    BY <1>1 DEF LoopsCounted, LoopsLeft, LanesLeft, EntriesLeft
  <1> QED
    BY <1>1, <1>2 DEF StepsLeft, Points

LEMMA StepsLeftFalls ==
    ASSUME Inv, LoopsCounted, stop \/ loops # 0, Step
    PROVE  StepsLeft' <= StepsLeft /\ StepsLeft' < StepsLeft
  <1>t. /\ pc \in Points /\ loops \in Nat /\ loopCount \in Nat
        /\ lane \in {"left", "right"} /\ row \in 1..4
        /\ pc \in {"setting", "interval"} => row \in 1..3
    BY DEF Inv, TypeOK, FollowsSequence
  <1>l. LoopsLeft \in Nat /\ LanesLeft \in Nat
    BY <1>t DEF LoopsCounted, LoopsLeft, LanesLeft
  <1> USE <1>t, <1>l DEF StepsLeft, Goto
  <1>1. CASE Connects
    BY <1>1 DEF Connects, LoopsLeft
  <1>2. CASE SetsUp
    BY <1>2 DEF SetsUp, LoopsLeft
  <1>3. CASE LoopBegins
    <2>1. loops # 0 /\ LoopsLeft' = LoopsLeft - 1
      BY <1>3 DEF LoopBegins, LoopsLeft
    <2>2. pc' = "next" /\ pc = "loop" /\ EntriesLeft' = 21
      BY <1>3 DEF LoopBegins, EntriesLeft, LanesLeft
    <2> QED
      BY <2>1, <2>2
  <1>4. CASE LoopEnds
    BY <1>4 DEF LoopEnds
  <1>5. CASE TakesEntry
    BY <1>5 DEF TakesEntry, LoopsLeft, EntriesLeft, LanesLeft
  <1>6. CASE SetsZone
    BY <1>6 DEF SetsZone, LoopsLeft, EntriesLeft, LanesLeft
  <1>7. CASE Raises
    <2>1. StepsLeft' = 2 /\ pc \in {"setup", "setting"}
      BY <1>7 DEF Raises
    <2>2. StepsLeft >= 4 /\ StepsLeft \in Nat
      <3>1. CASE pc = "setup"
        <4>1. StepsLeft = 24 * LoopsLeft + 4
          BY <3>1
        <4> HIDE DEF StepsLeft
        <4> QED
          BY <4>1
      <3>2. CASE pc = "setting"
        <4>1. StepsLeft = 24 * LoopsLeft + EntriesLeft + 4 /\ EntriesLeft \in Nat
          BY <3>2 DEF EntriesLeft
        <4> HIDE DEF StepsLeft
        <4> QED
          BY <4>1
      <3> QED
        BY <2>1, <3>1, <3>2
    <2> HIDE DEF StepsLeft
    <2> QED
      BY <2>1, <2>2
  <1>8. CASE IntervalEnds
    BY <1>8 DEF IntervalEnds, LoopsLeft, EntriesLeft, LanesLeft
  <1>9. CASE PauseEnds
    BY <1>9 DEF PauseEnds, LoopsLeft, EntriesLeft, LanesLeft
  <1>10. CASE ClearsView
    <2>1. StepsLeft = 2 /\ StepsLeft' = 1
      BY <1>10 DEF ClearsView
    <2> HIDE DEF StepsLeft
    <2> QED
      BY <2>1
  <1>11. CASE Disconnects
    <2>1. StepsLeft = 1 /\ StepsLeft' = 0
      BY <1>11 DEF Disconnects
    <2> HIDE DEF StepsLeft
    <2> QED
      BY <2>1
  <1> QED
    BY <1>1, <1>2, <1>3, <1>4, <1>5, <1>6, <1>7, <1>8, <1>9, <1>10, <1>11
       DEF Step

\* With --loops, or after a signal, main of simulate_pothole.py gets to its end
\* by a bounded number of its own steps: whatever calls raise, it never goes
\* back.
THEOREM EndOnlyComesNearer == Spec => EndComesNearer
  <1>1. Init => LoopsCounted
    BY LoopsAssumption DEF Init, LoopsCounted
  <1>2. Inv /\ LoopsCounted /\ [Next]_vars
          => [stop \/ loops # 0 => /\ StepsLeft' <= StepsLeft
                                   /\ Step => StepsLeft' < StepsLeft]_vars
    <2>1. ASSUME Inv, LoopsCounted, [Next]_vars, stop \/ loops # 0
          PROVE  StepsLeft' <= StepsLeft /\ (Step => StepsLeft' < StepsLeft)
      <3>1. StepsLeft \in Nat
        BY <2>1, StepsLeftIsNat
      <3>2. CASE Step
        BY <2>1, <3>2, StepsLeftFalls
      <3>3. CASE Killed /\ ~Step
        <4>1. StepsLeft' = 0
          BY <3>3 DEF Killed, Goto, StepsLeft
        <4> QED
          BY <3>1, <3>3, <4>1
      <3>4. CASE ~Killed /\ ~Step
        <4>1. UNCHANGED <<pc, loops, loopCount, lane, row>>
          BY <2>1, <3>4 DEF Next, Signalled, vars
        <4>2. StepsLeft' = StepsLeft
          BY <4>1 DEF StepsLeft, LoopsLeft, LanesLeft, EntriesLeft
        <4> QED
          BY <3>1, <3>4, <4>2
      <3> QED
        BY <3>2, <3>3, <3>4
    <2> QED
      BY <2>1
  <1> QED
    BY InitInv, NextInv, LoopsCountedNext, <1>1, <1>2, PTL
       DEF Spec, EndComesNearer
=============================================================================

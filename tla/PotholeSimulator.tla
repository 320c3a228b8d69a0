-------------------------- MODULE PotholeSimulator --------------------------
(***************************************************************************)
(* simulate_pothole.py: a car that meets a pothole on the left lane, then  *)
(* one on the right lane, and so on.  Each pothole comes nearer by one     *)
(* zone per interval; the zones are numbered                               *)
(*                                                                         *)
(*     1 2 3   far                                                         *)
(*     4 5 6   middle                                                      *)
(*     7 8 9   near                                                        *)
(*                                                                         *)
(* A view is the set of the zones it says true, or Garbled when it is no   *)
(* dictionary; the text of a view is left out.                             *)
(***************************************************************************)
EXTENDS Naturals, Sequences

CONSTANTS
    Garbled,        \* a view that does not parse
    LoopChoices,    \* the values of --loops; 0 is "infinite"
    MaxLoops        \* bound of the model: loops begun when --loops is 0

Zones == 1..9
Views == {Garbled} \union SUBSET Zones

ASSUME GarbledAssumption == \A v \in SUBSET Zones : v # Garbled
ASSUME LoopsAssumption == LoopChoices \subseteq Nat /\ MaxLoops \in Nat

VARIABLES
    pc,             \* where main and run_simulation stand
    stop,           \* stop_event
    loops,          \* args.loops
    loopCount,      \* loop_count
    lane,           \* the lane whose sequence is set
    row,            \* the entry of that sequence; 4 after the last one
    views,          \* the broker's PotholeView, and what it was before
    late            \* history: zones set after the signal

vars == <<pc, stop, loops, loopCount, lane, row, views, late>>

Points == { "connecting",   \* in client.connect()
            "setup",        \* in setup_vehicle_signals
            "loop",         \* before `while`
            "next",         \* before an entry of a lane's sequence
            "setting",      \* in set_current_values
            "interval",     \* in stop_event.wait, after an entry
            "pause",        \* after the sequence of a lane
            "clearing",     \* in the finally clause
            "clear",        \* the view was cleared
            "unclear",      \* the call that clears the view raised
            "done",         \* main has returned
            "undone",       \* main has returned, without having cleared
            "failed",       \* sys.exit(1)
            "killed" }

Ended == pc \in {"done", "undone", "failed", "killed"}

\* left_sequence and right_sequence, without the entries commented out.
Sequence == [left |-> <<1, 4, 7>>, right |-> <<3, 6, 9>>]

\* What the scripts left at the broker before, or somebody set by hand.
Leftovers == {Garbled, {}, {7}}

TypeOK ==
    /\ pc \in Points /\ stop \in BOOLEAN
    /\ loops \in Nat /\ loopCount \in Nat
    /\ lane \in {"left", "right"} /\ row \in 1..4
    /\ views \in Seq(Views) \ {<<>>}
    /\ late \in Nat

Init ==
    /\ pc = "connecting" /\ stop = FALSE
    /\ loops \in LoopChoices /\ loopCount = 0
    /\ lane = "left" /\ row = 1
    /\ \E v \in Leftovers : views = <<v>>
    /\ late = 0

Goto(point) == pc' = point

-----------------------------------------------------------------------------

\* [mutant] build_pothole_string adds to ZONES_CLEAR itself.
AddsToDefault(active) ==
    IF views[Len(views)] = Garbled THEN active ELSE active \union views[Len(views)]

\* [mutant] The zones are counted from 0.
CountsFromZero(active) == {z - 1 : z \in active}

\* build_pothole_string: the zones not named are false.
BuildView(active) == active

\* set_current_values at the broker.
Sets(active) == views' = Append(views, BuildView(active))

Connects ==
    /\ pc = "connecting"
    /\ pc' \in {"setup", "failed"}
    /\ UNCHANGED <<stop, loops, loopCount, lane, row, views, late>>

\* setup_vehicle_signals returns.
SetsUp ==
    /\ pc = "setup"
    /\ Goto("loop")
    /\ UNCHANGED <<stop, loops, loopCount, lane, row, views, late>>

\* `while not stop_event.is_set() and (loops == 0 or loop_count < loops)`
LoopBegins ==
    /\ pc = "loop" /\ ~stop
    /\ IF loops = 0 THEN loopCount < MaxLoops ELSE loopCount < loops
    /\ loopCount' = loopCount + 1
    /\ lane' = "left" /\ row' = 1
    /\ Goto("next")
    /\ UNCHANGED <<stop, loops, views, late>>

LoopEnds ==
    /\ pc = "loop" /\ (stop \/ (loops # 0 /\ loopCount >= loops))
    /\ Goto("clearing")
    /\ UNCHANGED <<stop, loops, loopCount, lane, row, views, late>>

\* The loop over the sequence, and its `if stop_event.is_set(): break`.
TakesEntry ==
    /\ pc = "next"
    /\ Goto(IF row = 4 \/ stop THEN "pause" ELSE "setting")
    /\ UNCHANGED <<stop, loops, loopCount, lane, row, views, late>>

\* set_pothole_view with one zone.
SetsZone ==
    /\ pc = "setting"
    /\ Sets({Sequence[lane][row]})
    /\ late' = IF stop THEN late + 1 ELSE late
    /\ Goto("interval")
    /\ UNCHANGED <<stop, loops, loopCount, lane, row>>

\* [mutant] A call that raises is made again.
Retries ==
    /\ pc = "setting"
    /\ Goto("next")
    /\ UNCHANGED <<stop, loops, loopCount, lane, row, views, late>>

\* [mutant] main has no finally clause.
LeavesView ==
    /\ pc \in {"setup", "setting"}
    /\ Goto("done")
    /\ UNCHANGED <<stop, loops, loopCount, lane, row, views, late>>

\* A call to the broker raises, in or before its effect: on to `finally`.
Raises ==
    /\ pc \in {"setup", "setting"}
    /\ \/ UNCHANGED <<views, late>>
       \/ /\ pc = "setting"
          /\ Sets({Sequence[lane][row]})
          /\ late' = IF stop THEN late + 1 ELSE late
    /\ Goto("clearing")
    /\ UNCHANGED <<stop, loops, loopCount, lane, row>>

\* [mutant] time.sleep(interval), without a look at the event.
Sleeps ==
    /\ pc = "interval"
    /\ row' = row + 1
    /\ Goto(IF row = 3 THEN "pause" ELSE "setting")
    /\ UNCHANGED <<stop, loops, loopCount, lane, views, late>>

\* `if stop_event.wait(interval): break`
IntervalEnds ==
    /\ pc = "interval"
    /\ row' = IF stop THEN row ELSE row + 1
    /\ Goto(IF stop THEN "pause" ELSE "next")
    /\ UNCHANGED <<stop, loops, loopCount, lane, views, late>>

\* After a sequence: break if the event is set, else wait and go on.
PauseEnds ==
    /\ pc = "pause"
    /\ \/ /\ stop
          /\ Goto("clearing")
          /\ UNCHANGED <<lane, row>>
       \/ /\ ~stop /\ lane = "left"
          /\ lane' = "right" /\ row' = 1
          /\ Goto("next")
       \/ /\ ~stop /\ lane = "right"
          /\ Goto("loop")
          /\ UNCHANGED <<lane, row>>
    /\ UNCHANGED <<stop, loops, loopCount, views, late>>

\* set_pothole_view(client, []) in the finally clause; what it reads back is
\* printed only.
ClearsView ==
    /\ pc = "clearing"
    /\ \/ Sets({}) /\ pc' \in {"clear", "unclear"}
       \/ UNCHANGED views /\ Goto("unclear")
    /\ UNCHANGED <<stop, loops, loopCount, lane, row, late>>

\* client.disconnect(), which may raise, and the return.
Disconnects ==
    /\ pc \in {"clear", "unclear"}
    /\ Goto(IF pc = "clear" THEN "done" ELSE "undone")
    /\ UNCHANGED <<stop, loops, loopCount, lane, row, views, late>>

\* SIGINT or SIGTERM: the handler sets the event, whatever main is doing.
Signalled ==
    /\ ~Ended
    /\ stop' = TRUE
    /\ UNCHANGED <<pc, loops, loopCount, lane, row, views, late>>

Killed ==
    /\ ~Ended
    /\ Goto("killed")
    /\ UNCHANGED <<stop, loops, loopCount, lane, row, views, late>>

Step ==
    \/ Connects \/ SetsUp \/ LoopBegins \/ LoopEnds \/ TakesEntry
    \/ SetsZone \/ Raises \/ IntervalEnds \/ PauseEnds
    \/ ClearsView \/ Disconnects

Next == Step \/ Signalled \/ Killed

Spec == Init /\ [][Next]_vars

\* The main thread goes on; its calls to the broker return or raise.
FairSpec == Spec /\ WF_vars(Step)

-----------------------------------------------------------------------------
(* Properties                                                              *)

\* "Pothole approaching from far to near": a view shows one pothole, which is
\* either far or was one row farther in the view before, even when calls fail
\* and a loop follows another.
ComesNearer ==
    \A i \in 2..Len(views) :
        \/ views[i] = {}
        \/ \E z \in Zones : /\ views[i] = {z}
                            /\ z \in {1, 3} \/ views[i - 1] = {z - 3}

\* "Clear pothole view on exit": however main came to its end, the last view
\* is clear, unless the call that clears it raised.
EndsClear == pc = "done" => views[Len(views)] = {}

\* "Graceful shutdown": at most the call under way when the signal came sets
\* one more zone.
OneZoneAfterStop == late <= 1

\* The simulator ends after a signal, and by itself after --loops loops.
SimulatorEnds == (stop \/ loops # 0) ~> Ended
=============================================================================

--------------------------- MODULE SteeringFeeder ---------------------------
(***************************************************************************)
(* The path of the steering angle: steering_feeder.py between the KUKSA    *)
(* broker and da_get_steering_angle, over the whole life of its processes: *)
(* start, signals at any point, errors, kills, and starts again (one after *)
(* the other; BridgeRestart has those that overlap).                       *)
(*                                                                         *)
(* Unlike in pothole_feeder.py the socket is an attribute as soon as it is *)
(* made, so that stop() closes it even in the middle of start().           *)
(*                                                                         *)
(* An angle is named by its number in the order of setting; 0 is the 0.0   *)
(* of __init__ and of a read that failed.                                  *)
(***************************************************************************)
EXTENDS Naturals

CONSTANTS
    Backlog,        \* server_sock.listen(10)
    MaxAngle,       \* bound of the model: angles set
    MaxStarts       \* bound of the model: instances started

ASSUME BoundAssumption == {Backlog, MaxAngle, MaxStarts} \subseteq Nat

VARIABLES
    angle,          \* the broker's SteeringWheel.Angle
    feeder,         \* the feeder's process
    starts,         \* instances started
    ahead,          \* connections given up that wait before the current one
    stage,          \* where the model's uds_read stands
    carried,        \* the angle the thread of its connection has read
    reading,        \* what the last read returned
    seen,           \* history: the newest angle it has read
    asked           \* history: the feeder's angle when the read connected

connVars == <<ahead, stage, carried>>
resultVars == <<reading, seen, asked>>
vars == <<angle, feeder, starts, connVars, resultVars>>

Points == { "down",         \* no process
            "starting",     \* the handlers are set; asyncio.run begins
            "creating",     \* start() has set running
            "created",      \* the socket is made, and not bound
            "bound",        \* it listens; no acceptor thread yet
            "serving",      \* connecting and subscribed
            "leaving" }     \* before the finally clause of the script

Process ==
    [ pc : Points,                              \* the main thread
      running : BOOLEAN,                        \* self.running
      sock : {"none", "new", "open", "closed"}, \* self.server_sock
      acceptor : BOOLEAN,                       \* the acceptor thread runs
      cursor : Nat,         \* the last angle the subscription need not deliver
      steering : Nat,                           \* self.steering_angle
      stopped : BOOLEAN,    \* history: a signal came after the socket was made
      broken : BOOLEAN ]    \* history: accept() or Thread.start() has raised

Stages == {"idle", "connecting", "queued", "accepted", "read", "sent", "closed"}

TypeOK ==
    /\ angle \in Nat /\ feeder \in Process /\ starts \in Nat
    /\ ahead \in Nat /\ stage \in Stages /\ carried \in Nat
    /\ reading \in Nat /\ seen \in Nat /\ asked \in Nat

NoProcess ==
    [ pc |-> "down", running |-> FALSE, sock |-> "none", acceptor |-> FALSE,
      cursor |-> 0, steering |-> 0, stopped |-> FALSE, broken |-> FALSE ]

Init ==
    /\ angle = 0 /\ feeder = NoProcess /\ starts = 0
    /\ ahead = 0 /\ stage = "idle" /\ carried = 0
    /\ reading = 0 /\ seen = 0 /\ asked = 0

\* The provider of the steering wheel sets the angle.
SetAngle ==
    /\ angle < MaxAngle
    /\ angle' = angle + 1
    /\ UNCHANGED <<feeder, starts, connVars, resultVars>>

-----------------------------------------------------------------------------
(* start() and the subscription                                            *)

\* The script is started, with the values of __init__.
Launch ==
    /\ feeder.pc = "down" /\ starts < MaxStarts
    /\ starts' = starts + 1
    /\ feeder' = [feeder EXCEPT !.pc = "starting"]
    /\ UNCHANGED <<angle, connVars, resultVars>>

MainStep == UNCHANGED <<angle, starts, connVars, resultVars>>

StartRuns ==
    /\ feeder.pc = "starting"
    /\ feeder' = [feeder EXCEPT !.pc = "creating", !.running = TRUE]
    /\ MainStep

\* The old path is removed and the socket made.
Creates ==
    /\ feeder.pc = "creating"
    /\ feeder' = [feeder EXCEPT !.pc = "created", !.sock = "new"]
    /\ MainStep

\* [mutant] The socket is a local variable until it listens.
NotYetKnown == FALSE

\* A signal has closed the socket: bind raises.
ClosedBySignal == feeder.sock = "closed"

\* bind and listen.
Binds ==
    /\ feeder.pc = "created"
    /\ feeder' = IF ClosedBySignal THEN [feeder EXCEPT !.pc = "leaving"]
                 ELSE [feeder EXCEPT !.pc = "bound", !.sock = "open"]
    /\ MainStep

\* The acceptor thread starts, and ends at once if a signal came; start() goes
\* on to subscribe, which delivers the current angle and then newer ones.
StartsAcceptor ==
    /\ feeder.pc = "bound"
    /\ feeder' = [feeder EXCEPT !.pc = "serving", !.acceptor = feeder.running,
                                !.cursor = IF angle = 0 THEN 0 ELSE angle - 1]
    /\ MainStep

\* [mutant] The angle of the update before is stored.
StoresPrevious(e) == {feeder.cursor}

\* [mutant] Every update is stored by a thread of its own, in any order.
StoresLate(e) == 1..e

\* What an update makes of self.steering_angle.
Stores(e) == {e}

\* [mutant] An update does not look at self.running.
NeverBreaks == FALSE

\* `if not self.running: break`
Breaks == ~feeder.running

\* An update arrives.
Update ==
    /\ feeder.pc = "serving"
    /\ \E e \in (feeder.cursor + 1)..angle :
          IF Breaks THEN feeder' = [feeder EXCEPT !.pc = "leaving"]
          ELSE \E s \in Stores(e) :
                  feeder' = [feeder EXCEPT !.cursor = e, !.steering = s]
    /\ MainStep

\* connect, the subscription or float() raises, and nothing catches it; or an
\* update without a value comes when self.running is False.
SubscriptionEnds ==
    /\ feeder.pc = "serving"
    /\ feeder' = [feeder EXCEPT !.pc = "leaving"]
    /\ MainStep

-----------------------------------------------------------------------------
(* stop(), and the ends of the process                                     *)

\* SIGINT or SIGTERM at any point of the main thread: stop() closes the socket
\* and removes its path.  The acceptor thread ends; a connection that waited is
\* dropped, or is the last one accepted.
Signal ==
    /\ feeder.pc # "down"
    /\ feeder' = [feeder EXCEPT
                    !.running = FALSE, !.acceptor = FALSE,
                    !.sock = IF @ = "none" THEN "none" ELSE "closed",
                    !.stopped = @ \/ feeder.sock # "none"]
    /\ ahead' = 0
    /\ \/ stage # "queued" /\ stage' = stage
       \/ stage = "queued" /\ stage' = "closed"
       \/ stage = "queued" /\ feeder.acceptor /\ ahead = 0 /\ stage' = "accepted"
    /\ UNCHANGED <<angle, starts, carried, resultVars>>

\* The process ends, and its threads and sockets with it.
Dies ==
    /\ feeder' = NoProcess
    /\ ahead' = 0
    /\ stage' = IF stage \in {"queued", "accepted", "read"} THEN "closed" ELSE stage
    /\ UNCHANGED <<angle, starts, carried, resultVars>>

\* The finally clause calls stop(), and the script ends.
Exit == feeder.pc = "leaving" /\ Dies

Kill == feeder.pc # "down" /\ Dies

-----------------------------------------------------------------------------
(* _accept_connections and _handle_client                                  *)

\* accept returns the oldest connection, which goes to a thread or is dropped.
Takes(next) ==
    /\ feeder.acceptor
    /\ \/ ahead > 0 /\ ahead' = ahead - 1 /\ UNCHANGED stage
       \/ ahead = 0 /\ stage = "queued" /\ stage' = next /\ UNCHANGED ahead
    /\ UNCHANGED <<angle, starts, carried, resultVars>>

Accept == Takes("accepted") /\ UNCHANGED feeder

\* The acceptor thread ends; the socket stays.
AcceptorBreaks ==
    feeder' = [feeder EXCEPT !.acceptor = FALSE, !.broken = TRUE]

\* accept raises.
AcceptFails == feeder.acceptor /\ AcceptorBreaks /\ MainStep

\* Thread.start raises.
ThreadFails == Takes("closed") /\ AcceptorBreaks

HandlerReads ==
    /\ stage = "accepted"
    /\ stage' = "read" /\ carried' = feeder.steering
    /\ UNCHANGED <<angle, feeder, starts, ahead, resultVars>>

HandlerSends ==
    /\ stage = "read"
    /\ stage' = "sent"
    /\ UNCHANGED <<angle, feeder, starts, ahead, carried, resultVars>>

-----------------------------------------------------------------------------
(* The model: da_get_steering_angle and uds_read                           *)

\* The socket is made; then connect waits for room in the queue.
ReadBegins ==
    /\ stage = "idle"
    /\ stage' = "connecting"
    /\ UNCHANGED <<angle, feeder, starts, ahead, carried, resultVars>>

Connects ==
    /\ stage = "connecting" /\ feeder.sock = "open" /\ ahead <= Backlog
    /\ stage' = "queued"
    /\ asked' = feeder.steering
    /\ UNCHANGED <<angle, feeder, starts, ahead, carried, reading, seen>>

Returns(value) ==
    /\ stage' = "idle" /\ carried' = 0 /\ asked' = 0
    /\ reading' = value
    /\ seen' = IF value = 0 THEN seen ELSE value
    /\ UNCHANGED <<angle, feeder, starts>>

\* [mutant] The error code of uds_read is returned as an angle.
RawErrorCode == 0 - 1

\* What the angle reads as when uds_read fails: straight ahead.
NoAngle == 0

\* socket or setsockopt fails before any connect.
NoSocket ==
    /\ stage = "idle"
    /\ reading' = NoAngle
    /\ UNCHANGED <<angle, feeder, starts, connVars, seen, asked>>

RecvReturns == stage = "sent" /\ Returns(carried) /\ UNCHANGED ahead

\* connect is refused, or the other end closes without sending.
ReadFails ==
    /\ stage = "closed" \/ (stage = "connecting" /\ feeder.sock # "open")
    /\ Returns(NoAngle) /\ UNCHANGED ahead

\* 100 ms without data; the connection keeps its place in the queue.
RecvTimesOut ==
    /\ stage \in {"queued", "accepted", "read"}
    /\ Returns(NoAngle)
    /\ ahead' = IF stage = "queued" THEN ahead + 1 ELSE ahead

-----------------------------------------------------------------------------

Main == StartRuns \/ Creates \/ Binds \/ StartsAcceptor \/ Update \/ Exit

Handler == HandlerReads \/ HandlerSends

Reader == Connects \/ RecvReturns \/ ReadFails \/ RecvTimesOut

Next == \/ SetAngle
        \/ Launch \/ Main \/ SubscriptionEnds \/ Signal \/ Kill
        \/ Accept \/ AcceptFails \/ ThreadFails
        \/ Handler
        \/ ReadBegins \/ NoSocket \/ Reader

Spec == Init /\ [][Next]_vars

\* Every thread that can run does, an update of a new angle is delivered, and
\* the model reads again and again.  Nothing is owed by errors, by signals, or
\* by who would start the feeder again.
Fairness == /\ WF_vars(Main)
            /\ WF_vars(Accept)
            /\ WF_vars(Handler)
            /\ WF_vars(ReadBegins)
            /\ WF_vars(Reader)

FairSpec == Spec /\ Fairness

-----------------------------------------------------------------------------
(* Properties                                                              *)

\* A signal that finds the socket made shuts the feeder for good, even before
\* the socket is bound: no read connects to this instance any more.
StoppedIsShut == feeder.stopped => feeder.sock # "open" /\ ~feeder.acceptor

\* The angles that the model reads never go back in time, over all instances.
Readings == INSTANCE PotholeReadings WITH view <- angle, seen <- seen
ImplementsReadings == Readings!Spec

\* An answer is never older than what the feeder held when its read connected,
\* whatever waited before the read in the queue, and however long: once an
\* update has come to the feeder, no read that begins gets the angle before.
FreshAnswer == stage \in {"read", "sent"} => asked <= carried

\* A stale angle is not read for ever: when the broker's angle stays, readings
\* become that angle or, when the feeder is away or late, 0, whatever happens
\* to the feeder; but for a thread that accept or Thread.start has ended.
NeverStale ==
    \A e \in 0..MaxAngle :
        <>[](angle = e /\ ~feeder.broken) => <>[](reading \in {0, e})

\* A read ends, even one of a socket that a signal in start() has left without
\* an acceptor thread: the first update ends that instance.
ReadEnds == stage # "idle" /\ angle # 0 ~> stage = "idle" \/ feeder.broken
=============================================================================

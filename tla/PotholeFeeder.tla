---------------------------- MODULE PotholeFeeder ---------------------------
(***************************************************************************)
(* The pothole path: pothole_feeder.py between the KUKSA broker and the    *)
(* Simulink model, which reads a lane with uds_read (da_connector.c).      *)
(*                                                                         *)
(* One thread runs the asyncio loop that subscribes to the broker's        *)
(* PotholeView and stores a Boolean per lane under a lock; one acceptor    *)
(* thread per lane accepts the connections of its socket and starts a      *)
(* daemon thread for each, which sends the lane's latest Boolean.  The     *)
(* model reads one lane after the other, every step.                       *)
(*                                                                         *)
(* A Boolean is named by the view it was computed from, views being        *)
(* numbered from 1; 0 stands for "no view": the False of __init__, and the *)
(* 0.0 that a failed read returns (the code does not tell them apart).     *)
(***************************************************************************)
EXTENDS Naturals, Sequences, SequencesExt

CONSTANTS
    Lanes,          \* the keys of self.sockets: left, center, right
    Backlog,        \* server_sock.listen(10)
    MaxView,        \* bound of the model: views published
    MaxFaults,      \* bound of the model: faults in one behaviour
    Faults          \* the faults that may happen, of FaultKinds

FaultKinds ==
    { "acceptError",      \* accept() raises: `except Exception: break`
      "threadError",      \* Thread.start() raises: the same clause
      "feederDown" }      \* the subscription raises, or the process dies

ASSUME LanesAssumption == Lanes # {}
ASSUME BoundAssumption == /\ Backlog \in Nat
                          /\ MaxView \in Nat
                          /\ MaxFaults \in Nat
                          /\ Faults \subseteq FaultKinds

VARIABLES
    view,           \* the broker's PotholeView
    \* the feeder
    served,         \* the feeder runs and the paths name its sockets
    cursor,         \* the last view the subscription delivered
    updating,       \* the view whose update holds self.lock; 0 if none
    stored,         \* the lanes that update has stored
    values,         \* self.values
    acceptors,      \* the lanes whose acceptor thread runs
    queue,          \* per lane, the connections not accepted, oldest first
    \* the model
    stage,          \* where its uds_read stands
    lane,           \* the lane it reads
    carried,        \* the value the thread of its connection has read
    reading,        \* per lane, what the last read returned
    seen,           \* history: the view of the last reading (not in the code)
    \* the environment
    faults          \* faults so far

updateVars == <<cursor, updating, stored, values>>
socketVars == <<acceptors, queue>>
readerVars == <<stage, lane, carried>>
resultVars == <<reading, seen>>
vars == <<view, served, updateVars, socketVars, readerVars, resultVars, faults>>

Stages == { "idle",         \* between two reads
            "connecting",   \* in connect, which blocks while the queue is full
            "queued",       \* in recv, not accepted
            "accepted",     \* in recv; a thread serves the connection
            "read",         \* in recv; the thread has read the value
            "sent",         \* in recv; the value is in the socket
            "closed" }      \* in recv; the other end closed without sending

TypeOK ==
    /\ view \in Nat
    /\ served \in BOOLEAN
    /\ cursor \in Nat /\ updating \in Nat /\ stored \subseteq Lanes
    /\ values \in [Lanes -> Nat]
    /\ acceptors \subseteq Lanes
    /\ queue \in [Lanes -> Seq({"live", "gone"})]
    /\ stage \in Stages /\ lane \in Lanes /\ carried \in Nat
    /\ reading \in [Lanes -> Nat] /\ seen \in Nat
    /\ faults \in Nat

Fault(kind) == kind \in Faults /\ faults < MaxFaults /\ faults' = faults + 1

Init ==
    /\ view = 0
    /\ served = TRUE
    /\ cursor = 0 /\ updating = 0 /\ stored = {}
    /\ values = [l \in Lanes |-> 0]
    /\ acceptors = Lanes /\ queue = [l \in Lanes |-> <<>>]
    /\ stage = "idle" /\ lane \in Lanes /\ carried = 0
    /\ reading = [l \in Lanes |-> 0] /\ seen = 0
    /\ faults = 0

-----------------------------------------------------------------------------
(* The broker and subscribe_pothole_view                                   *)

\* simulate_pothole.py, or any other client, sets Vehicle.ADAS.PotholeView.
PublishView ==
    /\ view < MaxView
    /\ view' = view + 1
    /\ UNCHANGED <<served, updateVars, socketVars, readerVars, resultVars, faults>>

\* [mutant] Nothing is delivered after the first update.
OnlyFirstUpdate == IF cursor = 0 THEN {view} \ {0} ELSE {}

\* What the subscription may deliver: first the current value, if there is
\* one, then newer ones in order (a slow subscriber may miss some).
Deliverable == IF cursor = 0 THEN {view} \ {0} ELSE (cursor + 1)..view

\* An update arrives, is parsed, and the loop takes the lock.
UpdateBegins ==
    /\ served /\ updating = 0
    /\ \E e \in Deliverable : cursor' = e /\ updating' = e
    /\ stored' = {}
    /\ UNCHANGED <<view, served, values, socketVars, readerVars, resultVars, faults>>

\* One of the assignments under the lock.
StoreLane ==
    /\ updating # 0
    /\ \E l \in Lanes \ stored : /\ values' = [values EXCEPT ![l] = updating]
                                 /\ stored' = stored \union {l}
    /\ UNCHANGED <<view, served, cursor, updating, socketVars, readerVars,
                   resultVars, faults>>

\* The lock is released.
UpdateEnds ==
    /\ updating # 0 /\ stored = Lanes
    /\ updating' = 0
    /\ UNCHANGED <<view, served, cursor, stored, values, socketVars, readerVars,
                   resultVars, faults>>

-----------------------------------------------------------------------------
(* _accept_connections and _handle_client                                  *)

\* [mutant] A connection whose client has given up is not taken.
AcceptIfLive(l) ==
    /\ l \in acceptors /\ queue[l] # <<>> /\ Head(queue[l]) = "live"
    /\ stage' = "accepted"
    /\ queue' = [queue EXCEPT ![l] = Tail(@)]
    /\ UNCHANGED <<view, served, updateVars, acceptors, lane, carried,
                   resultVars, faults>>

\* The thread of lane l takes the oldest connection and starts a thread for it.
\* A connection whose client has given up is served to no effect.
Accept(l) ==
    /\ l \in acceptors /\ queue[l] # <<>>
    /\ stage' = IF Head(queue[l]) = "live" THEN "accepted" ELSE stage
    /\ queue' = [queue EXCEPT ![l] = Tail(@)]
    /\ UNCHANGED <<view, served, updateVars, acceptors, lane, carried,
                   resultVars, faults>>

\* accept raises (no descriptors left, say): the thread of the lane ends, its
\* socket stays open and bound.
AcceptFails(l) ==
    /\ l \in acceptors
    /\ Fault("acceptError")
    /\ acceptors' = acceptors \ {l}
    /\ UNCHANGED <<view, served, updateVars, queue, readerVars, resultVars>>

\* accept returns but no thread can be started: the connection is dropped too.
ThreadFails(l) ==
    /\ l \in acceptors /\ queue[l] # <<>>
    /\ Fault("threadError")
    /\ acceptors' = acceptors \ {l}
    /\ stage' = IF Head(queue[l]) = "live" THEN "closed" ELSE stage
    /\ queue' = [queue EXCEPT ![l] = Tail(@)]
    /\ UNCHANGED <<view, served, updateVars, lane, carried, resultVars>>

\* [mutant] `with self.lock` is missing.
LockNotNeeded == TRUE

\* A handler can take self.lock: the update does not hold it.
LockFree == updating = 0

HandlerReads ==
    /\ stage = "accepted" /\ LockFree
    /\ carried' = values[lane]
    /\ stage' = "read"
    /\ UNCHANGED <<view, served, updateVars, socketVars, lane, resultVars, faults>>

\* sendall, then close.
HandlerSends ==
    /\ stage = "read"
    /\ stage' = "sent"
    /\ UNCHANGED <<view, served, updateVars, socketVars, lane, carried,
                   resultVars, faults>>

-----------------------------------------------------------------------------
(* The feeder's process                                                    *)

\* The subscription raises (only CancelledError is caught) or the process is
\* killed: the sockets close, the threads are daemons and die with it.
FeederEnds ==
    /\ served
    /\ Fault("feederDown")
    /\ served' = FALSE
    /\ cursor' = 0 /\ updating' = 0 /\ stored' = {}
    /\ values' = [l \in Lanes |-> 0]
    /\ acceptors' = {} /\ queue' = [l \in Lanes |-> <<>>]
    /\ stage' = IF stage \in {"queued", "accepted", "read"} THEN "closed" ELSE stage
    /\ UNCHANGED <<view, lane, carried, resultVars>>

\* start() of a new instance, with the values of __init__.
FeederStarts ==
    /\ ~served
    /\ served' = TRUE
    /\ acceptors' = Lanes
    /\ UNCHANGED <<view, updateVars, queue, readerVars, resultVars, faults>>

-----------------------------------------------------------------------------
(* The model: da_get_pothole_left, da_get_pothole_right and uds_read       *)

\* The C Caller block of lane l calls uds_read.
ReadBegins(l) ==
    /\ stage = "idle"
    /\ stage' = "connecting"
    /\ lane' = l
    /\ UNCHANGED <<view, served, updateVars, socketVars, carried, resultVars, faults>>

\* The socket is blocking: connect waits for room in the queue.
Connects ==
    /\ stage = "connecting" /\ served
    /\ Len(queue[lane]) <= Backlog
    /\ queue' = [queue EXCEPT ![lane] = Append(@, "live")]
    /\ stage' = "queued"
    /\ UNCHANGED <<view, served, updateVars, acceptors, lane, carried,
                   resultVars, faults>>

\* uds_read returns what it was sent, or -1 and its caller 0.0.
Returns(value) ==
    /\ stage' = "idle"
    /\ carried' = 0
    /\ reading' = [reading EXCEPT ![lane] = value]
    /\ seen' = IF value = 0 THEN seen ELSE value
    /\ UNCHANGED lane

\* [mutant] The error code of uds_read is returned as a lane's value.
RawErrorCode == 0 - 1

\* What a lane reads as when uds_read fails: "no pothole".
NoPothole == 0

\* socket or setsockopt fails (no descriptors left, say) before any connect.
NoSocket(l) ==
    /\ stage = "idle"
    /\ reading' = [reading EXCEPT ![l] = NoPothole]
    /\ UNCHANGED <<view, served, updateVars, socketVars, readerVars, seen, faults>>

\* No path, or a path nobody listens on.
ConnectFails ==
    /\ stage = "connecting" /\ ~served
    /\ Returns(NoPothole)
    /\ UNCHANGED <<view, served, updateVars, socketVars, faults>>

RecvReturns ==
    /\ stage = "sent"
    /\ Returns(carried)
    /\ UNCHANGED <<view, served, updateVars, socketVars, faults>>

RecvFindsClosed ==
    /\ stage = "closed"
    /\ Returns(NoPothole)
    /\ UNCHANGED <<view, served, updateVars, socketVars, faults>>

\* [mutant] The connection is left as it was.
LeaveInQueue == UNCHANGED queue

\* The model closes its end; the connection keeps its place in the queue.
GiveUp ==
    queue' = [queue EXCEPT ![lane] = ReplaceAll(@, "live", "gone")]

\* SO_RCVTIMEO: 100 ms without data.
RecvTimesOut ==
    /\ stage \in {"queued", "accepted", "read"}
    /\ GiveUp
    /\ Returns(NoPothole)
    /\ UNCHANGED <<view, served, updateVars, acceptors, faults>>

-----------------------------------------------------------------------------

Subscriber == UpdateBegins \/ StoreLane \/ UpdateEnds

Acceptor(l) == Accept(l) \/ AcceptFails(l) \/ ThreadFails(l)

Handler == HandlerReads \/ HandlerSends

Process == FeederEnds \/ FeederStarts

Reader == Connects \/ ConnectFails \/ RecvReturns \/ RecvFindsClosed \/ RecvTimesOut

Next == \/ PublishView
        \/ Subscriber
        \/ \E l \in Lanes : Acceptor(l) \/ ReadBegins(l) \/ NoSocket(l)
        \/ Handler
        \/ Process
        \/ Reader

Spec == Init /\ [][Next]_vars

\* Every thread that can run does, and the model reads each lane again and
\* again.  Nothing is owed by the broker's clients, by faults, or by who would
\* start the feeder again.
Fairness ==
    /\ WF_vars(Subscriber)
    /\ \A l \in Lanes : WF_vars(Accept(l)) /\ SF_vars(ReadBegins(l))
    /\ WF_vars(Handler)
    /\ WF_vars(Reader)

FairSpec == Spec /\ Fairness

-----------------------------------------------------------------------------
(* Properties                                                              *)

\* At most one connection, the model's current one, is worth serving, and it
\* is the last of its queue: those before it were given up.
OneLiveConnection ==
    \A l \in Lanes : \A i \in DOMAIN queue[l] :
        queue[l][i] = "live" => stage = "queued" /\ l = lane /\ i = Len(queue[l])

\* Readings never go back in time, not even from one lane to another: the
\* lock makes an update of all lanes one step for the threads that read them.
PR == INSTANCE PotholeReadings WITH view <- view, seen <- seen
ImplementsReadings == PR!Spec

\* When the feeder and its acceptor threads keep running, the readings of a
\* view that stays become that view's (or 0, when a read times out): no thread,
\* queue or socket keeps an old value alive.
ReadingsCatchUp ==
    \A e \in 1..MaxView :
        <>[](view = e /\ served /\ acceptors = Lanes)
            => <>[](\A l \in Lanes : reading[l] \in {0, e})

\* A read ends, whatever the reads before it have left in the queue, as long as
\* its lane has an acceptor thread or nobody listens at all.
ServedReadEnds ==
    stage # "idle" ~> stage = "idle" \/ (served /\ lane \notin acceptors)

\* "Set socket timeout to 100ms (must be fast to not stall model step)": a
\* read that was begun ends.
StepNeverStalls == stage # "idle" ~> stage = "idle"
=============================================================================

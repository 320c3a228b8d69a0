------------------------ MODULE SteeringFeederProofs ------------------------
(***************************************************************************)
(* The invariants of SteeringFeeder and its refinement of PotholeReadings, *)
(* for every length of the socket's queue and every bound of the model.    *)
(***************************************************************************)
EXTENDS SteeringFeeder, TLAPS

\* A signal before the socket is made leaves no trace; one after it is final.
Shut ==
    /\ feeder.pc \in {"down", "starting", "creating"} =>
           feeder.sock = "none" /\ ~feeder.stopped /\ ~feeder.acceptor
    /\ feeder.stopped =>
           feeder.sock = "closed" /\ ~feeder.running /\ ~feeder.acceptor

\* The angle moves on from the broker to the feeder, its threads and the
\* model; a subscription starts at an angle as new as all the model can have.
Order ==
    /\ seen <= angle /\ carried <= angle /\ feeder.steering <= angle
    /\ carried = 0 \/ seen <= carried
    /\ feeder.steering = 0 \/ (seen <= feeder.steering /\ carried <= feeder.steering)
    /\ feeder.pc = "serving" =>
           /\ seen <= feeder.cursor + 1 /\ carried <= feeder.cursor + 1
           /\ feeder.steering <= feeder.cursor + 1

Inv == TypeOK /\ Shut /\ Order

-----------------------------------------------------------------------------
(* Facts about the record of a process                                     *)

LEMMA Fields ==
    ASSUME NEW f \in Process
    PROVE  /\ f.pc \in Points /\ f.running \in BOOLEAN
           /\ f.sock \in {"none", "new", "open", "closed"}
           /\ f.acceptor \in BOOLEAN /\ f.cursor \in Nat /\ f.steering \in Nat
           /\ f.stopped \in BOOLEAN /\ f.broken \in BOOLEAN
  BY DEF Process

LEMMA NoProcessType == NoProcess \in Process
  BY DEF NoProcess, Process, Points

\* The steps of the others keep it.
LEMMA KeepsShut ==
    ASSUME Shut, UNCHANGED feeder
    PROVE  Shut'
  BY DEF Shut

LEMMA InitInv == Init => Inv
  <1> SUFFICES ASSUME Init PROVE Inv
    OBVIOUS
  <1>1. TypeOK
    BY NoProcessType DEF Init, TypeOK, Stages
  <1>2. Shut
    BY DEF Init, NoProcess, Shut
  <1>3. Order
    BY DEF Init, NoProcess, Order
  <1> QED
    BY <1>1, <1>2, <1>3 DEF Inv

-----------------------------------------------------------------------------
(* The steps                                                               *)

\* The main thread, and the signals.
LEMMA MainInv ==
    ASSUME Inv,
           \/ Launch \/ StartRuns \/ Creates \/ Binds \/ StartsAcceptor
           \/ SubscriptionEnds \/ AcceptFails
    PROVE  Inv'
  <1> USE DEF Inv, MainStep
  <1>t. /\ feeder \in Process /\ angle \in Nat /\ starts \in Nat
        /\ starts + 1 \in Nat /\ seen \in Nat /\ carried \in Nat
    BY DEF TypeOK
  <1>f. /\ feeder.pc \in Points /\ feeder.running \in BOOLEAN
        /\ feeder.sock \in {"none", "new", "open", "closed"}
        /\ feeder.acceptor \in BOOLEAN /\ feeder.cursor \in Nat
        /\ feeder.steering \in Nat
        /\ feeder.stopped \in BOOLEAN /\ feeder.broken \in BOOLEAN
    BY <1>t, Fields
  <1>1. feeder' \in Process
    <2>1. CASE Launch
      BY <2>1, <1>t DEF Launch, Process, Points
    <2>2. CASE StartRuns
      BY <2>2, <1>t DEF StartRuns, Process, Points
    <2>3. CASE Creates
      BY <2>3, <1>t DEF Creates, Process, Points
    <2>4. CASE Binds
      BY <2>4, <1>t DEF Binds, Process, Points
    <2>5. CASE StartsAcceptor
      <3>1. (IF angle = 0 THEN 0 ELSE angle - 1) \in Nat
        BY <1>t
      <3> QED
        BY <2>5, <3>1, <1>t, <1>f DEF StartsAcceptor, Process, Points
    <2>6. CASE SubscriptionEnds
      BY <2>6, <1>t DEF SubscriptionEnds, Process, Points
    <2>7. CASE AcceptFails
      BY <2>7, <1>t DEF AcceptFails, AcceptorBreaks, Process
    <2> QED
      BY <2>1, <2>2, <2>3, <2>4, <2>5, <2>6, <2>7
  <1>2. TypeOK'
    <2>1. starts' \in Nat /\ UNCHANGED <<angle, connVars, resultVars>>
      BY <1>t DEF Launch, StartRuns, Creates, Binds, StartsAcceptor,
                  SubscriptionEnds, AcceptFails
    <2> QED
      BY <1>1, <2>1 DEF TypeOK, connVars, resultVars
  <1>3. Shut'
    BY <1>t, <1>f DEF Launch, StartRuns, Creates, Binds, StartsAcceptor,
           SubscriptionEnds, AcceptFails, AcceptorBreaks, ClosedBySignal,
           Process, Points, Shut
  <1>4. Order'
    <2>1. UNCHANGED <<angle, seen, carried>>
      BY DEF Launch, StartRuns, Creates, Binds, StartsAcceptor,
             SubscriptionEnds, AcceptFails, connVars, resultVars
    <2>2. feeder'.steering = feeder.steering
      BY <1>t DEF Launch, StartRuns, Creates, Binds, StartsAcceptor,
             SubscriptionEnds, AcceptFails, AcceptorBreaks, Process
    <2>3. feeder'.pc = "serving" =>
            \/ feeder.pc = "serving" /\ feeder'.cursor = feeder.cursor
            \/ feeder'.cursor = IF angle = 0 THEN 0 ELSE angle - 1
      BY <1>t DEF Launch, StartRuns, Creates, Binds, StartsAcceptor,
             SubscriptionEnds, AcceptFails, AcceptorBreaks, Process
    <2> QED
      BY <1>t, <1>f, <2>1, <2>2, <2>3 DEF Order
  <1> QED
    BY <1>2, <1>3, <1>4

LEMMA UpdateInv == ASSUME Inv, Update PROVE Inv'
  <1> USE DEF Inv, MainStep
  <1>t. /\ feeder \in Process /\ angle \in Nat
        /\ seen \in Nat /\ carried \in Nat
    BY DEF TypeOK
  <1>f. feeder.cursor \in Nat /\ feeder.steering \in Nat /\ feeder.pc = "serving"
    BY <1>t, Fields DEF Update
  <1>u. UNCHANGED <<angle, starts, connVars, resultVars>>
    BY DEF Update
  <1>1. CASE Breaks
    <2>1. feeder' = [feeder EXCEPT !.pc = "leaving"]
      BY <1>1 DEF Update
    <2>2. TypeOK'
      <3>1. feeder' \in Process
        BY <2>1, <1>t DEF Process, Points
      <3> QED
        BY <1>u, <3>1 DEF TypeOK, connVars, resultVars
    <2>3. Shut'
      BY <2>1, <1>t DEF Process, Shut
    <2>4. Order'
      BY <2>1, <1>t, <1>u DEF Process, Order, connVars, resultVars
    <2> QED
      BY <2>2, <2>3, <2>4
  <1>2. CASE ~Breaks
    <2> PICK e \in (feeder.cursor + 1)..angle :
               feeder' = [feeder EXCEPT !.cursor = e, !.steering = e]
      BY <1>2 DEF Update, Stores
    <2>1. e \in Nat /\ feeder.cursor + 1 <= e /\ e <= angle
      BY <1>f, <1>t
    <2>2. TypeOK'
      <3>1. feeder' \in Process
        BY <2>1, <1>t DEF Process
      <3> QED
        BY <1>u, <3>1 DEF TypeOK, connVars, resultVars
    <2>3. Shut'
      BY <1>t DEF Process, Shut
    <2>4. Order'
      <3>1. feeder'.steering = e /\ feeder'.cursor = e
        BY <1>t DEF Process
      <3>2. UNCHANGED <<angle, seen, carried>>
        BY <1>u DEF connVars, resultVars
      <3> QED
        BY <1>t, <1>f, <2>1, <3>1, <3>2 DEF Order
    <2> QED
      BY <2>2, <2>3, <2>4
  <1> QED
    BY <1>1, <1>2

LEMMA SignalInv == ASSUME Inv, Signal PROVE Inv'
  <1> USE DEF Inv
  <1>t. /\ feeder \in Process /\ stage \in Stages
    BY DEF TypeOK
  <1>f. /\ feeder.stopped \in BOOLEAN
        /\ feeder.sock \in {"none", "new", "open", "closed"}
        /\ feeder.pc \in Points
    BY <1>t, Fields
  <1>0. feeder' = [feeder EXCEPT
                     !.running = FALSE, !.acceptor = FALSE,
                     !.sock = IF @ = "none" THEN "none" ELSE "closed",
                     !.stopped = @ \/ feeder.sock # "none"]
    BY DEF Signal
  <1>1. /\ feeder'.pc = feeder.pc /\ feeder'.running = FALSE
        /\ feeder'.acceptor = FALSE
        /\ feeder'.sock = IF feeder.sock = "none" THEN "none" ELSE "closed"
        /\ feeder'.cursor = feeder.cursor /\ feeder'.steering = feeder.steering
    BY <1>t, <1>0 DEF Process
  <1>2. feeder'.stopped = (feeder.stopped \/ feeder.sock # "none")
    BY <1>t, <1>0 DEF Process
  <1>3. feeder' \in Process
    BY <1>t, <1>f, <1>0 DEF Process
  <1>4. TypeOK'
    BY <1>3 DEF TypeOK, Signal, Stages, resultVars
  <1>5. Shut'
    BY <1>1, <1>2, <1>f DEF Shut
  <1>6. Order'
    BY <1>1 DEF Order, Signal, resultVars
  <1> QED
    BY <1>4, <1>5, <1>6

LEMMA DiesInv == ASSUME Inv, Dies PROVE Inv'
  <1> USE DEF Inv
  <1>1. TypeOK'
    BY NoProcessType DEF TypeOK, Dies, Stages, resultVars
  <1>2. Shut'
    BY DEF Dies, NoProcess, Shut
  <1>3. Order'
    BY DEF Dies, NoProcess, Order, resultVars, TypeOK
  <1> QED
    BY <1>1, <1>2, <1>3

\* The threads of the feeder.
LEMMA TakesInv ==
    ASSUME Inv, Accept \/ ThreadFails
    PROVE  Inv'
  <1> USE DEF Inv
  <1>t. feeder \in Process /\ ahead \in Nat
    BY DEF TypeOK
  <1>f. /\ feeder.pc \in Points /\ feeder.acceptor \in BOOLEAN
        /\ feeder.stopped \in BOOLEAN
    BY <1>t, Fields
  <1>0. feeder.acceptor
    BY DEF Accept, ThreadFails, Takes
  <1>1. feeder' \in Process
    BY <1>t DEF Accept, ThreadFails, AcceptorBreaks, Process
  <1>2. /\ ahead' \in Nat /\ stage' \in Stages
        /\ UNCHANGED <<angle, starts, carried, resultVars>>
    BY <1>t DEF Accept, ThreadFails, Takes, TypeOK, Stages
  <1>3. TypeOK'
    BY <1>1, <1>2 DEF TypeOK, resultVars
  <1>4. feeder' = feeder \/ AcceptorBreaks
    BY DEF Accept, ThreadFails
  <1>5. Shut'
    BY <1>0, <1>4, <1>t DEF Shut, AcceptorBreaks, Process
  <1>6. Order'
    BY <1>2, <1>4, <1>t DEF Order, AcceptorBreaks, Process, resultVars
  <1> QED
    BY <1>3, <1>5, <1>6

\* The handler's thread, and the model.
LEMMA ReaderInv ==
    ASSUME Inv,
           \/ SetAngle \/ HandlerReads \/ HandlerSends \/ ReadBegins \/ NoSocket
           \/ Connects \/ RecvReturns \/ ReadFails \/ RecvTimesOut
           \/ UNCHANGED vars
    PROVE  Inv'
  <1> USE DEF Inv
  <1>t. /\ feeder \in Process /\ angle \in Nat /\ starts \in Nat
        /\ ahead \in Nat /\ stage \in Stages /\ carried \in Nat
        /\ reading \in Nat /\ seen \in Nat /\ asked \in Nat
    BY DEF TypeOK
  <1>f. feeder.steering \in Nat /\ feeder.cursor \in Nat
    BY <1>t, Fields
  <1>0. UNCHANGED <<feeder, starts>>
    BY DEF SetAngle, HandlerReads, HandlerSends, ReadBegins, NoSocket, Connects,
           RecvReturns, ReadFails, RecvTimesOut, Returns, vars
  <1>1. Shut'
    BY <1>0, KeepsShut
  <1>2. TypeOK'
    <2>1. /\ angle' \in Nat /\ ahead' \in Nat /\ stage' \in Stages
          /\ carried' \in Nat /\ reading' \in Nat /\ seen' \in Nat
          /\ asked' \in Nat
      BY <1>t, <1>f DEF SetAngle, HandlerReads, HandlerSends, ReadBegins, NoSocket,
             Connects, RecvReturns, ReadFails, RecvTimesOut, Returns, NoAngle,
             Stages, vars, connVars, resultVars
    <2> QED
      BY <1>0, <1>t, <2>1 DEF TypeOK
  <1>3. Order'
    <2>1. CASE angle' = angle + 1 /\ UNCHANGED <<seen, carried>>
      BY <1>0, <1>t, <1>f, <2>1 DEF Order
    <2>2. CASE UNCHANGED <<angle, seen>> /\ carried' = feeder.steering
      BY <1>0, <1>t, <1>f, <2>2 DEF Order
    <2>3. CASE UNCHANGED <<angle, seen, carried>>
      BY <1>0, <2>3 DEF Order
    <2>4. CASE /\ UNCHANGED angle /\ carried' = 0
               /\ seen' = seen \/ (seen' = carried /\ carried # 0)
      BY <1>0, <1>t, <1>f, <2>4 DEF Order
    <2> QED
      BY <2>1, <2>2, <2>3, <2>4
         DEF SetAngle, HandlerReads, HandlerSends, ReadBegins, NoSocket, Connects,
             RecvReturns, ReadFails, RecvTimesOut, Returns, NoAngle, vars,
             connVars, resultVars
  <1> QED
    BY <1>1, <1>2, <1>3

LEMMA NextInv == Inv /\ [Next]_vars => Inv'
  <1> SUFFICES ASSUME Inv, [Next]_vars PROVE Inv'
    OBVIOUS
  <1>1. CASE \/ Launch \/ StartRuns \/ Creates \/ Binds \/ StartsAcceptor
             \/ SubscriptionEnds \/ AcceptFails
    BY <1>1, MainInv
  <1>2. CASE Update
    BY <1>2, UpdateInv
  <1>3. CASE Signal
    BY <1>3, SignalInv
  <1>4. CASE Exit \/ Kill
    BY <1>4, DiesInv DEF Exit, Kill
  <1>5. CASE Accept \/ ThreadFails
    BY <1>5, TakesInv
  <1>6. CASE \/ SetAngle \/ HandlerReads \/ HandlerSends \/ ReadBegins \/ NoSocket
             \/ Connects \/ RecvReturns \/ ReadFails \/ RecvTimesOut
             \/ UNCHANGED vars
    BY <1>6, ReaderInv
  <1> QED
    BY <1>1, <1>2, <1>3, <1>4, <1>5, <1>6 DEF Next, Main, Handler, Reader

LEMMA Invariance == Spec => []Inv
  BY InitInv, NextInv, PTL DEF Spec

-----------------------------------------------------------------------------

\* The attributes of SteeringAngleFeeder keep their ranges.
THEOREM SteeringTypeCorrect == Spec => []TypeOK
  <1>1. Inv => TypeOK
    BY DEF Inv
  <1> QED
    BY <1>1, Invariance, PTL

\* A stop() that finds the socket made is final for its instance, at whatever
\* point of start() the signal comes.
THEOREM StopIsFinal == Spec => []StoppedIsShut
  <1>1. Inv => StoppedIsShut
    <2> SUFFICES ASSUME Shut, feeder.stopped
                 PROVE  feeder.sock # "open" /\ ~feeder.acceptor
      BY DEF Inv, StoppedIsShut
    <2> QED
      BY DEF Shut
  <1> QED
    BY <1>1, Invariance, PTL

\* Over restarts, kills and failed reads, the model reads angles in the order
\* in which they were set.
THEOREM SteeringImplementsReadings == Spec => ImplementsReadings
  <1>1. Init => Readings!Init
    BY DEF Init, Readings!Init
  <1>2. Inv /\ [Next]_vars => [Readings!Next]_Readings!vars
    <2> SUFFICES ASSUME Inv, [Next]_vars
                 PROVE  Readings!Next \/ UNCHANGED Readings!vars
      OBVIOUS
    <2>1. CASE SetAngle
      BY <2>1 DEF SetAngle, resultVars, Readings!Next, Readings!PublishView
    <2>2. CASE RecvReturns \/ ReadFails \/ RecvTimesOut
      <3>1. angle \in Nat /\ seen \in Nat /\ carried \in Nat
        BY DEF Inv, TypeOK
      <3>2. seen' \in seen..angle /\ UNCHANGED angle
        BY <2>2, <3>1 DEF RecvReturns, ReadFails, RecvTimesOut, Returns,
                          NoAngle, Inv, Order
      <3> QED
        BY <3>2 DEF Readings!Next, Readings!Read
    <2>3. CASE UNCHANGED <<angle, seen>>
      BY <2>3 DEF Readings!vars
    <2>4. \/ SetAngle \/ RecvReturns \/ ReadFails \/ RecvTimesOut
          \/ UNCHANGED <<angle, seen>>
      BY DEF Next, Main, Handler, Reader, MainStep, Launch, StartRuns, Creates,
             Binds, StartsAcceptor, Update, SubscriptionEnds, Signal, Exit,
             Kill, Dies, Accept, AcceptFails, ThreadFails, Takes, HandlerReads,
             HandlerSends, ReadBegins, NoSocket, Connects, vars, connVars, resultVars
    <2> QED
      BY <2>1, <2>2, <2>3, <2>4
  <1> QED
    BY <1>1, <1>2, Invariance, PTL DEF Spec, ImplementsReadings, Readings!Spec

-----------------------------------------------------------------------------
(* Answers are fresh                                                       *)

\* The angle of an instance only becomes newer, so that what a read finds when
\* it is served is not older than what it would have found when it connected.
Fresh ==
    /\ stage \in {"queued", "accepted"} => asked <= feeder.steering
    /\ FreshAnswer

LEMMA FreshInit == Init => Fresh
  BY DEF Init, Fresh, FreshAnswer

\* No step of a live process takes its angle back.
LEMMA AngleAdvances ==
    ASSUME Inv, [Next]_vars, ~Dies
    PROVE  feeder.steering <= feeder'.steering
  <1>t. feeder \in Process /\ angle \in Nat
    BY DEF Inv, TypeOK
  <1>f. feeder.cursor \in Nat /\ feeder.steering \in Nat
    BY <1>t, Fields
  <1>1. CASE Update
    <2>1. CASE Breaks
      <3>1. feeder'.steering = feeder.steering
        BY <1>1, <1>t, <2>1 DEF Update, Process
      <3> QED
        BY <1>f, <3>1
    <2>2. CASE ~Breaks
      <3> PICK e \in (feeder.cursor + 1)..angle :
                 feeder' = [feeder EXCEPT !.cursor = e, !.steering = e]
        BY <1>1, <2>2 DEF Update, Stores
      <3>1. feeder'.steering = e
        BY <1>t DEF Process
      <3>2. feeder.pc = "serving"
        BY <1>1 DEF Update
      <3>3. feeder.steering <= feeder.cursor + 1
        BY <3>2 DEF Inv, Order
      <3> QED
        BY <1>t, <1>f, <3>1, <3>3
    <2> QED
      BY <2>1, <2>2
  <1>2. CASE \/ Launch \/ StartRuns \/ Creates \/ Binds \/ StartsAcceptor
             \/ SubscriptionEnds \/ AcceptFails \/ ThreadFails \/ Signal
    <2>1. feeder'.steering = feeder.steering
      BY <1>2, <1>t DEF Launch, StartRuns, Creates, Binds, StartsAcceptor,
             SubscriptionEnds, AcceptFails, ThreadFails, AcceptorBreaks, Signal,
             Process
    <2> QED
      BY <1>f, <2>1
  <1>3. CASE UNCHANGED feeder
    BY <1>f, <1>3
  <1>4. SetAngle \/ Accept \/ Handler \/ ReadBegins \/ NoSocket \/ Reader
        \/ UNCHANGED vars
        => UNCHANGED feeder
    BY DEF SetAngle, Accept, Handler, HandlerReads, HandlerSends, ReadBegins,
           NoSocket, Reader, Connects, RecvReturns, ReadFails, RecvTimesOut, Returns, vars
  <1> QED
    BY <1>1, <1>2, <1>3, <1>4 DEF Next, Main, Exit, Kill

LEMMA FreshNext == Inv /\ Fresh /\ [Next]_vars => Fresh'
  <1> SUFFICES ASSUME Inv, Fresh, [Next]_vars PROVE Fresh'
    OBVIOUS
  <1>t. /\ feeder \in Process /\ carried \in Nat /\ asked \in Nat
        /\ feeder.steering \in Nat
    BY Fields DEF Inv, TypeOK
  <1>n. feeder'.steering \in Nat
    <2>1. Inv'
      BY NextInv
    <2>2. feeder' \in Process
      BY <2>1 DEF Inv, TypeOK
    <2> QED
      BY <2>2, Fields
  <1>1. CASE Dies
    <2>1. /\ stage' \notin {"queued", "accepted", "read"} /\ UNCHANGED <<asked, carried>>
          /\ stage' = "sent" => stage = "sent"
      BY <1>1 DEF Dies, resultVars
    <2> QED
      BY <2>1 DEF Fresh, FreshAnswer
  <1>2. CASE ~Dies
    <2>0. feeder.steering <= feeder'.steering
      BY <1>2, AngleAdvances
    <2>1. CASE Connects
      BY <2>1, <1>t DEF Connects, Fresh, FreshAnswer
    <2>2. CASE HandlerReads
      BY <2>2, <1>t DEF HandlerReads, resultVars, Fresh, FreshAnswer
    <2>3. CASE HandlerSends
      BY <2>3 DEF HandlerSends, resultVars, Fresh, FreshAnswer
    <2>4. CASE \E value : Returns(value)
      BY <2>4 DEF Returns, Fresh, FreshAnswer
    <2>5. CASE /\ UNCHANGED <<asked, carried>>
               /\ stage' \in {"queued", "accepted"} => stage \in {"queued", "accepted"}
               /\ stage' \in {"read", "sent"} => stage' = stage
      BY <1>t, <1>n, <2>0, <2>5 DEF Fresh, FreshAnswer
    <2>6. RecvReturns \/ ReadFails \/ RecvTimesOut => \E value : Returns(value)
      BY DEF RecvReturns, ReadFails, RecvTimesOut
    <2>7. \/ SetAngle \/ Launch \/ StartRuns \/ Creates \/ Binds
          \/ StartsAcceptor \/ Update \/ SubscriptionEnds \/ Signal
          \/ Accept \/ AcceptFails \/ ThreadFails \/ ReadBegins \/ NoSocket
          \/ UNCHANGED vars
          => /\ UNCHANGED <<asked, carried>>
             /\ stage' \in {"queued", "accepted"} => stage \in {"queued", "accepted"}
             /\ stage' \in {"read", "sent"} => stage' = stage
      BY DEF SetAngle, MainStep, Launch, StartRuns, Creates, Binds,
             StartsAcceptor, Update, SubscriptionEnds, Signal, Accept,
             AcceptFails, ThreadFails, Takes, ReadBegins, NoSocket, vars, connVars,
             resultVars
    <2> QED
      BY <1>2, <2>1, <2>2, <2>3, <2>4, <2>5, <2>6, <2>7
         DEF Next, Main, Exit, Kill, Handler, Reader
  <1> QED
    BY <1>1, <1>2

\* A read gets an angle at least as new as the one that the feeder held when it
\* connected, across signals, deaths and connections given up before it.
THEOREM AnswersAreFresh == Spec => []FreshAnswer
  <1>1. Fresh => FreshAnswer
    BY DEF Fresh
  <1> QED
    BY <1>1, FreshInit, FreshNext, Invariance, PTL DEF Spec

-----------------------------------------------------------------------------
(* An open socket is served                                                *)

\* What ReadEnds rests on when connect waits for room.  A socket that listens
\* has its acceptor thread, or lost it to an error of accept or Thread.start,
\* or is about to get it or to be closed, or a signal came before the socket was
\* made.  Then the subscription still owes the angle of its start, and breaks.
OpenIsServed ==
    feeder.sock = "open" =>
        \/ feeder.acceptor \/ feeder.broken
        \/ feeder.pc \in {"bound", "leaving"}
        \/ /\ feeder.pc = "serving" /\ ~feeder.running
           /\ angle # 0 => feeder.cursor < angle

NotYetOpen == feeder.pc = "created" => feeder.sock # "open"

\* Angles that the subscription has delivered, or may skip, have been set.
CursorIsSet == feeder.cursor <= angle

LEMMA CursorNext == Inv /\ CursorIsSet /\ [Next]_vars => CursorIsSet'
  <1> SUFFICES ASSUME Inv, CursorIsSet, [Next]_vars PROVE CursorIsSet'
    OBVIOUS
  <1> USE DEF MainStep
  <1>t. /\ feeder \in Process /\ angle \in Nat /\ feeder.cursor \in Nat
        /\ feeder.cursor <= angle
    BY Fields DEF Inv, TypeOK, CursorIsSet
  <1>1. CASE StartsAcceptor
    <2>1. feeder'.cursor = (IF angle = 0 THEN 0 ELSE angle - 1) /\ UNCHANGED angle
      BY <1>1, <1>t DEF StartsAcceptor, Process
    <2> QED
      BY <2>1, <1>t DEF CursorIsSet
  <1>2. CASE Update
    <2>1. feeder'.cursor \in {feeder.cursor} \union (feeder.cursor + 1)..angle
          /\ UNCHANGED angle
      BY <1>2, <1>t DEF Update, Process
    <2> QED
      BY <2>1, <1>t DEF CursorIsSet
  <1>3. CASE Dies
    BY <1>3, <1>t DEF Dies, NoProcess, CursorIsSet
  <1>4. CASE \/ Launch \/ StartRuns \/ Creates \/ Binds \/ SubscriptionEnds
             \/ Signal \/ AcceptFails \/ ThreadFails
    <2>1. feeder'.cursor = feeder.cursor
      BY <1>4, <1>t DEF Launch, StartRuns, Creates, Binds, SubscriptionEnds,
         Signal, AcceptFails, ThreadFails, AcceptorBreaks, Process
    <2>2. UNCHANGED angle
      BY <1>4 DEF Launch, StartRuns, Creates, Binds, SubscriptionEnds,
         Signal, AcceptFails, ThreadFails, Takes
    <2> QED
      BY <2>1, <2>2, <1>t DEF CursorIsSet
  <1>5. CASE UNCHANGED feeder /\ angle' \in {angle, angle + 1}
    BY <1>5, <1>t DEF CursorIsSet
  <1>6. SetAngle \/ Accept \/ Handler \/ ReadBegins \/ NoSocket \/ Reader
        \/ UNCHANGED vars
        => UNCHANGED feeder /\ angle' \in {angle, angle + 1}
    BY DEF SetAngle, Accept, Takes, Handler, HandlerReads, HandlerSends, ReadBegins,
           NoSocket, Reader, Connects, RecvReturns, ReadFails, RecvTimesOut, Returns, vars
  <1> QED
    BY <1>1, <1>2, <1>3, <1>4, <1>5, <1>6 DEF Next, Main, Exit, Kill

LEMMA ServedNext ==
    /\ Inv /\ CursorIsSet /\ OpenIsServed /\ NotYetOpen /\ [Next]_vars
    => OpenIsServed' /\ NotYetOpen'
  <1> SUFFICES ASSUME Inv, CursorIsSet, OpenIsServed, NotYetOpen, [Next]_vars
               PROVE  OpenIsServed' /\ NotYetOpen'
    OBVIOUS
  <1> USE DEF MainStep
  <1>t. /\ feeder \in Process /\ angle \in Nat
        /\ feeder.cursor \in Nat /\ feeder.pc \in Points
        /\ feeder.running \in BOOLEAN /\ feeder.acceptor \in BOOLEAN
        /\ feeder.broken \in BOOLEAN
    BY Fields DEF Inv, TypeOK
  <1>c. feeder.cursor <= angle
    BY DEF CursorIsSet
  <1>h. feeder.pc \in {"down", "starting", "creating"} => feeder.sock = "none"
    BY DEF Inv, Shut
  <1>1. CASE SetAngle
    <2>1. UNCHANGED feeder /\ angle' = angle + 1
      BY <1>1 DEF SetAngle
    <2>2. feeder.cursor <= angle /\ (angle # 0 => feeder.cursor < angle)
          => feeder'.cursor < angle'
      BY <2>1, <1>t
    <2> QED
      BY <2>1, <2>2, <1>c DEF OpenIsServed, NotYetOpen
  <1>2. CASE Launch \/ StartRuns \/ Creates
    <2>1. feeder'.sock # "open"
      BY <1>2, <1>h, <1>t DEF Launch, StartRuns, Creates, Process
    <2> QED
      BY <2>1 DEF OpenIsServed, NotYetOpen
  <1>3. CASE Binds
    <2>1. feeder'.pc \in {"bound", "leaving"}
      BY <1>3, <1>t DEF Binds, Process
    <2> QED
      BY <2>1 DEF OpenIsServed, NotYetOpen
  <1>4. CASE StartsAcceptor
    <2>1. /\ feeder'.pc = "serving" /\ feeder'.acceptor = feeder.running
          /\ feeder'.running = feeder.running /\ UNCHANGED angle
          /\ feeder'.cursor = IF angle = 0 THEN 0 ELSE angle - 1
      BY <1>4, <1>t DEF StartsAcceptor, Process
    <2>2. angle # 0 => feeder'.cursor < angle'
      BY <2>1, <1>t
    <2>3. feeder'.acceptor \/ ~feeder'.running
      BY <2>1, <1>t
    <2> QED
      BY <2>1, <2>2, <2>3 DEF OpenIsServed, NotYetOpen
  <1>5. CASE Update
    <2>1. CASE Breaks
      <3>1. feeder'.pc = "leaving"
        BY <1>5, <1>t, <2>1 DEF Update, Process
      <3> QED
        BY <3>1 DEF OpenIsServed, NotYetOpen
    <2>2. CASE ~Breaks
      <3>1. /\ feeder.pc = "serving" /\ feeder'.pc = "serving" /\ feeder.running
            /\ feeder'.sock = feeder.sock /\ feeder'.acceptor = feeder.acceptor
            /\ feeder'.broken = feeder.broken
        BY <1>5, <1>t, <2>2 DEF Update, Breaks, Process
      <3> QED
        BY <3>1 DEF OpenIsServed, NotYetOpen
    <2> QED
      BY <2>1, <2>2
  <1>6. CASE SubscriptionEnds
    <2>1. feeder'.pc = "leaving"
      BY <1>6, <1>t DEF SubscriptionEnds, Process
    <2> QED
      BY <2>1 DEF OpenIsServed, NotYetOpen
  <1>7. CASE Signal
    <2>1. feeder'.sock # "open"
      BY <1>7, <1>t DEF Signal, Process
    <2> QED
      BY <2>1 DEF OpenIsServed, NotYetOpen
  <1>8. CASE Dies
    BY <1>8 DEF Dies, NoProcess, OpenIsServed, NotYetOpen
  <1>9. CASE AcceptFails \/ ThreadFails
    <2>1. /\ feeder'.broken /\ feeder'.pc = feeder.pc /\ feeder'.sock = feeder.sock
      BY <1>9, <1>t DEF AcceptFails, ThreadFails, AcceptorBreaks, Process
    <2> QED
      BY <2>1 DEF OpenIsServed, NotYetOpen
  <1>10. CASE UNCHANGED <<feeder, angle>>
    BY <1>10 DEF OpenIsServed, NotYetOpen
  <1>11. Accept \/ Handler \/ ReadBegins \/ NoSocket \/ Reader \/ UNCHANGED vars
          => UNCHANGED <<feeder, angle>>
    BY DEF Accept, Takes, Handler, HandlerReads, HandlerSends, ReadBegins,
           NoSocket, Reader, Connects, RecvReturns, ReadFails, RecvTimesOut, Returns, vars
  <1> QED
    BY <1>1, <1>2, <1>3, <1>4, <1>5, <1>6, <1>7, <1>8, <1>9, <1>10, <1>11
       DEF Next, Main, Exit, Kill

\* No signal, error or restart leaves a listening socket without a thread that
\* accepts or a step, already owed, that closes it or gives it one.
THEOREM OpenSocketIsServed == Spec => []OpenIsServed
  <1>1. Init => CursorIsSet /\ OpenIsServed /\ NotYetOpen
    BY DEF Init, NoProcess, CursorIsSet, OpenIsServed, NotYetOpen
  <1> QED
    BY <1>1, CursorNext, ServedNext, Invariance, PTL DEF Spec

-----------------------------------------------------------------------------
(* Reads end                                                               *)

\* Steps that a read at stage s still needs at most, with n connections before
\* it in the queue.
Left(s, n) ==
    CASE s = "idle"                -> 0
      [] s \in {"sent", "closed"}  -> 1
      [] s = "read"                -> 2
      [] s = "accepted"            -> 3
      [] s = "queued"              -> n + 4
      [] s = "connecting"          -> n + 5

ReadLeft == Left(stage, ahead)

\* What is left of ReadEnds without fairness: no step of anyone takes a read
\* further from its end, and each step of its own, of its handler, or of the
\* acceptor thread while it waits for that, brings the end nearer.
ReadAdvances ==
    [][stage # "idle" =>
          /\ ReadLeft' <= ReadLeft
          /\ \/ Reader \/ Handler
             \/ stage \in {"connecting", "queued"} /\ (Accept \/ ThreadFails)
             => ReadLeft' < ReadLeft]_vars

\* Reads that time out leave no more connections than the queue holds.
QueueIsBounded == ahead <= IF stage = "queued" THEN Backlog ELSE Backlog + 1

ReadIsShort == ReadLeft <= Backlog + 6

LEMMA BoundedNext == Inv /\ QueueIsBounded /\ [Next]_vars => QueueIsBounded'
  <1> SUFFICES ASSUME Inv, QueueIsBounded, [Next]_vars PROVE QueueIsBounded'
    OBVIOUS
  <1>t. ahead \in Nat /\ Backlog \in Nat
    BY BoundAssumption DEF Inv, TypeOK
  <1>1. CASE UNCHANGED ahead /\ (stage' = "queued" => stage = "queued")
    BY <1>1, <1>t DEF QueueIsBounded
  <1>2. CASE Signal \/ Dies
    BY <1>2, <1>t DEF Signal, Dies, QueueIsBounded
  <1>3. CASE Accept \/ ThreadFails
    BY <1>3, <1>t DEF Accept, ThreadFails, Takes, QueueIsBounded
  <1>4. CASE Connects
    BY <1>4, <1>t DEF Connects, QueueIsBounded
  <1>5. CASE RecvTimesOut
    BY <1>5, <1>t DEF RecvTimesOut, Returns, QueueIsBounded
  <1>6. \/ SetAngle \/ Launch \/ StartRuns \/ Creates \/ Binds \/ StartsAcceptor
        \/ Update \/ SubscriptionEnds \/ AcceptFails \/ HandlerReads
        \/ HandlerSends \/ ReadBegins \/ NoSocket \/ RecvReturns \/ ReadFails
        \/ UNCHANGED vars
        => UNCHANGED ahead /\ (stage' = "queued" => stage = "queued")
    BY DEF SetAngle, MainStep, Launch, StartRuns, Creates, Binds, StartsAcceptor,
           Update, SubscriptionEnds, AcceptFails, HandlerReads, HandlerSends,
           ReadBegins, NoSocket, RecvReturns, ReadFails, Returns, vars, connVars
  <1> QED
    BY <1>1, <1>2, <1>3, <1>4, <1>5, <1>6 DEF Next, Main, Exit, Kill, Handler, Reader

\* The variant at each stage.
LEMMA LeftIs ==
    \A n \in Nat :
        /\ Left("idle", n) = 0 /\ Left("sent", n) = 1 /\ Left("closed", n) = 1
        /\ Left("read", n) = 2 /\ Left("accepted", n) = 3
        /\ Left("queued", n) = n + 4 /\ Left("connecting", n) = n + 5
BY DEF Left

LEMMA AdvanceNext ==
    ASSUME Inv, [Next]_vars, stage # "idle"
    PROVE  /\ ReadLeft' <= ReadLeft
           /\ \/ Reader \/ Handler
              \/ stage \in {"connecting", "queued"} /\ (Accept \/ ThreadFails)
              => ReadLeft' < ReadLeft
  <1> DEFINE n == ahead
             p == ahead'
  <1>t. n \in Nat /\ p \in Nat /\ stage \in Stages
    BY NextInv DEF Inv, TypeOK
  <1>d. ReadLeft = Left(stage, n) /\ ReadLeft' = Left(stage', p)
    BY DEF ReadLeft
  <1> HIDE DEF n, p
  <1>n. /\ Left("idle", n) = 0 /\ Left("sent", n) = 1 /\ Left("closed", n) = 1
        /\ Left("read", n) = 2 /\ Left("accepted", n) = 3
        /\ Left("queued", n) = n + 4 /\ Left("connecting", n) = n + 5
    BY <1>t, LeftIs
  <1>p. /\ Left("idle", p) = 0 /\ Left("sent", p) = 1 /\ Left("closed", p) = 1
        /\ Left("read", p) = 2 /\ Left("accepted", p) = 3
        /\ Left("queued", p) = p + 4 /\ Left("connecting", p) = p + 5
    BY <1>t, LeftIs
  <1>s. /\ Left(stage, n) \in Nat
        /\ stage # "idle" => Left(stage, n) > 0
    BY <1>n, <1>t DEF Stages
  <1>1. CASE RecvReturns \/ ReadFails \/ RecvTimesOut
    <2>1. stage' = "idle"
      BY <1>1 DEF RecvReturns, ReadFails, RecvTimesOut, Returns
    <2> QED
      BY <2>1, <1>d, <1>p, <1>s
  <1>2. CASE Connects
    <2>1. stage = "connecting" /\ stage' = "queued" /\ p = n
      BY <1>2 DEF Connects, n, p
    <2> QED
      BY <2>1, <1>d, <1>n, <1>t
  <1>3. CASE HandlerReads \/ HandlerSends
    BY <1>3, <1>d, <1>n, <1>p DEF HandlerReads, HandlerSends
  <1>4. CASE Accept \/ ThreadFails
    <2>1. \/ n > 0 /\ p = n - 1 /\ UNCHANGED stage
          \/ p = n /\ stage = "queued" /\ stage' \in {"accepted", "closed"}
      BY <1>4 DEF Accept, ThreadFails, Takes, n, p
    <2>2. CASE n > 0 /\ p = n - 1 /\ stage \in {"connecting", "queued"} /\ UNCHANGED stage
      BY <2>2, <1>d, <1>n, <1>p, <1>t
    <2>3. CASE UNCHANGED stage /\ stage \notin {"connecting", "queued"}
      <3>1. Left(stage', p) = Left(stage, n)
        BY <2>3, <1>n, <1>p, <1>t DEF Stages
      <3>2. ~Reader /\ ~Handler
        BY <1>4, <2>3, <1>t DEF Accept, ThreadFails, Takes, Reader, Handler,
           Connects, RecvReturns, ReadFails, RecvTimesOut, Returns,
           HandlerReads, HandlerSends
      <3> QED
        BY <2>3, <3>1, <3>2, <1>d, <1>s
    <2>4. CASE stage = "queued" /\ stage' \in {"accepted", "closed"}
      BY <2>4, <1>d, <1>n, <1>p, <1>t
    <2> QED
      BY <2>1, <2>2, <2>3, <2>4
  <1>5. CASE (Signal \/ Dies) /\ ~Accept /\ ~ThreadFails
    <2>1. p = 0
      BY <1>5 DEF Signal, Dies, p
    <2>2. \/ stage' = stage
          \/ stage \in {"queued", "accepted", "read"} /\ stage' = "closed"
          \/ stage = "queued" /\ stage' = "accepted"
      BY <1>5 DEF Signal, Dies
    <2>3. ReadLeft' <= ReadLeft
      BY <2>1, <2>2, <1>d, <1>n, <1>p, <1>t DEF Stages
    <2>4. /\ ~Connects /\ ~RecvReturns /\ ~ReadFails /\ ~RecvTimesOut
          /\ ~HandlerReads /\ ~HandlerSends
      BY <1>5 DEF Signal, Dies, Connects, RecvReturns, ReadFails, RecvTimesOut,
         Returns, HandlerReads, HandlerSends
    <2> QED
      BY <1>5, <2>3, <2>4 DEF Reader, Handler
  <1>6. CASE UNCHANGED <<ahead, stage>>
    <2>1. ReadLeft' = ReadLeft
      BY <1>6 DEF ReadLeft
    <2>2. /\ ~Connects /\ ~RecvReturns /\ ~ReadFails /\ ~RecvTimesOut
          /\ ~HandlerReads /\ ~HandlerSends /\ ~Accept /\ ~ThreadFails
      BY <1>6, <1>t DEF Accept, ThreadFails, Takes, Connects, RecvReturns,
         ReadFails, RecvTimesOut, Returns, HandlerReads, HandlerSends, n
    <2> QED
      BY <2>1, <2>2, <1>d, <1>s DEF Reader, Handler
  <1> QED
    BY <1>1, <1>2, <1>3, <1>4, <1>5, <1>6
       DEF Next, Main, Exit, Kill, Handler, Reader, SetAngle, MainStep, Launch,
           StartRuns, Creates, Binds, StartsAcceptor, Update, SubscriptionEnds,
           AcceptFails, ReadBegins, NoSocket, vars, connVars

LEMMA ShortRead == Inv /\ QueueIsBounded => ReadIsShort
  <1> SUFFICES ASSUME Inv, QueueIsBounded PROVE ReadIsShort
    OBVIOUS
  <1>1. ahead \in Nat /\ Backlog \in Nat /\ stage \in Stages
    BY BoundAssumption DEF Inv, TypeOK
  <1>2. /\ Left("idle", ahead) = 0 /\ Left("sent", ahead) = 1
        /\ Left("closed", ahead) = 1 /\ Left("read", ahead) = 2
        /\ Left("accepted", ahead) = 3 /\ Left("queued", ahead) = ahead + 4
        /\ Left("connecting", ahead) = ahead + 5
    BY <1>1, LeftIs
  <1> QED
    BY <1>1, <1>2 DEF Stages, QueueIsBounded, ReadLeft, ReadIsShort

\* However the feeder is signalled, killed and started again, a read only comes
\* nearer to its end, from which it is never more than Backlog + 6 steps.
THEOREM ReadsOnlyAdvance ==
    Spec => ReadAdvances /\ [](QueueIsBounded /\ ReadIsShort)
  <1>1. Init => QueueIsBounded
    BY BoundAssumption DEF Init, QueueIsBounded
  <1>2. Inv /\ [Next]_vars
        => [stage # "idle" =>
               /\ ReadLeft' <= ReadLeft
               /\ \/ Reader \/ Handler
                  \/ stage \in {"connecting", "queued"} /\ (Accept \/ ThreadFails)
                  => ReadLeft' < ReadLeft]_vars
    BY AdvanceNext
  <1> QED
    BY Invariance, BoundedNext, ShortRead, <1>1, <1>2, PTL DEF Spec, ReadAdvances
=============================================================================

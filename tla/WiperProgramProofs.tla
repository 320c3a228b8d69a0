------------------------- MODULE WiperProgramProofs -------------------------
(***************************************************************************)
(* Proofs about WiperProgram, for any number of modes and any faults.      *)
(***************************************************************************)
EXTENDS WiperProgram, TLAPS

USE BoundAssumption

\* Where the step thread stands when it does not hold the flag of rt_OneStep.
OutOfStep == {"none", "created", "between", "ended"}

\* The flag of rt_OneStep is set exactly while the step thread is in it.
FlagInv == overrun <=> stepper \notin OutOfStep

\* The step thread exists once main has started it.
ThreadInv == main \in {"waiting", "aborted"} <=> stepper = "none"

ProgramInv == TypeOK /\ FlagInv /\ ThreadInv /\ NoOverrun /\ NoStepAfterTerminate

\* da_connector returns one of four speeds.
LEMMA SpeedIsKnown == \A e \in Nat : Speed(e) \in {0, 2, 3, 4}
  BY DEF Speed, SpeedOf

LEMMA ProgramInvInit == Init => ProgramInv
  <1> SUFFICES ASSUME Init PROVE ProgramInv
    OBVIOUS
  <1>1. current \in {None} \union {ModeOf(e) : e \in 1..cursor}
    BY DEF Init
  <1>2. TypeOK
    BY <1>1 DEF Init, TypeOK, MainPoints, StepPoints, InRead
  <1>3. FlagInv /\ ThreadInv /\ NoOverrun /\ NoStepAfterTerminate
    BY DEF Init, FlagInv, ThreadInv, OutOfStep, NoOverrun, NoStepAfterTerminate
  <1> QED
    BY <1>2, <1>3 DEF ProgramInv

\* The mode remembered stays one of those delivered.
LEMMA CurrentIsDelivered ==
    ASSUME TypeOK, Update
    PROVE current' \in {None} \union {ModeOf(e) : e \in 1..cursor'}
  <1>1. PICK e \in IF cursor = 0 THEN {mode} \ {0} ELSE (cursor + 1)..mode :
            /\ cursor' = e
            /\ IF ModeOf(e) # current THEN Remember(e)
                                      ELSE UNCHANGED <<latest, current>>
    BY DEF Update
  <1>2. e \in Nat /\ e \in 1..cursor' /\ cursor < e
    BY <1>1 DEF TypeOK
  <1>3. CASE current' = ModeOf(e)
    BY <1>2, <1>3
  <1>4. CASE current' = current
    <2>1. 1..cursor \subseteq 1..cursor'
      BY <1>1, <1>2 DEF TypeOK
    <2> QED
      BY <1>4, <2>1 DEF TypeOK
  <1> QED
    BY <1>1, <1>3, <1>4 DEF Remember

LEMMA ProgramInvNext == ProgramInv /\ [Next]_vars => ProgramInv'
  <1> SUFFICES ASSUME ProgramInv, [Next]_vars PROVE ProgramInv'
    OBVIOUS
  <1> USE DEF ProgramInv, TypeOK, FlagInv, ThreadInv, OutOfStep, NoOverrun,
              NoStepAfterTerminate, MainPoints, StepPoints, InRead, Fault,
              publisherVars, mainVars, stepVars
  <1>1. CASE UNCHANGED vars
    BY <1>1 DEF vars
  <1>2. CASE SetMode
    BY <1>2 DEF SetMode
  <1>3. CASE Update
    <2>1. current' \in {None} \union {ModeOf(e) : e \in 1..cursor'}
      BY <1>3, CurrentIsDelivered
    <2>2. cursor' \in Nat /\ latest' \in Nat
      BY <1>3 DEF Update, Remember
    <2> QED
      BY <1>3, <2>1, <2>2 DEF Update
  <1>4. CASE Accept
    BY <1>4 DEF Accept
  <1>5. CASE AcceptFails
    <2>1. TypeOK'
      <3>1. acceptor' \in BOOLEAN
        BY <1>5 DEF AcceptFails
      <3>2. faults' \in Nat
        BY <1>5 DEF AcceptFails
      <3>3. stepper' \in StepPoints
        BY <1>5 DEF AcceptFails
      <3> HIDE DEF Fault
      <3> QED
        BY <1>5, <3>1, <3>2, <3>3 DEF AcceptFails
    <2>2. FlagInv' /\ ThreadInv' /\ NoOverrun' /\ NoStepAfterTerminate'
      BY <1>5 DEF AcceptFails
    <2> QED
      BY <2>1, <2>2
  <1>6. CASE HandlerReads
    BY <1>6 DEF HandlerReads
  <1>7. CASE HandlerSends
    BY <1>7 DEF HandlerSends
  <1>8. CASE PublisherEnds
    <2>1. current' \in {None} \union {ModeOf(e) : e \in 1..cursor'}
      BY <1>8 DEF PublisherEnds
    <2>2. stepper' \in StepPoints
      BY <1>8 DEF PublisherEnds
    <2>3. TypeOK'
      <3>1. cursor' \in Nat /\ latest' \in Nat
        BY <1>8 DEF PublisherEnds
      <3>2. served' \in BOOLEAN /\ acceptor' \in BOOLEAN
        BY <1>8, Zenon DEF PublisherEnds
      <3>3. faults' \in Nat
        BY <1>8 DEF PublisherEnds
      <3> HIDE DEF Fault
      <3> QED
        BY <1>8, <2>1, <2>2, <3>1, <3>2, <3>3 DEF PublisherEnds
    <2>4. FlagInv' /\ ThreadInv' /\ NoOverrun' /\ NoStepAfterTerminate'
      BY <1>8 DEF PublisherEnds
    <2> QED
      BY <2>3, <2>4
  <1>9. CASE PublisherStarts
    BY <1>9 DEF PublisherStarts
  <1>10. CASE StopRequest
    BY <1>10 DEF StopRequest
  <1>11. CASE StartThread
    BY <1>11 DEF StartThread
  <1>12. CASE ThreadRefused
    BY <1>12 DEF ThreadRefused
  <1>13. CASE Shutdown
    BY <1>13 DEF Shutdown
  <1>14. CASE Terminate
    BY <1>14 DEF Terminate, Joined
  <1>15. CASE SetAffinity
    BY <1>15 DEF SetAffinity
  <1>16. CASE NoCore
    BY <1>16 DEF NoCore
  <1>17. CASE LoopEnds
    BY <1>17 DEF LoopEnds
  <1>18. CASE StepBegins
    BY <1>18 DEF StepBegins
  <1>19. CASE Connects
    BY <1>19 DEF Connects
  <1>20. CASE ReadFails
    BY <1>20, SpeedIsKnown DEF ReadFails, Returns
  <1>23. CASE NoSocket
    BY <1>23, SpeedIsKnown DEF NoSocket, Returns
  <1>21. CASE ReadReturns
    BY <1>21, SpeedIsKnown DEF ReadReturns, Returns
  <1>22. CASE StepEnds
    BY <1>22 DEF StepEnds, TaskComplete
  <1> QED
    BY <1>1, <1>2, <1>3, <1>4, <1>5, <1>6, <1>7, <1>8, <1>9, <1>10, <1>11, <1>12,
       <1>13, <1>14, <1>15, <1>16, <1>17, <1>18, <1>19, <1>20, <1>21, <1>22, <1>23
    DEF Next, Publisher, Serve, Main, Step

LEMMA ProgramInvAlways == Spec => []ProgramInv
  BY ProgramInvInit, ProgramInvNext, PTL DEF Spec

\* The program's and the publisher's state keeps its type; in particular the
\* speed read is always one of the four that da_connector knows.
THEOREM WiperTypeCorrect == Spec => []TypeOK
  <1>1. ProgramInv => TypeOK
    BY DEF ProgramInv
  <1> QED
    BY <1>1, ProgramInvAlways, PTL

\* main never terminates the model while its step thread is in a step.
THEOREM TerminatesAfterLastStep == Spec => []NoStepAfterTerminate
  <1>1. ProgramInv => NoStepAfterTerminate
    BY DEF ProgramInv
  <1> QED
    BY <1>1, ProgramInvAlways, PTL

\* rt_OneStep never finds its own flag set: the overrun check of the generated
\* program is never reached with one step thread.
THEOREM StepsNeverOverrun == Spec => []NoOverrun
  <1>1. ProgramInv => NoOverrun
    BY DEF ProgramInv
  <1> QED
    BY <1>1, ProgramInvAlways, PTL

-----------------------------------------------------------------------------
(* The modes the steps read                                                *)

\* A mode moves on from the broker to the subscription, the message, the
\* connection and the step; a publisher that has a message or a cursor is as
\* far as all that the step has got, or may still get from one that is gone.
Order ==
    /\ seen <= mode /\ carried <= mode /\ cursor <= mode
    /\ latest <= cursor
    /\ carried = 0 \/ seen <= carried
    /\ latest = 0 \/ (seen <= latest /\ carried <= latest)
    /\ cursor = 0 \/ (seen <= cursor /\ carried <= cursor)

\* What is read has the speed of a mode that was seen, or none.
ReadingInv == reading \in {0, Speed(seen)}

OrderInv == Order /\ ReadingInv

LEMMA OrderInvInit == Init => OrderInv
  BY DEF Init, OrderInv, Order, ReadingInv

\* The steps that touch neither a mode on its way nor what is read.
LEMMA KeepsOrder ==
    ASSUME OrderInv,
           UNCHANGED <<mode, cursor, latest, carried, reading, seen>>
    PROVE  OrderInv'
  BY DEF OrderInv, Order, ReadingInv, Speed

\* An update is newer than all that has come through.
LEMMA UpdateKeepsOrder == ASSUME TypeOK, OrderInv, Update PROVE OrderInv'
  <1>1. PICK e \in IF cursor = 0 THEN {mode} \ {0} ELSE (cursor + 1)..mode :
            /\ cursor' = e
            /\ IF ModeOf(e) # current THEN Remember(e)
                                      ELSE UNCHANGED <<latest, current>>
    BY DEF Update
  <1>2. UNCHANGED <<mode, carried, reading, seen>>
    BY DEF Update, stepVars
  <1>3. e \in Nat /\ cursor < e /\ e <= mode /\ seen <= e /\ carried <= e
    BY <1>1 DEF TypeOK, OrderInv, Order
  <1>4. latest' \in {e, latest}
    BY <1>1 DEF Remember
  <1>5. Order'
    BY <1>1, <1>2, <1>3, <1>4 DEF TypeOK, OrderInv, Order
  <1>6. ReadingInv'
    BY <1>2 DEF OrderInv, ReadingInv, Speed
  <1> QED
    BY <1>5, <1>6 DEF OrderInv

\* A message read is one as new as those before; an error reads nothing.
LEMMA ReturnsKeepsOrder ==
    ASSUME TypeOK, OrderInv, NEW e \in {0, carried}, Returns(e),
           UNCHANGED <<mode, publisherVars>>
    PROVE  OrderInv' /\ seen' \in seen..mode
  <1>1. UNCHANGED <<mode, cursor, latest>> /\ carried' = 0
    BY DEF Returns, publisherVars
  <1>2. seen' = IF e = 0 THEN seen ELSE e
    BY DEF Returns
  <1>3. seen <= seen' /\ seen' <= mode /\ seen' \in Nat /\ mode \in Nat
    BY <1>2 DEF TypeOK, OrderInv, Order
  <1>4. Order'
    BY <1>1, <1>2 DEF TypeOK, OrderInv, Order
  <1>5. ReadingInv'
    BY <1>2 DEF Returns, ReadingInv, Speed
  <1> QED
    BY <1>3, <1>4, <1>5 DEF TypeOK, OrderInv

LEMMA OrderInvNext == TypeOK /\ OrderInv /\ [Next]_vars => OrderInv'
  <1> SUFFICES ASSUME TypeOK, OrderInv, [Next]_vars PROVE OrderInv'
    OBVIOUS
  <1> USE DEF publisherVars, mainVars, stepVars
  <1>1. CASE SetMode
    BY <1>1 DEF SetMode, TypeOK, OrderInv, Order, ReadingInv, Speed
  <1>2. CASE Update
    BY <1>2, UpdateKeepsOrder
  <1>3. CASE HandlerReads
    BY <1>3 DEF HandlerReads, TypeOK, OrderInv, Order, ReadingInv, Speed
  <1>4. CASE PublisherEnds
    BY <1>4 DEF PublisherEnds, TypeOK, OrderInv, Order, ReadingInv, Speed
  <1>5. CASE ReadFails \/ NoSocket
    BY <1>5, ReturnsKeepsOrder DEF ReadFails, NoSocket
  <1>6. CASE ReadReturns
    BY <1>6, ReturnsKeepsOrder DEF ReadReturns
  <1>7. CASE \/ Accept \/ AcceptFails \/ HandlerSends \/ PublisherStarts
             \/ Main \/ SetAffinity \/ NoCore \/ LoopEnds \/ StepBegins
             \/ Connects \/ StepEnds \/ UNCHANGED vars
    <2>1. UNCHANGED <<mode, cursor, latest, carried, reading, seen>>
      BY <1>7 DEF Accept, AcceptFails, HandlerSends, PublisherStarts, Main,
                  StopRequest, StartThread, ThreadRefused, Shutdown, Terminate,
                  SetAffinity, NoCore, LoopEnds, StepBegins, Connects, StepEnds,
                  vars
    <2> QED
      BY <2>1, KeepsOrder
  <1> QED
    BY <1>1, <1>2, <1>3, <1>4, <1>5, <1>6, <1>7 DEF Next, Publisher, Serve, Step

LEMMA OrderInvAlways == Spec => []OrderInv
  <1>1. ProgramInv => TypeOK
    BY DEF ProgramInv
  <1> QED
    BY <1>1, OrderInvInit, OrderInvNext, ProgramInvAlways, PTL DEF Spec

\* The steps of the wiper model read modes that were set, each as new as those
\* read before, across publishers that end, start again, skip a mode they
\* believe to have, or lose their acceptor thread.
THEOREM WiperImplementsReadings == Spec => ImplementsReadings
  <1>1. Init => Readings!Init
    BY DEF Init, Readings!Init
  <1>2. TypeOK /\ OrderInv /\ [Next]_vars => [Readings!Next]_<<mode, seen>>
    <2> SUFFICES ASSUME TypeOK, OrderInv, [Next]_vars
                 PROVE  [Readings!Next]_<<mode, seen>>
      OBVIOUS
    <2> USE DEF publisherVars, mainVars, stepVars, Readings!Next,
                Readings!PublishView, Readings!Read
    <2>1. CASE SetMode
      BY <2>1 DEF SetMode
    <2>2. CASE ReadFails \/ NoSocket
      BY <2>2, ReturnsKeepsOrder DEF ReadFails, NoSocket
    <2>3. CASE ReadReturns
      BY <2>3, ReturnsKeepsOrder DEF ReadReturns
    <2>4. CASE \/ Publisher \/ Serve \/ Main \/ SetAffinity \/ NoCore
               \/ LoopEnds \/ StepBegins \/ Connects \/ StepEnds
               \/ UNCHANGED vars
      <3>1. UNCHANGED <<mode, seen>>
        BY <2>4 DEF Publisher, Update, PublisherEnds, PublisherStarts, Serve,
                    Accept, AcceptFails, HandlerReads, HandlerSends, Main,
                    StopRequest, StartThread, ThreadRefused, Shutdown,
                    Terminate, SetAffinity, NoCore, LoopEnds, StepBegins,
                    Connects, StepEnds, vars
      <3> QED
        BY <3>1
    <2> QED
      BY <2>1, <2>2, <2>3, <2>4 DEF Next, Step
  <1>3. ProgramInv => TypeOK
    BY DEF ProgramInv
  <1> QED
    BY <1>1, <1>2, <1>3, ProgramInvAlways, OrderInvAlways, PTL
    DEF Spec, ImplementsReadings, Readings!Spec, Readings!vars

\* The speed a step works with is that of the newest mode read, or 0.
THEOREM SpeedIsOfAMode == Spec => []ReadingInv
  <1>1. OrderInv => ReadingInv
    BY DEF OrderInv
  <1> QED
    BY <1>1, OrderInvAlways, PTL

-----------------------------------------------------------------------------
(* Why join returns                                                        *)

\* What the step thread has still to do before it ends, once it is told to.
StepsLeft ==
    CASE stepper \in {"none", "ended"}        -> 0
      [] stepper = "between"                  -> 1
      [] stepper \in {"created", "computing"} -> 2
      [] stepper \in {"sent", "closed"}       -> 3
      [] stepper = "read"                     -> 4
      [] stepper = "accepted"                 -> 5
      [] stepper = "queued"                   -> 6
      [] stepper = "connecting"               -> 7

\* The steps that bring it to its end.
Finishing == Step \/ Accept \/ HandlerReads \/ HandlerSends

\* Once shutdown() has set the flag no new step begins, nothing takes the step
\* thread back, and each step of Finishing takes it forward.
StopAdvances ==
    [][stopFlag => \/ StepsLeft' < StepsLeft
                   \/ StepsLeft' = StepsLeft /\ ~Finishing]_vars

\* While main is in join the flag is set, and the thread has ended or is at
\* one of the points above; a connection it waits on is a living publisher's.
JoinWaitsForStep ==
    main = "joining" => \/ Joined
                        \/ /\ stopFlag /\ StepsLeft \in 1..7
                           /\ stepper = "queued" => served

\* The flag is set by main on its way to join; a publisher that ends closes
\* its connections.
StopInv ==
    /\ ProgramInv
    /\ stopFlag <=> main \in {"joining", "exited"}
    /\ stepper = "queued" => served

LEMMA StopInvInit == Init => StopInv
  BY ProgramInvInit DEF Init, StopInv

LEMMA StopInvNext == StopInv /\ [Next]_vars => StopInv'
  <1> SUFFICES ASSUME StopInv, [Next]_vars
               PROVE  /\ stopFlag' <=> main' \in {"joining", "exited"}
                      /\ stepper' = "queued" => served'
    BY ProgramInvNext DEF StopInv
  <1>p. /\ stopFlag <=> main \in {"joining", "exited"}
        /\ stepper = "queued" => served
    BY DEF StopInv
  <1> USE DEF publisherVars, mainVars, stepVars
  <1>1. stopFlag' <=> main' \in {"joining", "exited"}
    BY <1>p DEF Next, SetMode, Publisher, Update, PublisherEnds, PublisherStarts,
       Serve, Accept, AcceptFails, HandlerReads, HandlerSends, Main,
       StopRequest, StartThread, ThreadRefused, Shutdown, Terminate, Step,
       SetAffinity, NoCore, LoopEnds, StepBegins, Connects, NoSocket, ReadFails,
       ReadReturns, StepEnds, vars
  <1>2. stepper' = "queued" => served'
    BY <1>p DEF Next, SetMode, Publisher, Update, PublisherEnds, PublisherStarts,
       Serve, Accept, AcceptFails, HandlerReads, HandlerSends, Main,
       StopRequest, StartThread, ThreadRefused, Shutdown, Terminate, Step,
       SetAffinity, NoCore, LoopEnds, StepBegins, Connects, NoSocket, ReadFails,
       ReadReturns, Returns, StepEnds, vars
  <1> QED
    BY <1>1, <1>2

LEMMA StopStep ==
    ASSUME StopInv, stopFlag, [Next]_vars
    PROVE  \/ StepsLeft' < StepsLeft
           \/ StepsLeft' = StepsLeft /\ ~Finishing
  <1>p. stepper \in StepPoints /\ stepper # "none" /\ main \in {"joining", "exited"}
    BY DEF StopInv, ProgramInv, TypeOK, ThreadInv
  <1> USE DEF publisherVars, mainVars, stepVars
  <1>1. CASE Step
    <2>1. CASE SetAffinity \/ NoCore
      <3>1. stepper = "created" /\ stepper' \in {"between", "ended"}
        BY <2>1 DEF SetAffinity, NoCore
      <3> QED
        BY <3>1 DEF StepsLeft
    <2>2. CASE LoopEnds
      BY <2>2 DEF LoopEnds, StepsLeft
    <2>3. CASE Connects
      BY <2>3 DEF Connects, StepsLeft
    <2>4. CASE ReadFails \/ NoSocket \/ ReadReturns
      <3>1. stepper \in {"connecting", "closed", "sent"} /\ stepper' = "computing"
        BY <2>4 DEF ReadFails, NoSocket, ReadReturns, Returns
      <3> QED
        BY <3>1 DEF StepsLeft
    <2>5. CASE StepEnds
      BY <2>5 DEF StepEnds, StepsLeft
    <2>6. ~StepBegins
      BY DEF StepBegins
    <2> QED
      BY <1>1, <2>1, <2>2, <2>3, <2>4, <2>5, <2>6 DEF Step
  <1>2. CASE Accept
    BY <1>2 DEF Accept, StepsLeft
  <1>3. CASE HandlerReads
    BY <1>3 DEF HandlerReads, StepsLeft
  <1>4. CASE HandlerSends
    BY <1>4 DEF HandlerSends, StepsLeft
  <1>5. CASE stepper' # stepper /\ (AcceptFails \/ PublisherEnds)
    <2>1. stepper \in {"queued", "accepted", "read"} /\ stepper' = "closed"
      BY <1>5 DEF AcceptFails, PublisherEnds
    <2> QED
      BY <2>1 DEF StepsLeft
  <1>6. CASE UNCHANGED stepper /\ ~Finishing
    BY <1>6 DEF StepsLeft
  <1>7. \/ Finishing
        \/ stepper' # stepper /\ (AcceptFails \/ PublisherEnds)
        \/ UNCHANGED stepper
    BY <1>p DEF Next, Finishing, Publisher, Serve, Main, SetMode, Update,
       PublisherStarts, StopRequest, StartThread, ThreadRefused, Shutdown,
       Terminate, vars
  <1> QED
    BY <1>1, <1>2, <1>3, <1>4, <1>5, <1>6, <1>7 DEF Finishing

\* "Stop thread rt_OneStep_thread": after shutdown() at most the step under way
\* is finished, at most seven steps of the thread and of those who serve it;
\* if none of them can be taken, it waits for a publisher without an acceptor.
THEOREM StopOnlyAdvances == Spec => StopAdvances /\ []JoinWaitsForStep
  <1>1. StopInv => JoinWaitsForStep
    <2>1. ASSUME StopInv, main = "joining", stepper # "ended"
          PROVE  stopFlag /\ StepsLeft \in 1..7 /\ (stepper = "queued" => served)
      <3>1. stepper \in StepPoints \ {"none", "ended"}
        BY <2>1 DEF StopInv, ProgramInv, TypeOK, ThreadInv
      <3>2. StepsLeft \in 1..7
        BY <3>1 DEF StepsLeft, StepPoints, InRead
      <3> QED
        BY <2>1, <3>2 DEF StopInv
    <2> QED
      BY <2>1 DEF JoinWaitsForStep, Joined
  <1>2. StopInv /\ [Next]_vars
          => [stopFlag => \/ StepsLeft' < StepsLeft
                          \/ StepsLeft' = StepsLeft /\ ~Finishing]_vars
    BY StopStep
  <1> QED
    BY StopInvInit, StopInvNext, <1>1, <1>2, PTL DEF Spec, StopAdvances
=============================================================================

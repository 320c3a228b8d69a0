---------------------------- MODULE WiperProgram ----------------------------
(***************************************************************************)
(* The smart wipers: uds_publisher.py, which keeps the latest wiper mode   *)
(* of the KUKSA broker, and the generated program, whose main thread       *)
(* (ert_main_base.cpp) runs the model's steps in a thread of its own       *)
(* (StepThread.hpp, RTthreads.hpp).  Each step asks the publisher for the  *)
(* mode (da_connector.cpp) and waits for the answer without a timeout.     *)
(*                                                                         *)
(* A mode on its way is named by its number in the order in which modes    *)
(* were set at the broker; 0 is "No message yet".  The step thread is the  *)
(* publisher's only client and has one connection at a time, so the        *)
(* socket's queue never holds more than that one.                          *)
(***************************************************************************)
EXTENDS Naturals

CONSTANTS
    None,           \* Python's None
    ModeOf(_),      \* the mode that was set as number e: "OFF", ..., or None
    MaxMode,        \* bound of the model: modes set
    MaxFaults,      \* bound of the model: faults in one behaviour
    Faults          \* the faults that may happen, of FaultKinds

FaultKinds ==
    { "initFails",        \* extmodeInit returns an error, which main ignores
      "threadRefused",    \* pthread_create fails (no right to SCHED_FIFO)
      "noCore",           \* setAffinity finds none of the cores
      "noSocket",         \* socket() fails in the step's read
      "acceptError",      \* accept() or Thread.start() raises
      "publisherDown" }   \* the subscription raises, or the process ends

ASSUME BoundAssumption == /\ MaxMode \in Nat /\ MaxFaults \in Nat
                          /\ Faults \subseteq FaultKinds

VARIABLES
    mode,           \* the broker's wiper mode
    \* the publisher
    served,         \* it runs, and the path names its socket
    acceptor,       \* its acceptor thread runs
    cursor,         \* the last mode the subscription delivered
    current,        \* current_wiper_mode
    latest,         \* latest_message
    \* the program
    main,           \* where the main thread stands
    stopRequested,  \* extmodeStopRequested or extmodeSimulationComplete
    stepper,        \* where the step thread stands
    stopFlag,       \* stop_flag_
    overrun,        \* OverrunFlag
    errorStatus,    \* rtmSetErrorStatus was called
    carried,        \* the message in the connection
    reading,        \* what the step's da_connector returned last
    seen,           \* history: the newest mode it returned; 0 for none
    \* the environment
    faults          \* faults so far

publisherVars == <<served, acceptor, cursor, current, latest>>
mainVars == <<main, stopRequested, stopFlag>>
stepVars == <<stepper, overrun, errorStatus, carried, reading, seen>>
vars == <<mode, publisherVars, mainVars, stepVars, faults>>

MainPoints == { "waiting",      \* in extmodeWaitForHostRequest
                "background",   \* in the loop around extmodeBackgroundRun
                "joining",      \* the flag is set; in join
                "exited",       \* the model is terminated, main returned
                "aborted" }     \* an exception left main

InRead == { "connecting",       \* before connect
            "queued",           \* in recv, not accepted
            "accepted",         \* in recv; a thread serves the connection
            "read",             \* in recv; that thread has read the message
            "sent",             \* in recv; the message is in the socket
            "closed" }          \* in recv; the other end closed

StepPoints == InRead \union { "none",       \* not created
                              "created",    \* before setAffinity
                              "between",    \* before loop()
                              "computing",  \* the step after its read
                              "ended" }

TypeOK ==
    /\ mode \in Nat
    /\ served \in BOOLEAN /\ acceptor \in BOOLEAN
    /\ cursor \in Nat /\ latest \in Nat
    /\ current \in {None} \union {ModeOf(e) : e \in 1..cursor}
    /\ main \in MainPoints /\ stopRequested \in BOOLEAN
    /\ stepper \in StepPoints /\ stopFlag \in BOOLEAN
    /\ overrun \in BOOLEAN /\ errorStatus \in BOOLEAN
    /\ carried \in Nat /\ reading \in {0, 2, 3, 4}
    /\ seen \in Nat
    /\ faults \in Nat

Fault(kind) == kind \in Faults /\ faults < MaxFaults /\ faults' = faults + 1

\* [mutant] The error code of uds_listen is returned like a speed.
ErrorSpeed(message) == IF message = "OFF" THEN 0 ELSE 0 - 1

\* What da_connector makes of a message.
SpeedOf(message) ==
    CASE message = "SLOW"   -> 2
      [] message = "MEDIUM" -> 3
      [] message = "FAST"   -> 4
      [] OTHER              -> 0

\* The speed for the mode of number e ("No message yet" is none of the modes).
Speed(e) == IF e = 0 THEN 0 ELSE SpeedOf(ModeOf(e))

Init ==
    /\ mode = 0
    /\ served = TRUE /\ acceptor = TRUE
    /\ cursor = 0 /\ current = None /\ latest = 0
    /\ main = "waiting" /\ stopRequested = FALSE
    /\ stepper = "none" /\ stopFlag = FALSE
    /\ overrun = FALSE /\ errorStatus = FALSE
    /\ carried = 0 /\ reading = 0 /\ seen = 0
    /\ faults = 0

-----------------------------------------------------------------------------
(* The publisher                                                           *)

\* The playground's prototype sets Wiping.Mode.
SetMode ==
    /\ mode < MaxMode
    /\ mode' = mode + 1
    /\ UNCHANGED <<publisherVars, mainVars, stepVars, faults>>

\* [mutant] `current_wiper_mode = new_mode` is missing.
MessageOnly(e) == latest' = e /\ UNCHANGED current

\* "Update message only on change".
Remember(e) == latest' = e /\ current' = ModeOf(e)

\* [mutant] A task of its own handles each update; tasks may overtake.
UpdateByTask ==
    /\ served
    /\ \E e \in IF cursor = 0 THEN {mode} \ {0} ELSE 1..mode :
          /\ cursor' = e
          /\ IF ModeOf(e) # current THEN Remember(e)
                                    ELSE UNCHANGED <<latest, current>>
    /\ UNCHANGED <<mode, served, acceptor, mainVars, stepVars, faults>>

\* An update: the current mode first, if there is one, then newer ones.
Update ==
    /\ served
    /\ \E e \in IF cursor = 0 THEN {mode} \ {0} ELSE (cursor + 1)..mode :
          /\ cursor' = e
          /\ IF ModeOf(e) # current THEN Remember(e)
                                    ELSE UNCHANGED <<latest, current>>
    /\ UNCHANGED <<mode, served, acceptor, mainVars, stepVars, faults>>

\* accept and Thread.start.
Accept ==
    /\ acceptor /\ stepper = "queued"
    /\ stepper' = "accepted"
    /\ UNCHANGED <<mode, publisherVars, mainVars, overrun, errorStatus, carried,
                   reading, seen, faults>>

\* One of them raises: the thread ends, the socket stays open and bound.  A
\* connection that accept had returned is dropped.
AcceptFails ==
    /\ acceptor
    /\ Fault("acceptError")
    /\ acceptor' = FALSE
    /\ \/ UNCHANGED stepper
       \/ stepper = "queued" /\ stepper' = "closed"
    /\ UNCHANGED <<mode, served, cursor, current, latest, mainVars, overrun,
                   errorStatus, carried, reading, seen>>

HandlerReads ==
    /\ stepper = "accepted"
    /\ carried' = latest
    /\ stepper' = "read"
    /\ UNCHANGED <<mode, publisherVars, mainVars, overrun, errorStatus, reading,
                   seen, faults>>

HandlerSends ==
    /\ stepper = "read"
    /\ stepper' = "sent"
    /\ UNCHANGED <<mode, publisherVars, mainVars, overrun, errorStatus, carried,
                   reading, seen, faults>>

\* Ctrl+C, SIGTERM, a kill, or a subscription that raises.  All threads of the
\* process are daemons: its connections close.
PublisherEnds ==
    /\ served
    /\ Fault("publisherDown")
    /\ served' = FALSE /\ acceptor' = FALSE
    /\ cursor' = 0 /\ current' = None /\ latest' = 0
    /\ stepper' = IF stepper \in {"queued", "accepted", "read"} THEN "closed"
                                                                ELSE stepper
    /\ UNCHANGED <<mode, mainVars, overrun, errorStatus, carried, reading, seen>>

\* broadcast_server of a new process, up to its subscription.
PublisherStarts ==
    /\ ~served
    /\ served' = TRUE /\ acceptor' = TRUE
    /\ UNCHANGED <<mode, cursor, current, latest, mainVars, stepVars, faults>>

-----------------------------------------------------------------------------
(* main                                                                    *)

\* The host asks to stop, or a step reaches the final time.
StopRequest ==
    /\ main = "background"
    /\ stopRequested' = TRUE
    /\ UNCHANGED <<mode, publisherVars, main, stopFlag, stepVars, faults>>

\* RTthread::start, after the host's request to start or to stop, or without
\* one when extmodeInit failed.
StartThread ==
    /\ main = "waiting"
    /\ \/ stopRequested' \in BOOLEAN /\ UNCHANGED faults
       \/ Fault("initFails") /\ UNCHANGED stopRequested
    /\ main' = "background"
    /\ stepper' = "created"
    /\ UNCHANGED <<mode, publisherVars, stopFlag, overrun, errorStatus, carried,
                   reading, seen>>

\* start throws, and nothing in main catches it.
ThreadRefused ==
    /\ main = "waiting"
    /\ Fault("threadRefused")
    /\ main' = "aborted"
    /\ UNCHANGED <<mode, publisherVars, stopRequested, stopFlag, stepVars>>

\* [mutant] main joins without the call of shutdown().
JoinAtOnce ==
    /\ main = "background" /\ stopRequested
    /\ main' = "joining"
    /\ UNCHANGED <<mode, publisherVars, stopRequested, stopFlag, stepVars, faults>>

\* The background loop ends: shutdown().
Shutdown ==
    /\ main = "background" /\ stopRequested
    /\ stopFlag' = TRUE
    /\ main' = "joining"
    /\ UNCHANGED <<mode, publisherVars, stopRequested, stepVars, faults>>

\* [mutant] Without join.
DoNotJoin == TRUE

\* join returns.
Joined == stepper = "ended"

\* The model is terminated, external mode reset, and main returns.
Terminate ==
    /\ main = "joining" /\ Joined
    /\ main' = "exited"
    /\ UNCHANGED <<mode, publisherVars, stopRequested, stopFlag, stepVars, faults>>

-----------------------------------------------------------------------------
(* The step thread                                                         *)

SetAffinity ==
    /\ stepper = "created"
    /\ stepper' = "between"
    /\ UNCHANGED <<mode, publisherVars, mainVars, overrun, errorStatus, carried,
                   reading, seen, faults>>

\* setAffinity throws; runThread catches it and the thread ends.
NoCore ==
    /\ stepper = "created"
    /\ Fault("noCore")
    /\ stepper' = "ended"
    /\ UNCHANGED <<mode, publisherVars, mainVars, overrun, errorStatus, carried,
                   reading, seen>>

\* loop() finds the flag, and run() breaks.
LoopEnds ==
    /\ stepper = "between" /\ stopFlag
    /\ stepper' = "ended"
    /\ UNCHANGED <<mode, publisherVars, mainVars, overrun, errorStatus, carried,
                   reading, seen, faults>>

\* loop() calls rt_OneStep, which returns at once if a step is unfinished, and
\* otherwise steps the model, up to its read.
StepBegins ==
    /\ stepper = "between" /\ ~stopFlag
    /\ IF overrun
       THEN errorStatus' = TRUE /\ UNCHANGED <<stepper, overrun>>
       ELSE overrun' = TRUE /\ stepper' = "connecting" /\ UNCHANGED errorStatus
    /\ UNCHANGED <<mode, publisherVars, mainVars, carried, reading, seen, faults>>

Connects ==
    /\ stepper = "connecting" /\ served
    /\ stepper' = "queued"
    /\ UNCHANGED <<mode, publisherVars, mainVars, overrun, errorStatus, carried,
                   reading, seen, faults>>

\* da_connector returns a speed, of the message e if it got one.
Returns(e) ==
    /\ stepper' = "computing"
    /\ reading' = Speed(e)
    /\ seen' = IF e = 0 THEN seen ELSE e
    /\ carried' = 0

\* No path, nobody at it, or a connection closed without a message.
ReadFails ==
    /\ \/ stepper = "connecting" /\ ~served
       \/ stepper = "closed"
    /\ Returns(0)
    /\ UNCHANGED <<mode, publisherVars, mainVars, overrun, errorStatus, faults>>

\* socket() fails: an error like the others, before any connect.
NoSocket ==
    /\ stepper = "connecting"
    /\ Fault("noSocket")
    /\ Returns(0)
    /\ UNCHANGED <<mode, publisherVars, mainVars, overrun, errorStatus>>

ReadReturns ==
    /\ stepper = "sent"
    /\ Returns(carried)
    /\ UNCHANGED <<mode, publisherVars, mainVars, overrun, errorStatus, faults>>

\* [mutant] The flag is not reset.
LeaveFlag == UNCHANGED overrun

\* "Indicate task complete".
TaskComplete == overrun' = FALSE

StepEnds ==
    /\ stepper = "computing"
    /\ TaskComplete
    /\ stepper' = "between"
    /\ UNCHANGED <<mode, publisherVars, mainVars, errorStatus, carried, reading,
                   seen, faults>>

-----------------------------------------------------------------------------

Publisher == Update \/ PublisherEnds \/ PublisherStarts

Serve == Accept \/ AcceptFails \/ HandlerReads \/ HandlerSends

Main == StopRequest \/ StartThread \/ ThreadRefused \/ Shutdown \/ Terminate

Step == SetAffinity \/ NoCore \/ LoopEnds \/ StepBegins \/ Connects
        \/ NoSocket \/ ReadFails \/ ReadReturns \/ StepEnds

Next == SetMode \/ Publisher \/ Serve \/ Main \/ Step

Spec == Init /\ [][Next]_vars

\* The threads that can run do.  Modes, requests of the host, faults and a new
\* publisher are owed by nobody.
Fairness ==
    /\ WF_vars(Update)
    /\ WF_vars(Accept) /\ WF_vars(HandlerReads) /\ WF_vars(HandlerSends)
    /\ WF_vars(Shutdown) /\ WF_vars(Terminate)
    /\ WF_vars(Step)

FairSpec == Spec /\ Fairness

-----------------------------------------------------------------------------
(* Properties                                                              *)

\* The model is terminated only when its last step is over: main waits in join
\* for a thread that may be anywhere in a step when the flag is set.
NoStepAfterTerminate == main = "exited" => stepper = "ended"

\* A step never finds the one before unfinished, wherever its read failed.
NoOverrun == ~errorStatus

\* "Listeners can connect at any time and receive the current message": what
\* the steps read comes from modes that were set, and never from one older
\* than a step before has read, although the publisher skips updates, ends,
\* and starts again at whatever mode is then current.
Readings == INSTANCE PotholeReadings WITH view <- mode, seen <- seen
ImplementsReadings == Readings!Spec

\* The program steps, and the publisher serves it.
Serving == /\ main = "background" /\ ~stopRequested /\ stepper # "ended"
           /\ served /\ acceptor

\* "Only the latest message is retained": once the mode stays, its speed is
\* what every step reads, although the publisher skips the updates whose mode
\* it believes to have.
FollowsMode ==
    \A e \in 1..MaxMode :
        <>[](Serving /\ mode = e) => <>[](reading = Speed(e))

\* The step waits in recv, queued at a publisher without its acceptor thread.
StepHangs == stepper = "queued" /\ served /\ ~acceptor

\* "Stop thread rt_OneStep_thread": a request to stop ends the program, at
\* whatever point of a step it comes, unless that step hangs for ever.
StopEnds == stopRequested ~> (main = "exited" \/ []StepHangs)
=============================================================================

--------------------------- MODULE HazardListener ---------------------------
(***************************************************************************)
(* The hazard path of the pothole alert: hazard_listener.py, the Simulink  *)
(* model's da_set_hazard_signal (da_connector.c) that feeds it, and the    *)
(* KUKSA broker it publishes to.                                           *)
(*                                                                         *)
(* Every model step opens a connection to the listener's Unix socket,      *)
(* sends the hazard value and closes.  The listener's accept loop starts a *)
(* task per connection that stores the value (pending); a publisher task   *)
(* woken by an event calls the broker when the value differs from the last *)
(* one it published (last).  asyncio runs the three kinds of task one at a *)
(* time: an action below is what a task does between two awaits.           *)
(*                                                                         *)
(* A value on its way is named by its epoch, the number of times the       *)
(* model's output had changed when it was sent, so that "newer" has a      *)
(* meaning; the code itself only ever compares the signals.                *)
(***************************************************************************)
EXTENDS Naturals, Sequences, SequencesExt

CONSTANTS
    None,           \* Python's None; nothing sent yet; no target value
    Eof,            \* a connection whose client died without sending
    Backlog,        \* server_sock.listen(64)
    MaxHandlers,    \* bound of the model: handler tasks at a time
    MaxEpoch,       \* bound of the model: changes of the model's output
    MaxFaults,      \* bound of the model: faults in one behaviour
    Faults          \* the faults that may happen, of FaultKinds

FaultKinds ==
    { "connectFails",     \* the broker refuses the connection at start
      "callFails",        \* set_target_values raises, nothing applied
      "lostReply",        \* set_target_values raises after it was applied
      "brokerRestart",    \* the broker forgets its target values
      "acceptError",      \* accept() raises
      "droppedAccept",    \* wait_for's timeout beats an accept that completed
      "slowClient",       \* more than 0.1 s between connect and send
      "overtaking",       \* a task that found no data resumes after a later one
      "modelKilled",      \* the process that runs the model dies
      "listenerKilled" }  \* SIGKILL, or a power cut of the listener alone

ASSUME ValueAssumption == None \notin Nat /\ Eof \notin Nat /\ None # Eof
ASSUME BoundAssumption == /\ Backlog \in Nat
                          /\ MaxHandlers \in Nat \ {0}
                          /\ MaxEpoch \in Nat
                          /\ MaxFaults \in Nat
                          /\ Faults \subseteq FaultKinds

VARIABLES
    \* the model (da_connector.c)
    epoch,          \* the output the model computed last
    writer,         \* where its da_set_hazard_signal stands
    \* the socket
    path,           \* what /tmp/kuksa_hazard_signal.sock names
    backlog,        \* connections not accepted: what each has sent
    \* the listener (hazard_listener.py)
    phase,          \* where main / start / listen_socket stand
    shutdown,       \* _shutdown_event
    handlers,       \* the _handle_client tasks, oldest first
    pending,        \* _pending_value
    valueChanged,   \* _value_changed
    last,           \* _last_hazard
    publisher,      \* where _kuksa_publisher stands
    call,           \* the argument of the call in progress
    failed,         \* history: the last call raised (not in the code)
    \* the broker
    target,         \* the target value of IsSignaling
    \* the environment
    faults          \* faults so far

modelVars     == <<epoch, writer>>
socketVars    == <<path, backlog>>
loopVars      == <<phase, shutdown>>
mailbox       == <<pending, valueChanged>>
publisherVars == <<last, publisher, call, failed>>
vars == <<modelVars, socketVars, loopVars, handlers, mailbox, publisherVars,
          target, faults>>

\* What a connection's client has done: nothing, sent a value, or died.
Sent == Nat \union {None, Eof}

\* A _handle_client task; blocked once its recv has found nothing.
Task == [data : Sent, blocked : BOOLEAN]

TypeOK ==
    /\ epoch \in Nat
    /\ writer \in {"idle", "connected", "dead"}
    /\ path \in {"none", "stale", "bound"}
    /\ backlog \in Seq(Sent)
    /\ phase \in {"down", "connecting", "accepting", "sleeping", "closing"}
    /\ shutdown \in BOOLEAN
    /\ handlers \in Seq(Task)
    /\ pending \in Nat \union {None}
    /\ valueChanged \in BOOLEAN
    /\ last \in Nat \union {None}
    /\ publisher \in {"none", "waiting", "calling", "applied", "done"}
    /\ call \in Nat \union {None}
    /\ failed \in BOOLEAN
    /\ target \in Nat \union {None}
    /\ faults \in Nat

-----------------------------------------------------------------------------
(* Values                                                                  *)

\* The Boolean an epoch stands for: the output alternates.
Signal(e) == e % 2

\* Python's == on two values that are None or a Boolean.
SameSignal(a, b) == \/ a = b
                    \/ a \in Nat /\ b \in Nat /\ Signal(a) = Signal(b)

Fault(kind) == kind \in Faults /\ faults < MaxFaults /\ faults' = faults + 1

Init ==
    /\ epoch = 0 /\ writer = "idle"
    /\ path \in {"none", "stale"} /\ backlog = <<>>
    /\ phase = "down" /\ shutdown = FALSE
    /\ handlers = <<>>
    /\ pending = None /\ valueChanged = FALSE
    /\ last = None /\ publisher = "none" /\ call = None /\ failed = FALSE
    /\ target = None
    /\ faults = 0

-----------------------------------------------------------------------------
(* The life of the listener's process: main and start                      *)

\* What the death of the process leaves: its memory and its sockets are gone.
\* The next instance starts from the values of __init__, which these are.
ProcessGone ==
    /\ phase' = "down" /\ shutdown' = FALSE
    /\ backlog' = <<>> /\ handlers' = <<>>
    /\ pending' = None /\ valueChanged' = FALSE
    /\ last' = None /\ publisher' = "none" /\ call' = None /\ failed' = FALSE

\* The operator starts hazard_listener.py; start() awaits connect_kuksa.
Start ==
    /\ phase = "down"
    /\ phase' = "connecting"
    /\ UNCHANGED <<modelVars, socketVars, shutdown, handlers, mailbox,
                   publisherVars, target, faults>>

\* connect_kuksa returns: the publisher task is created, and listen_socket
\* replaces whatever the path names by its own socket.
ConnectKuksa ==
    /\ phase = "connecting" /\ ~shutdown
    /\ phase' = "accepting"
    /\ path' = "bound"
    /\ publisher' = "waiting"
    /\ UNCHANGED <<modelVars, backlog, shutdown, handlers, mailbox, last, call,
                   failed, target, faults>>

\* A signal came while connect_kuksa ran: both loops end at their first test.
ConnectKuksaAfterSignal ==
    /\ phase = "connecting" /\ shutdown
    /\ phase' = "closing"
    /\ path' = "none"
    /\ publisher' = "done"
    /\ UNCHANGED <<modelVars, backlog, shutdown, handlers, mailbox, last, call,
                   failed, target, faults>>

\* connect_kuksa raises: main's finally calls stop(), which unlinks the path.
ConnectFails ==
    /\ phase = "connecting"
    /\ Fault("connectFails")
    /\ path' = "none"
    /\ ProcessGone
    /\ UNCHANGED <<modelVars, target>>

\* SIGINT or SIGTERM: the first half of stop(), up to client.disconnect().
Sigterm ==
    /\ phase \in {"connecting", "accepting", "sleeping"} /\ ~shutdown
    /\ shutdown' = TRUE
    /\ valueChanged' = TRUE
    /\ UNCHANGED <<modelVars, socketVars, phase, handlers, pending,
                   publisherVars, target, faults>>

\* The second half: the path goes while the accept loop may still be running.
StopUnlinks ==
    /\ phase \in {"connecting", "accepting", "sleeping"} /\ shutdown
    /\ path # "none"
    /\ path' = "none"
    /\ UNCHANGED <<modelVars, backlog, loopVars, handlers, mailbox,
                   publisherVars, target, faults>>

\* start() has awaited the publisher, main's finally has called stop().
Exit ==
    /\ phase = "closing" /\ publisher = "done"
    /\ path' = "none"
    /\ ProcessGone
    /\ UNCHANGED <<modelVars, target, faults>>

\* No finally clause runs: the socket's file stays behind.
ListenerKilled ==
    /\ phase # "down"
    /\ Fault("listenerKilled")
    /\ path' = IF path = "bound" THEN "stale" ELSE path
    /\ ProcessGone
    /\ UNCHANGED <<modelVars, target>>

-----------------------------------------------------------------------------
(* listen_socket                                                           *)

\* [mutant] The loop tests nothing.
LoopForever(rest) == phase' = "accepting" /\ backlog' = rest /\ UNCHANGED path

\* Back at `while not self._shutdown_event.is_set()`, with the connections
\* `rest` not accepted.  Leaving the loop closes the socket (which drops
\* them) and unlinks the path.
LoopTest(rest) ==
    IF shutdown
    THEN phase' = "closing" /\ path' = "none" /\ backlog' = <<>>
    ELSE phase' = "accepting" /\ backlog' = rest /\ UNCHANGED path

\* [mutant] The queue of the socket is served from its end.
AcceptNewest ==
    /\ phase = "accepting" /\ backlog # <<>>
    /\ Len(handlers) < MaxHandlers
    /\ handlers' = Append(handlers, [data |-> Last(backlog), blocked |-> FALSE])
    /\ LoopTest(Front(backlog))
    /\ UNCHANGED <<modelVars, shutdown, mailbox, publisherVars, target, faults>>

\* accept returns: the connection gets a task of its own, fire-and-forget.
Accept ==
    /\ phase = "accepting" /\ backlog # <<>>
    /\ Len(handlers) < MaxHandlers
    /\ handlers' = Append(handlers, [data |-> Head(backlog), blocked |-> FALSE])
    /\ LoopTest(Tail(backlog))
    /\ UNCHANGED <<modelVars, shutdown, mailbox, publisherVars, target, faults>>

\* 0.5 s went by.  Without a shutdown the loop goes round unchanged.
AcceptTimesOut ==
    /\ phase = "accepting" /\ shutdown
    /\ LoopTest(backlog)
    /\ UNCHANGED <<modelVars, shutdown, handlers, mailbox, publisherVars, target,
                   faults>>

\* The timeout cancels wait_for in the turn in which sock_accept completed:
\* the accepted connection is dropped, and with it what its client sends.
AcceptTimeoutDropsConnection ==
    /\ phase = "accepting" /\ backlog # <<>>
    /\ Fault("droppedAccept")
    /\ LoopTest(Tail(backlog))
    /\ UNCHANGED <<modelVars, shutdown, handlers, mailbox, publisherVars, target>>

\* sock_accept raises; the loop sleeps 0.1 s unless a shutdown was asked.
AcceptError ==
    /\ phase = "accepting"
    /\ Fault("acceptError")
    /\ IF shutdown THEN LoopTest(backlog)
                   ELSE phase' = "sleeping" /\ UNCHANGED socketVars
    /\ UNCHANGED <<modelVars, shutdown, handlers, mailbox, publisherVars, target>>

SleepEnds ==
    /\ phase = "sleeping"
    /\ LoopTest(backlog)
    /\ UNCHANGED <<modelVars, shutdown, handlers, mailbox, publisherVars, target,
                   faults>>

-----------------------------------------------------------------------------
(* _handle_client                                                          *)

\* recv finds nothing: the task waits for the socket to become readable.
HandlerBlocks ==
    /\ \E k \in DOMAIN handlers :
          /\ handlers[k].data = None /\ ~handlers[k].blocked
          /\ handlers' = [handlers EXCEPT ![k].blocked = TRUE]
    /\ UNCHANGED <<modelVars, socketVars, loopVars, mailbox, publisherVars,
                   target, faults>>

\* [mutant] The publisher is not woken.
StoreSilently(value) == pending' = value /\ UNCHANGED valueChanged

\* Store latest value and wake the publisher (non-blocking).
Store(value) == pending' = value /\ valueChanged' = TRUE

\* [mutant] `if data` is missing: end of file is stored like a value.
ReceiveAnything(k) ==
    /\ handlers[k].data # None
    /\ Store(handlers[k].data)
    /\ handlers' = RemoveAt(handlers, k)

\* The task at position k receives its value, stores it and ends.
Receive(k) ==
    /\ handlers[k].data \in Nat
    /\ Store(handlers[k].data)
    /\ handlers' = RemoveAt(handlers, k)

\* [mutant] The newest task runs first.
HandlerStoresNewest ==
    /\ handlers # <<>> /\ Receive(Len(handlers))
    /\ UNCHANGED <<modelVars, socketVars, loopVars, publisherVars, target, faults>>

\* asyncio resumes tasks in the order in which they became ready, and the
\* model opens a connection only after it has sent on the one before.
HandlerStores ==
    /\ handlers # <<>> /\ Receive(1)
    /\ UNCHANGED <<modelVars, socketVars, loopVars, publisherVars, target, faults>>

\* The exception: tasks that found no data are behind those that find some at
\* once when the process was preempted between its poll and its accept.
HandlerOvertakes ==
    /\ Fault("overtaking")
    /\ \E k \in 2..Len(handlers) :
          /\ ~handlers[k].blocked
          /\ \A j \in 1..(k - 1) : handlers[j].blocked
          /\ Receive(k)
    /\ UNCHANGED <<modelVars, socketVars, loopVars, publisherVars, target>>

\* recv returns no bytes: `if data` is false and nothing is stored.
HandlerReadsEof ==
    /\ \E k \in DOMAIN handlers :
          handlers[k].data = Eof /\ handlers' = RemoveAt(handlers, k)
    /\ UNCHANGED <<modelVars, socketVars, loopVars, mailbox, publisherVars,
                   target, faults>>

\* 0.1 s went by since the task's recv began: the connection is closed.
HandlerTimesOut ==
    /\ Fault("slowClient")
    /\ \E k \in DOMAIN handlers :
          handlers[k].blocked /\ handlers' = RemoveAt(handlers, k)
    /\ UNCHANGED <<modelVars, socketVars, loopVars, mailbox, publisherVars, target>>

-----------------------------------------------------------------------------
(* _kuksa_publisher                                                        *)

\* [mutant] The comparison is missing.
AlwaysAChange == FALSE

\* `if is_hazard == self._last_hazard: continue`
NoRealChange == SameSignal(pending, last)

\* The publisher wakes, clears the event, and finds nothing new.
PublisherSkips ==
    /\ publisher = "waiting" /\ valueChanged /\ ~shutdown
    /\ NoRealChange
    /\ valueChanged' = FALSE
    /\ failed' = FALSE
    /\ UNCHANGED <<modelVars, socketVars, loopVars, handlers, pending, last,
                   publisher, call, target, faults>>

\* It wakes, clears the event and calls the broker with the value it read.
PublisherCalls ==
    /\ publisher = "waiting" /\ valueChanged /\ ~shutdown
    /\ ~NoRealChange
    /\ valueChanged' = FALSE
    /\ failed' = FALSE
    /\ call' = pending
    /\ publisher' = "calling"
    /\ UNCHANGED <<modelVars, socketVars, loopVars, handlers, pending, last,
                   target, faults>>

\* The broker serves set_target_values.
BrokerApplies ==
    /\ publisher = "calling"
    /\ target' = call
    /\ publisher' = "applied"
    /\ UNCHANGED <<modelVars, socketVars, loopVars, handlers, mailbox, last,
                   call, failed, faults>>

\* After the call, the test of the publisher's loop.
CallOver == /\ call' = None
            /\ publisher' = IF shutdown THEN "done" ELSE "waiting"

\* [mutant] After the await, the attribute is read again, not the local copy.
RecordPending == last' = pending

\* `self._last_hazard = is_hazard`
RecordPublished == last' = call

\* set_target_values returns.
CallSucceeds ==
    /\ publisher = "applied"
    /\ RecordPublished
    /\ CallOver
    /\ UNCHANGED <<modelVars, socketVars, loopVars, handlers, mailbox, failed,
                   target, faults>>

\* set_target_values raises: the error is printed and the value forgotten.
CallFails ==
    /\ \/ publisher = "calling" /\ Fault("callFails")
       \/ publisher = "applied" /\ Fault("lostReply")
    /\ failed' = TRUE
    /\ CallOver
    /\ UNCHANGED <<modelVars, socketVars, loopVars, handlers, mailbox, last,
                   target>>

\* The wait returns after a shutdown; or stop() has disconnected the client,
\* or start() has cancelled the task, and the call in progress is cancelled.
PublisherEnds ==
    /\ publisher \in {"waiting", "calling", "applied"} /\ shutdown
    /\ publisher' = "done"
    /\ call' = None
    /\ UNCHANGED <<modelVars, socketVars, loopVars, handlers, mailbox, last,
                   failed, target, faults>>

\* The broker restarts and serves again; its target values were in memory.
BrokerRestarts ==
    /\ target # None
    /\ Fault("brokerRestart")
    /\ target' = None
    /\ UNCHANGED <<modelVars, socketVars, loopVars, handlers, mailbox,
                   publisherVars>>

-----------------------------------------------------------------------------
(* The model: da_set_hazard_signal and uds_write of da_connector.c         *)

\* The hazard output of a model step differs from that of the step before.
OutputChanges ==
    /\ writer = "idle" /\ epoch < MaxEpoch
    /\ epoch' = epoch + 1
    /\ UNCHANGED <<writer, socketVars, loopVars, handlers, mailbox,
                   publisherVars, target, faults>>

\* The non-blocking connect succeeds at once or fails (no path, a stale path,
\* a full queue); a failure loses the step's value and changes nothing here.
\* Linux lets a queue of listen(n) hold n + 1 connections.
WriterConnects ==
    /\ writer = "idle" /\ path = "bound" /\ Len(backlog) <= Backlog
    /\ writer' = "connected"
    /\ backlog' = Append(backlog, None)
    /\ UNCHANGED <<epoch, path, loopVars, handlers, mailbox, publisherVars,
                   target, faults>>

\* The writer's connection as the listener holds it: nothing sent yet.
Open == \/ \E i \in DOMAIN backlog : backlog[i] = None
        \/ \E k \in DOMAIN handlers : handlers[k].data = None

\* What the client's end of the open connection does to it: v is sent, or Eof.
Fill(v) ==
    /\ backlog' = ReplaceAll(backlog, None, v)
    /\ handlers' = [k \in DOMAIN handlers |->
                      IF handlers[k].data = None
                      THEN [handlers[k] EXCEPT !.data = v] ELSE handlers[k]]

\* send, then close.
WriterSends ==
    /\ writer = "connected" /\ Open
    /\ Fill(epoch)
    /\ writer' = "idle"
    /\ UNCHANGED <<epoch, path, loopVars, mailbox, publisherVars, target, faults>>

\* The listener's end is closed.  send has no MSG_NOSIGNAL: SIGPIPE kills the
\* model's process, unless its host (MATLAB) ignores it and send fails.
WriterBrokenPipe ==
    /\ writer = "connected" /\ ~Open
    /\ writer' \in {"idle", "dead"}
    /\ UNCHANGED <<epoch, socketVars, loopVars, handlers, mailbox, publisherVars,
                   target, faults>>

ModelKilled ==
    /\ writer # "dead"
    /\ Fault("modelKilled")
    /\ writer' = "dead"
    /\ Fill(Eof)
    /\ UNCHANGED <<epoch, path, loopVars, mailbox, publisherVars, target>>

ModelRestarts ==
    /\ writer = "dead"
    /\ writer' = "idle"
    /\ UNCHANGED <<epoch, socketVars, loopVars, handlers, mailbox, publisherVars,
                   target, faults>>

-----------------------------------------------------------------------------

Process == Start \/ ConnectKuksa \/ ConnectKuksaAfterSignal \/ ConnectFails
           \/ Sigterm \/ StopUnlinks \/ Exit \/ ListenerKilled

AcceptLoop == Accept \/ AcceptTimesOut \/ AcceptTimeoutDropsConnection
              \/ AcceptError \/ SleepEnds

Handler == HandlerBlocks \/ HandlerStores \/ HandlerOvertakes
           \/ HandlerReadsEof \/ HandlerTimesOut

Publisher == PublisherSkips \/ PublisherCalls \/ CallSucceeds \/ CallFails
             \/ PublisherEnds

Broker == BrokerApplies \/ BrokerRestarts

Model == OutputChanges \/ WriterConnects \/ WriterSends \/ WriterBrokenPipe
         \/ ModelKilled \/ ModelRestarts

Next == Process \/ AcceptLoop \/ Handler \/ Publisher \/ Broker \/ Model

Spec == Init /\ [][Next]_vars

\* What runs without anybody's decision: the two loops and the tasks of the
\* listener's process, a broker that answers, and a model that keeps stepping.
\* Faults, the operator's commands and changes of the output owe nothing.
Fairness ==
    /\ WF_vars(ConnectKuksa) /\ WF_vars(ConnectKuksaAfterSignal)
    /\ WF_vars(Accept) /\ WF_vars(AcceptTimesOut) /\ WF_vars(SleepEnds)
    /\ WF_vars(HandlerStores) /\ WF_vars(HandlerReadsEof)
    /\ WF_vars(PublisherSkips) /\ WF_vars(PublisherCalls)
    /\ WF_vars(BrokerApplies) /\ WF_vars(CallSucceeds)
    /\ WF_vars(PublisherEnds) /\ WF_vars(Exit)
    /\ WF_vars(WriterConnects) /\ WF_vars(WriterSends)
    /\ WF_vars(WriterBrokenPipe)

FairSpec == Spec /\ Fairness

-----------------------------------------------------------------------------
(* Properties                                                              *)

\* A publisher at rest has nothing left to do: whenever it waits and no wakeup
\* is due, the latest value received is the one it published last.  (The event
\* is cleared before the value is read, and a store during the broker's answer
\* sets it again.)  The exception the code makes is a call that raised: its
\* value waits for the next message.
NoLostWakeup ==
    publisher = "waiting" /\ ~valueChanged /\ ~shutdown /\ ~failed
        => SameSignal(pending, last)

\* The first of two values on the way to the broker is not newer.
NotNewer(a, b) == a \in Nat /\ b \in Nat => a <= b

\* Of the connections b in the socket's queue and the tasks h, none has been
\* sent a value newer than one behind it, or than the output e.
QueuesInOrder(b, h, e) ==
    /\ \A i \in DOMAIN b :
          /\ NotNewer(b[i], e)
          /\ \A j \in DOMAIN b : i < j => NotNewer(b[i], b[j])
    /\ \A k \in DOMAIN h :
          /\ NotNewer(h[k].data, e)
          /\ \A i \in DOMAIN b : NotNewer(h[k].data, b[i])
          /\ \A m \in DOMAIN h : k < m => NotNewer(h[k].data, h[m].data)

\* The value v is not newer than any that is still on its way.
Ahead(v, b, h, e) ==
    /\ NotNewer(v, e)
    /\ \A i \in DOMAIN b : NotNewer(v, b[i])
    /\ \A k \in DOMAIN h : NotNewer(v, h[k].data)

\* Along the whole path, from the broker's value back to the model's output,
\* through the call, the mailbox, the tasks and the socket's queue, no value
\* overtakes another.  (Not so when tasks may: see HandlerOvertakes.)
InOrder ==
    /\ QueuesInOrder(backlog, handlers, epoch)
    /\ \A v \in {target, call, pending} : Ahead(v, backlog, handlers, epoch)
    /\ NotNewer(call, pending)
    /\ NotNewer(target, pending)
    /\ NotNewer(target, call)

\* What the publisher believes to have published is what the broker shows.
\* It holds while no reply of the broker is lost and the broker keeps running.
CacheCoherent ==
    publisher \in {"waiting", "calling"} /\ last # None
        => SameSignal(target, last)

\* "So we only call KUKSA on actual changes": whenever the broker serves a call
\* of a publisher that has published before, the signal of the call is not the
\* one the broker shows, although the model sends its output in every step.
OnlyActualChanges ==
    [][BrokerApplies /\ last # None => ~SameSignal(target, call)]_vars

\* The listener implements the promise made of the hazard signal.
HS == INSTANCE HazardSignal WITH epoch <- epoch, target <- target
ImplementsHazardSignal == HS!Spec

\* The listener serves and the model steps.
Serving == phase \in {"accepting", "sleeping"} /\ ~shutdown /\ writer # "dead"

\* "IsSignaling will toggle based on the model's output": once the output stays
\* the same, the broker's value becomes that output and stays so, whatever was
\* lost, delayed or reordered before.
FollowsModel ==
    \A e \in 0..MaxEpoch :
        <>[](Serving /\ epoch = e) => <>[]SameSignal(target, e)

\* A signal ends the process, whatever the tasks and the broker were doing.
ShutdownCompletes == shutdown ~> phase = "down"
=============================================================================

------------------------ MODULE HazardListenerProofs ------------------------
(***************************************************************************)
(* Proofs about HazardListener, for every value of its constants.          *)
(***************************************************************************)
EXTENDS HazardListener, SequenceTheorems, TLAPS

-----------------------------------------------------------------------------
(* Sequences                                                               *)

\* Removing an element shortens a sequence by one and shifts what follows.
LEMMA RemoveAtProperties ==
    ASSUME NEW S, NEW s \in Seq(S), NEW k \in 1..Len(s)
    PROVE  /\ RemoveAt(s, k) \in Seq(S)
           /\ Len(RemoveAt(s, k)) = Len(s) - 1
           /\ \A i \in 1..(Len(s) - 1) :
                 RemoveAt(s, k)[i] = IF i < k THEN s[i] ELSE s[i + 1]
<1> DEFINE before == SubSeq(s, 1, k - 1)
           after  == SubSeq(s, k + 1, Len(s))
<1>1. /\ Len(s) \in Nat /\ k \in Nat /\ k >= 1 /\ k <= Len(s)
      /\ \A i \in 1..Len(s) : s[i] \in S
  BY ElementOfSeq
<1>2. /\ before \in Seq(S) /\ Len(before) = k - 1
      /\ \A i \in 1..(k - 1) : before[i] = s[i]
  BY <1>1
<1>3. /\ after \in Seq(S) /\ Len(after) = Len(s) - k
      /\ \A i \in 1..(Len(s) - k) : after[i] = s[k + i]
  BY <1>1
<1> HIDE DEF before, after
<1> DEFINE joined == before \o after
<1>4. /\ joined \in Seq(S)
      /\ Len(joined) = Len(before) + Len(after)
      /\ \A i \in 1..(Len(before) + Len(after)) :
            joined[i] = IF i <= Len(before) THEN before[i]
                                            ELSE after[i - Len(before)]
  BY <1>2, <1>3, ConcatProperties
<1> HIDE DEF joined
<1>5. Len(before) + Len(after) = Len(s) - 1
  BY <1>1, <1>2, <1>3
<1>6. ASSUME NEW i \in 1..(Len(s) - 1)
      PROVE  joined[i] = IF i < k THEN s[i] ELSE s[i + 1]
  <2>1. CASE i < k
    BY <1>1, <1>2, <1>4, <1>5, <2>1
  <2>2. CASE ~(i < k)
    <3>1. i - (k - 1) \in 1..(Len(s) - k) /\ k + (i - (k - 1)) = i + 1
      BY <1>1, <2>2
    <3>2. /\ i \in 1..(Len(before) + Len(after))
          /\ ~(i <= Len(before))
          /\ i - Len(before) = i - (k - 1)
      BY <1>1, <1>2, <1>5, <2>2
    <3>3. joined[i] = after[i - (k - 1)]
      BY <1>4, <3>2
    <3> QED
      BY <1>1, <1>3, <2>2, <3>1, <3>3
  <2> QED
    BY <2>1, <2>2
<1>7. RemoveAt(s, k) = joined
  BY DEF RemoveAt, joined, before, after
<1> QED
  BY <1>4, <1>5, <1>6, <1>7

-----------------------------------------------------------------------------
(* What the attributes of the listener have to do with each other          *)

\* Before the sockets and the publisher exist, nothing has been received.
FreshProcess ==
    phase \in {"down", "connecting"}
        => /\ publisher = "none" /\ call = None /\ ~failed
           /\ pending = None /\ last = None
           /\ handlers = <<>>

\* Once something was published, or is being published, something was received.
ReceivedFirst == call # None \/ last # None => pending # None

\* During a call, the value received last is the one in the call unless the
\* event is set for it.
CallIsLatest ==
    publisher \in {"calling", "applied"}
        => /\ call # None
           /\ ~valueChanged /\ ~shutdown => pending = call

PublisherInv ==
    TypeOK /\ FreshProcess /\ ReceivedFirst /\ CallIsLatest /\ NoLostWakeup

-----------------------------------------------------------------------------
(* Types                                                                   *)

\* The open connection's end is the only thing that changes in the queues.
LEMMA FillType ==
    ASSUME TypeOK, NEW v \in Sent, Fill(v)
    PROVE  backlog' \in Seq(Sent) /\ handlers' \in Seq(Task)
<1>1. backlog' \in Seq(Sent)
  BY DEF TypeOK, Fill, ReplaceAll
<1>2. /\ Len(handlers) \in Nat
      /\ DOMAIN handlers = 1..Len(handlers)
      /\ \A k \in 1..Len(handlers) : handlers[k] \in Task
  BY LenProperties, ElementOfSeq DEF TypeOK
<1>3. ASSUME NEW k \in 1..Len(handlers)
      PROVE  [handlers[k] EXCEPT !.data = v] \in Task
  BY <1>2 DEF Task
<1>4. handlers' \in [1..Len(handlers) -> Task]
  BY <1>2, <1>3 DEF Fill
<1>5. handlers' \in Seq(Task)
  BY <1>2, <1>4
<1> QED
  BY <1>1, <1>5

LEMMA FillEmpty ==
    ASSUME TypeOK, NEW v \in Sent, Fill(v), handlers = <<>>
    PROVE  handlers' = <<>>
<1>1. handlers' \in Seq(Task) /\ Len(handlers') = 0
  <2>1. handlers' = [k \in 1..0 |-> IF handlers[k].data = None
                      THEN [handlers[k] EXCEPT !.data = v] ELSE handlers[k]]
    BY DEF Fill
  <2> QED
    BY <2>1, FillType
<1> QED
  BY <1>1, EmptySeq

\* So is the removal of a task.
LEMMA RemoveType ==
    ASSUME TypeOK, NEW k \in DOMAIN handlers
    PROVE  RemoveAt(handlers, k) \in Seq(Task)
BY RemoveAtProperties DEF TypeOK

\* The loop test leaves connections that were there.
LEMMA LoopTestType ==
    ASSUME TypeOK, NEW rest \in Seq(Sent), LoopTest(rest)
    PROVE  /\ path' \in {"none", "stale", "bound"}
           /\ backlog' \in Seq(Sent)
           /\ phase' \in {"accepting", "closing"}
BY EmptySeq DEF TypeOK, LoopTest

LEMMA ProcessGoneType ==
    ASSUME ProcessGone
    PROVE  /\ phase' = "down" /\ shutdown' \in BOOLEAN
           /\ backlog' \in Seq(Sent) /\ handlers' \in Seq(Task)
           /\ pending' \in Nat \union {None} /\ valueChanged' \in BOOLEAN
           /\ last' \in Nat \union {None} /\ publisher' = "none"
           /\ call' \in Nat \union {None} /\ failed' \in BOOLEAN
BY EmptySeq DEF ProcessGone

LEMMA TypeInit == Init => TypeOK
<1>1. <<>> \in Seq(Sent) /\ <<>> \in Seq(Task)
  BY EmptySeq
<1>2. Init => backlog \in Seq(Sent) /\ handlers \in Seq(Task)
  BY <1>1 DEF Init
<1>3. Init => /\ epoch \in Nat /\ faults \in Nat
              /\ pending = None /\ last = None /\ call = None /\ target = None
              /\ shutdown = FALSE /\ valueChanged = FALSE /\ failed = FALSE
  BY DEF Init
<1>4. Init => /\ writer \in {"idle", "connected", "dead"}
              /\ path \in {"none", "stale", "bound"}
              /\ phase = "down" /\ publisher = "none"
  BY DEF Init
<1> QED
  BY <1>2, <1>3, <1>4 DEF TypeOK

LEMMA TypeNext == TypeOK /\ [Next]_vars => TypeOK'
<1> SUFFICES ASSUME TypeOK, [Next]_vars PROVE TypeOK'
  OBVIOUS
<1> USE DEF modelVars, socketVars, loopVars, mailbox, publisherVars
<1>1. CASE Start
  BY <1>1 DEF TypeOK, Start
<1>2. CASE ConnectKuksa
  BY <1>2 DEF TypeOK, ConnectKuksa
<1>3. CASE ConnectKuksaAfterSignal
  BY <1>3 DEF TypeOK, ConnectKuksaAfterSignal
<1>4. CASE ConnectFails
  BY <1>4, ProcessGoneType DEF TypeOK, ConnectFails, Fault
<1>5. CASE Sigterm
  BY <1>5 DEF TypeOK, Sigterm
<1>6. CASE StopUnlinks
  BY <1>6 DEF TypeOK, StopUnlinks
<1>7. CASE Exit
  BY <1>7, ProcessGoneType DEF TypeOK, Exit
<1>8. CASE ListenerKilled
  BY <1>8, ProcessGoneType DEF TypeOK, ListenerKilled, Fault
<1>9. CASE Accept
  BY <1>9, LoopTestType, HeadTailProperties, AppendProperties DEF TypeOK,
     Accept, Task
<1>10. CASE AcceptTimesOut
  BY <1>10, LoopTestType DEF TypeOK, AcceptTimesOut
<1>11. CASE AcceptTimeoutDropsConnection
  <2>1. Tail(backlog) \in Seq(Sent)
    BY <1>11, HeadTailProperties DEF TypeOK, AcceptTimeoutDropsConnection
  <2> QED
    <3>1. LoopTest(Tail(backlog))
      BY <1>11 DEF AcceptTimeoutDropsConnection
    <3>2. /\ path' \in {"none", "stale", "bound"}
          /\ backlog' \in Seq(Sent)
          /\ phase' \in {"accepting", "closing"}
      BY <2>1, <3>1, LoopTestType
    <3> QED
      BY <1>11, <3>2 DEF TypeOK, AcceptTimeoutDropsConnection, Fault
<1>12. CASE AcceptError
  BY <1>12, LoopTestType DEF TypeOK, AcceptError, Fault
<1>13. CASE SleepEnds
  BY <1>13, LoopTestType DEF TypeOK, SleepEnds
<1>14. CASE HandlerBlocks
  <2>1. PICK k \in DOMAIN handlers :
           handlers' = [handlers EXCEPT ![k].blocked = TRUE]
    BY <1>14 DEF HandlerBlocks
  <2>2. /\ Len(handlers) \in Nat
        /\ DOMAIN handlers = 1..Len(handlers)
        /\ \A m \in 1..Len(handlers) : handlers[m] \in Task
    BY LenProperties, ElementOfSeq DEF TypeOK
  <2>3. [handlers[k] EXCEPT !.blocked = TRUE] \in Task
    BY <2>2 DEF Task
  <2>4. handlers' \in [1..Len(handlers) -> Task]
    BY <2>1, <2>2, <2>3
  <2>5. handlers' \in Seq(Task)
    BY <2>2, <2>4
  <2> QED
    BY <1>14, <2>5 DEF TypeOK, HandlerBlocks
<1>15. CASE HandlerStores
  BY <1>15, RemoveType DEF TypeOK, HandlerStores, Receive, Store
<1>16. CASE HandlerOvertakes
  BY <1>16, RemoveType DEF TypeOK, HandlerOvertakes, Fault, Receive, Store
<1>17. CASE HandlerReadsEof
  BY <1>17, RemoveType DEF TypeOK, HandlerReadsEof
<1>18. CASE HandlerTimesOut
  BY <1>18, RemoveType DEF TypeOK, HandlerTimesOut, Fault
<1>19. CASE PublisherSkips
  BY <1>19 DEF TypeOK, PublisherSkips, NoRealChange
<1>20. CASE PublisherCalls
  BY <1>20 DEF TypeOK, PublisherCalls, NoRealChange
<1>21. CASE CallSucceeds
  BY <1>21 DEF TypeOK, CallSucceeds, CallOver, RecordPublished
<1>22. CASE CallFails
  BY <1>22 DEF TypeOK, CallFails, Fault, CallOver
<1>23. CASE PublisherEnds
  BY <1>23 DEF TypeOK, PublisherEnds
<1>24. CASE BrokerApplies
  BY <1>24 DEF TypeOK, BrokerApplies
<1>25. CASE BrokerRestarts
  BY <1>25 DEF TypeOK, BrokerRestarts, Fault
<1>26. CASE OutputChanges
  BY <1>26 DEF TypeOK, OutputChanges
<1>27. CASE WriterConnects
  BY <1>27, AppendProperties DEF TypeOK, WriterConnects, Sent
<1>28. CASE WriterSends
  BY <1>28, FillType DEF TypeOK, WriterSends, Sent
<1>29. CASE WriterBrokenPipe
  BY <1>29 DEF TypeOK, WriterBrokenPipe
<1>30. CASE ModelKilled
  <2>1. Eof \in Sent
    BY DEF Sent
  <2> QED
    BY <1>30, <2>1, FillType DEF TypeOK, ModelKilled, Fault
<1>31. CASE ModelRestarts
  BY <1>31 DEF TypeOK, ModelRestarts
<1>32. CASE UNCHANGED vars
  BY <1>32 DEF TypeOK, vars
<1> QED
  BY <1>1, <1>2, <1>3, <1>4, <1>5, <1>6, <1>7, <1>8, <1>9, <1>10, <1>11,
     <1>12, <1>13, <1>14, <1>15, <1>16, <1>17, <1>18, <1>19, <1>20, <1>21,
     <1>22, <1>23, <1>24, <1>25, <1>26, <1>27, <1>28, <1>29, <1>30, <1>31,
     <1>32
     DEF Next, Process, AcceptLoop, Handler, Publisher, Broker, Model

THEOREM TypeCorrect == Spec => []TypeOK
<1> QED
  BY TypeInit, TypeNext, PTL DEF Spec

-----------------------------------------------------------------------------
(* The publisher's bookkeeping                                             *)

LEMMA PublisherInvNext == PublisherInv /\ [Next]_vars => PublisherInv'
<1> SUFFICES ASSUME PublisherInv, [Next]_vars
             PROVE  FreshProcess' /\ ReceivedFirst' /\ CallIsLatest' /\ NoLostWakeup'
  BY TypeNext DEF PublisherInv
<1> USE ValueAssumption DEF modelVars, socketVars, loopVars, mailbox, publisherVars,
        PublisherInv, FreshProcess, ReceivedFirst, CallIsLatest, NoLostWakeup
<1>1. CASE Start
  BY <1>1 DEF Start
<1>2. CASE ConnectKuksa
  BY <1>2 DEF ConnectKuksa, SameSignal
<1>3. CASE ConnectKuksaAfterSignal
  BY <1>3 DEF ConnectKuksaAfterSignal
<1>4. CASE ConnectFails
  BY <1>4 DEF ConnectFails, ProcessGone, Fault
<1>5. CASE Sigterm
  BY <1>5 DEF Sigterm
<1>6. CASE StopUnlinks
  BY <1>6 DEF StopUnlinks
<1>7. CASE Exit
  BY <1>7 DEF Exit, ProcessGone
<1>8. CASE ListenerKilled
  BY <1>8 DEF ListenerKilled, ProcessGone, Fault
<1>9. CASE Accept
  BY <1>9 DEF Accept, LoopTest
<1>10. CASE AcceptTimesOut
  BY <1>10 DEF AcceptTimesOut, LoopTest
<1>11. CASE AcceptTimeoutDropsConnection
  BY <1>11 DEF AcceptTimeoutDropsConnection, Fault, LoopTest
<1>12. CASE AcceptError
  BY <1>12 DEF AcceptError, Fault, LoopTest
<1>13. CASE SleepEnds
  BY <1>13 DEF SleepEnds, LoopTest
<1>14. CASE HandlerBlocks
  BY <1>14 DEF HandlerBlocks
<1>15. CASE HandlerStores
  BY <1>15 DEF HandlerStores, Receive, Store, TypeOK
<1>16. CASE HandlerOvertakes
  BY <1>16 DEF HandlerOvertakes, Fault, Receive, Store, TypeOK
<1>17. CASE HandlerReadsEof
  BY <1>17 DEF HandlerReadsEof
<1>18. CASE HandlerTimesOut
  BY <1>18 DEF HandlerTimesOut, Fault
<1>19. CASE PublisherSkips
  BY <1>19 DEF PublisherSkips, NoRealChange, TypeOK, SameSignal
<1>20. CASE PublisherCalls
  BY <1>20 DEF PublisherCalls, NoRealChange, TypeOK, SameSignal
<1>21. CASE CallSucceeds
  BY <1>21 DEF CallSucceeds, CallOver, RecordPublished, SameSignal
<1>22. CASE CallFails
  BY <1>22 DEF CallFails, Fault, CallOver, SameSignal
<1>23. CASE PublisherEnds
  BY <1>23 DEF PublisherEnds
<1>24. CASE BrokerApplies
  BY <1>24 DEF BrokerApplies
<1>25. CASE BrokerRestarts
  BY <1>25 DEF BrokerRestarts, Fault
<1>26. CASE OutputChanges
  BY <1>26 DEF OutputChanges
<1>27. CASE WriterConnects
  BY <1>27 DEF WriterConnects
<1>28. CASE WriterSends
  BY <1>28, FillEmpty DEF WriterSends, Sent, TypeOK
<1>29. CASE WriterBrokenPipe
  BY <1>29 DEF WriterBrokenPipe
<1>30. CASE ModelKilled
  BY <1>30, FillEmpty DEF ModelKilled, Fault, Sent
<1>31. CASE ModelRestarts
  BY <1>31 DEF ModelRestarts
<1>32. CASE UNCHANGED vars
  BY <1>32 DEF vars
<1> QED
  BY <1>1, <1>2, <1>3, <1>4, <1>5, <1>6, <1>7, <1>8, <1>9, <1>10, <1>11,
     <1>12, <1>13, <1>14, <1>15, <1>16, <1>17, <1>18, <1>19, <1>20, <1>21,
     <1>22, <1>23, <1>24, <1>25, <1>26, <1>27, <1>28, <1>29, <1>30, <1>31,
     <1>32
     DEF Next, Process, AcceptLoop, Handler, Publisher, Broker, Model

\* The publisher never sleeps on a value it has not compared with the one it
\* published last.
THEOREM PublisherNeverSleepsOnWork == Spec => []NoLostWakeup
<1>1. Init => PublisherInv
  BY TypeInit DEF Init, PublisherInv, FreshProcess, ReceivedFirst, CallIsLatest,
                  NoLostWakeup
<1>2. PublisherInv => NoLostWakeup
  BY DEF PublisherInv
<1> QED
  BY <1>1, <1>2, PublisherInvNext, PTL DEF Spec

-----------------------------------------------------------------------------
(* The open connection                                                     *)

\* The connection the model has not sent on is the newest the listener holds,
\* so what is sent on it is newer than all that waits before it.
OpenIsNewest ==
    /\ \A i \in DOMAIN backlog :
          backlog[i] = None => writer = "connected" /\ i = Len(backlog)
    /\ \A k \in DOMAIN handlers :
          handlers[k].data = None
              => writer = "connected" /\ k = Len(handlers) /\ backlog = <<>>

LEMMA RemoveKeepsOpen ==
    ASSUME TypeOK, OpenIsNewest, NEW k \in DOMAIN handlers,
           handlers' = RemoveAt(handlers, k), UNCHANGED <<backlog, writer>>
    PROVE  OpenIsNewest'
<1>1. /\ Len(handlers) \in Nat /\ k \in 1..Len(handlers)
      /\ DOMAIN handlers = 1..Len(handlers)
  BY LenProperties DEF TypeOK
<1>2. /\ DOMAIN handlers' = 1..(Len(handlers) - 1)
      /\ Len(handlers') = Len(handlers) - 1
      /\ \A i \in 1..(Len(handlers) - 1) :
            handlers'[i] = IF i < k THEN handlers[i] ELSE handlers[i + 1]
  BY <1>1, RemoveAtProperties, RemoveType, LenProperties DEF TypeOK
<1>3. ASSUME NEW m \in DOMAIN handlers', handlers'[m].data = None
      PROVE  writer = "connected" /\ m = Len(handlers') /\ backlog = <<>>
  BY <1>1, <1>2, <1>3 DEF OpenIsNewest
<1> QED
  BY <1>3 DEF OpenIsNewest

\* The queue either stays, loses its oldest connections, or is dropped.
LEMMA TailKeepsOpen ==
    ASSUME TypeOK, OpenIsNewest, backlog # <<>>, backlog' = Tail(backlog),
           UNCHANGED <<handlers, writer>>
    PROVE  OpenIsNewest'
<1>1. /\ Len(backlog) \in Nat /\ DOMAIN backlog = 1..Len(backlog)
      /\ DOMAIN backlog' = 1..(Len(backlog) - 1)
      /\ Len(backlog') = Len(backlog) - 1
      /\ \A i \in 1..(Len(backlog) - 1) : backlog'[i] = backlog[i + 1]
  BY HeadTailProperties, LenProperties DEF TypeOK
<1> QED
  BY <1>1 DEF OpenIsNewest

LEMMA DropKeepsOpen ==
    ASSUME OpenIsNewest, backlog' = <<>>, UNCHANGED <<handlers, writer>>
    PROVE  OpenIsNewest'
BY DEF OpenIsNewest

LEMMA AcceptKeepsOpen ==
    ASSUME TypeOK, OpenIsNewest, backlog # <<>>,
           handlers' = Append(handlers, [data |-> Head(backlog), blocked |-> FALSE]),
           backlog' = Tail(backlog) \/ backlog' = <<>>, UNCHANGED writer
    PROVE  OpenIsNewest'
<1>1. /\ Len(backlog) \in Nat \ {0} /\ DOMAIN backlog = 1..Len(backlog)
      /\ Head(backlog) = backlog[1] /\ Head(backlog) \in Sent
  BY HeadTailProperties, LenProperties, EmptySeq DEF TypeOK
<1>2. /\ DOMAIN Tail(backlog) = 1..(Len(backlog) - 1)
      /\ Len(Tail(backlog)) = Len(backlog) - 1
      /\ \A i \in 1..(Len(backlog) - 1) : Tail(backlog)[i] = backlog[i + 1]
  BY HeadTailProperties, LenProperties DEF TypeOK
<1>3. [data |-> Head(backlog), blocked |-> FALSE] \in Task
  BY <1>1 DEF Task
<1>4. /\ Len(handlers) \in Nat /\ DOMAIN handlers = 1..Len(handlers)
      /\ Len(handlers') = Len(handlers) + 1
      /\ DOMAIN handlers' = 1..(Len(handlers) + 1)
      /\ \A k \in 1..Len(handlers) : handlers'[k] = handlers[k]
      /\ handlers'[Len(handlers) + 1].data = Head(backlog)
  BY <1>3, AppendProperties, LenProperties DEF TypeOK
<1>5. \A k \in DOMAIN handlers : handlers[k].data # None
  BY <1>1 DEF OpenIsNewest
<1>6. ASSUME NEW i \in DOMAIN backlog', backlog'[i] = None
      PROVE  writer = "connected" /\ i = Len(backlog')
  BY <1>1, <1>2, <1>6 DEF OpenIsNewest
<1>7. ASSUME NEW k \in DOMAIN handlers', handlers'[k].data = None
      PROVE  writer = "connected" /\ k = Len(handlers') /\ backlog' = <<>>
  <2>1. k = Len(handlers) + 1 /\ backlog[1] = None
    BY <1>1, <1>4, <1>5, <1>7
  <2>2. writer = "connected" /\ Len(backlog) = 1
    BY <1>1, <2>1 DEF OpenIsNewest
  <2>3. Tail(backlog) = <<>>
    BY <1>2, <2>2, EmptySeq, HeadTailProperties DEF TypeOK
  <2> QED
    BY <1>4, <2>1, <2>2, <2>3
<1> QED
  BY <1>6, <1>7 DEF OpenIsNewest

\* Once used, the open connection is open no more.
LEMMA FillCloses ==
    ASSUME TypeOK, NEW v \in Sent, v # None, Fill(v)
    PROVE  /\ DOMAIN backlog' = DOMAIN backlog /\ DOMAIN handlers' = DOMAIN handlers
           /\ \A i \in DOMAIN backlog :
                 /\ backlog'[i] = IF backlog[i] = None THEN v ELSE backlog[i]
                 /\ backlog'[i] # None
           /\ \A k \in DOMAIN handlers :
                 /\ handlers'[k].data = IF handlers[k].data = None
                                        THEN v ELSE handlers[k].data
                 /\ handlers'[k].data # None
<1>1. \A k \in DOMAIN handlers : handlers[k] \in Task
  BY LenProperties, ElementOfSeq DEF TypeOK
<1>2. DOMAIN backlog = 1..Len(backlog)
  BY LenProperties DEF TypeOK
<1> QED
  BY <1>1, <1>2 DEF Fill, ReplaceAll, Task


LEMMA OpenNext == TypeOK /\ OpenIsNewest /\ [Next]_vars => OpenIsNewest'
<1> SUFFICES ASSUME TypeOK, OpenIsNewest, [Next]_vars PROVE OpenIsNewest'
  OBVIOUS
<1> USE DEF modelVars, socketVars, loopVars, mailbox, publisherVars
<1>1. CASE Start
  BY <1>1 DEF OpenIsNewest, Start
<1>2. CASE ConnectKuksa
  BY <1>2 DEF OpenIsNewest, ConnectKuksa
<1>3. CASE ConnectKuksaAfterSignal
  BY <1>3 DEF OpenIsNewest, ConnectKuksaAfterSignal
<1>4. CASE ConnectFails
  BY <1>4 DEF OpenIsNewest, ConnectFails, ProcessGone
<1>5. CASE Sigterm
  BY <1>5 DEF OpenIsNewest, Sigterm
<1>6. CASE StopUnlinks
  BY <1>6 DEF OpenIsNewest, StopUnlinks
<1>7. CASE Exit
  BY <1>7 DEF OpenIsNewest, Exit, ProcessGone
<1>8. CASE ListenerKilled
  BY <1>8 DEF OpenIsNewest, ListenerKilled, ProcessGone
<1>9. CASE Accept
  BY <1>9, AcceptKeepsOpen DEF Accept, LoopTest
<1>10. CASE AcceptTimesOut
  BY <1>10, DropKeepsOpen DEF AcceptTimesOut, LoopTest
<1>11. CASE AcceptTimeoutDropsConnection
  BY <1>11, TailKeepsOpen, DropKeepsOpen DEF AcceptTimeoutDropsConnection, LoopTest
<1>12. CASE AcceptError
  BY <1>12, DropKeepsOpen DEF AcceptError, LoopTest, OpenIsNewest
<1>13. CASE SleepEnds
  BY <1>13, DropKeepsOpen DEF SleepEnds, LoopTest, OpenIsNewest
<1>14. CASE HandlerBlocks
  <2>1. PICK k \in DOMAIN handlers :
           handlers' = [handlers EXCEPT ![k].blocked = TRUE]
    BY <1>14 DEF HandlerBlocks
  <2>2. \A m \in DOMAIN handlers : handlers[m] \in Task
    BY LenProperties, ElementOfSeq DEF TypeOK
  <2>3. /\ DOMAIN handlers' = DOMAIN handlers /\ Len(handlers') = Len(handlers)
        /\ \A m \in DOMAIN handlers : handlers'[m].data = handlers[m].data
    BY <2>1, <2>2, LenProperties DEF TypeOK, Task
  <2> QED
    BY <1>14, <2>3 DEF OpenIsNewest, HandlerBlocks
<1>15. CASE HandlerStores
  <2>1. 1 \in DOMAIN handlers
    BY <1>15, EmptySeq, LenProperties DEF HandlerStores, TypeOK
  <2> QED
    BY <1>15, <2>1, RemoveKeepsOpen DEF HandlerStores, Receive
<1>16. CASE HandlerOvertakes
  <2>1. PICK k \in 2..Len(handlers) : Receive(k)
    BY <1>16 DEF HandlerOvertakes
  <2>2. k \in DOMAIN handlers
    BY LenProperties DEF TypeOK
  <2> QED
    BY <1>16, <2>1, <2>2, RemoveKeepsOpen DEF HandlerOvertakes, Receive
<1>17. CASE HandlerReadsEof
  BY <1>17, RemoveKeepsOpen DEF HandlerReadsEof
<1>18. CASE HandlerTimesOut
  BY <1>18, RemoveKeepsOpen DEF HandlerTimesOut
<1>19. CASE PublisherSkips
  BY <1>19 DEF OpenIsNewest, PublisherSkips
<1>20. CASE PublisherCalls
  BY <1>20 DEF OpenIsNewest, PublisherCalls
<1>21. CASE CallSucceeds
  BY <1>21 DEF OpenIsNewest, CallSucceeds
<1>22. CASE CallFails
  BY <1>22 DEF OpenIsNewest, CallFails
<1>23. CASE PublisherEnds
  BY <1>23 DEF OpenIsNewest, PublisherEnds
<1>24. CASE BrokerApplies
  BY <1>24 DEF OpenIsNewest, BrokerApplies
<1>25. CASE BrokerRestarts
  BY <1>25 DEF OpenIsNewest, BrokerRestarts
<1>26. CASE OutputChanges
  BY <1>26 DEF OpenIsNewest, OutputChanges
<1>27. CASE WriterConnects
  <2>1. /\ Len(backlog) \in Nat /\ DOMAIN backlog = 1..Len(backlog)
        /\ DOMAIN backlog' = 1..(Len(backlog) + 1)
        /\ Len(backlog') = Len(backlog) + 1
        /\ \A i \in 1..Len(backlog) : backlog'[i] = backlog[i]
    BY <1>27, AppendProperties, LenProperties DEF WriterConnects, TypeOK, Sent
  <2>2. \A k \in DOMAIN handlers : handlers[k].data # None
    BY <1>27 DEF WriterConnects, OpenIsNewest
  <2>3. \A i \in DOMAIN backlog : backlog[i] # None
    BY <1>27 DEF WriterConnects, OpenIsNewest
  <2> QED
    BY <1>27, <2>1, <2>2, <2>3 DEF WriterConnects, OpenIsNewest
<1>28. CASE WriterSends
  <2>1. epoch \in Sent /\ epoch # None
    BY ValueAssumption DEF Sent, TypeOK
  <2> QED
    BY <1>28, <2>1, FillCloses DEF WriterSends, OpenIsNewest
<1>29. CASE WriterBrokenPipe
  BY <1>29 DEF WriterBrokenPipe, Open, OpenIsNewest
<1>30. CASE ModelKilled
  <2>1. Eof \in Sent /\ Eof # None
    BY ValueAssumption DEF Sent
  <2> QED
    BY <1>30, <2>1, FillCloses DEF ModelKilled, OpenIsNewest
<1>31. CASE ModelRestarts
  BY <1>31 DEF OpenIsNewest, ModelRestarts
<1>32. CASE UNCHANGED vars
  BY <1>32 DEF OpenIsNewest, vars
<1> QED
  BY <1>1, <1>2, <1>3, <1>4, <1>5, <1>6, <1>7, <1>8, <1>9, <1>10, <1>11,
     <1>12, <1>13, <1>14, <1>15, <1>16, <1>17, <1>18, <1>19, <1>20, <1>21,
     <1>22, <1>23, <1>24, <1>25, <1>26, <1>27, <1>28, <1>29, <1>30, <1>31,
     <1>32
     DEF Next, Process, AcceptLoop, Handler, Publisher, Broker, Model

\* The connection the model has not sent on is the newest one.
THEOREM OpenConnectionIsNewest == Spec => []OpenIsNewest
<1>1. Init => OpenIsNewest
  BY DEF Init, OpenIsNewest
<1> QED
  BY <1>1, TypeInit, TypeNext, OpenNext, PTL DEF Spec

-----------------------------------------------------------------------------
(* Order                                                                   *)

\* What a step may do to the queues without harm to the order in them.
KeepsOrder(b, h, e, bb, hh, ee) ==
    /\ QueuesInOrder(b, h, e) => QueuesInOrder(bb, hh, ee)
    /\ \A v \in Sent : Ahead(v, b, h, e) => Ahead(v, bb, hh, ee)

\* Removing a task keeps the order.
LEMMA RemoveKeepsOrder ==
    ASSUME TypeOK, NEW k \in DOMAIN handlers, NEW hh, hh = RemoveAt(handlers, k)
    PROVE  KeepsOrder(backlog, handlers, epoch, backlog, hh, epoch)
<1>1. /\ Len(handlers) \in Nat /\ k \in 1..Len(handlers)
      /\ DOMAIN handlers = 1..Len(handlers)
  BY LenProperties DEF TypeOK
<1>2. /\ DOMAIN hh = 1..(Len(handlers) - 1)
      /\ \A i \in 1..(Len(handlers) - 1) :
            hh[i] = IF i < k THEN handlers[i] ELSE handlers[i + 1]
  BY <1>1, RemoveAtProperties, RemoveType, LenProperties DEF TypeOK
<1>3. ASSUME QueuesInOrder(backlog, handlers, epoch)
      PROVE  QueuesInOrder(backlog, hh, epoch)
  <2>1. ASSUME NEW m \in DOMAIN hh, NEW n \in DOMAIN hh
        PROVE  \E i, j \in DOMAIN handlers :
                  /\ hh[m] = handlers[i] /\ hh[n] = handlers[j]
                  /\ m < n => i < j
    <3> DEFINE Old(x) == IF x < k THEN x ELSE x + 1
    <3>1. /\ Old(m) \in DOMAIN handlers /\ Old(n) \in DOMAIN handlers
          /\ m < n => Old(m) < Old(n)
      BY <1>1, <1>2
    <3> QED
      BY <1>1, <1>2, <3>1
  <2>2. ASSUME NEW m \in DOMAIN hh, NEW n \in DOMAIN hh, m < n
        PROVE  NotNewer(hh[m].data, hh[n].data)
    BY <1>3, <2>1, <2>2 DEF QueuesInOrder
  <2>3. ASSUME NEW m \in DOMAIN hh
        PROVE  /\ NotNewer(hh[m].data, epoch)
               /\ \A i \in DOMAIN backlog : NotNewer(hh[m].data, backlog[i])
    BY <1>3, <2>1 DEF QueuesInOrder
  <2> QED
    BY <1>3, <2>2, <2>3 DEF QueuesInOrder
<1>4. \A v \in Sent : Ahead(v, backlog, handlers, epoch)
                         => Ahead(v, backlog, hh, epoch)
  BY <1>1, <1>2 DEF Ahead
<1> QED
  BY <1>3, <1>4 DEF KeepsOrder

\* So does dropping connections from the head of the socket's queue, or all.
LEMMA TailKeepsOrder ==
    ASSUME TypeOK, backlog # <<>>
    PROVE  KeepsOrder(backlog, handlers, epoch, Tail(backlog), handlers, epoch)
<1>1. /\ Len(backlog) \in Nat /\ DOMAIN backlog = 1..Len(backlog)
      /\ DOMAIN Tail(backlog) = 1..(Len(backlog) - 1)
      /\ \A i \in 1..(Len(backlog) - 1) : Tail(backlog)[i] = backlog[i + 1]
  BY HeadTailProperties, LenProperties DEF TypeOK
<1> QED
  BY <1>1 DEF KeepsOrder, QueuesInOrder, Ahead

LEMMA DropKeepsOrder ==
    ASSUME NEW b, NEW h, NEW e PROVE KeepsOrder(b, h, e, <<>>, h, e)
BY DEF KeepsOrder, QueuesInOrder, Ahead

\* A task that takes over the oldest connection is behind all other tasks.
LEMMA AcceptKeepsOrder ==
    ASSUME TypeOK, Accept
    PROVE  KeepsOrder(backlog, handlers, epoch, backlog', handlers', epoch')
<1>1. /\ Len(backlog) \in Nat \ {0} /\ DOMAIN backlog = 1..Len(backlog)
      /\ Head(backlog) = backlog[1] /\ Head(backlog) \in Sent
  BY HeadTailProperties, LenProperties, EmptySeq DEF TypeOK, Accept
<1>2. /\ DOMAIN Tail(backlog) = 1..(Len(backlog) - 1)
      /\ \A i \in 1..(Len(backlog) - 1) : Tail(backlog)[i] = backlog[i + 1]
  BY <1>1, HeadTailProperties, LenProperties, EmptySeq DEF TypeOK
<1>3. [data |-> Head(backlog), blocked |-> FALSE] \in Task
  BY <1>1 DEF Task
<1>4. /\ Len(handlers) \in Nat /\ DOMAIN handlers = 1..Len(handlers)
      /\ DOMAIN handlers' = 1..(Len(handlers) + 1)
      /\ \A k \in 1..Len(handlers) : handlers'[k] = handlers[k]
      /\ handlers'[Len(handlers) + 1].data = backlog[1]
  BY <1>1, <1>3, AppendProperties, LenProperties DEF TypeOK, Accept
<1>5. UNCHANGED epoch /\ (backlog' = Tail(backlog) \/ backlog' = <<>>)
  BY DEF Accept, LoopTest, modelVars
<1>6. KeepsOrder(backlog, handlers, epoch, Tail(backlog), handlers', epoch)
  <2>1. ASSUME QueuesInOrder(backlog, handlers, epoch)
        PROVE  QueuesInOrder(Tail(backlog), handlers', epoch)
    BY <1>1, <1>2, <1>4, <2>1 DEF QueuesInOrder
  <2>2. ASSUME NEW v \in Sent, Ahead(v, backlog, handlers, epoch)
        PROVE  Ahead(v, Tail(backlog), handlers', epoch)
    BY <1>1, <1>2, <1>4, <2>2 DEF Ahead
  <2> QED
    BY <2>1, <2>2 DEF KeepsOrder
<1>7. KeepsOrder(Tail(backlog), handlers', epoch, <<>>, handlers', epoch)
  BY DropKeepsOrder
<1> QED
  BY <1>5, <1>6, <1>7 DEF KeepsOrder

\* What has not been sent, or never will be, has no place in the order.
LEMMA ConnectKeepsOrder ==
    ASSUME TypeOK, WriterConnects
    PROVE  KeepsOrder(backlog, handlers, epoch, backlog', handlers', epoch')
<1>1. /\ Len(backlog) \in Nat /\ DOMAIN backlog = 1..Len(backlog)
      /\ DOMAIN backlog' = 1..(Len(backlog) + 1)
      /\ \A i \in 1..Len(backlog) : backlog'[i] = backlog[i]
      /\ backlog'[Len(backlog) + 1] = None
      /\ UNCHANGED <<handlers, epoch>>
  BY AppendProperties, LenProperties DEF WriterConnects, TypeOK, Sent
<1> QED
  BY <1>1, ValueAssumption DEF KeepsOrder, QueuesInOrder, Ahead, NotNewer

LEMMA EofKeepsOrder ==
    ASSUME TypeOK, Fill(Eof), UNCHANGED epoch
    PROVE  KeepsOrder(backlog, handlers, epoch, backlog', handlers', epoch')
<1>1. Eof \in Sent /\ Eof # None
  BY ValueAssumption DEF Sent
<1>2. /\ DOMAIN backlog' = DOMAIN backlog /\ DOMAIN handlers' = DOMAIN handlers
      /\ \A i \in DOMAIN backlog : backlog'[i] = backlog[i] \/ backlog'[i] = Eof
      /\ \A k \in DOMAIN handlers : \/ handlers'[k].data = handlers[k].data
                                    \/ handlers'[k].data = Eof
  BY <1>1, FillCloses
<1> QED
  BY <1>2, ValueAssumption DEF KeepsOrder, QueuesInOrder, Ahead, NotNewer

\* The output is sent on the newest connection.
LEMMA SendKeepsOrder ==
    ASSUME TypeOK, OpenIsNewest, WriterSends,
           QueuesInOrder(backlog, handlers, epoch)
    PROVE  /\ QueuesInOrder(backlog', handlers', epoch')
           /\ \A v \in Sent : Ahead(v, backlog, handlers, epoch)
                                 => Ahead(v, backlog', handlers', epoch')
<1>1. epoch \in Sent /\ epoch # None /\ epoch \in Nat
  BY ValueAssumption DEF Sent, TypeOK
<1>2. /\ DOMAIN backlog = 1..Len(backlog) /\ Len(backlog) \in Nat
      /\ DOMAIN handlers = 1..Len(handlers) /\ Len(handlers) \in Nat
  BY LenProperties DEF TypeOK
<1>3. Len(backlog) \in Nat /\ Len(handlers) \in Nat
  BY <1>2
<1>4. /\ DOMAIN backlog' = 1..Len(backlog) /\ DOMAIN handlers' = 1..Len(handlers)
      /\ \A i \in 1..Len(backlog) :
            backlog'[i] = IF backlog[i] = None THEN epoch ELSE backlog[i]
      /\ \A k \in 1..Len(handlers) :
            handlers'[k].data = IF handlers[k].data = None
                                THEN epoch ELSE handlers[k].data
      /\ UNCHANGED epoch
  BY <1>1, <1>2, FillCloses DEF WriterSends
<1>5. /\ \A i \in 1..Len(backlog) : backlog[i] = None => i = Len(backlog)
      /\ \A k \in 1..Len(handlers) :
            handlers[k].data = None => k = Len(handlers) /\ Len(backlog) = 0
  BY <1>2, EmptySeq DEF OpenIsNewest
<1>6. QueuesInOrder(backlog', handlers', epoch')
  <2>1. ASSUME NEW i \in 1..Len(backlog)
        PROVE  NotNewer(backlog[i], epoch) /\ NotNewer(backlog'[i], epoch)
    BY <1>1, <1>2, <1>4 DEF QueuesInOrder, NotNewer
  <2>2. ASSUME NEW i \in 1..Len(backlog), NEW j \in 1..Len(backlog), i < j
        PROVE  NotNewer(backlog'[i], backlog'[j])
    <3>1. NotNewer(backlog[i], backlog[j])
      BY <1>2, <2>2 DEF QueuesInOrder
    <3>2. i # Len(backlog)
      BY <1>3, <2>2
    <3> QED
      BY <1>4, <1>5, <2>1, <3>1, <3>2
  <2>3. ASSUME NEW k \in 1..Len(handlers)
        PROVE  /\ NotNewer(handlers[k].data, epoch)
               /\ NotNewer(handlers'[k].data, epoch)
    BY <1>1, <1>2, <1>4 DEF QueuesInOrder, NotNewer
  <2>4. ASSUME NEW k \in 1..Len(handlers), NEW i \in 1..Len(backlog)
        PROVE  NotNewer(handlers'[k].data, backlog'[i])
    <3>1. NotNewer(handlers[k].data, backlog[i])
      BY <1>2 DEF QueuesInOrder
    <3>2. Len(backlog) # 0
      BY <1>2
    <3> QED
      BY <1>4, <1>5, <2>3, <3>1, <3>2
  <2>5. ASSUME NEW k \in 1..Len(handlers), NEW m \in 1..Len(handlers), k < m
        PROVE  NotNewer(handlers'[k].data, handlers'[m].data)
    <3>1. NotNewer(handlers[k].data, handlers[m].data)
      BY <1>2, <2>5 DEF QueuesInOrder
    <3>2. k # Len(handlers)
      BY <1>3, <2>5
    <3> QED
      BY <1>4, <1>5, <2>3, <3>1, <3>2
  <2> QED
    BY <1>4, <2>1, <2>2, <2>3, <2>4, <2>5 DEF QueuesInOrder
<1>7. ASSUME NEW v \in Sent, Ahead(v, backlog, handlers, epoch)
      PROVE  Ahead(v, backlog', handlers', epoch')
  BY <1>2, <1>4, <1>7 DEF Ahead
<1> QED
  BY <1>6, <1>7

\* A change of the output is newer than all that was sent.
LEMMA ChangeKeepsOrder ==
    ASSUME TypeOK, OutputChanges
    PROVE  KeepsOrder(backlog, handlers, epoch, backlog', handlers', epoch')
<1>1. epoch \in Nat /\ epoch' = epoch + 1 /\ UNCHANGED <<backlog, handlers>>
  BY DEF OutputChanges, TypeOK, socketVars
<1> QED
  BY <1>1 DEF KeepsOrder, QueuesInOrder, Ahead, NotNewer

LEMMA NoneIsAhead ==
    ASSUME NEW b, NEW h, NEW e
    PROVE  /\ Ahead(None, b, h, e)
           /\ \A x : NotNewer(None, x) /\ NotNewer(x, None)
BY ValueAssumption DEF Ahead, NotNewer

LEMMA KeepsOrderRefl ==
    ASSUME NEW b, NEW h, NEW e PROVE KeepsOrder(b, h, e, b, h, e)
BY DEF KeepsOrder

\* Steps that move no value but forget some, while the queues keep their order.
LEMMA InOrderFromQueues ==
    ASSUME TypeOK, InOrder,
           KeepsOrder(backlog, handlers, epoch, backlog', handlers', epoch'),
           target' \in {target, None}, call' \in {call, None},
           pending' \in {pending, None}
    PROVE  InOrder'
<1>1. /\ {target, call, pending, None} \subseteq Sent
  BY DEF TypeOK, Sent
<1>2. QueuesInOrder(backlog', handlers', epoch')
  BY DEF InOrder, KeepsOrder
<1>3. \A v \in {target, call, pending, None} : Ahead(v, backlog', handlers', epoch')
  BY <1>1, NoneIsAhead DEF InOrder, KeepsOrder
<1>4. /\ NotNewer(call', pending') /\ NotNewer(target', pending')
      /\ NotNewer(target', call')
  BY NoneIsAhead DEF InOrder
<1> QED
  BY <1>2, <1>3, <1>4 DEF InOrder

LEMMA InOrderGone ==
    ASSUME TypeOK, InOrder, ProcessGone, UNCHANGED <<target, epoch>>
    PROVE  InOrder'
<1>1. KeepsOrder(backlog, handlers, epoch, <<>>, <<>>, epoch)
  BY DEF KeepsOrder, QueuesInOrder, Ahead
<1> QED
  BY <1>1, InOrderFromQueues DEF ProcessGone

LEMMA InOrderNext ==
    ASSUME "overtaking" \notin Faults, TypeOK, OpenIsNewest, InOrder, [Next]_vars
    PROVE  InOrder'
<1> USE DEF modelVars, socketVars, loopVars, mailbox, publisherVars
<1>1. CASE Start
  BY <1>1, KeepsOrderRefl, InOrderFromQueues DEF Start
<1>2. CASE ConnectKuksa
  BY <1>2, KeepsOrderRefl, InOrderFromQueues DEF ConnectKuksa
<1>3. CASE ConnectKuksaAfterSignal
  BY <1>3, KeepsOrderRefl, InOrderFromQueues DEF ConnectKuksaAfterSignal
<1>4. CASE ConnectFails
  BY <1>4, InOrderGone DEF ConnectFails
<1>5. CASE Sigterm
  BY <1>5, KeepsOrderRefl, InOrderFromQueues DEF Sigterm
<1>6. CASE StopUnlinks
  BY <1>6, KeepsOrderRefl, InOrderFromQueues DEF StopUnlinks
<1>7. CASE Exit
  BY <1>7, InOrderGone DEF Exit
<1>8. CASE ListenerKilled
  BY <1>8, InOrderGone DEF ListenerKilled
<1>9. CASE Accept
  BY <1>9, AcceptKeepsOrder, InOrderFromQueues DEF Accept
<1>10. CASE AcceptTimesOut
  <2>1. KeepsOrder(backlog, handlers, epoch, backlog', handlers', epoch')
    BY <1>10, KeepsOrderRefl, DropKeepsOrder DEF AcceptTimesOut, LoopTest
  <2> QED
    BY <1>10, <2>1, InOrderFromQueues DEF AcceptTimesOut
<1>11. CASE AcceptTimeoutDropsConnection
  BY <1>11, TailKeepsOrder, DropKeepsOrder, InOrderFromQueues
     DEF AcceptTimeoutDropsConnection, LoopTest
<1>12. CASE AcceptError
  <2>1. KeepsOrder(backlog, handlers, epoch, backlog', handlers', epoch')
    BY <1>12, KeepsOrderRefl, DropKeepsOrder DEF AcceptError, LoopTest
  <2> QED
    BY <1>12, <2>1, InOrderFromQueues DEF AcceptError
<1>13. CASE SleepEnds
  <2>1. KeepsOrder(backlog, handlers, epoch, backlog', handlers', epoch')
    BY <1>13, KeepsOrderRefl, DropKeepsOrder DEF SleepEnds, LoopTest
  <2> QED
    BY <1>13, <2>1, InOrderFromQueues DEF SleepEnds
<1>14. CASE HandlerBlocks
  <2>1. PICK k \in DOMAIN handlers :
           handlers' = [handlers EXCEPT ![k].blocked = TRUE]
    BY <1>14 DEF HandlerBlocks
  <2>2. \A m \in DOMAIN handlers : handlers[m] \in Task
    BY LenProperties, ElementOfSeq DEF TypeOK
  <2>3. /\ DOMAIN handlers' = DOMAIN handlers
        /\ \A m \in DOMAIN handlers : handlers'[m].data = handlers[m].data
    BY <2>1, <2>2 DEF Task
  <2>4. KeepsOrder(backlog, handlers, epoch, backlog, handlers', epoch)
    BY <2>3 DEF KeepsOrder, QueuesInOrder, Ahead
  <2> QED
    BY <1>14, <2>4, InOrderFromQueues DEF HandlerBlocks
<1>15. CASE HandlerStores
  <2>1. /\ 1 \in DOMAIN handlers
        /\ DOMAIN handlers = 1..Len(handlers) /\ Len(handlers) \in Nat
    BY <1>15, EmptySeq, LenProperties DEF HandlerStores, TypeOK
  <2>2. /\ handlers' = RemoveAt(handlers, 1) /\ pending' = handlers[1].data
        /\ pending' \in Nat
        /\ UNCHANGED <<backlog, epoch, target, call>>
    BY <1>15 DEF HandlerStores, Receive, Store
  <2>3. KeepsOrder(backlog, handlers, epoch, backlog', handlers', epoch')
    BY <2>1, <2>2, RemoveKeepsOrder
  <2>4. QueuesInOrder(backlog', handlers', epoch')
    BY <2>3 DEF InOrder, KeepsOrder
  <2>5. /\ Ahead(target, backlog', handlers', epoch')
        /\ Ahead(call, backlog', handlers', epoch')
    BY <2>3 DEF InOrder, KeepsOrder, TypeOK, Sent
  <2>6. Ahead(pending', backlog', handlers', epoch')
    <3>1. /\ DOMAIN handlers' = 1..(Len(handlers) - 1)
          /\ \A m \in 1..(Len(handlers) - 1) : handlers'[m] = handlers[m + 1]
      BY <2>1, <2>2, RemoveAtProperties, LenProperties DEF TypeOK
    <3>2. \A m \in 1..Len(handlers) :
             1 < m => NotNewer(handlers[1].data, handlers[m].data)
      BY <2>1 DEF InOrder, QueuesInOrder
    <3>3. /\ NotNewer(handlers[1].data, epoch)
          /\ \A m \in DOMAIN backlog : NotNewer(handlers[1].data, backlog[m])
      BY <2>1 DEF InOrder, QueuesInOrder
    <3> QED
      BY <2>1, <2>2, <3>1, <3>2, <3>3 DEF Ahead
  <2>7. NotNewer(call, pending') /\ NotNewer(target, pending')
    BY <2>1, <2>2 DEF InOrder, Ahead
  <2> QED
    BY <2>2, <2>4, <2>5, <2>6, <2>7 DEF InOrder
<1>16. CASE HandlerOvertakes
  BY <1>16 DEF HandlerOvertakes, Fault
<1>17. CASE HandlerReadsEof
  BY <1>17, RemoveKeepsOrder, InOrderFromQueues DEF HandlerReadsEof
<1>18. CASE HandlerTimesOut
  BY <1>18, RemoveKeepsOrder, InOrderFromQueues DEF HandlerTimesOut
<1>19. CASE PublisherSkips
  BY <1>19, KeepsOrderRefl, InOrderFromQueues DEF PublisherSkips
<1>20. CASE PublisherCalls
  BY <1>20 DEF PublisherCalls, InOrder, NotNewer
<1>21. CASE CallSucceeds
  BY <1>21, KeepsOrderRefl, InOrderFromQueues DEF CallSucceeds, CallOver
<1>22. CASE CallFails
  BY <1>22, KeepsOrderRefl, InOrderFromQueues DEF CallFails, CallOver
<1>23. CASE PublisherEnds
  BY <1>23, KeepsOrderRefl, InOrderFromQueues DEF PublisherEnds
<1>24. CASE BrokerApplies
  BY <1>24 DEF BrokerApplies, InOrder, NotNewer
<1>25. CASE BrokerRestarts
  BY <1>25, KeepsOrderRefl, InOrderFromQueues DEF BrokerRestarts
<1>26. CASE OutputChanges
  BY <1>26, ChangeKeepsOrder, InOrderFromQueues DEF OutputChanges
<1>27. CASE WriterConnects
  BY <1>27, ConnectKeepsOrder, InOrderFromQueues DEF WriterConnects
<1>28. CASE WriterSends
  <2>1. /\ QueuesInOrder(backlog', handlers', epoch')
        /\ \A v \in {target, call, pending} : Ahead(v, backlog', handlers', epoch')
    BY <1>28, SendKeepsOrder DEF InOrder, TypeOK, Sent
  <2> QED
    BY <1>28, <2>1 DEF WriterSends, InOrder
<1>29. CASE WriterBrokenPipe
  BY <1>29, KeepsOrderRefl, InOrderFromQueues DEF WriterBrokenPipe
<1>30. CASE ModelKilled
  BY <1>30, EofKeepsOrder, InOrderFromQueues DEF ModelKilled
<1>31. CASE ModelRestarts
  BY <1>31, KeepsOrderRefl, InOrderFromQueues DEF ModelRestarts
<1>32. CASE UNCHANGED vars
  BY <1>32, KeepsOrderRefl, InOrderFromQueues DEF vars
<1> QED
  BY <1>1, <1>2, <1>3, <1>4, <1>5, <1>6, <1>7, <1>8, <1>9, <1>10, <1>11,
     <1>12, <1>13, <1>14, <1>15, <1>16, <1>17, <1>18, <1>19, <1>20, <1>21,
     <1>22, <1>23, <1>24, <1>25, <1>26, <1>27, <1>28, <1>29, <1>30, <1>31,
     <1>32
     DEF Next, Process, AcceptLoop, Handler, Publisher, Broker, Model

\* Unless the event loop lets a task overtake another, no value overtakes
\* another on the whole path from the model to the broker.
THEOREM ValuesStayInOrder ==
    ASSUME "overtaking" \notin Faults
    PROVE  Spec => []InOrder
<1> DEFINE OrderInv == TypeOK /\ OpenIsNewest /\ InOrder
<1>1. Init => OrderInv
  <2>1. Init => InOrder
    BY NoneIsAhead DEF Init, InOrder, QueuesInOrder
  <2> QED
    BY <2>1, TypeInit DEF Init, OpenIsNewest
<1>2. OrderInv /\ [Next]_vars => OrderInv'
  BY TypeNext, OpenNext, InOrderNext
<1>3. OrderInv => InOrder
  OBVIOUS
<1> HIDE DEF OrderInv
<1> QED
  BY <1>1, <1>2, <1>3, PTL DEF Spec

-----------------------------------------------------------------------------
(* The promise made of the hazard signal                                   *)

\* The three steps that the promise tells apart; all others are stutters of it.
LEMMA VisibleSteps ==
    ASSUME [Next]_vars
    PROVE  BrokerApplies \/ BrokerRestarts \/ OutputChanges \/ UNCHANGED <<epoch, target>>
<1> USE DEF modelVars
<1>1. CASE Process
  BY <1>1 DEF Process, Start, ConnectKuksa, ConnectKuksaAfterSignal,
     ConnectFails, Sigterm, StopUnlinks, Exit, ListenerKilled
<1>2. CASE AcceptLoop
  BY <1>2 DEF AcceptLoop, Accept, AcceptTimesOut,
     AcceptTimeoutDropsConnection, AcceptError, SleepEnds
<1>3. CASE Handler
  BY <1>3 DEF Handler, HandlerBlocks, HandlerStores, HandlerOvertakes,
     HandlerReadsEof, HandlerTimesOut
<1>4. CASE Publisher
  BY <1>4 DEF Publisher, PublisherSkips, PublisherCalls, CallSucceeds,
     CallFails, PublisherEnds
<1>5. CASE Model
  BY <1>5 DEF Model, OutputChanges, WriterConnects, WriterSends,
     WriterBrokenPipe, ModelKilled, ModelRestarts
<1>6. CASE Broker
  BY <1>6 DEF Broker
<1>7. CASE UNCHANGED vars
  BY <1>7 DEF vars
<1> QED
  BY <1>1, <1>2, <1>3, <1>4, <1>5, <1>6, <1>7 DEF Next

LEMMA StepImplements ==
    ASSUME PublisherInv, InOrder, [Next]_vars
    PROVE  [HS!Next]_(HS!vars)
<1>1. CASE BrokerApplies
  <2>1. target' = call /\ UNCHANGED epoch /\ call \in Nat /\ epoch \in Nat
    BY <1>1 DEF BrokerApplies, PublisherInv, CallIsLatest, TypeOK, modelVars
  <2>2. call \in 0..epoch /\ (target = None \/ target <= call)
    BY <2>1 DEF InOrder, Ahead, NotNewer, PublisherInv, TypeOK
  <2>3. CASE target = call
    BY <2>1, <2>3 DEF HS!vars
  <2>4. CASE target # call
    <3>1. target = None \/ target < call
      BY <2>1, <2>2, <2>4 DEF PublisherInv, TypeOK
    <3> QED
      BY <2>1, <2>2, <3>1 DEF HS!Next, HS!Publish
  <2> QED
    BY <2>3, <2>4
<1>2. CASE BrokerRestarts
  BY <1>2 DEF BrokerRestarts, HS!Next, HS!Lose, modelVars
<1>3. CASE OutputChanges
  BY <1>3 DEF OutputChanges, HS!Next, HS!OutputChanges
<1>4. CASE UNCHANGED <<epoch, target>>
  BY <1>4 DEF HS!vars
<1> QED
  BY <1>1, <1>2, <1>3, <1>4, VisibleSteps

\* The listener implements the promise made of the hazard signal: the broker
\* shows outputs of the model only, and never an older one after a newer one.
THEOREM ListenerImplementsHazardSignal ==
    ASSUME "overtaking" \notin Faults
    PROVE  Spec => ImplementsHazardSignal
<1> DEFINE Inv == PublisherInv /\ OpenIsNewest /\ InOrder
<1>1. Init => Inv
  <2>1. Init => InOrder /\ OpenIsNewest
    BY NoneIsAhead DEF Init, InOrder, QueuesInOrder, OpenIsNewest
  <2>2. Init => PublisherInv
    BY TypeInit DEF Init, PublisherInv, FreshProcess, ReceivedFirst,
                    CallIsLatest, NoLostWakeup
  <2> QED
    BY <2>1, <2>2
<1>2. Inv /\ [Next]_vars => Inv'
  BY PublisherInvNext, OpenNext, InOrderNext DEF PublisherInv
<1>3. Init => HS!Init
  BY DEF Init, HS!Init
<1>4. Inv /\ [Next]_vars => [HS!Next]_(HS!vars)
  BY StepImplements
<1> HIDE DEF Inv
<1> QED
  BY <1>1, <1>2, <1>3, <1>4, PTL DEF Spec, ImplementsHazardSignal, HS!Spec

-----------------------------------------------------------------------------
(* The publisher's memory and the broker                                   *)

\* CacheCoherent made inductive: what a call in progress will change, and
\* what one that was applied has changed.
CoherentInv ==
    /\ PublisherInv
    /\ CacheCoherent
    /\ publisher = "calling" => ~SameSignal(call, last)
    /\ publisher = "applied" => target = call

LEMMA CoherentNext ==
    ASSUME "lostReply" \notin Faults, "brokerRestart" \notin Faults,
           CoherentInv, [Next]_vars
    PROVE  CoherentInv'
<1>0. PublisherInv'
  BY PublisherInvNext DEF CoherentInv
<1> USE <1>0, ValueAssumption
    DEF CoherentInv, CacheCoherent, modelVars, socketVars, loopVars, mailbox,
        publisherVars
<1>1. CASE Start
  BY <1>1 DEF Start
<1>2. CASE ConnectKuksa
  BY <1>2 DEF ConnectKuksa, PublisherInv, FreshProcess
<1>3. CASE ConnectKuksaAfterSignal
  BY <1>3 DEF ConnectKuksaAfterSignal
<1>4. CASE ConnectFails
  BY <1>4 DEF ConnectFails, ProcessGone
<1>5. CASE Sigterm
  BY <1>5 DEF Sigterm
<1>6. CASE StopUnlinks
  BY <1>6 DEF StopUnlinks
<1>7. CASE Exit
  BY <1>7 DEF Exit, ProcessGone
<1>8. CASE ListenerKilled
  BY <1>8 DEF ListenerKilled, ProcessGone
<1>9. CASE Accept
  BY <1>9 DEF Accept
<1>10. CASE AcceptTimesOut
  BY <1>10 DEF AcceptTimesOut
<1>11. CASE AcceptTimeoutDropsConnection
  BY <1>11 DEF AcceptTimeoutDropsConnection
<1>12. CASE AcceptError
  BY <1>12 DEF AcceptError
<1>13. CASE SleepEnds
  BY <1>13 DEF SleepEnds
<1>14. CASE HandlerBlocks
  BY <1>14 DEF HandlerBlocks
<1>15. CASE HandlerStores
  BY <1>15 DEF HandlerStores
<1>16. CASE HandlerOvertakes
  BY <1>16 DEF HandlerOvertakes
<1>17. CASE HandlerReadsEof
  BY <1>17 DEF HandlerReadsEof
<1>18. CASE HandlerTimesOut
  BY <1>18 DEF HandlerTimesOut
<1>19. CASE PublisherSkips
  BY <1>19 DEF PublisherSkips
<1>20. CASE PublisherCalls
  BY <1>20 DEF PublisherCalls, NoRealChange
<1>21. CASE CallSucceeds
  BY <1>21 DEF CallSucceeds, CallOver, RecordPublished, SameSignal
<1>22. CASE CallFails
  BY <1>22 DEF CallFails, CallOver, Fault
<1>23. CASE PublisherEnds
  BY <1>23 DEF PublisherEnds
<1>24. CASE BrokerApplies
  BY <1>24 DEF BrokerApplies
<1>25. CASE BrokerRestarts
  BY <1>25 DEF BrokerRestarts, Fault
<1>26. CASE OutputChanges
  BY <1>26 DEF OutputChanges
<1>27. CASE WriterConnects
  BY <1>27 DEF WriterConnects
<1>28. CASE WriterSends
  BY <1>28 DEF WriterSends
<1>29. CASE WriterBrokenPipe
  BY <1>29 DEF WriterBrokenPipe
<1>30. CASE ModelKilled
  BY <1>30 DEF ModelKilled
<1>31. CASE ModelRestarts
  BY <1>31 DEF ModelRestarts
<1>32. CASE UNCHANGED vars
  BY <1>32 DEF vars
<1> QED
  BY <1>1, <1>2, <1>3, <1>4, <1>5, <1>6, <1>7, <1>8, <1>9, <1>10, <1>11,
     <1>12, <1>13, <1>14, <1>15, <1>16, <1>17, <1>18, <1>19, <1>20, <1>21,
     <1>22, <1>23, <1>24, <1>25, <1>26, <1>27, <1>28, <1>29, <1>30, <1>31,
     <1>32
     DEF Next, Process, AcceptLoop, Handler, Publisher, Broker, Model

LEMMA CoherentInit == Init => CoherentInv
BY TypeInit DEF Init, CoherentInv, CacheCoherent, PublisherInv, FreshProcess,
                ReceivedFirst, CallIsLatest, NoLostWakeup

\* While replies arrive and the broker runs, the publisher's memory is right.
THEOREM CacheIsCoherent ==
    ASSUME "lostReply" \notin Faults, "brokerRestart" \notin Faults
    PROVE  Spec => []CacheCoherent
<1>1. CoherentInv /\ [Next]_vars => CoherentInv'
  BY CoherentNext
<1>2. CoherentInv => CacheCoherent
  BY DEF CoherentInv
<1> QED
  BY CoherentInit, <1>1, <1>2, PTL DEF Spec

\* A publisher at rest, whose last call did not raise, leaves the broker with
\* the signal of the latest value received: it neither sleeps on work nor is
\* mistaken about what it has done.  This is the safety half of FollowsModel.
RestingBrokerIsCurrent ==
    publisher = "waiting" /\ ~valueChanged /\ ~shutdown /\ ~failed /\ pending # None
        => SameSignal(target, pending)

\* While replies arrive and the broker runs, what was received is shown as soon
\* as the publisher rests.
THEOREM ReceivedIsShown ==
    ASSUME "lostReply" \notin Faults, "brokerRestart" \notin Faults
    PROVE  Spec => []RestingBrokerIsCurrent
<1>1. CoherentInv => RestingBrokerIsCurrent
  <2> SUFFICES ASSUME CoherentInv, publisher = "waiting", ~valueChanged, ~shutdown,
                      ~failed, pending # None
               PROVE  SameSignal(target, pending)
    BY DEF RestingBrokerIsCurrent
  <2>1. SameSignal(pending, last)
    BY DEF CoherentInv, PublisherInv, NoLostWakeup
  <2>2. last # None
    BY <2>1, ValueAssumption DEF SameSignal
  <2>3. SameSignal(target, last)
    BY <2>2 DEF CoherentInv, CacheCoherent
  <2> QED
    BY <2>1, <2>3 DEF SameSignal
<1>2. CoherentInv /\ [Next]_vars => CoherentInv'
  BY CoherentNext
<1> QED
  BY CoherentInit, <1>1, <1>2, PTL DEF Spec

\* While replies arrive and the broker runs, no call that is served, not even one
\* of the same value, finds its signal already shown.
THEOREM CallsAreActualChanges ==
    ASSUME "lostReply" \notin Faults, "brokerRestart" \notin Faults
    PROVE  Spec => OnlyActualChanges
<1>1. CoherentInv /\ [Next]_vars => CoherentInv'
  BY CoherentNext
<1>2. ASSUME CoherentInv, BrokerApplies, last # None
      PROVE  ~SameSignal(target, call)
  <2>1. SameSignal(target, last) /\ ~SameSignal(call, last)
    BY <1>2 DEF CoherentInv, CacheCoherent, BrokerApplies
  <2> QED
    BY <2>1 DEF SameSignal
<1>3. CoherentInv /\ [Next]_vars
        => [BrokerApplies /\ last # None => ~SameSignal(target, call)]_vars
  BY <1>2
<1> QED
  BY CoherentInit, <1>1, <1>3, PTL DEF Spec, OnlyActualChanges

-----------------------------------------------------------------------------
(* What the broker may show under every fault                              *)

\* No value on its way, received, published, remembered or shown is one that
\* the model has not output yet: values may be lost or overtaken, not made up.
NothingInvented ==
    /\ \A i \in DOMAIN backlog : NotNewer(backlog[i], epoch)
    /\ \A k \in DOMAIN handlers : NotNewer(handlers[k].data, epoch)
    /\ \A v \in {target, call, pending, last} : NotNewer(v, epoch)

\* Where the values of a sequence come from, for each change of the queues.
LEMMA RemoveInvents ==
    ASSUME TypeOK, NEW k \in DOMAIN handlers,
           \A m \in DOMAIN handlers : NotNewer(handlers[m].data, epoch)
    PROVE  \A m \in DOMAIN RemoveAt(handlers, k) :
              NotNewer(RemoveAt(handlers, k)[m].data, epoch)
<1>1. /\ Len(handlers) \in Nat /\ k \in 1..Len(handlers)
      /\ DOMAIN handlers = 1..Len(handlers)
  BY LenProperties DEF TypeOK
<1>2. /\ DOMAIN RemoveAt(handlers, k) = 1..(Len(handlers) - 1)
      /\ \A i \in 1..(Len(handlers) - 1) :
            RemoveAt(handlers, k)[i] = IF i < k THEN handlers[i]
                                                ELSE handlers[i + 1]
  BY <1>1, RemoveAtProperties, RemoveType, LenProperties DEF TypeOK
<1>3. ASSUME NEW m \in DOMAIN RemoveAt(handlers, k)
      PROVE  \E i \in DOMAIN handlers : RemoveAt(handlers, k)[m] = handlers[i]
  <2>1. m \in 1..(Len(handlers) - 1)
    BY <1>2
  <2>2. CASE m < k
    BY <1>1, <1>2, <2>1, <2>2
  <2>3. CASE ~(m < k)
    BY <1>1, <1>2, <2>1, <2>3
  <2> QED
    BY <2>2, <2>3
<1> QED
  BY <1>3

LEMMA TailInvents ==
    ASSUME TypeOK, backlog # <<>>,
           \A i \in DOMAIN backlog : NotNewer(backlog[i], epoch)
    PROVE  /\ \A i \in DOMAIN Tail(backlog) : NotNewer(Tail(backlog)[i], epoch)
           /\ NotNewer(Head(backlog), epoch)
<1>1. /\ Len(backlog) \in Nat \ {0} /\ DOMAIN backlog = 1..Len(backlog)
      /\ Head(backlog) = backlog[1]
      /\ DOMAIN Tail(backlog) = 1..(Len(backlog) - 1)
      /\ \A i \in 1..(Len(backlog) - 1) : Tail(backlog)[i] = backlog[i + 1]
  BY HeadTailProperties, LenProperties, EmptySeq DEF TypeOK
<1> QED
  BY <1>1

LEMMA FillInvents ==
    ASSUME TypeOK, NothingInvented, NEW v \in Sent, v # None, Fill(v),
           NotNewer(v, epoch)
    PROVE  /\ \A i \in DOMAIN backlog' : NotNewer(backlog'[i], epoch)
           /\ \A k \in DOMAIN handlers' : NotNewer(handlers'[k].data, epoch)
<1>1. /\ DOMAIN backlog' = DOMAIN backlog /\ DOMAIN handlers' = DOMAIN handlers
      /\ \A i \in DOMAIN backlog : backlog'[i] = v \/ backlog'[i] = backlog[i]
      /\ \A k \in DOMAIN handlers : \/ handlers'[k].data = v
                                    \/ handlers'[k].data = handlers[k].data
  BY FillCloses
<1> QED
  BY <1>1 DEF NothingInvented

LEMMA InventedNext ==
    ASSUME TypeOK, NothingInvented, [Next]_vars
    PROVE  NothingInvented'
<1>0. NotNewer(None, epoch) /\ NotNewer(Eof, epoch)
  BY ValueAssumption DEF NotNewer
<1> USE DEF modelVars, socketVars, loopVars, mailbox, publisherVars
<1>1. CASE Process
  BY <1>0, <1>1 DEF Process, NothingInvented, Start, ConnectKuksa,
     ConnectKuksaAfterSignal, ConnectFails, Sigterm, StopUnlinks, Exit,
     ListenerKilled, ProcessGone
<1>2. CASE Accept
  <2>1. /\ \A i \in DOMAIN Tail(backlog) : NotNewer(Tail(backlog)[i], epoch)
        /\ NotNewer(Head(backlog), epoch)
    BY <1>2, TailInvents DEF Accept, NothingInvented
  <2>2. [data |-> Head(backlog), blocked |-> FALSE] \in Task
    BY <1>2, HeadTailProperties DEF Accept, TypeOK, Task
  <2>3. /\ DOMAIN handlers = 1..Len(handlers) /\ Len(handlers) \in Nat
        /\ DOMAIN handlers' = 1..(Len(handlers) + 1)
        /\ \A k \in 1..Len(handlers) : handlers'[k] = handlers[k]
        /\ handlers'[Len(handlers) + 1].data = Head(backlog)
    BY <1>2, <2>2, AppendProperties, LenProperties DEF TypeOK, Accept
  <2>4. \A k \in DOMAIN handlers' : NotNewer(handlers'[k].data, epoch)
    BY <2>1, <2>3 DEF NothingInvented
  <2>5. \A i \in DOMAIN backlog' : NotNewer(backlog'[i], epoch)
    BY <1>2, <2>1 DEF Accept, LoopTest
  <2> QED
    BY <1>2, <2>4, <2>5 DEF Accept, NothingInvented
<1>3. CASE AcceptTimesOut \/ AcceptError \/ SleepEnds
  BY <1>3 DEF AcceptTimesOut, AcceptError, SleepEnds, LoopTest, NothingInvented
<1>4. CASE AcceptTimeoutDropsConnection
  <2>1. \A i \in DOMAIN Tail(backlog) : NotNewer(Tail(backlog)[i], epoch)
    BY <1>4, TailInvents DEF AcceptTimeoutDropsConnection, NothingInvented
  <2> QED
    BY <1>4, <2>1 DEF AcceptTimeoutDropsConnection, LoopTest, NothingInvented
<1>5. CASE HandlerBlocks
  <2>1. PICK k \in DOMAIN handlers :
           handlers' = [handlers EXCEPT ![k].blocked = TRUE]
    BY <1>5 DEF HandlerBlocks
  <2>2. \A m \in DOMAIN handlers : handlers[m] \in Task
    BY LenProperties, ElementOfSeq DEF TypeOK
  <2>3. /\ DOMAIN handlers' = DOMAIN handlers
        /\ \A m \in DOMAIN handlers : handlers'[m].data = handlers[m].data
    BY <2>1, <2>2 DEF Task
  <2> QED
    BY <1>5, <2>3 DEF HandlerBlocks, NothingInvented
<1>6. CASE HandlerStores \/ HandlerOvertakes
  <2>1. PICK k \in DOMAIN handlers : Receive(k)
    BY <1>6, EmptySeq, LenProperties DEF HandlerStores, HandlerOvertakes, TypeOK
  <2>2. \A m \in DOMAIN handlers' : NotNewer(handlers'[m].data, epoch)
    BY <2>1, RemoveInvents DEF Receive, NothingInvented
  <2>3. UNCHANGED <<epoch, backlog, target, call, last>>
    BY <1>6 DEF HandlerStores, HandlerOvertakes
  <2> QED
    BY <2>1, <2>2, <2>3 DEF Receive, Store, NothingInvented
<1>7. CASE HandlerReadsEof \/ HandlerTimesOut
  <2>1. PICK k \in DOMAIN handlers : handlers' = RemoveAt(handlers, k)
    BY <1>7 DEF HandlerReadsEof, HandlerTimesOut
  <2>2. \A m \in DOMAIN handlers' : NotNewer(handlers'[m].data, epoch)
    BY <2>1, RemoveInvents DEF NothingInvented
  <2> QED
    BY <1>7, <2>2 DEF HandlerReadsEof, HandlerTimesOut, NothingInvented
<1>8. CASE Publisher \/ Broker
  BY <1>0, <1>8 DEF Publisher, Broker, PublisherSkips, PublisherCalls,
     CallSucceeds, CallFails, CallOver, RecordPublished, PublisherEnds,
     BrokerApplies, BrokerRestarts, NothingInvented
<1>9. CASE OutputChanges
  BY <1>9 DEF OutputChanges, NothingInvented, NotNewer, TypeOK
<1>10. CASE WriterConnects
  <2>1. /\ Len(backlog) \in Nat /\ DOMAIN backlog = 1..Len(backlog)
        /\ DOMAIN backlog' = 1..(Len(backlog) + 1)
        /\ \A i \in 1..Len(backlog) : backlog'[i] = backlog[i]
        /\ backlog'[Len(backlog) + 1] = None
    BY <1>10, AppendProperties, LenProperties DEF WriterConnects, TypeOK, Sent
  <2>2. \A i \in DOMAIN backlog' : NotNewer(backlog'[i], epoch)
    BY <1>0, <2>1 DEF NothingInvented
  <2> QED
    BY <1>10, <2>2 DEF WriterConnects, NothingInvented
<1>11. CASE WriterSends
  <2>1. epoch \in Sent /\ epoch # None /\ NotNewer(epoch, epoch)
    BY ValueAssumption DEF Sent, TypeOK, NotNewer
  <2> QED
    BY <1>11, <2>1, FillInvents DEF WriterSends, NothingInvented
<1>12. CASE ModelKilled
  <2>1. Eof \in Sent /\ Eof # None
    BY ValueAssumption DEF Sent
  <2> QED
    BY <1>0, <1>12, <2>1, FillInvents DEF ModelKilled, NothingInvented
<1>13. CASE WriterBrokenPipe \/ ModelRestarts \/ UNCHANGED vars
  BY <1>13 DEF WriterBrokenPipe, ModelRestarts, vars, NothingInvented
<1> QED
  BY <1>1, <1>2, <1>3, <1>4, <1>5, <1>6, <1>7, <1>8, <1>9, <1>10, <1>11,
     <1>12, <1>13 DEF Next, AcceptLoop, Handler, Model

\* Whatever fails, dies or overtakes, the broker shows nothing the model has
\* not output: the part of HazardSignal that needs no assumption on faults.
THEOREM OnlyOutputsAreShown == Spec => []NothingInvented
<1>1. Init => NothingInvented
  BY ValueAssumption DEF Init, NothingInvented, NotNewer
<1> QED
  BY <1>1, TypeInit, TypeNext, InventedNext, PTL DEF Spec

-----------------------------------------------------------------------------
(* Why a shutdown comes to its end                                         *)

\* What start() and the publisher have still to do before the process is gone.
LoopDistance == IF phase \in {"connecting", "accepting", "sleeping"} THEN 2
                ELSE IF phase = "closing" THEN 1 ELSE 0
TaskDistance == IF publisher \in {"waiting", "calling", "applied"} THEN 1 ELSE 0
Distance == LoopDistance + TaskDistance

\* The steps that bring a shutdown forward; all are fair.
Ending == ConnectKuksaAfterSignal \/ AcceptTimesOut \/ SleepEnds
          \/ PublisherEnds \/ Exit

\* During a shutdown no step of anybody, an accept, a fault or an answer of the
\* broker, takes the process back, and each step of Ending takes it forward.
ShutdownAdvances ==
    [][shutdown => Distance' < Distance \/ (Distance' = Distance /\ ~Ending)]_vars

\* The guards of the steps of Ending in a shutdown: one of them holds.
EndingIsDue ==
    shutdown => \/ phase \in {"connecting", "accepting", "sleeping"}
                \/ publisher \in {"waiting", "calling", "applied"}
                \/ phase = "closing" /\ publisher = "done"

\* The publisher task exists from connect_kuksa on, and a process without it
\* or a signal's event without a process there is not.
Life ==
    /\ TypeOK
    /\ shutdown => phase # "down"
    /\ publisher = "none" <=> phase \in {"down", "connecting"}

LEMMA LifeNext == Life /\ [Next]_vars => Life'
<1> SUFFICES ASSUME Life, [Next]_vars
             PROVE  /\ shutdown' => phase' # "down"
                    /\ publisher' = "none" <=> phase' \in {"down", "connecting"}
  BY TypeNext DEF Life
<1> USE DEF Life, TypeOK, modelVars, socketVars, loopVars, publisherVars
<1>1. CASE Process
  BY <1>1 DEF Process, Start, ConnectKuksa, ConnectKuksaAfterSignal,
     ConnectFails, Sigterm, StopUnlinks, Exit, ListenerKilled, ProcessGone
<1>2. CASE AcceptLoop
  BY <1>2 DEF AcceptLoop, Accept, AcceptTimesOut, AcceptTimeoutDropsConnection,
     AcceptError, SleepEnds, LoopTest
<1>3. CASE Handler
  BY <1>3 DEF Handler, HandlerBlocks, HandlerStores, HandlerOvertakes,
     HandlerReadsEof, HandlerTimesOut
<1>4. CASE Publisher
  BY <1>4 DEF Publisher, PublisherSkips, PublisherCalls, CallSucceeds,
     CallFails, CallOver, PublisherEnds
<1>5. CASE Broker
  BY <1>5 DEF Broker, BrokerApplies, BrokerRestarts
<1>6. CASE Model
  BY <1>6 DEF Model, OutputChanges, WriterConnects, WriterSends,
     WriterBrokenPipe, ModelKilled, ModelRestarts
<1>7. CASE UNCHANGED vars
  BY <1>7 DEF vars
<1> QED
  BY <1>1, <1>2, <1>3, <1>4, <1>5, <1>6, <1>7 DEF Next

LEMMA ShutdownStep ==
    ASSUME Life, shutdown, [Next]_vars
    PROVE  /\ LoopDistance' <= LoopDistance /\ TaskDistance' <= TaskDistance
           /\ Ending => \/ LoopDistance' < LoopDistance
                        \/ TaskDistance' < TaskDistance
<1>p. /\ phase \in {"down", "connecting", "accepting", "sleeping", "closing"}
      /\ phase # "down"
      /\ publisher \in {"none", "waiting", "calling", "applied", "done"}
      /\ publisher = "none" <=> phase \in {"down", "connecting"}
  BY DEF Life, TypeOK
<1> USE <1>p DEF LoopDistance, TaskDistance, modelVars, socketVars, loopVars,
                 publisherVars
<1>1. CASE Ending
  <2>1. CASE ConnectKuksaAfterSignal
    BY <2>1 DEF ConnectKuksaAfterSignal
  <2>2. CASE AcceptTimesOut \/ SleepEnds
    <3>1. phase \in {"accepting", "sleeping"} /\ UNCHANGED publisher
      BY <2>2 DEF AcceptTimesOut, SleepEnds
    <3>2. phase' = "closing"
      BY <2>2 DEF AcceptTimesOut, SleepEnds, LoopTest
    <3> QED
      BY <3>1, <3>2
  <2>3. CASE PublisherEnds
    BY <2>3 DEF PublisherEnds
  <2>4. CASE Exit
    BY <2>4 DEF Exit, ProcessGone
  <2> QED
    BY <1>1, <2>1, <2>2, <2>3, <2>4 DEF Ending
<1>2. CASE Process /\ ~Ending
  <2>1. CASE ConnectFails \/ ListenerKilled
    BY <1>2, <2>1 DEF ConnectFails, ListenerKilled, ProcessGone
  <2>2. CASE StopUnlinks
    BY <1>2, <2>2 DEF StopUnlinks
  <2> QED
    BY <1>2, <2>1, <2>2 DEF Process, Ending, Start, ConnectKuksa, Sigterm
<1>3. CASE AcceptLoop /\ ~Ending
  <2>1. phase = "accepting" /\ UNCHANGED publisher
    BY <1>3 DEF Ending, AcceptLoop, Accept, AcceptTimeoutDropsConnection,
       AcceptError
  <2>2. phase' = "closing"
    BY <1>3 DEF Ending, AcceptLoop, Accept, AcceptTimeoutDropsConnection,
       AcceptError, LoopTest
  <2> QED
    BY <1>3, <2>1, <2>2
<1>4. CASE Publisher /\ ~Ending
  <2>1. UNCHANGED phase
    BY <1>4 DEF Ending, Publisher, PublisherSkips, PublisherCalls, CallSucceeds,
       CallFails
  <2>2. publisher \in {"calling", "applied"} /\ publisher' = "done"
    BY <1>4 DEF Ending, Publisher, PublisherSkips, PublisherCalls, CallSucceeds,
       CallFails, CallOver
  <2> QED
    BY <1>4, <2>1, <2>2
<1>5. CASE BrokerApplies /\ ~Ending
  BY <1>5 DEF BrokerApplies
<1>6. CASE UNCHANGED <<phase, publisher>> /\ ~Ending
  BY <1>6
<1>7. Handler \/ BrokerRestarts \/ Model \/ UNCHANGED vars
        => UNCHANGED <<phase, publisher>>
  BY DEF Handler, HandlerBlocks, HandlerStores, HandlerOvertakes,
     HandlerReadsEof, HandlerTimesOut, BrokerRestarts, Model, OutputChanges,
     WriterConnects, WriterSends, WriterBrokenPipe, ModelKilled, ModelRestarts,
     vars
<1> QED
  <2> HIDE <1>p DEF LoopDistance, TaskDistance
  <2> QED
    BY <1>1, <1>2, <1>3, <1>4, <1>5, <1>6, <1>7 DEF Next, Broker

\* After a signal the process of hazard_listener.py is gone within three steps
\* of Ending, whatever happens in between: none is undone, and one is due.
THEOREM ShutdownOnlyAdvances == Spec => ShutdownAdvances /\ []EndingIsDue
<1>1. Init => Life
  BY TypeInit DEF Init, Life
<1>2. Life => EndingIsDue
  BY DEF Life, TypeOK, EndingIsDue
<1>3. Life /\ [Next]_vars
        => [shutdown => \/ Distance' < Distance
                        \/ Distance' = Distance /\ ~Ending]_vars
  <2>1. ASSUME Life, [Next]_vars, shutdown
        PROVE  Distance' < Distance \/ (Distance' = Distance /\ ~Ending)
    <3>1. /\ LoopDistance' <= LoopDistance /\ TaskDistance' <= TaskDistance
          /\ Ending => \/ LoopDistance' < LoopDistance
                       \/ TaskDistance' < TaskDistance
      BY <2>1, ShutdownStep
    <3>2. /\ LoopDistance \in Nat /\ LoopDistance' \in Nat
          /\ TaskDistance \in Nat /\ TaskDistance' \in Nat
      BY DEF LoopDistance, TaskDistance
    <3>3. \A a, b, c, d \in Nat :
             c <= a /\ d <= b
                 => /\ c + d < a + b \/ c + d = a + b
                    /\ c < a \/ d < b => c + d < a + b
      OBVIOUS
    <3>4. /\ Distance' < Distance \/ Distance' = Distance
          /\ LoopDistance' < LoopDistance \/ TaskDistance' < TaskDistance
                => Distance' < Distance
      BY <3>1, <3>2, <3>3, Zenon DEF Distance
    <3> QED
      BY <3>1, <3>4
  <2> QED
    BY <2>1
<1> QED
  BY <1>1, <1>2, <1>3, LifeNext, PTL DEF Spec, ShutdownAdvances
=============================================================================

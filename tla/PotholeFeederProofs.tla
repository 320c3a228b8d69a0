------------------------- MODULE PotholeFeederProofs ------------------------
(***************************************************************************)
(* Proofs about PotholeFeeder, for every set of lanes, backlog and set of  *)
(* faults.                                                                 *)
(***************************************************************************)
EXTENDS PotholeFeeder, SequenceTheorems, TLAPS

-----------------------------------------------------------------------------
(* Types                                                                   *)

LEMMA TypeInit == Init => TypeOK
<1>1. <<>> \in Seq({"live", "gone"})
  BY EmptySeq
<1>2. Init => queue \in [Lanes -> Seq({"live", "gone"})]
  BY <1>1 DEF Init
<1> QED
  BY <1>2 DEF Init, TypeOK, Stages

LEMMA TypeNext == TypeOK /\ [Next]_vars => TypeOK'
<1> SUFFICES ASSUME TypeOK, [Next]_vars PROVE TypeOK'
  OBVIOUS
<1> USE DEF updateVars, socketVars, readerVars, resultVars
<1>1. CASE PublishView
  BY <1>1 DEF TypeOK, Stages, PublishView
<1>2. CASE UpdateBegins
  BY <1>2 DEF TypeOK, Stages, UpdateBegins, Deliverable
<1>3. CASE StoreLane
  BY <1>3 DEF TypeOK, Stages, StoreLane
<1>4. CASE UpdateEnds
  BY <1>4 DEF TypeOK, Stages, UpdateEnds
<1>5. CASE \E l \in Lanes : Accept(l)
  BY <1>5 DEF TypeOK, Stages, Accept
<1>6. CASE \E l \in Lanes : AcceptFails(l)
  BY <1>6 DEF TypeOK, Stages, AcceptFails, Fault
<1>7. CASE \E l \in Lanes : ThreadFails(l)
  BY <1>7 DEF TypeOK, Stages, ThreadFails, Fault
<1>8. CASE \E l \in Lanes : ReadBegins(l)
  BY <1>8 DEF TypeOK, Stages, ReadBegins
<1>19. CASE \E l \in Lanes : NoSocket(l)
  BY <1>19 DEF TypeOK, Stages, NoSocket, NoPothole
<1>9. CASE HandlerReads
  BY <1>9 DEF TypeOK, Stages, HandlerReads, LockFree
<1>10. CASE HandlerSends
  BY <1>10 DEF TypeOK, Stages, HandlerSends
<1>11. CASE FeederEnds
  <2>1. queue' \in [Lanes -> Seq({"live", "gone"})]
    BY <1>11, EmptySeq DEF FeederEnds
  <2> QED
    <3>1. UNCHANGED <<view, lane, carried, resultVars>> /\ faults' = faults + 1
      BY <1>11 DEF FeederEnds, Fault
    <3>2. values' \in [Lanes -> Nat] /\ stored' \subseteq Lanes /\ acceptors' \subseteq Lanes
      BY <1>11 DEF FeederEnds
    <3>3. stage' \in Stages /\ served' \in BOOLEAN /\ cursor' = 0 /\ updating' = 0
      BY <1>11 DEF TypeOK, FeederEnds, Stages
    <3> QED
      BY <2>1, <3>1, <3>2, <3>3 DEF TypeOK
<1>12. CASE FeederStarts
  BY <1>12 DEF TypeOK, Stages, FeederStarts
<1>13. CASE Connects
  BY <1>13 DEF TypeOK, Stages, Connects
<1>14. CASE ConnectFails
  BY <1>14 DEF TypeOK, Stages, ConnectFails, Returns, NoPothole
<1>15. CASE RecvReturns
  BY <1>15 DEF TypeOK, Stages, RecvReturns, Returns
<1>16. CASE RecvFindsClosed
  BY <1>16 DEF TypeOK, Stages, RecvFindsClosed, Returns, NoPothole
<1>17. CASE RecvTimesOut
  <2>1. \A q \in Seq({"live", "gone"}) :
           ReplaceAll(q, "live", "gone") \in Seq({"live", "gone"})
    BY DEF ReplaceAll
  <2>2. queue' \in [Lanes -> Seq({"live", "gone"})]
    BY <1>17, <2>1 DEF TypeOK, RecvTimesOut, GiveUp
  <2> QED
    BY <1>17, <2>2 DEF TypeOK, Stages, RecvTimesOut, Returns, NoPothole
<1>18. CASE UNCHANGED vars
  BY <1>18 DEF TypeOK, vars
<1> QED
  BY <1>1, <1>2, <1>3, <1>4, <1>5, <1>6, <1>7, <1>8, <1>9, <1>10, <1>11,
     <1>12, <1>13, <1>14, <1>15, <1>16, <1>17, <1>18, <1>19
     DEF Next, Subscriber, Acceptor, Handler, Process, Reader

\* The types of the pothole path's state.
THEOREM FeederTypeCorrect == Spec => []TypeOK
BY TypeInit, TypeNext, PTL DEF Spec

-----------------------------------------------------------------------------
(* One live connection                                                     *)

LEMMA LiveNext == TypeOK /\ OneLiveConnection /\ [Next]_vars => OneLiveConnection'
<1> SUFFICES ASSUME TypeOK, OneLiveConnection, [Next]_vars,
                    NEW l \in Lanes, NEW i \in DOMAIN queue'[l],
                    queue'[l][i] = "live"
             PROVE  stage' = "queued" /\ l = lane' /\ i = Len(queue'[l])
  BY DEF OneLiveConnection
<1> USE DEF updateVars, socketVars, readerVars, resultVars
<1>t. /\ queue \in [Lanes -> Seq({"live", "gone"})] /\ lane \in Lanes
      /\ queue[l] \in Seq({"live", "gone"})
  BY DEF TypeOK
<1>o. \A j \in DOMAIN queue[l] :
         queue[l][j] = "live" => stage = "queued" /\ l = lane /\ j = Len(queue[l])
  BY DEF OneLiveConnection
<1>1. CASE UNCHANGED <<queue, stage, lane>>
  BY <1>1, <1>o
<1>2. CASE UNCHANGED queue /\ stage # "queued"
  BY <1>2, <1>o
<1>3. CASE \E m \in Lanes : Accept(m) \/ ThreadFails(m)
  <2> PICK m \in Lanes : Accept(m) \/ ThreadFails(m)
    BY <1>3
  <2>1. /\ queue[m] # <<>> /\ queue' = [queue EXCEPT ![m] = Tail(@)]
        /\ UNCHANGED lane /\ (Head(queue[m]) # "live" => UNCHANGED stage)
    BY DEF Accept, ThreadFails
  <2>2. queue[m] \in Seq({"live", "gone"}) /\ Len(queue[m]) \in Nat \ {0}
    BY <1>t, <2>1, EmptySeq
  <2>3. Head(queue[m]) = "live" => m = lane /\ Len(queue[m]) = 1
    <3>1. 1 \in DOMAIN queue[m] /\ Head(queue[m]) = queue[m][1]
      BY <2>2
    <3>2. queue[m][1] = "live" => m = lane /\ 1 = Len(queue[m])
      BY <3>1 DEF OneLiveConnection
    <3> QED
      BY <3>1, <3>2
  <2>4. CASE l # m
    <3>1. queue'[l] = queue[l]
      BY <1>t, <2>1, <2>4
    <3>2. l = lane /\ stage = "queued"
      BY <1>o, <3>1
    <3>3. Head(queue[m]) # "live"
      BY <2>3, <2>4, <3>2
    <3> QED
      BY <1>o, <2>1, <3>1, <3>3
  <2>5. CASE l = m
    <3>1. /\ queue'[l] = Tail(queue[l]) /\ Len(queue'[l]) = Len(queue[l]) - 1
          /\ i \in 1..(Len(queue[l]) - 1) /\ queue'[l][i] = queue[l][i + 1]
      BY <1>t, <2>1, <2>2, <2>5
    <3>2. i + 1 \in DOMAIN queue[l] /\ queue[l][i + 1] = "live"
      BY <1>t, <2>2, <2>5, <3>1
    <3>3. stage = "queued" /\ l = lane /\ i + 1 = Len(queue[l])
      BY <1>o, <3>2
    <3>4. Head(queue[m]) # "live"
      BY <2>3, <2>5, <3>1
    <3> QED
      BY <2>1, <2>2, <2>5, <3>1, <3>3, <3>4
  <2> QED
    BY <2>4, <2>5
<1>4. CASE FeederEnds
  BY <1>4 DEF FeederEnds
<1>5. CASE Connects
  <2>1. /\ stage = "connecting" /\ stage' = "queued" /\ UNCHANGED lane
        /\ queue' = [queue EXCEPT ![lane] = Append(@, "live")]
    BY <1>5 DEF Connects
  <2>2. CASE l # lane
    BY <1>o, <1>t, <2>1, <2>2
  <2>3. CASE l = lane
    <3>1. /\ queue'[l] = Append(queue[l], "live") /\ Len(queue[l]) \in Nat
          /\ Len(queue'[l]) = Len(queue[l]) + 1 /\ i \in 1..(Len(queue[l]) + 1)
      BY <1>t, <2>1, <2>3
    <3>2. i # Len(queue[l]) + 1 => i \in DOMAIN queue[l] /\ queue[l][i] = "live"
      BY <1>t, <3>1
    <3> QED
      BY <1>o, <2>1, <2>3, <3>1, <3>2
  <2> QED
    BY <2>2, <2>3
<1>6. CASE RecvTimesOut
  <2>1. queue' = [queue EXCEPT ![lane] = ReplaceAll(@, "live", "gone")]
    BY <1>6 DEF RecvTimesOut, GiveUp
  <2>2. CASE l = lane
    BY <1>t, <2>1, <2>2 DEF ReplaceAll
  <2>3. CASE l # lane
    BY <1>o, <1>t, <2>1, <2>3
  <2> QED
    BY <2>2, <2>3
<1> QED
  BY <1>1, <1>2, <1>3, <1>4, <1>5, <1>6
     DEF Next, Subscriber, Acceptor, Handler, Process, Reader, PublishView,
         UpdateBegins, StoreLane, UpdateEnds, AcceptFails, HandlerReads,
         HandlerSends, FeederStarts, ReadBegins, NoSocket, ConnectFails,
         RecvReturns, RecvFindsClosed, Returns, vars

\* For every length of the backlog: the threads of a lane waste their work on
\* connections given up, and on those alone, before they come to the one that
\* the model waits for.
THEOREM OneConnectionIsLive == Spec => []OneLiveConnection
<1>1. Init => OneLiveConnection
  BY DEF Init, OneLiveConnection
<1> QED
  BY <1>1, TypeInit, TypeNext, LiveNext, PTL DEF Spec

-----------------------------------------------------------------------------
(* Readings never go back in time                                          *)

\* While no update holds the lock, all lanes hold the view delivered last;
\* while one does, those it has stored hold its view.
ValuesOK ==
    /\ cursor <= view
    /\ updating \in {0, cursor}
    /\ updating = 0 => values = [l \in Lanes |-> cursor]
    /\ \A l \in stored : updating # 0 => values[l] = updating

\* What the model has read is not newer than what it can read next: in the
\* feeder, unless that is a fresh instance, and on its way to the model.
SeenOK ==
    /\ seen <= view
    /\ cursor # 0 => seen <= cursor
    /\ stage \in {"read", "sent"}
           => /\ carried = 0 \/ carried \in seen..view
              /\ cursor # 0 => carried <= cursor

ReadInv == TypeOK /\ ValuesOK /\ SeenOK

LEMMA ReadInit == Init => ReadInv
BY TypeInit DEF Init, ReadInv, ValuesOK, SeenOK

LEMMA ReadNext == ReadInv /\ [Next]_vars => ReadInv'
<1> SUFFICES ASSUME ReadInv, [Next]_vars PROVE ValuesOK' /\ SeenOK'
  BY TypeNext DEF ReadInv
<1> USE DEF updateVars, socketVars, readerVars, resultVars, ReadInv, ValuesOK, SeenOK
<1>1. CASE PublishView
  BY <1>1 DEF TypeOK, PublishView
<1>2. CASE UpdateBegins
  BY <1>2 DEF TypeOK, UpdateBegins, Deliverable
<1>3. CASE StoreLane
  BY <1>3 DEF TypeOK, StoreLane
<1>4. CASE UpdateEnds
  BY <1>4 DEF TypeOK, UpdateEnds
<1>5. CASE \E l \in Lanes : Accept(l)
  BY <1>5 DEF TypeOK, Accept
<1>6. CASE \E l \in Lanes : AcceptFails(l)
  BY <1>6 DEF TypeOK, AcceptFails
<1>7. CASE \E l \in Lanes : ThreadFails(l)
  BY <1>7 DEF TypeOK, ThreadFails
<1>8. CASE \E l \in Lanes : ReadBegins(l)
  BY <1>8 DEF TypeOK, ReadBegins
<1>19. CASE \E l \in Lanes : NoSocket(l)
  BY <1>19 DEF TypeOK, NoSocket
<1>9. CASE HandlerReads
  BY <1>9 DEF TypeOK, HandlerReads, LockFree
<1>10. CASE HandlerSends
  BY <1>10 DEF TypeOK, HandlerSends
<1>11. CASE FeederEnds
  BY <1>11 DEF TypeOK, FeederEnds
<1>12. CASE FeederStarts
  BY <1>12 DEF TypeOK, FeederStarts
<1>13. CASE Connects
  BY <1>13 DEF TypeOK, Connects
<1>14. CASE ConnectFails
  BY <1>14 DEF TypeOK, ConnectFails, Returns, NoPothole
<1>15. CASE RecvReturns
  BY <1>15 DEF TypeOK, RecvReturns, Returns
<1>16. CASE RecvFindsClosed
  BY <1>16 DEF TypeOK, RecvFindsClosed, Returns, NoPothole
<1>17. CASE RecvTimesOut
  BY <1>17 DEF TypeOK, RecvTimesOut, Returns, NoPothole
<1>18. CASE UNCHANGED vars
  BY <1>18 DEF vars
<1> QED
  BY <1>1, <1>2, <1>3, <1>4, <1>5, <1>6, <1>7, <1>8, <1>9, <1>10, <1>11,
     <1>12, <1>13, <1>14, <1>15, <1>16, <1>17, <1>18, <1>19
     DEF Next, Subscriber, Acceptor, Handler, Process, Reader

LEMMA StepImplements ==
    ASSUME ReadInv, [Next]_vars
    PROVE  [PR!Next]_(PR!vars)
<1> USE DEF resultVars, PR!vars
<1>1. CASE PublishView
  BY <1>1 DEF PublishView, PR!Next, PR!PublishView
<1>2. CASE UpdateBegins
  BY <1>2 DEF UpdateBegins
<1>3. CASE StoreLane
  BY <1>3 DEF StoreLane
<1>4. CASE UpdateEnds
  BY <1>4 DEF UpdateEnds
<1>5. CASE \E l \in Lanes : Accept(l)
  BY <1>5 DEF Accept
<1>6. CASE \E l \in Lanes : AcceptFails(l)
  BY <1>6 DEF AcceptFails
<1>7. CASE \E l \in Lanes : ThreadFails(l)
  BY <1>7 DEF ThreadFails
<1>8. CASE \E l \in Lanes : ReadBegins(l)
  BY <1>8 DEF ReadBegins
<1>19. CASE \E l \in Lanes : NoSocket(l)
  BY <1>19 DEF NoSocket
<1>9. CASE HandlerReads
  BY <1>9 DEF HandlerReads
<1>10. CASE HandlerSends
  BY <1>10 DEF HandlerSends
<1>11. CASE FeederEnds
  BY <1>11 DEF FeederEnds
<1>12. CASE FeederStarts
  BY <1>12 DEF FeederStarts
<1>13. CASE Connects
  BY <1>13 DEF Connects
<1>14. CASE ConnectFails
  BY <1>14 DEF ConnectFails, Returns, NoPothole
<1>15. CASE RecvReturns
  BY <1>15 DEF RecvReturns, Returns, ReadInv, TypeOK, SeenOK, PR!Next, PR!Read
<1>16. CASE RecvFindsClosed
  BY <1>16 DEF RecvFindsClosed, Returns, NoPothole
<1>17. CASE RecvTimesOut
  BY <1>17 DEF RecvTimesOut, Returns, NoPothole
<1>18. CASE UNCHANGED vars
  BY <1>18 DEF vars
<1> QED
  BY <1>1, <1>2, <1>3, <1>4, <1>5, <1>6, <1>7, <1>8, <1>9, <1>10, <1>11,
     <1>12, <1>13, <1>14, <1>15, <1>16, <1>17, <1>18, <1>19
     DEF Next, Subscriber, Acceptor, Handler, Process, Reader

\* The feeder implements the promise made of the readings: each comes from a
\* view, none from an older view than a reading before it, of whatever lane,
\* across failed reads, dead threads and restarts of the feeder.
THEOREM FeederImplementsReadings == Spec => ImplementsReadings
<1>1. Init => PR!Init
  BY DEF Init, PR!Init
<1>2. ReadInv /\ [Next]_vars => [PR!Next]_(PR!vars)
  BY StepImplements
<1> QED
  BY ReadInit, ReadNext, <1>1, <1>2, PTL DEF Spec, ImplementsReadings, PR!Spec

-----------------------------------------------------------------------------
(* Reads end                                                               *)

\* Steps that a read at stage s still needs at most, with n connections in
\* the queue of its lane.
Left(s, n) ==
    CASE s = "idle"                -> 0
      [] s \in {"sent", "closed"}  -> 1
      [] s = "read"                -> 2
      [] s = "accepted"            -> 3
      [] s = "queued"              -> n + 4
      [] s = "connecting"          -> n + 6

ReadLeft == Left(stage, Len(queue[lane]))

\* What ServedReadEnds needs short of fairness.  No step of anyone takes a read
\* further from its end, not a fault, a restart or a connection of another lane,
\* and each step of its own, of its handler, or of its lane's acceptor while it
\* waits for that, brings the end nearer.
ReadAdvances ==
    [][stage # "idle" =>
          /\ ReadLeft' <= ReadLeft
          /\ \/ Reader \/ Handler
             \/ stage \in {"connecting", "queued"} /\ Accept(lane)
             => ReadLeft' < ReadLeft]_vars

\* Reads that time out leave connections behind, but never more than the
\* backlog holds, so that a read is at most Backlog + 7 such steps from its end.
QueuesAreBounded == \A l \in Lanes : Len(queue[l]) <= Backlog + 1

ReadsAreShort == ReadLeft <= Backlog + 7

LEMMA BoundedNext == TypeOK /\ QueuesAreBounded /\ [Next]_vars => QueuesAreBounded'
<1> SUFFICES ASSUME TypeOK, QueuesAreBounded, [Next]_vars, NEW l \in Lanes
             PROVE  Len(queue'[l]) <= Backlog + 1
  BY DEF QueuesAreBounded
<1> USE DEF updateVars, socketVars, readerVars, resultVars
<1>t. /\ queue \in [Lanes -> Seq({"live", "gone"})] /\ lane \in Lanes
      /\ queue[l] \in Seq({"live", "gone"}) /\ Len(queue[l]) \in Nat
      /\ Len(queue[l]) <= Backlog + 1 /\ Backlog \in Nat
  BY BoundAssumption DEF TypeOK, QueuesAreBounded
<1>1. CASE UNCHANGED queue
  BY <1>1, <1>t
<1>2. CASE \E m \in Lanes : Accept(m) \/ ThreadFails(m)
  <2> PICK m \in Lanes : queue[m] # <<>> /\ queue' = [queue EXCEPT ![m] = Tail(@)]
    BY <1>2 DEF Accept, ThreadFails
  <2>1. CASE l = m
    <3>1. Len(queue'[l]) = Len(queue[l]) - 1
      BY <1>t, <2>1, EmptySeq
    <3> QED
      BY <1>t, <3>1
  <2>2. CASE l # m
    BY <1>t, <2>2
  <2> QED
    BY <2>1, <2>2
<1>3. CASE FeederEnds
  BY <1>3, <1>t, EmptySeq DEF FeederEnds
<1>4. CASE Connects
  <2>1. queue' = [queue EXCEPT ![lane] = Append(@, "live")] /\ Len(queue[lane]) <= Backlog
    BY <1>4 DEF Connects
  <2>2. CASE l = lane
    <3>1. Len(queue'[l]) = Len(queue[l]) + 1
      BY <1>t, <2>1, <2>2
    <3> QED
      BY <1>t, <2>1, <2>2, <3>1
  <2>3. CASE l # lane
    BY <1>t, <2>1, <2>3
  <2> QED
    BY <2>2, <2>3
<1>5. CASE RecvTimesOut
  <2>1. \A q \in Seq({"live", "gone"}) : Len(ReplaceAll(q, "live", "gone")) = Len(q)
    BY DEF ReplaceAll
  <2>2. queue'[l] = queue[l] \/ queue'[l] = ReplaceAll(queue[l], "live", "gone")
    BY <1>5, <1>t DEF RecvTimesOut, GiveUp
  <2> QED
    BY <1>t, <2>1, <2>2
<1> QED
  BY <1>1, <1>2, <1>3, <1>4, <1>5
     DEF Next, Subscriber, Acceptor, Handler, Process, Reader, vars, PublishView,
         UpdateBegins, StoreLane, UpdateEnds, AcceptFails, ReadBegins, NoSocket,
         HandlerReads,
         HandlerSends, FeederStarts, ConnectFails, RecvReturns, RecvFindsClosed

\* The variant at each stage.
LEMMA LeftIs ==
    \A n \in Nat :
           /\ Left("idle", n) = 0 /\ Left("sent", n) = 1 /\ Left("closed", n) = 1
           /\ Left("read", n) = 2 /\ Left("accepted", n) = 3
           /\ Left("queued", n) = n + 4 /\ Left("connecting", n) = n + 6
BY DEF Left

LEMMA AdvanceNext ==
    ASSUME TypeOK, OneLiveConnection, [Next]_vars, stage # "idle"
    PROVE  /\ ReadLeft' <= ReadLeft
           /\ \/ Reader \/ Handler
              \/ stage \in {"connecting", "queued"} /\ Accept(lane)
              => ReadLeft' < ReadLeft
<1> USE DEF updateVars, socketVars, readerVars, resultVars
<1> DEFINE n == Len(queue[lane])
           p == Len(queue'[lane])
<1>t. /\ queue \in [Lanes -> Seq({"live", "gone"})] /\ lane \in Lanes
      /\ queue[lane] \in Seq({"live", "gone"}) /\ n \in Nat /\ stage \in Stages
  BY DEF TypeOK
<1>l. lane' = lane
  BY DEF Next, Subscriber, Acceptor, Handler, Process, Reader, vars, PublishView,
         UpdateBegins, StoreLane, UpdateEnds, AcceptFails, ReadBegins, NoSocket,
         HandlerReads,
         HandlerSends, FeederStarts, ConnectFails, RecvReturns, RecvFindsClosed,
         Accept, ThreadFails, FeederEnds, Connects, RecvTimesOut, Returns
<1>p. p \in Nat
  BY <1>l, <1>t, TypeNext DEF TypeOK
<1>d. ReadLeft = Left(stage, n) /\ ReadLeft' = Left(stage', p)
  BY <1>l DEF ReadLeft
<1>n. /\ Left("idle", n) = 0 /\ Left("sent", n) = 1 /\ Left("closed", n) = 1
      /\ Left("read", n) = 2 /\ Left("accepted", n) = 3
      /\ Left("queued", n) = n + 4 /\ Left("connecting", n) = n + 6
  BY <1>t, LeftIs
<1>q. /\ Left("idle", p) = 0 /\ Left("sent", p) = 1 /\ Left("closed", p) = 1
      /\ Left("read", p) = 2 /\ Left("accepted", p) = 3
      /\ Left("queued", p) = p + 4 /\ Left("connecting", p) = p + 6
  BY <1>p, LeftIs
<1>s. /\ Left(stage, n) \in Nat
      /\ stage # "idle" => Left(stage, n) > 0
      /\ stage \in {"connecting", "queued", "accepted", "read"} => Left(stage, n) > 1
      /\ stage \in {"connecting", "queued"} => Left(stage, n) > 3
  BY <1>t, <1>n DEF Stages
<1> HIDE DEF n, p
\* The read is over.
<1>1. CASE stage' = "idle"
  BY <1>1, <1>d, <1>p, <1>s, <1>n, <1>q
\* Neither it nor its queue is concerned.
<1>2. CASE UNCHANGED stage /\ p = n
          /\ ~(Reader \/ Handler \/ (stage \in {"connecting", "queued"} /\ Accept(lane)))
  BY <1>2, <1>d, <1>s
<1>3. CASE Accept(lane) \/ ThreadFails(lane)
  <2>1. /\ queue[lane] # <<>> /\ queue' = [queue EXCEPT ![lane] = Tail(@)]
        /\ stage' \in {stage, "accepted", "closed"}
        /\ Head(queue[lane]) # "live" => UNCHANGED stage
    BY <1>3 DEF Accept, ThreadFails
  <2>2. n \in Nat \ {0} /\ p = n - 1
    BY <1>t, <2>1, EmptySeq DEF n, p
  <2>3. Head(queue[lane]) = "live" => stage = "queued"
    <3>1. 1 \in DOMAIN queue[lane] /\ Head(queue[lane]) = queue[lane][1]
      BY <1>t, <2>2 DEF n
    <3> QED
      BY <1>t, <3>1 DEF OneLiveConnection
  <2>4. CASE stage \in {"connecting", "queued"} /\ stage' = stage
    BY <2>4, <2>2, <1>d, <1>p, <1>t, <1>n, <1>q
  <2>5. CASE stage = "queued" /\ stage' \in {"accepted", "closed"}
    BY <2>5, <1>d, <1>s, <1>p, <1>n, <1>q
  <2>6. CASE stage \notin {"connecting", "queued"} /\ stage' = stage
    <3>1. Left(stage, p) = Left(stage, n)
      BY <2>6, <1>p, <1>t, <1>n, <1>q DEF Stages
    <3>2. ~Reader /\ ~Handler
      BY <2>1, <2>2, <2>6, <1>3, <1>t DEF Reader, Handler, Connects, ConnectFails,
         RecvReturns, RecvFindsClosed, RecvTimesOut, Returns, HandlerReads, HandlerSends
    <3> QED
      BY <2>6, <3>1, <3>2, <1>d, <1>s
  <2> QED
    BY <2>1, <2>3, <2>4, <2>5, <2>6
<1>4. CASE HandlerReads \/ HandlerSends
  BY <1>4, <1>d, <1>p, <1>t, <1>n, <1>q DEF HandlerReads, HandlerSends
<1>5. CASE FeederEnds
  <2>1. ~Reader /\ ~Handler /\ ~Accept(lane)
    BY <1>5 DEF FeederEnds, Fault, Reader, Handler, Connects, ConnectFails, Accept,
       RecvReturns, RecvFindsClosed, RecvTimesOut, Returns, HandlerReads, HandlerSends
  <2>2. p = 0
    BY <1>5, <1>t, EmptySeq DEF FeederEnds, p
  <2>3. stage' = IF stage \in {"queued", "accepted", "read"} THEN "closed" ELSE stage
    BY <1>5 DEF FeederEnds
  <2> QED
    BY <2>1, <2>2, <2>3, <1>d, <1>t, <1>n, <1>q DEF Stages
<1>6. CASE Connects
  <2>1. stage = "connecting" /\ stage' = "queued" /\ p = n + 1
    BY <1>6, <1>t DEF Connects, n, p
  <2> QED
    BY <2>1, <1>d, <1>p, <1>t, <1>n, <1>q
<1>7. CASE ConnectFails \/ RecvReturns \/ RecvFindsClosed \/ RecvTimesOut
  BY <1>1, <1>7 DEF ConnectFails, RecvReturns, RecvFindsClosed, RecvTimesOut, Returns
<1>8. CASE \E m \in Lanes \ {lane} : Accept(m) \/ ThreadFails(m)
  <2> PICK m \in Lanes \ {lane} : Accept(m) \/ ThreadFails(m)
    BY <1>8
  <2>1. /\ queue[m] # <<>> /\ queue' = [queue EXCEPT ![m] = Tail(@)]
        /\ Head(queue[m]) # "live" => UNCHANGED stage
    BY DEF Accept, ThreadFails
  <2>2. Head(queue[m]) # "live"
    <3>1. queue[m] \in Seq({"live", "gone"}) /\ Len(queue[m]) \in Nat \ {0}
      BY <1>t, <2>1, EmptySeq
    <3>2. 1 \in DOMAIN queue[m] /\ Head(queue[m]) = queue[m][1]
      BY <3>1
    <3> QED
      BY <3>2 DEF OneLiveConnection
  <2>3. UNCHANGED stage /\ p = n /\ queue'[m] # queue[m] /\ queue'[lane] = queue[lane]
    <3>1. queue[m] \in Seq({"live", "gone"}) /\ Len(queue[m]) \in Nat \ {0}
      BY <1>t, <2>1, EmptySeq
    <3>2. Len(Tail(queue[m])) = Len(queue[m]) - 1
      BY <3>1
    <3>3. queue'[m] = Tail(queue[m]) /\ queue'[lane] = queue[lane]
      BY <1>t, <2>1
    <3>4. queue'[m] # queue[m]
      <4> SUFFICES ASSUME queue'[m] = queue[m] PROVE FALSE
        OBVIOUS
      <4>1. Len(queue[m]) = Len(queue[m]) - 1
        BY <3>2, <3>3
      <4> QED
        BY <3>1, <4>1
    <3> QED
      BY <2>1, <2>2, <3>3, <3>4 DEF n, p
  <2>4. ~Reader /\ ~Handler /\ ~Accept(lane)
    BY <1>1, <2>3, <1>t DEF Reader, Handler, Connects, ConnectFails, Accept,
       RecvReturns, RecvFindsClosed, RecvTimesOut, Returns, HandlerReads, HandlerSends
  <2> QED
    BY <1>2, <2>3, <2>4
<1>9. CASE /\ UNCHANGED <<stage, queue>>
           /\ ~Connects /\ ~ConnectFails /\ ~RecvReturns /\ ~RecvFindsClosed
           /\ ~RecvTimesOut /\ ~HandlerReads /\ ~HandlerSends /\ ~Accept(lane)
  BY <1>2, <1>9 DEF Reader, Handler, n, p
<1>10. CASE UNCHANGED <<stage, queue>>
  <2>1. ~Accept(lane)
    <3> SUFFICES ASSUME Accept(lane) PROVE FALSE
      OBVIOUS
    <3>1. queue[lane] # <<>> /\ queue'[lane] = Tail(queue[lane])
      BY <1>t DEF Accept
    <3>2. Len(queue[lane]) \in Nat \ {0}
      BY <1>t, <3>1, EmptySeq
    <3>3. Len(Tail(queue[lane])) = Len(queue[lane]) - 1
      BY <1>t, <3>2
    <3>4. queue[lane] = Tail(queue[lane])
      BY <1>10, <3>1
    <3>5. Len(queue[lane]) = Len(queue[lane]) - 1
      BY <3>3, <3>4
    <3> QED
      BY <3>2, <3>5
  <2> QED
    BY <1>4, <1>6, <1>7, <1>9, <1>10, <2>1
<1>11. \A m \in Lanes : ~ReadBegins(m) /\ ~NoSocket(m)
  BY DEF ReadBegins, NoSocket
<1> QED
  BY <1>3, <1>4, <1>5, <1>6, <1>7, <1>8, <1>10, <1>11
     DEF Next, Subscriber, Acceptor, Handler, Process, Reader, vars, PublishView,
         UpdateBegins, StoreLane, UpdateEnds, AcceptFails, FeederStarts

LEMMA ShortRead == TypeOK /\ QueuesAreBounded => ReadsAreShort
<1> SUFFICES ASSUME TypeOK, QueuesAreBounded PROVE ReadsAreShort
  OBVIOUS
<1>1. Len(queue[lane]) \in Nat /\ Len(queue[lane]) <= Backlog + 1 /\ Backlog \in Nat
  BY BoundAssumption DEF TypeOK, QueuesAreBounded
<1> DEFINE n == Len(queue[lane])
<1>2. /\ Left("idle", n) = 0 /\ Left("sent", n) = 1 /\ Left("closed", n) = 1
      /\ Left("read", n) = 2 /\ Left("accepted", n) = 3
      /\ Left("queued", n) = n + 4 /\ Left("connecting", n) = n + 6
  BY <1>1, LeftIs
<1> QED
  BY <1>1, <1>2 DEF TypeOK, Stages, ReadLeft, ReadsAreShort

\* A read only comes nearer to its end, from which it is never more than
\* Backlog + 7 steps: timed-out reads cost later ones a bounded delay.
THEOREM ReadsOnlyAdvance ==
    Spec => ReadAdvances /\ [](QueuesAreBounded /\ ReadsAreShort)
<1>1. Init => QueuesAreBounded
  BY BoundAssumption, EmptySeq DEF Init, QueuesAreBounded
<1>2. /\ TypeOK /\ OneLiveConnection /\ [Next]_vars
      => [stage # "idle" =>
             /\ ReadLeft' <= ReadLeft
             /\ \/ Reader \/ Handler
                \/ stage \in {"connecting", "queued"} /\ Accept(lane)
                => ReadLeft' < ReadLeft]_vars
  BY AdvanceNext
<1> QED
  BY FeederTypeCorrect, OneConnectionIsLive, BoundedNext, ShortRead, <1>1, <1>2, PTL
     DEF Spec, ReadAdvances
=============================================================================

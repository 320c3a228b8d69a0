------------------------ MODULE BridgeRestartProofs -------------------------
(***************************************************************************)
(* Proofs about BridgeRestart.  What one instance does to the paths while  *)
(* it starts is the hard part of each invariant: the lanes still to be     *)
(* made must be told apart from those that are made.                       *)
(***************************************************************************)
EXTENDS BridgeRestart, TLAPS

USE ProcsAssumption, LanesAssumption

\* The loop of start() takes a lane that it has yet to make.
LEMMA NextLaneIsToDo ==
    ASSUME NEW p \in Procs, todo[p] # {}
    PROVE NextLane(p) \in todo[p]
  BY DEF NextLane

-----------------------------------------------------------------------------
(* Types, and where the main thread stands in the loop of start()          *)

\* The loop of start() is where todo says.
LoopInv ==
    \A p \in Procs :
        /\ pc[p] \in {"new", "starting", "creating", "binding"} => todo[p] # {}
        /\ pc[p] = "subscribed" => todo[p] = {}

TypeInv == TypeOK /\ LoopInv

LEMMA TypeInvInit == Init => TypeInv
  BY DEF Init, TypeInv, TypeOK, LoopInv, Points, Phases

LEMMA TypeInvNext == TypeInv /\ [Next]_vars => TypeInv'
  <1> SUFFICES ASSUME TypeInv, [Next]_vars PROVE TypeInv'
    OBVIOUS
  <1> USE DEF TypeInv, TypeOK, LoopInv, Points, Phases
  <1>1. CASE UNCHANGED vars
    BY <1>1 DEF vars, implVars
  <1>2. ASSUME NEW p \in Procs, Launch(p) PROVE TypeInv'
    BY <1>2 DEF Launch, Goto, Alive
  <1>3. ASSUME NEW p \in Procs, StartRuns(p) PROVE TypeInv'
    BY <1>3 DEF StartRuns, Goto
  <1>4. ASSUME NEW p \in Procs, UnlinkOld(p) PROVE TypeInv'
    BY <1>4, NextLaneIsToDo DEF UnlinkOld, Goto
  <1>5. ASSUME NEW p \in Procs, Bind(p) PROVE TypeInv'
    <2>1. NextLane(p) \in todo[p] /\ NextLane(p) \in Lanes
      BY <1>5, NextLaneIsToDo DEF Bind
    <2>2. TypeOK'
      BY <1>5, <2>1 DEF Bind, Goto
    <2>3. LoopInv'
      BY <1>5, <2>1 DEF Bind, Goto
    <2> QED
      BY <2>2, <2>3
  <1>6. ASSUME NEW p \in Procs, BindFails(p) PROVE TypeInv'
    BY <1>6 DEF BindFails, Goto
  <1>7. ASSUME NEW p \in Procs, Exit(p) PROVE TypeInv'
    BY <1>7 DEF Exit, Stop, Dies, Goto
  <1>8. ASSUME NEW p \in Procs, Update(p) PROVE TypeInv'
    BY <1>8 DEF Update, Goto
  <1>9. ASSUME NEW p \in Procs, SubscriptionRaises(p) PROVE TypeInv'
    BY <1>9 DEF SubscriptionRaises, Goto
  <1>10. ASSUME NEW p \in Procs, Signal(p) PROVE TypeInv'
    BY <1>10 DEF Signal, Stop, Phase, Alive
  <1>11. ASSUME NEW p \in Procs, Kill(p) PROVE TypeInv'
    BY <1>11 DEF Kill, Dies, Goto
  <1> QED
    BY <1>1, <1>2, <1>3, <1>4, <1>5, <1>6, <1>7, <1>8, <1>9, <1>10, <1>11
    DEF Next, Step

LEMMA TypeInvAlways == Spec => []TypeInv
  BY TypeInvInit, TypeInvNext, PTL DEF Spec

\* The state of every instance, and of the paths, keeps its type.
THEOREM RestartTypeCorrect == Spec => []TypeOK
  <1>1. TypeInv => TypeOK
    BY DEF TypeInv
  <1> QED
    BY <1>1, TypeInvAlways, PTL

-----------------------------------------------------------------------------
(* Paths name sockets that are answered                                    *)

\* Before its sockets are all made, an instance runs, or has had a signal.
StartInv ==
    \A p \in Procs :
        /\ pc[p] \in {"new", "starting"} => signalled[p] = "none"
        /\ pc[p] \in {"creating", "binding"} =>
              /\ signalled[p] # "late"
              /\ running[p] \/ signalled[p] = "making"

AnswerInv == StartInv /\ PathsAnswered

LEMMA AnswerInvInit == Init => AnswerInv
  BY DEF Init, AnswerInv, StartInv, PathsAnswered

LEMMA AnswerInvNext == TypeInv /\ AnswerInv /\ [Next]_vars => AnswerInv'
  <1> SUFFICES ASSUME TypeInv, AnswerInv, [Next]_vars PROVE AnswerInv'
    OBVIOUS
  <1> USE DEF TypeInv, TypeOK, LoopInv, Points, AnswerInv, StartInv, PathsAnswered
  <1>1. CASE UNCHANGED vars
    BY <1>1 DEF vars, implVars
  <1>2. ASSUME NEW p \in Procs, Launch(p) PROVE AnswerInv'
    BY <1>2 DEF Launch, Goto
  <1>3. ASSUME NEW p \in Procs, StartRuns(p) PROVE AnswerInv'
    BY <1>3 DEF StartRuns, Goto
  <1>4. ASSUME NEW p \in Procs, UnlinkOld(p) PROVE AnswerInv'
    BY <1>4, NextLaneIsToDo DEF UnlinkOld, Goto
  <1>5. ASSUME NEW p \in Procs, Bind(p) PROVE AnswerInv'
    <2>1. NextLane(p) \in todo[p] /\ NextLane(p) \in Lanes
      BY <1>5, NextLaneIsToDo DEF Bind
    <2>2. StartInv'
      BY <1>5, <2>1 DEF Bind, Goto
    <2>3. PathsAnswered'
      BY <1>5, <2>1 DEF Bind, Goto
    <2> QED
      BY <2>2, <2>3
  <1>6. ASSUME NEW p \in Procs, BindFails(p) PROVE AnswerInv'
    BY <1>6 DEF BindFails, Goto
  <1>7. ASSUME NEW p \in Procs, Exit(p) PROVE AnswerInv'
    BY <1>7 DEF Exit, Stop, Dies, Goto
  <1>8. ASSUME NEW p \in Procs, Update(p) PROVE AnswerInv'
    BY <1>8 DEF Update, Goto
  <1>9. ASSUME NEW p \in Procs, SubscriptionRaises(p) PROVE AnswerInv'
    BY <1>9 DEF SubscriptionRaises, Goto
  <1>10. ASSUME NEW p \in Procs, Signal(p) PROVE AnswerInv'
    BY <1>10 DEF Signal, Stop, Phase, Phases, Alive
  <1>11. ASSUME NEW p \in Procs, Kill(p) PROVE AnswerInv'
    BY <1>11 DEF Kill, Dies, Goto
  <1> QED
    BY <1>1, <1>2, <1>3, <1>4, <1>5, <1>6, <1>7, <1>8, <1>9, <1>10, <1>11
    DEF Next, Step

\* However instances overlap, a path is at a socket that is open and that its
\* instance has not stopped to serve, unless that was killed or got a signal
\* between its sockets.
THEOREM PathsAreAnswered == Spec => []PathsAnswered
  <1>1. Init => AnswerInv
    BY AnswerInvInit
  <1>2. TypeInv /\ AnswerInv /\ [Next]_vars => AnswerInv'
    BY AnswerInvNext
  <1>3. AnswerInv => PathsAnswered
    BY DEF AnswerInv
  <1> QED
    BY <1>1, <1>2, <1>3, TypeInvAlways, PTL DEF Spec

-----------------------------------------------------------------------------
(* Instances that do not overlap                                           *)

OneAlive == \A p, q \in Procs : Alive(p) /\ Alive(q) => p = q

\* An instance that has not been stopped is at the path of every lane it made.
MadeInv ==
    \A p \in Procs :
        pc[p] \in {"creating", "binding", "subscribed"} /\ running[p]
        => \A l \in Lanes \ todo[p] : path[l] = p

\* An instance that has not reached its loop has every lane to make.
FreshInv == \A p \in Procs : pc[p] \in {"new", "starting"} => todo[p] = Lanes

OrderlyInv == ~overlapped => OneAlive /\ FreshInv /\ MadeInv /\ AddressIsFree

LEMMA OrderlyInvInit == Init => OrderlyInv
  BY DEF Init, OrderlyInv, OneAlive, FreshInv, MadeInv, AddressIsFree, Alive

LEMMA OrderlyInvNext == TypeInv /\ OrderlyInv /\ [Next]_vars => OrderlyInv'
  <1> SUFFICES ASSUME TypeInv, OrderlyInv, [Next]_vars, ~overlapped'
               PROVE OneAlive' /\ FreshInv' /\ MadeInv' /\ AddressIsFree'
    BY DEF OrderlyInv
  <1> DEFINE Goal == OneAlive' /\ FreshInv' /\ MadeInv' /\ AddressIsFree'
  <1> USE DEF TypeInv, TypeOK, LoopInv, Points, OrderlyInv, OneAlive, FreshInv,
              MadeInv, AddressIsFree, Alive
  <1>1. CASE UNCHANGED vars
    BY <1>1 DEF vars, implVars, NextLane
  <1>2. ASSUME NEW p \in Procs, Launch(p) PROVE Goal
    <2>1. ~overlapped /\ \A q \in Procs : ~Alive(q)
      BY <1>2 DEF Launch
    <2>2. \A q \in Procs : NextLane(q)' = NextLane(q)
      BY <1>2 DEF Launch, NextLane
    <2> QED
      BY <1>2, <2>1, <2>2 DEF Launch, Goto, OrderlyInv
  <1>3. ASSUME NEW p \in Procs, StartRuns(p) PROVE Goal
    BY <1>3 DEF StartRuns, Goto, NextLane
  <1>4. ASSUME NEW p \in Procs, UnlinkOld(p) PROVE Goal
    <2>1. NextLane(p) \in todo[p] /\ NextLane(p) \in Lanes
      BY <1>4, NextLaneIsToDo DEF UnlinkOld
    <2>2. \A q \in Procs : NextLane(q)' = NextLane(q)
      BY <1>4 DEF UnlinkOld, NextLane
    <2>3. OneAlive' /\ FreshInv'
      BY <1>4 DEF UnlinkOld, Goto
    <2>4. MadeInv'
      BY <1>4, <2>1 DEF UnlinkOld, Goto
    <2>5. AddressIsFree'
      BY <1>4, <2>1, <2>2 DEF UnlinkOld, Goto
    <2> QED
      BY <2>3, <2>4, <2>5
  <1>5. ASSUME NEW p \in Procs, Bind(p) PROVE Goal
    <2>1. NextLane(p) \in todo[p] /\ NextLane(p) \in Lanes
      BY <1>5, NextLaneIsToDo DEF Bind
    <2>2. OneAlive' /\ FreshInv'
      BY <1>5 DEF Bind, Goto
    <2>3. MadeInv'
      BY <1>5, <2>1 DEF Bind, Goto
    <2>4. AddressIsFree'
      BY <1>5 DEF Bind, Goto
    <2> QED
      BY <2>2, <2>3, <2>4
  <1>6. ASSUME NEW p \in Procs, BindFails(p) PROVE Goal
    BY <1>6 DEF BindFails
  <1>7. ASSUME NEW p \in Procs, Exit(p) PROVE Goal
    BY <1>7 DEF Exit, Stop, Dies, Goto
  <1>8. ASSUME NEW p \in Procs, Update(p) PROVE Goal
    BY <1>8 DEF Update, Goto
  <1>9. ASSUME NEW p \in Procs, SubscriptionRaises(p) PROVE Goal
    BY <1>9 DEF SubscriptionRaises, Goto
  <1>10. ASSUME NEW p \in Procs, Signal(p) PROVE Goal
    <2>1. \A q \in Procs : NextLane(q)' = NextLane(q) /\ (pc[q] = "binding" => NextLane(q) \in Lanes)
      BY <1>10, NextLaneIsToDo DEF Signal, NextLane
    <2>2. OneAlive' /\ FreshInv'
      BY <1>10 DEF Signal, Stop
    <2>3. MadeInv'
      BY <1>10 DEF Signal, Stop
    <2>4. AddressIsFree'
      BY <1>10, <2>1 DEF Signal, Stop
    <2> QED
      BY <2>2, <2>3, <2>4
  <1>11. ASSUME NEW p \in Procs, Kill(p) PROVE Goal
    BY <1>11 DEF Kill, Dies, Goto
  <1> QED
    BY <1>1, <1>2, <1>3, <1>4, <1>5, <1>6, <1>7, <1>8, <1>9, <1>10, <1>11
    DEF Next, Step

LEMMA OrderlyInvAlways == Spec => []OrderlyInv
  BY OrderlyInvInit, OrderlyInvNext, TypeInvAlways, PTL DEF Spec

\* When instances do not overlap, bind never meets a path left by another one,
\* not even after a kill or after a signal in the middle of start().
THEOREM AddressesAreFree == Spec => []AddressIsFree
  <1>1. OrderlyInv => AddressIsFree
    BY DEF OrderlyInv, AddressIsFree
  <1> QED
    BY <1>1, OrderlyInvAlways, PTL

\* When instances do not overlap, one that was not stopped is at every path.
THEOREM ServiceIsExposed == Spec => []ExposedInOrder
  <1>1. TypeInv /\ OrderlyInv => ExposedInOrder
    BY DEF TypeInv, LoopInv, OrderlyInv, MadeInv, ExposedInOrder, ServiceExposed
  <1> QED
    BY <1>1, TypeInvAlways, OrderlyInvAlways, PTL

-----------------------------------------------------------------------------
(* A stop is not undone                                                    *)

\* A signal that comes after `self.running = True` stays in force until its
\* instance is gone: start() does not set the flag again.
StopIsKept ==
    \A p \in Procs :
        signalled[p] # "none" =>
            ~running[p] /\ pc[p] \in {"creating", "binding", "subscribed", "leaving"}

\* The guard of the step that an instance owes once it was sent a signal.
StopIsDue ==
    \A p \in Procs :
        signalled[p] # "none" =>
            \/ pc[p] = "creating" /\ todo[p] # {}
            \/ pc[p] = "binding"
            \/ pc[p] = "subscribed" /\ ~running[p]
            \/ pc[p] = "leaving"

\* How far an instance is from its end, in the loop of start() and after it.
Rank(point) == CASE point = "creating"   -> 4
                 [] point = "binding"    -> 3
                 [] point = "subscribed" -> 2
                 [] point = "leaving"    -> 1
                 [] OTHER                -> 0

\* What StopCompletes needs short of fairness.  The lanes to be made and the
\* rank are a distance from the end, in this order; no step of any instance
\* takes one that was sent a signal back, and each of its own takes it forward.
StopAdvances ==
    [][\A p \in Procs :
          signalled[p] # "none" =>
              \/ UNCHANGED <<pc[p], todo[p]>> /\ ~Step(p) /\ ~Update(p)
              \/ todo'[p] \subseteq todo[p] /\ todo'[p] # todo[p]
              \/ todo'[p] = todo[p] /\ Rank(pc'[p]) < Rank(pc[p])]_vars

LEMMA StopIsKeptNext == TypeInv /\ StopIsKept /\ [Next]_vars => StopIsKept'
  <1> SUFFICES ASSUME TypeInv, StopIsKept, [Next]_vars PROVE StopIsKept'
    OBVIOUS
  <1> USE DEF TypeInv, TypeOK, LoopInv, Points, StopIsKept
  <1>1. CASE UNCHANGED vars
    BY <1>1 DEF vars, implVars
  <1>2. ASSUME NEW p \in Procs,
               \/ Launch(p) \/ StartRuns(p) \/ UnlinkOld(p) \/ BindFails(p)
               \/ Update(p) \/ SubscriptionRaises(p)
        PROVE  StopIsKept'
    BY <1>2 DEF Launch, StartRuns, UnlinkOld, BindFails, Update,
       SubscriptionRaises, Goto
  <1>3. ASSUME NEW p \in Procs, Bind(p) PROVE StopIsKept'
    BY <1>3 DEF Bind, Goto
  <1>4. ASSUME NEW p \in Procs, Exit(p) \/ Kill(p) PROVE StopIsKept'
    BY <1>4 DEF Exit, Kill, Stop, Dies, Goto
  <1>5. ASSUME NEW p \in Procs, Signal(p) PROVE StopIsKept'
    BY <1>5 DEF Signal, Stop, Phase, Phases, Alive
  <1> QED
    BY <1>1, <1>2, <1>3, <1>4, <1>5 DEF Next, Step

LEMMA RanksFall ==
    /\ Rank("binding") < Rank("creating") /\ Rank("subscribed") < Rank("binding")
    /\ Rank("leaving") < Rank("binding") /\ Rank("leaving") < Rank("subscribed")
    /\ \A point \in {"creating", "binding", "subscribed", "leaving"} :
          Rank("gone") < Rank(point) /\ Rank("killed") < Rank(point)
  BY DEF Rank

\* The step of one instance, and what it leaves alone of the others.
LEMMA OwnStep ==
    ASSUME TypeInv, StopIsKept, NEW p \in Procs, signalled[p] # "none",
           \/ Step(p) \/ Update(p) \/ SubscriptionRaises(p) \/ Kill(p)
    PROVE  \/ todo'[p] \subseteq todo[p] /\ todo'[p] # todo[p]
           \/ todo'[p] = todo[p] /\ Rank(pc'[p]) < Rank(pc[p])
  <1> USE DEF TypeInv, TypeOK, LoopInv, StopIsKept
  <1>1. CASE UnlinkOld(p) \/ BindFails(p) \/ Update(p) \/ SubscriptionRaises(p)
    <2>1. /\ todo' = todo
          /\ \/ pc[p] = "creating" /\ pc'[p] = "binding"
             \/ pc[p] \in {"binding", "subscribed"} /\ pc'[p] = "leaving"
      BY <1>1 DEF UnlinkOld, BindFails, Update, SubscriptionRaises, Goto
    <2> QED
      BY <2>1, RanksFall
  <1>2. CASE Bind(p)
    <2>1. NextLane(p) \in todo[p]
      BY <1>2, NextLaneIsToDo DEF Bind
    <2>2. todo'[p] = todo[p] \ {NextLane(p)}
      BY <1>2 DEF Bind
    <2> QED
      BY <2>1, <2>2
  <1>3. CASE Exit(p) \/ Kill(p)
    <2>1. todo'[p] = {} /\ pc'[p] \in {"gone", "killed"}
      BY <1>3 DEF Exit, Kill, Dies, Goto
    <2>2. Rank(pc'[p]) < Rank(pc[p])
      BY <2>1, RanksFall
    <2> QED
      BY <2>1, <2>2
  <1>4. ~StartRuns(p)
    BY DEF StartRuns
  <1> QED
    BY <1>1, <1>2, <1>3, <1>4 DEF Step

LEMMA StopStep ==
    ASSUME TypeInv, StopIsKept, [Next]_vars, NEW p \in Procs, signalled[p] # "none"
    PROVE  \/ UNCHANGED <<pc[p], todo[p]>> /\ ~Step(p) /\ ~Update(p)
           \/ todo'[p] \subseteq todo[p] /\ todo'[p] # todo[p]
           \/ todo'[p] = todo[p] /\ Rank(pc'[p]) < Rank(pc[p])
  <1> USE DEF TypeInv, TypeOK
  <1>1. CASE Step(p) \/ Update(p) \/ SubscriptionRaises(p) \/ Kill(p)
    BY <1>1, OwnStep
  <1>2. CASE UNCHANGED <<pc[p], todo[p]>> /\ ~Step(p) /\ ~Update(p)
    BY <1>2
  <1>3. CASE UNCHANGED vars \/ Signal(p)
    BY <1>1, <1>2, <1>3 DEF vars, implVars, Signal
  <1>4. ~Launch(p)
    BY DEF Launch, StopIsKept
  <1>5. ASSUME NEW q \in Procs \ {p},
               \/ Launch(q) \/ Step(q) \/ Update(q) \/ SubscriptionRaises(q)
               \/ Signal(q) \/ Kill(q)
        PROVE  UNCHANGED <<pc[p], todo[p]>>
    BY <1>5 DEF Launch, Step, StartRuns, UnlinkOld, Bind, BindFails, Exit, Update,
       SubscriptionRaises, Signal, Kill, Dies, Goto
  <1> QED
    BY <1>1, <1>2, <1>3, <1>4, <1>5 DEF Next

\* However instances overlap, one that was sent a signal stays stopped, owes a
\* step until it has ended, and only comes nearer to its end.
THEOREM StopOnlyAdvances == Spec => StopAdvances /\ [](StopIsKept /\ StopIsDue)
  <1>1. Init => StopIsKept
    BY DEF Init, StopIsKept
  <1>2. TypeInv /\ StopIsKept => StopIsDue
    BY DEF TypeInv, LoopInv, StopIsKept, StopIsDue
  <1>3. TypeInv /\ StopIsKept /\ [Next]_vars
        => [\A p \in Procs :
               signalled[p] # "none" =>
                   \/ UNCHANGED <<pc[p], todo[p]>> /\ ~Step(p) /\ ~Update(p)
                   \/ todo'[p] \subseteq todo[p] /\ todo'[p] # todo[p]
                   \/ todo'[p] = todo[p] /\ Rank(pc'[p]) < Rank(pc[p])]_vars
    BY StopStep
  <1> QED
    BY <1>1, <1>2, <1>3, StopIsKeptNext, TypeInvAlways, PTL DEF Spec, StopAdvances
=============================================================================

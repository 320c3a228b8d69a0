---------------------------- MODULE BridgeRestart ---------------------------
(***************************************************************************)
(* Instances of pothole_feeder.py that follow one another, and the paths   *)
(* in /tmp they share.  Each instance creates its sockets in start(), is   *)
(* asked to end by a signal, whose handler calls stop(), and calls stop()  *)
(* once more on its way out.  stop() unlinks the paths, whoever they name. *)
(*                                                                         *)
(* The signal handler runs in the main thread, between two steps of it.    *)
(***************************************************************************)
EXTENDS Naturals

CONSTANTS
    Procs,          \* the instances; each is started at most once
    Lanes,          \* the keys of self.sockets
    None            \* no file at a path

ASSUME ProcsAssumption == None \notin Procs
ASSUME LanesAssumption == Lanes # {}

VARIABLES
    pc,             \* where the main thread of each instance stands
    running,        \* self.running
    todo,           \* the lanes whose socket start() has yet to create
    servers,        \* self.servers: the lanes whose socket is open
    path,           \* the instance whose socket each path names
    signalled,      \* history: the phase of the first signal an instance got
                    \* after it had set self.running
    overlapped      \* history: has one started before another was gone?

implVars == <<pc, running, todo, servers, path>>
vars == <<implVars, signalled, overlapped>>

Points == { "new",          \* not started
            "starting",     \* the handlers are set; asyncio.run begins
            "creating",     \* in start(), between two sockets
            "binding",      \* a lane's path is unlinked, bind comes next
            "subscribed",   \* in `async for update in ...`
            "leaving",      \* before the finally clause of the script
            "gone",         \* the script has ended
            "killed" }

\* What a signal may come into: the loop of start(), or what follows it.
Phases == {"making", "late"}

Phase(p) == IF pc[p] \in {"creating", "binding"} THEN "making" ELSE "late"

Alive(p) == pc[p] \notin {"new", "gone", "killed"}

TypeOK ==
    /\ pc \in [Procs -> Points]
    /\ running \in [Procs -> BOOLEAN]
    /\ todo \in [Procs -> SUBSET Lanes]
    /\ servers \in [Procs -> SUBSET Lanes]
    /\ path \in [Lanes -> Procs \union {None}]
    /\ signalled \in [Procs -> Phases \union {"none"}]
    /\ overlapped \in BOOLEAN

Init ==
    /\ pc = [p \in Procs |-> "new"]
    /\ running = [p \in Procs |-> FALSE]
    /\ todo = [p \in Procs |-> Lanes]
    /\ servers = [p \in Procs |-> {}]
    /\ path = [l \in Lanes |-> None]
    /\ signalled = [p \in Procs |-> "none"]
    /\ overlapped = FALSE

Goto(p, point) == pc' = [pc EXCEPT ![p] = point]

-----------------------------------------------------------------------------

\* The script is started, and installs its signal handlers.
Launch(p) ==
    /\ pc[p] = "new"
    /\ Goto(p, "starting")
    /\ overlapped' = (overlapped \/ \E q \in Procs : Alive(q))
    /\ UNCHANGED <<running, todo, servers, path, signalled>>

\* `self.running = True`, whatever it was.
StartRuns(p) ==
    /\ pc[p] = "starting"
    /\ running' = [running EXCEPT ![p] = TRUE]
    /\ Goto(p, "creating")
    /\ UNCHANGED <<todo, servers, path, signalled, overlapped>>

\* The lane whose socket start() creates next: its loop has a fixed order.
NextLane(p) == CHOOSE l \in todo[p] : TRUE

\* [mutant] The path is not unlinked before bind.
KeepOldPath(p) ==
    /\ pc[p] = "creating" /\ todo[p] # {}
    /\ Goto(p, "binding")
    /\ UNCHANGED <<running, todo, servers, path, signalled, overlapped>>

\* [mutant] All the paths are unlinked for each lane.
UnlinkEvery(p) ==
    /\ pc[p] = "creating" /\ todo[p] # {}
    /\ path' = [l \in Lanes |-> None]
    /\ Goto(p, "binding")
    /\ UNCHANGED <<running, todo, servers, signalled, overlapped>>

\* os.unlink in _create_socket_server, whatever the path names.
UnlinkOld(p) ==
    /\ pc[p] = "creating" /\ todo[p] # {}
    /\ path' = [path EXCEPT ![NextLane(p)] = None]
    /\ Goto(p, "binding")
    /\ UNCHANGED <<running, todo, servers, signalled, overlapped>>

\* [mutant] The server is not stored under its lane.
BindUnderOneKey(p) ==
    /\ pc[p] = "binding" /\ path[NextLane(p)] = None
    /\ path' = [path EXCEPT ![NextLane(p)] = p]
    /\ servers' = [servers EXCEPT ![p] = @ \union {p}]
    /\ todo' = [todo EXCEPT ![p] = @ \ {NextLane(p)}]
    /\ Goto(p, IF todo[p] = {NextLane(p)} THEN "subscribed" ELSE "creating")
    /\ UNCHANGED <<running, signalled, overlapped>>

\* bind, listen, and the acceptor thread.
Bind(p) ==
    /\ pc[p] = "binding" /\ path[NextLane(p)] = None
    /\ path' = [path EXCEPT ![NextLane(p)] = p]
    /\ servers' = [servers EXCEPT ![p] = @ \union {NextLane(p)}]
    /\ todo' = [todo EXCEPT ![p] = @ \ {NextLane(p)}]
    /\ Goto(p, IF todo[p] = {NextLane(p)} THEN "subscribed" ELSE "creating")
    /\ UNCHANGED <<running, signalled, overlapped>>

\* bind finds a path that another instance has made meanwhile: OSError.
BindFails(p) ==
    /\ pc[p] = "binding" /\ path[NextLane(p)] # None
    /\ Goto(p, "leaving")
    /\ UNCHANGED <<running, todo, servers, path, signalled, overlapped>>

\* connect or the subscription raises (the broker is not there, or goes away).
SubscriptionRaises(p) ==
    /\ pc[p] = "subscribed"
    /\ Goto(p, "leaving")
    /\ UNCHANGED <<running, todo, servers, path, signalled, overlapped>>

\* [mutant] stop() closes the sockets and leaves their paths.
CloseOnly(p) ==
    /\ running' = [running EXCEPT ![p] = FALSE]
    /\ servers' = [servers EXCEPT ![p] = {}]
    /\ UNCHANGED path

\* stop(): unlink does not ask whose socket a path names.
Stop(p) ==
    /\ running' = [running EXCEPT ![p] = FALSE]
    /\ servers' = [servers EXCEPT ![p] = {}]
    /\ path' = [l \in Lanes |-> None]

\* SIGINT or SIGTERM.  The handler returns to where the main thread stood.
Signal(p) ==
    /\ Alive(p)
    /\ Stop(p)
    /\ signalled' = IF pc[p] # "starting" /\ signalled[p] = "none"
                      THEN [signalled EXCEPT ![p] = Phase(p)] ELSE signalled
    /\ UNCHANGED <<pc, todo, overlapped>>

\* [mutant] An update is handled without a look at self.running.
NeverBreaks(p) ==
    /\ pc[p] = "subscribed" /\ running[p]
    /\ Goto(p, "subscribed")
    /\ UNCHANGED <<running, todo, servers, path, signalled, overlapped>>

\* An update of PotholeView arrives, and is the last: `if not self.running`.
Update(p) ==
    /\ pc[p] = "subscribed" /\ ~running[p]
    /\ Goto(p, "leaving")
    /\ UNCHANGED <<running, todo, servers, path, signalled, overlapped>>

\* What the process held in memory is gone with it.
Dies(p, how) ==
    /\ Goto(p, how)
    /\ todo' = [todo EXCEPT ![p] = {}]
    /\ signalled' = [signalled EXCEPT ![p] = "none"]
    /\ UNCHANGED overlapped

\* The finally clause of the script.
Exit(p) ==
    /\ pc[p] = "leaving"
    /\ Stop(p)
    /\ Dies(p, "gone")

\* SIGKILL: the sockets close, the paths stay.
Kill(p) ==
    /\ Alive(p)
    /\ running' = [running EXCEPT ![p] = FALSE]
    /\ servers' = [servers EXCEPT ![p] = {}]
    /\ Dies(p, "killed")
    /\ UNCHANGED path

Step(p) == StartRuns(p) \/ UnlinkOld(p) \/ Bind(p) \/ BindFails(p) \/ Exit(p)

Next == \E p \in Procs :
    \/ Launch(p) \/ Step(p) \/ Update(p)
    \/ SubscriptionRaises(p) \/ Signal(p) \/ Kill(p)

Spec == Init /\ [][Next]_vars

\* The main thread goes on wherever it does not wait.  Updates are owed by
\* nobody: the value of PotholeView may stay as it is for ever.
FairSpec == Spec /\ \A p \in Procs : WF_vars(Step(p))

\* The same, for a PotholeView that changes again and again.
FairUpdateSpec == FairSpec /\ \A p \in Procs : WF_vars(Update(p))

-----------------------------------------------------------------------------
(* Properties                                                              *)

\* "Each bridge service exposes a Unix Domain Socket": the only instance
\* alive, its sockets made and no signal received since, is at every path.
ServiceExposed ==
    \A p \in Procs :
        /\ pc[p] = "subscribed" /\ running[p]
        /\ \A q \in Procs \ {p} : ~Alive(q)
        => \A l \in Lanes : path[l] = p

\* The same, as long as every instance waits for the one before to be gone,
\* killed or not, and whenever it was sent a signal.
ExposedInOrder == ~overlapped => ServiceExposed

\* As long as they do, bind finds its address free, whatever the instances
\* before left behind and however they ended.
AddressIsFree ==
    ~overlapped => \A p \in Procs : pc[p] = "binding" => path[NextLane(p)] = None

\* However instances overlap, a path names a socket that is open and whose
\* acceptor thread has not been told to stop, unless its instance was killed or
\* got a signal while it made its sockets: stop() leaves no path to a socket it
\* has closed.  (An acceptor thread that ends by itself, when accept or
\* Thread.start raises, is no matter of stop(): see PotholeFeeder.)
PathsAnswered ==
    \A l \in Lanes, p \in Procs :
        path[l] = p => \/ pc[p] = "killed"
                       \/ signalled[p] = "making"
                       \/ l \in servers[p] /\ running[p]

\* "Stop the feeder": an instance that was sent a signal ends.  (start() undoes
\* a signal that came before it: `self.running = True`.)
StopCompletes ==
    \A p \in Procs : signalled[p] # "none" ~> ~Alive(p)
=============================================================================

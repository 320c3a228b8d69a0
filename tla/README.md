# Verification of the MATLAB connectors

TLA+ models of the programs under `matlab-connector/`: the bridges between the
KUKSA broker and a Simulink model (`dreamkit`, the pothole alert) and the
generated program of the smart wipers (`starter-kit`). TLC checks the models on
small instances, TLAPS proves the properties marked *proved* for every value of
the constants. Paths below are relative to `matlab-connector/`; the scripts of
the pothole alert are in `dreamkit/c_caller/`.

## The system

Pothole alert, a loop through four processes and a broker:

    simulate_pothole.py --set--> KUKSA broker <--set target-- hazard_listener.py
                                   |     |                        ^
                          subscribe|     |subscribe               | one connection
                                   v     v                        | per value
                      pothole_feeder.py  steering_feeder.py       |
                                   |     |  one connection        |
                                   v     v  per read              |
                     Simulink model (da_connector.c), step by step

Smart wipers: broker -> `uds_publisher.py` -> generated program (`ert_main_base.cpp`
with its step thread, `da_connector.cpp`) -> UDP to the motor.

| Component | State | Operations | What is hard |
|---|---|---|---|
| `hazard_listener.py` | last value published, latest received, two events, tasks | accept, receive and store, publish, start, stop | three kinds of tasks interleave at awaits; a memory of what the broker shows; shutdown in the middle of everything |
| `da_connector.c` | none between calls | `uds_read`, `uds_write`, getters, setter | timeouts on one side only; a closed peer; a full queue |
| `pothole_feeder.py` | a Boolean per lane, lock, sockets, threads | subscribe, accept, serve, start, stop | update of several lanes against reads lane by lane; threads that end; paths shared by successive instances |
| `steering_feeder.py` | an angle, lock, socket | as above with one socket | a signal closes the socket in the middle of `start()`; stale angles over restarts |
| `simulate_pothole.py` | place in its sequence, stop event | set views, clear at the end | a stop between a test and a call; calls that raise |
| `PotholeAlertModel.slx` | none between steps | read lanes and angle, decide, write | inputs read one after the other |
| `uds_publisher.py` | latest message, last mode | subscribe with a change filter, serve | filter against restarts and None |
| generated program | overrun flag, stop flag, error status, threads | main, step thread, reads | stop and join against a step that waits without a timeout |
| `serializer.cpp`, `udpcom.cpp` | receive buffer | CAN frame to and from bytes, datagrams | lengths, byte order, bytes never written |
| `SSHExecutionTool.m` | managers, configuration | open, load, start, stop | one step of several fails unnoticed |
| `setup_rpi.sh` | none | a sequence of commands | `set -e`, the wait for the broker |

The component list of `PROJECT.json` says what is modelled; its hazard list names,
line by line, what could go wrong and which property would show it.

## Modules

| Module | Models |
|---|---|
| `HazardSignal` | Abstract: the broker shows outputs of the model, never an older one than it shows |
| `HazardListener` | `hazard_listener.py`, `da_set_hazard_signal`/`uds_write`, the broker's side; implements `HazardSignal` |
| `HazardListenerProofs` | its proofs |
| `PotholeReadings` | Abstract: what the model reads of a value at the broker never comes from an older one than what it read before |
| `PotholeFeeder` | subscription, lock, acceptors and handlers of `pothole_feeder.py`; `uds_read` with the getters; implements `PotholeReadings` |
| `PotholeFeederProofs` | its proofs |
| `BridgeRestart` | start, stop, signals and paths of successive or overlapping instances of `pothole_feeder.py` |
| `BridgeRestartProofs` | its proofs |
| `SteeringFeeder` | `steering_feeder.py` over the life of its processes, `uds_read` with `da_get_steering_angle`; implements `PotholeReadings` |
| `SteeringFeederProofs` | its proofs |
| `PotholeSimulator` | `simulate_pothole.py` |
| `PotholeSimulatorProofs` | its proofs |
| `PotholeAlert` | the composition: views and wheel, a step of the model, the broker's hazard signal, over `PotholeReadings` (twice) and `HazardSignal` |
| `PotholeAlertProofs` | its proofs |
| `WiperProgram` | `uds_publisher.py`, `da_connector.cpp`, main and step thread; implements `PotholeReadings` |
| `WiperProgramProofs` | its proofs |
| `MC...` | constants of each model for TLC |

Definitions marked `[mutant]` are forms of the definition after them that a
plausible mistake would give. No specification uses them; each is put in place
of its original to see that the property named in `PROJECT.json` notices.

### HazardListener

An action is what a task does between two awaits, so every interleaving that
asyncio can produce is a behaviour, and so are some it cannot produce (any order
of ready tasks of different kinds).

- `phase` is where `main`, `start` and `listen_socket` stand: `down`,
  `connecting` (in `connect_kuksa`), `accepting`, `sleeping` (after an accept
  error), `closing` (the loop left, the publisher awaited).
- `handlers` are the `_handle_client` tasks in the order of their creation. A
  task that found data runs in that order; one that found none is `blocked`.
- `publisher`, `call` and `failed` are `_kuksa_publisher`: the wait, the call in
  progress (before and after the broker applied it), the outcome of the last one.
- `pending`, `valueChanged`, `last`, `shutdown` are the attributes of the class.
- `writer` and `backlog` are the model's `uds_write` and the socket's queue.
  A connection is its content: nothing yet, a value, or end of file.

A value is named by its *epoch*, the number of times the output had changed. The
code compares signals only (`SameSignal`), which alternate with the epoch. That
is no restriction: equal consecutive outputs are the same epoch, sent again.

Abstracted: text and decoding of a message (the Boolean it yields), prints, the
kinds of exception. `connect` that is refused loses a value and is a stuttering
step. The model has one writer, as the Simulink model has one hazard block.

### PotholeFeeder

A Boolean is named by the *view* it was computed from; 0 is the `False` of
`__init__` and also the 0.0 of a failed read, which the code does not tell apart.
The update takes the lock, stores lane by lane and releases it; handlers need the
lock; the model reads one lane after the other in any order. `queue` holds the
connections not accepted per lane, `gone` when their reader timed out. `socket` or
`setsockopt` may fail before a read connects (`NoSocket`, here and in the other
readers), which reads as 0 like any failed read.

### BridgeRestart

Instances share the lanes' paths. The main thread's `pc` follows the script from
the installed handlers through `start()` to the `finally` clause; a signal runs
`stop()` between any two of its steps and returns. `bind`, `listen`, the acceptor
thread and the entry in `self.servers` are one step.

Two history variables let the properties name their exceptions instead of
restricting the behaviours: `overlapped` (an instance was started before another
had gone) and `signalled` (whether the first signal after `self.running` was set
came while the sockets were made, or later). A signal before that is in the
model and is undone by `start()`, `pothole_feeder.py:173`: it is not recorded,
and the process serves on.

An acceptor thread that ends because `accept` or `Thread.start` raises is in
`PotholeFeeder`, not here: that a path names a socket in `servers` whose instance
is `running` says that the socket is open and that nobody has told its acceptor
to stop.

### SteeringFeeder

The feeder's process is one record, and `NoProcess` what is left when it is
gone; a new instance begins with it. `steering_feeder.py` differs from the
pothole feeder where it matters to signals: `self.server_sock` is set before
`bind`, so that `stop()` in the middle of `start()` closes a socket that is not
bound yet, and `bind` raises. The model's one read is `stage`; the connections
it gave up that wait before it are counted by `ahead`. An angle is its number in
the order of setting, 0 the 0.0 of `__init__` and of a failed read. Instances
follow one another here; those that overlap are in `BridgeRestart`.

`close()` does not wake a thread that is in `accept()`; such a thread takes one
more connection, if one waits, and ends. `Signal` has both outcomes.

`asked`, a history variable, is the angle that the feeder held when the current
read connected; `FreshAnswer` says that its answer is no older, however many
given-up connections the acceptor takes first.

### PotholeSimulator

`pc` follows `main` and `run_simulation` between the calls to the broker and the
waits on the event; a signal sets the event between any two of them. `views` is
what the broker was set to, with what it had before as its first element: a
clear view, one of an earlier run, or a text that is no dictionary. A call may
raise before or after its effect.

The docstring (`simulate_pothole.py:131`) has a clear view after each lane; the
entries for it are commented out (`:146`, `:154`). The model follows the code:
the last zone stays until the other lane's first.

### PotholeAlert

The composition does not contain the scripts but what their modules show them to
implement: a step's readings of a lane take `PotholeReadings!Read` over the
views, its reading of the angle the same over the positions of the wheel, and
`HazardSignal!Publish` brings the output to the broker. In between, `Parsed` and
`LaneHasPothole` are the feeder's, `NothingRead` is the 0.0 of a failed read, and
`Decides` is the block diagram: `angle < -5` and left, or `angle > 5` and right.
It is in `dreamkit/model/PotholeAlertModel.slx`, a zip archive without lines to
name, which is why the map of `PROJECT.json` has it as external.
The blocks may execute in any order. A view is the set of the zones it says true
(`Garbled` if it does not parse), and an angle is left, right or neither.

The fairness of the composition is what the liveness runs of the parts show:
`ReadingsCatchUp` and `NeverStale` for the readings, `FollowsModel` for the
output. Their restrictions (live acceptors, no broker that loses values, no
call that is applied and raises) carry over.

Safety over the whole loop: `OutputOfOneView` is about one step, `NoFlicker`
about how often the outputs of all steps change, and `NoFalseAlarm` about what
the broker shows, which may be an output of long ago.

### WiperProgram

`main` follows `ert_main_base.cpp` from `extmodeWaitForHostRequest` to its return,
`stepper` the step thread through `runThread`, `loop`, `rt_OneStep` and, inside
the step, `uds_listen`. A failed `extmodeInit` goes on without a request, as the
code does. A mode is named by its number in the order of setting; the filter of
the publisher compares the modes themselves (`ModeOf`). `seen`, a history
variable, is the newest mode a step has read: with it the program implements
`PotholeReadings`, over publishers that end and are started again. Command-line errors end
the program before anything happens and are left out; so are logging and time.

## Runs

All of them end in less than a minute.

| Run | Question | Instance |
|---|---|---|
| `hazard_order` | Does a value ever overtake another, or a wakeup get lost, under any two faults (no overtaking tasks)? No; and `HazardSignal` is implemented. | 3 outputs, queue of 2, 2 tasks, 2 faults; 700 thousand states |
| `hazard_coherent` | Is the publisher's memory right, is a value that the broker shows already never published again, does the broker come to follow the model, does a signal end the process (no lost reply, no broker restart)? Yes. | as above, 1 fault; 230 thousand states |
| `hazard_stale_memory` | The same promise to follow the model with those two faults. **Violated**: `_last_hazard` is compared although the broker shows something else. Each of the two faults alone is enough. | 3 outputs |
| `feeder_reads` | Are readings in order across lanes, do they catch up, do timed-out reads do harm, does every read end if its lane has an acceptor? Yes. | 2 lanes, 2 views, queue of 2, 2 faults |
| `feeder_dead_acceptor` | Does every read end? **Violated**: an acceptor thread that ended leaves a bound socket whose queue fills, and `connect` has no timeout. | 1 fault |
| `restart` | Overlapping or not, with signals and kills at any point: do instances in order find their paths free and show up at every path, does a path of a living instance ever name a socket that `stop()` has closed (but for a signal in the middle of `start()`), does a signal end an instance (given updates)? Yes; no; yes. | 3 instances, 2 lanes; 85 thousand states |
| `restart_unexposed` | Overlapping instances: is the only one left alive, if nobody sent it a signal, at every path? **Violated**: `stop()` unlinks paths that another instance has made. In the trace a second instance gets a signal before its `start()`, unlinks the paths of the first, which serves, and is killed. An older instance that ends late does the same to its successor; the shortest trace is the other one. | as above |
| `restart_lingers` | Does a signal end an instance if `PotholeView` stays as it is? **Violated**: nothing wakes the subscription. | as above |
| `wiper_program` | Is the model terminated only between steps, does no step overrun, are modes read in the order of setting, do steps come to read the mode, does a stop end the program (unless its last step stays in the queue of a publisher that lost its acceptor)? Yes. | 5 modes with a repetition and a None, 2 faults; 22 thousand states |
| `steering_feeder` | Signals in the middle of `start()`, errors, kills, new instances: are angles read in order, is no answer older than its question, is none read for ever once it is stale, does a signal shut the socket for good, do reads end? Yes. | 3 angles, 3 instances, queue of 2; 27 thousand states |
| `pothole_simulator` | Signals, kills and failing calls: do potholes come nearer row by row, is at most one zone set after a signal, is the last view clear, does it end? Yes. | 0, 1 or 2 loops; 5.7 thousand states |
| `pothole_alert` | With views and wheel changing while a step reads: is each output what one view asks for, does it change no more often than what is read, is no alarm made up, and does the broker come to show what the last view and the wheel deserve? Yes. | 2 views of 5 kinds, 1 turn, 1 failed read; 230 thousand states |

**Bounds.** A queue of two connections can be empty, hold one given up before the
current one, and be full. Three outputs are enough for a value, its opposite and
the value again, the shortest history in which a comparison of signals can go
wrong; two views give an old and a new one, and the proofs cover the rest. Two
faults let one hit the recovery from another. Three instances: one that went, one that goes, one that
comes. Two lanes: one that is made and one that is not, one that is stored and
one that is not. Five modes: a repeated one (filtered), a change, a last `None`.
Three angles and three instances: the angle a dead instance left in a socket, the
one a new instance subscribes at, and a newer one. Two loops: a sequence that
follows another; `MaxLoops` cuts the infinite one where nothing new can happen.
Two views in a step are enough for the two lanes to come from different ones,
and the proof covers any number.

Deadlock is checked for the hazard path and for the composition. It is not where
the system may stop: when a lane of a feeder has lost its acceptor, or its
instance got a signal in `start()`, and its reader waits in `connect`; when all
instances are used up; and when a program has ended.

**Fairness.** Weak fairness for what a running thread, task or event loop does by
itself: accept, serve, store, publish, the steps of a start and of an end, the
broker's answer, the model that keeps stepping. Strong fairness only for the
model's reads of each lane, which it begins in every step, and in `PotholeAlert`
for readings of the newest value, which is what the parts promise. Nothing is owed by operators
(starts, signals, restarts), by clients that set values, by faults. That an
update of `PotholeView` ever comes is assumed in `FairUpdateSpec` only;
`restart_lingers` is the run without it.

## Proofs

Seven modules, checked from nothing in a few minutes. Assumptions on constants
are those the modules state (`BoundAssumption`, `ValueAssumption`, ...), which TLC
evaluates too. A theorem about a restricted set of faults says so with ASSUME.

- `HazardListenerProofs`: `TypeCorrect`, `PublisherNeverSleepsOnWork`,
  `OpenConnectionIsNewest`, `ValuesStayInOrder`, `ListenerImplementsHazardSignal`,
  `CacheIsCoherent`, `CallsAreActualChanges`, `OnlyOutputsAreShown`,
  `ReceivedIsShown`, `ShutdownOnlyAdvances`. `InOrder` is not inductive by itself: that a value sent now is the newest of all needs `OpenIsNewest` (the
  connection on which it is sent is the last one of the queue and of the tasks),
  and that a store keeps order needs that the oldest task runs first, which is
  what the fault `overtaking` takes away. The refinement follows from `InOrder`:
  the target is set to a call that is not older than it. `CacheCoherent` needs
  that while a call is applied and not recorded, the broker shows the call. With
  `NoLostWakeup` it gives `ReceivedIsShown`: a publisher at rest has the broker
  show what was received last, unless its last call raised.
  What is left of `HazardSignal` when tasks overtake each other, replies are
  lost and the broker restarts is `NothingInvented`, which is inductive: the
  broker may then show an older output, never one there was not.
- `PotholeFeederProofs`: `FeederTypeCorrect`, `OneConnectionIsLive`,
  `FeederImplementsReadings`, `ReadsOnlyAdvance`. The strengthening for the refinement says where an
  older value may still be: outside an update all lanes hold one view, in an
  update some hold the next one and no handler reads, and what is carried in a
  connection is not older than what was read. `OneLiveConnection` is inductive;
  it is also why an accept brings the current read nearer to its end, and not
  only one that was given up.
- `BridgeRestartProofs`: `RestartTypeCorrect`, `PathsAreAnswered`,
  `AddressesAreFree`, `ServiceIsExposed` (of `ExposedInOrder`),
  `StopOnlyAdvances`. The strengthening
  says which lanes an instance has made at each point of its loop, and that only
  one is alive while none has overlapped.
- `SteeringFeederProofs`: `SteeringTypeCorrect`, `StopIsFinal`,
  `SteeringImplementsReadings`, `AnswersAreFresh`, `OpenSocketIsServed`,
  `ReadsOnlyAdvance`. `Shut` says that a signal before the socket is
  made leaves no trace and one after it is final. `Order` says that the angle
  moves on from broker to subscription, attribute, thread and model, and that a
  new subscription starts no further back than what the model may still get from
  an instance that is gone. `Fresh` strengthens `FreshAnswer` by the stages
  before the answer is fetched: the angle the feeder holds is not older than
  `asked`, because it only advances while its instance lives (`AngleAdvances`).
  `OpenIsServed` is the invariant behind `ReadEnds`: a socket that listens has
  its thread, or a step is owed that closes it. The odd case is a signal before
  the socket is made, after which `start()` goes on without a thread; what ends
  that instance is the first update, which needs that the subscription has not
  delivered it yet.
- `PotholeSimulatorProofs`: `SimulatorTypeCorrect`, `PotholesComeNearer`,
  `StopsWithinOneZone`, `SimulatorEndsClear`, `EndOnlyComesNearer`. The strengthening ties the last view
  to the place in the sequence, and says that a late zone leaves the loops.
- `PotholeAlertProofs`: `AlertTypeCorrect`, `AlertIsOfOneView`,
  `LightsDoNotFlicker`, `NoAlarmIsMadeUp`. For the second, the invariant
  gives each lane read so far a view of this step that accounts for it. The two
  views may differ: the decision depends on one lane only, the one the wheel
  points to, and that is the view the theorem names. `LanesAreColumns` shows that
  the feeder's tuples of zones are the columns of the grid. `NoFlicker` is far from inductive: `Pace` keeps a
  budget of changes, and says that either the output is the one due for a pair
  of readings, or there is a change to spare; what was read in the current step
  is a view's or the wheel's, or a failed read left two changes to spare.
  `NoFalseAlarm` needs `Grounds`: once the output has changed at all, some view
  and angle that were read deserved an alarm, and the broker shows no output
  that was not made.
- `WiperProgramProofs`: `WiperTypeCorrect`, `TerminatesAfterLastStep`,
  `StepsNeverOverrun`, `WiperImplementsReadings`, `SpeedIsOfAMode`,
  `StopOnlyAdvances`. The flag of `rt_OneStep` is set exactly while the step
  thread is in it, and the thread exists exactly when main has started it. `Order` strengthens the
  refinement: the mode moves on from broker to subscription, message, handler
  and step, and a publisher that starts again starts no further back.

Only model-checked: liveness (`FollowsModel`, `ShutdownCompletes`,
`ReadingsCatchUp`, `ServedReadEnds`, `StopCompletes`, `NeverStale`, `ReadEnds`,
`SimulatorEnds`, `LightsFollowRoad`, `FollowsMode`, `StopEnds`), which needs
ENABLED and is out of the prover's reach.

For six of them the argument short of fairness is proved: a distance from the
end that no step of anyone increases, faults included, that the fair steps
decrease, and what the process waits for if none of them can be taken.

| Property | Proved for every value of the constants | Left to TLC |
|---|---|---|
| `ShutdownCompletes` | `ShutdownOnlyAdvances`: `Distance`, at most 3; one of the steps of `Ending` has its guard | that fair steps are taken |
| `StopEnds` | `StopOnlyAdvances`: `StepsLeft`, at most 7; main waits for nothing else | as above, and that a living publisher has its acceptor |
| `SimulatorEnds` | `EndOnlyComesNearer`: `StepsLeft`, 24 for each loop left and a constant | that fair steps are taken |
| `StopCompletes` | `StopOnlyAdvances`: the lanes to be made, then `Rank`; a stopped instance owes a step | that fair steps are taken, updates among them |
| `ServedReadEnds` | `ReadsOnlyAdvance`: `ReadLeft`, at most `Backlog` + 7 | that `Accept` or `Reader` can be taken |
| `ReadEnds` | `ReadsOnlyAdvance`: `ReadLeft`, at most `Backlog` + 6, and `OpenSocketIsServed` | that fair steps are taken |

Of `FollowsModel`, the safety half is `ReceivedIsShown`. The state functions and
action properties of this table are in the proof
modules, beside their theorems; they are no property of a run.

## Limits

- The broker, the network and the Simulink models are environment: what they do
  is what the code in the repository can see of it.
- Real time is left out. A timeout may come whenever its wait is under way, so
  properties hold for any lengths of timeouts, and the 100 ms or 0.5 s of the
  code are not checked to be good choices.
- A mode, an angle and, in `PotholeFeeder`, a view are numbers in the order of
  publication. The text of a view is left out: that `literal_eval` reads what
  `build_pothole_string` writes is assumed, and a text it cannot read is `Garbled`.
- A center lane is served by the feeder and read by nobody; `PotholeAlert` has it
  in `LaneZones` only.
- Two readings of one step may come from two views; `OutputOfOneView` says why
  no output shows it.
- While tasks of the hazard listener overtake each other the broker may show an
  older output; `FollowsModel` says that it comes right, nothing says when.
- A signal before `running = True` in `start()` is lost. The model has it; no
  property promises that the process ends after it.

## Not modelled

- `serializer.cpp`, `udpcom.cpp`: a stateless conversion to bytes and one datagram
  per step, without an answer. What the bytes should be is the receiver's
  business, which is not in the repository.
- `RTthreads.hpp`'s arithmetic of the period: the sleep time depends on clock
  readings, and no other state depends on it.
- `SSHExecutionTool.m`: MATLAB's target framework decides which method follows
  which `errFlag` and owns the processes behind the managers; a model would be
  about our guess of it.
- `setup_rpi.sh` and the MATLAB project scripts: straight-line configuration by
  an operator, without state of its own.
- Configuration and generated code of the `.slx` and `.mlapp` files: binary, or
  MATLAB's. Of `PotholeAlertModel.slx` the block diagram is modelled.

Next steps, should the code grow: overlapping instances of `steering_feeder.py`
(its paths behave as those in `BridgeRestart`), and a composition with the
detailed feeders in place of their promises.

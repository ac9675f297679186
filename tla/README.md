# A TLA+ model of ur_rtde

`ur_rtde` controls a Universal Robots arm from a host over TCP. A C++ library on
the host talks to three servers of the robot's controller (RTDE, script and
dashboard), to a gripper, and to a script it uploads,
`scripts/rtde_control.script`, which is the other half of the protocol. This
directory models the parts of that system where things go wrong between two
machines or two threads, model-checks them on small instances and proves their
safety properties, and two refinements, for every instance.

Paths below are relative to the repository's root.

## 1. Inventory

| Part | State it keeps | Operations | Talks to | What is hard |
|---|---|---|---|---|
| Command handshake: `RTDEControlInterface::sendCommand` and the script's main loop | command register, RDY/DONE register, `executing_cmd`, `internal_cmd`, cached state, clocks | 60 command functions, `stopScript`, `reuploadScript` | controller over RTDE input and output registers | stale cached registers, timeouts with late answers, script replaced or dead, contact thread |
| Command functions, recipes, packing | input and output registers | every command function, `RTDE::send`, the branches of `process_cmd` | controller, script | four tables in two languages, registers that keep old values, version filter |
| Asynchronous operations of the script | `move_thrd`, `stop_thrd`, `stop_type`, `async_wr_count`, `async_op_id`, status word | moves, stops and paths, synchronous or not; `getAsyncOperationProgress(Ex)` | main loop of the script; host through output register 2 | thread interleavings, killed threads, wrapping counters, restarts |
| State stream: `RTDE::receiveData`, `RobotState` | byte buffer, map of variables, mutex | framing, skipping, update under lock | receive threads, every getter | partial packages, look-ahead, torn reads |
| RTDE session and receive thread of the control interface | socket, `conn_state_`, `stop_thread_`, `th_`, `should_reconnect` | constructor, `reconnect`, `disconnect`, `receiveCallback`, catch block of `sendCommand` | controller, client thread | one message per reply whatever its type, two threads reconnecting, flags never reset |
| `RTDEReceiveInterface` | receive and recording threads, speed-scaling ramp | start and stop recording, reconnect, getters | session | stop flags, waits, version gates |
| `RTDEIOInterface` | a session | setters, reconnect | session | shared registers, masks, writes to a broken link |
| `ScriptClient` | socket, script text, injections | filter by version, inject, send | script server | line filter |
| `DashboardClient` | socket, deadline timer, `input_buffer_` | one request, one reply | dashboard server | late and split answers, one timer for all waits |
| `RobotiqGripper` | socket, mutex, calibrated limits | activate, calibrate, move, poll | gripper server | polling a device that moves, two threads |
| External control: `TCPServer`, `ScriptSender` | client sockets, `select` sets, pipe, `keep_running_` | accept, read, write, shutdown | UR Cap on the controller | shutdown race, split requests |
| Utilities, enumerations, logging, Python bindings, examples, tests | none of interest | | | |

The properties that make the parts correct: a reported success means that the
robot did it, an answer belongs to its question, commands take effect in order
and once and with their own arguments, nothing waits for ever, one mover at a
time, a status that ends, a status word that says what was written, a session
that starts only when it was set up completely, threads that end when told to,
no socket used after it was reset, a framing that loses no byte, a state that is
never a mixture of two packages.

`PROJECT.json` lists the hazards with their lines.

## 2. Modules

| Module | Models | Code it stands for |
|---|---|---|
| `CommandService` | what `sendCommand` promises to its caller | abstract specification |
| `ControlProtocol` | command handshake | `sendCommand` (2185-2355 of `src/rtde_control_interface.cpp`), `reuploadScript`, the script's `rtde_cmd`, `process_cmd` and main loop, `contact_thread` |
| `CommandRegisters` | what a command carries | every command function, `setupRecipes`, `RTDE::send`, the branches of `process_cmd`, `ScriptClient::removeUnsupportedFunctions`, `RTDEIOInterface` |
| `AsyncProgress` | asynchronous operations, status word | script 71-236 and 479-565, 889-902, `Path::toScriptCode`, `movePath`, `AsyncOperationStatus` |
| `StateFeed` | what the state promises to the getters | abstract specification |
| `RobotState` | table of variables and types | `src/robot_state.cpp`, unpacking in `rtde_utility.h` |
| `RtdeStream` | framing and storing of packages | `RTDE::receiveData`, `connect`, `RobotState::getStateData`, `getRtdeFrequency` |
| `ControlSession` | set-up, receive threads, reconnection | constructor, `reconnect`, `disconnect`, `receiveCallback`, catch block of `sendCommand`, `RTDE::receive` |
| `ReceiveInterface` | threads of `RTDEReceiveInterface` | constructor, `receiveCallback`, `reconnect`, `disconnect`, recording |
| `ReceiveGetters` | recipes and getters of it | `setupRecipes`, all getters, `getSpeedScalingCombined` |
| `Dashboard` | `DashboardClient` | `src/dashboard_client.cpp` |
| `RobotiqGripper` | the gripper client | `src/robotiq_gripper.cpp` |
| `ControlProofs`, `RegisterProofs`, `AsyncProofs`, `StreamProofs`, `SessionProofs`, `ReceiveProofs`, `DashboardProofs`, `GripperProofs` | theorems about the modules each one extends (section 4) | |
| `MC...` | the instances for TLC | |

How they fit: `ControlSession` sets up the connection in which `RtdeStream` cuts
packages out of bytes; `RtdeStream` implements `StateFeed`, which is the view of
the stream that `ControlProtocol` has (its `Deliver` and `SkipPackage` are
`StateFeed`'s `Show`: whole packages, in order, some left out). `ControlProtocol`
implements `CommandService`, the view that a caller of `sendCommand` has of robot
and library, and is the handshake around the registers whose contents are `CommandRegisters`'
subject; `AsyncProgress` is what some of the commands do inside the script.
`RobotState` is shared by `RtdeStream` and `ReceiveGetters`.

### ControlProtocol

`pc`, `cmd`, `id`, `reupload`, `ret` are the client thread in `sendCommand`; one
action per evaluation of a loop condition or of a loop body, so that the cached
state can change between the two. `writes` is the TCP stream to the controller,
`inReg` the input register, `spc`, `cur`, `executing`, `internal`, `armed`,
`outReg`, `outVal` the script; `packages` is the TCP stream back and `state` the
cached `robot_state_`. A command is its name; a call is numbered, and the number
travels with the write as a history value that no guard reads. Data registers
are abstracted to the number of the call that filled them.

* The script's main loop is cut where the outside can see a difference: before
  and after `process_cmd` of a regular command, and between `signal_done_with_cmd`
  and `signal_ready` of a realtime command. Both writes of a realtime command
  fall into one controller cycle; that the RTDE server samples between them is
  the fault `slice`.
* `RobotStops`, `RobotReleased`, `ScriptDies`, `Sample`, `ReceiveWrite` are the
  controller, which is not part of the repository. They are as liberal as the
  code allows for: a stop may pause the program or not, and be released into a
  running or an ended program.
* `Upload` stops what runs and sends a script; the sending may fail, which leaves
  no script running, or, where nothing was stopped, everything as it was
  (`UploadFails`).
* A run is `clean` (undisturbed) until a call gives up on a command it has sent,
  a contact fires, the script is replaced, DONE of a realtime command is sampled,
  or a command is sent that the two sides put into different classes. It is
  clean again when a call starts in a quiet system (nothing in flight, RDY
  everywhere). Properties about answers are stated for clean calls, because the
  others fail: section 5 lists the configurations that show how.

Refinement: `Service` maps the handshake to `CommandService`. A call is open from
the entry of `sendCommand` to its return, a command is begun when `process_cmd` takes
it and processed when it signals DONE, `trusted` is `clean`. Everything in between,
the registers, both TCP streams, the cached state, the polling, is invisible. In a
disturbed run `CommandService` promises only the order of the commands, that one is
begun once per upload, and that no two are in work at a time; a call makes up for a
disturbance only when no command is in work.

Left out: the custom-script flags of `sendCommand`. Its catch block (reconnect and
send again) and the constructor's waits are in `ControlSession`, arguments and
their checks in `CommandRegisters`, the bytes of the stream in `RtdeStream`.

### AsyncProgress

`mpc` is the main thread inside `process_cmd`, `thr[n]` the thread that command
`n` started, `moveThrd`, `stopThrd`, `stopType` the script's globals, `wrCount`,
`opId`, `reg` the counters and the packed status word. `enter_critical` sections
are one action. The word is a number with the script's shifts, and the host's
masks are applied to it; the moduli 128 of the two counters are constants so
that TLC can make them wrap. A path stops and uploads the script: all threads
vanish and the globals start over (`StopScript`, `Boot`, `PathCommand`).
`seen` and `missed` follow a host that compares status words.

### CommandRegisters

A register holds who wrote it, in which call and as what argument; values are left
out. `Functions` is the set of command functions with type, recipe and the order
of their arguments; `Recipe` is `setupRecipes`; `Pack` is the order in which
`RTDE::send` packs integers, doubles and again integers; `ScriptBranch` has for
every command the registers that its branch of `process_cmd` reads and writes and
the version that its lines are kept for. `Call`, `Finish`, `ScriptRegularCmd`,
`ScriptRealtimeCmd` are the handshake of `ControlProtocol` reduced to its order.
`SetDigitalOut`, `SetAnalogOutput`, `SetSpeedSlider`, `SetInputIntRegister` and
`SetInputDoubleRegister` are the setters of `RTDEIOInterface` with their masks;
`IoLinkChanges`, `IoIsLost` and `IoReconnect` are its connection, lost, used while
lost, and set up again. A write that finds the link broken is not sent again: the
catch block of `RTDEIOInterface::sendCommand` calls `RTDE::disconnect` in the state
CONNECTED, which sends a pause first and so throws again. The type byte of an analog
output is 1 for a voltage and is not shifted by the output number as the mask is, so
that a voltage on output 1 is sent as a current (section 5). What a controller does
with a package whose size does not fit its recipe (it is thrown away) is an
assumption about the controller. So is that the type bit of an analog output
concerns only the output whose mask bit is set. Output numbers are below 32, because
they are shift counts of an unsigned int.

### StateFeed, RobotState and RtdeStream

The bytes of a connection are numbered; `buffer_` is the range `base .. top - 1`.
A decoded variable is the place its bytes were taken from, so that a variable cut
out of the wrong bytes is visible. `ReadSome` delivers any number of bytes,
`Take` and `Skip` are the turns of `receiveData`'s loop with the look-ahead as the
code computes it, `Store` and `Stored` go through the output names with the lock
held, `GetStateData` is a getter of any thread, `Deadline` the expired read and
`Connect` the next connection. `elbow_position` is in the instance's recipe
because the code can unpack it but the table lacks it: it is not consumed, and the
variables behind it are not decodable. The getters of the model read decodable
names only; the recipe is assumed to name a variable once and to name only what
`rtde_utility.h` unpacks (`RecipeAssumption`).

Refinement: `View` maps a variable to the package whose bytes it has; a package
counts as shown from the moment its lock is taken. Only decodable variables are in
`StateFeed`'s `Names`. `FeedIsImplemented` is `StateFeed`'s specification as a
property of `RtdeStream`. `getRtdeFrequency` reads from the same socket; when it
takes bytes out of the middle of a message, `framing` becomes false and nothing
more is modelled on that connection.

### ControlSession

`step[a]` and `req[a]` say where actor `a` is in the constructor or in `reconnect`:
actor 0 is the client thread, the others are receive threads, which reconnect by
themselves. `inbox` holds the messages nobody has read; `receive()` takes the next
one for the reply, so a text message shifts every later reply. `conn`,
`stop_thread` and `th` are shared. A null `socket_` that is used sets `crashed`,
after which nothing happens. `RTDE::disconnect` sends a pause first when the session
is CONNECTED and not STARTED, and on a lost link that write may throw
(`PauseThrows`): the exception leaves the catch block, ends the receive thread or the
client's call, and the socket stays. `mode` is the upload, the waiting and the not waiting
variant of the constructor. `Replies`, `TextMessage`, `LinkLost` and
`ProgramStartsOrEnds` are the controller.

### ReceiveInterface and ReceiveGetters

`ReceiveInterface` has one receive thread per construction or reconnection, the
recorder and the client; the count of empty polls is kept, because it alone leads
to the read that finds a dead link. The constructor starts after its set-up, which
is the one of `ControlSession`. A session whose start was refused is CONNECTED; when
its link breaks, the pause that `RTDE::disconnect` sends may throw out of the catch
block of `receiveCallback`, and the program ends (`CatchThrows`). `ReceiveGetters` has the recipe as a function of
version and register range, each getter as the pair of key and type, and the ramp
of `getSpeedScalingCombined` in steps of its increment. That function reads the
product of the two speed variables once to cap the ramp and once more to decide
whether it has ended; packages may be stored in between, so that the two products are
independent (`now` and `later`). The history variable `rising` says whether the values
since the last pause are still on their way to the target: `steady` until a call
returns the target it read, `dropped` once a package has lowered the target between
the two reads of a call, which may end the ramp early (section 5). The two modules describe one object and share no
variable; `ReceiveProofs` extends both, which is why the specification of the getters
is called `GettersSpec`.

### RobotiqGripper

Every function is a sequence of exchanges (GET or SET under the mutex) and polling
loops; `pc[t]` names the exchange a thread is at, `stage[t]` the function that
called. `DeviceActivates`, `DeviceTakesOver`, `DeviceArrives`, `DeviceReleases` are
the device, whose fingers stop where they were sent or anywhere on the way, opening
as well as closing. `closedAt` is a history variable: where the last closing ended.
An answer to `getVars` may come in pieces, because one `receive` takes what is there;
after that (`cut`) answers are shifted and the properties say nothing.

`open()` and `close()` convert an end of the range into the client's unit, and `move`
converts it back in a step of its own (`Convert`): `max_position_` is read twice
without the mutex. Values of the client are counted in half steps, so that `roundf`
and the cast to `int` have something to round. `autoCalibrate` writes `max_position_`
twice when it has closed on something, the second time to take off the slack
(`TakeSlack`), so that it may leave a range that is upside down or negative.
`alone[t]` holds while no other thread has changed what the call of `t` relies on:
another thread's SET ends it, and so does a calibration of another thread that stores
a position. The slack of `autoCalibrate` is smaller than the range (5 of 255 in the
code).

Left out: `connect` and `disconnect`, `setUnit`, `setNativePositionRange` and
`setPositionRange_mm` (the unit is chosen once and the range is the native one until
a calibration), speed and force, which go with the position in one SET, and the
answer '?' of a device that has no such variable.

### Dashboard

`pc`, `op`, `todo` are the call in progress; `deadline` and `wake` the timer and
the wait of the persistent actor `check_deadline`, which runs only inside a call;
`due`, `wire` and `input_buffer` are answers not yet sent, on their way, and begun
to be read. `got` and `asked` are numbers of lines, so that an answer that belongs
to another request shows.

## 3. Runs

| Run | Checks | Shows |
|---|---|---|
| `control` | `SuccessMeansExecuted`, `AnswerIsFresh`, `IdleMeansDone`, `AtMostOnce`, `InOrder`, `ServiceIsImplemented` | three calls out of a getter, a realtime command and a contact command, all five faults, two incidents; the refinement of `CommandService` |
| `control_live` | `UndisturbedCallReturns`, `ReadyAgain` | two calls with dying scripts and contacts, the UR Cap variant, no clocks |
| `contact_lost` | `ContactIsProcessed` | violated: a contact is dropped while `executing_cmd` is set |
| `async` | `TypeOK`, `OneMover`, `RunningIsAnswered`, `WordIsDecoded`, `EqualMeansUnchanged`, `RunningEnds` | three commands of every kind, paths of two waypoints, counters modulo 3 and 4 |
| `registers` | `ArgumentsArrive`, `AnswerIsWritten`, `Separate`, `OutputsAsAsked` | every pair of command functions on a 5.10 controller, with IO calls, lost IO links and reconnections in between |
| `stream` | `BufferAligned`, `FirstStateMeansData`, `NewestWhenQuiet`, `FeedIsImplemented` | three packages and a text cut everywhere, two getters, a reconnection; the refinement |
| `receive` | `SocketIsThere`, `NoWriteAfterClose`, `LossIsNoticed`, `WaitReturns` | two reconnections and two recordings with links that break at any point |
| `getters` | `GettersServed`, `RampIsGradual` | a version on either side of every gate; sequences of calls with all runs of states and targets for the ramp, with packages between its two reads |
| `gripper` | `AnswersMatch`, `DoneMeansThere`, `OpenedIsOpen`, `CalibrationCoversTheEnds`, `CallReturns` | two threads, both units, a device that may stop anywhere on its way, opening or closing |
| `session` | `StartedMeansSetUp`, `SafeUntilLost`, `ClosedMeansQuiet`, `CallEnds` | all three modes, two receive threads, text messages, refusals, lost connections |
| `session_unsafe` | `SafeToAccess` | violated: a receive thread has passed its check of `stop_thread_` and `isConnected`; the client's `sendCommand` finds the link lost and its catch block resets the socket; the read after the check uses it |
| `dashboard` | `AnswerIsOwn`, `TimeoutIsOwn`, `CallReturns` | four requests of every shape, reconnections, silent and closing servers |

**Bounds.** `MaxCalls` 3: a call that gives up, a call that meets its remains,
and a third that shows whether the confusion lasts. `MaxIncidents` 2: a contact
or stop followed by an upload. `MaxWrites` 2 (a command and its clear) and
`MaxPackages` 1 give every order of delivery against one delayed package; the
live run uses 2. TCP does not reorder or duplicate, so the streams are queues.
For `async`, three commands are enough for a kill of a kill; with counters
modulo 3 and 4 they wrap several times in a run.

* `registers`: `MaxCalls` 2, because an argument can only be stale from the call
  before that filled the register, and all pairs of functions are tried; `MaxOps` 3
  leaves a loss or an IO call in between. `IoIds` {1, 8} is an output and a number
  past the byte.
* `stream`: three packages are what skipping needs (one in hand, one thrown away,
  one shown). `MaxReads` 2 for an order between two reads.
* `receive`: `EmptyPolls` is 1 instead of 20, which only shortens the count.
* `getters`: targets 0, 1 and 3 increments, so that the ramp meets its target from
  below, at once, and after a fall of it.
* `gripper`: positions 0..2 with a slack of 1, so that fingers stop at an end, at
  least the slack away from it or nearer, and the slack can push a limit below 0; two
  calls in all, because a third thread or call meets the same mutex.
* `session`: `MaxThreads` 2: the thread of the constructor and the one that a
  reconnection starts beside it. `MaxTexts` 1 per set-up: one message shifts all
  later replies. The constraint `OverlapBound` follows two set-ups at the same time
  only to their first reply. Two set-ups overlap only after a connection was lost,
  and then none of the four properties says anything, so that no state is cut off
  that could violate one; `session_unsafe` has no constraint.
* `dashboard`: four lines sent, for a timeout, a reconnection (which reads the
  welcome line), and a request that could get a late answer.

No symmetry is used. `CHECK_DEADLOCK FALSE` stands where bounds, or a client that
calls nothing more, end a behaviour.

**Fairness.** In `control_live`: weak fairness for the client thread, the receive
thread, the delivery of register writes and the main loop: each is a loop that only
waits for a cycle or for a thread's time slice. Strong fairness for `Sample`,
because the controller sends a package in every cycle whatever the script does in
between, and for the clocks, which once expired stay so but are only looked at in a
loop's body. The live run has no clocks (`timeout` is not among its faults), so that
its properties do not rest on them. A stop's release is not fair: nobody promises
it. In `async` the main thread and every script thread is weakly fair. In
`receive`, `session` and `dashboard` every thread of the library is weakly fair in
what a begun call or a receive loop does next, and nothing is fair about beginning a
call, about the controller, the link or the server; the dashboard's timer expires,
because it is a clock. In `gripper` the device goes on with what it was told, and
`Send` is strongly fair, because a thread that polls releases the mutex between two
exchanges and a mutex is handed out in the end.

**Mutants.** For every property of a passing run `PROJECT.json` names a
plausible change of the code (the wait for RDY left out, the clear forgotten, a
kill without its last word, two integers packed in the wrong order, a read without
the lock, a join left out, a deadline not set, ...) under which TLC finds the
property violated.

## 4. Proofs

`ControlProofs` (for every set of commands and faults and all bounds):

* `TypeCorrect`: `Spec => []TypeOK`.
* `CallOrder`: `Spec => InOrder`, from `OrderInv`. Call numbers grow along the way
  client, `writes`, `inReg`, `started`; a write that is not of a regular command
  carries no claim. Needed because the register is overwritten at any time.
* `ExecutedAtMostOnce`: `Spec => []AtMostOnce`, from `OnceInv`: a started command
  that is still in the register is guarded by `executing_cmd`, through stops,
  deaths and contacts; an upload starts a new count.
* `SuccessIsReal`: `Spec => []SuccessMeansExecuted`, and `IdleIsDone`:
  `Spec => []IdleMeansDone`, from `CleanInv` and `SuccessInv`. In a clean run the
  system is in one of two shapes. While a call waits (`WaitInv`) there is no DONE
  anywhere until its own command has been processed, and then no other one in
  the stream. Otherwise (`RestInv`) the streams hold a monotone sequence: a RDY
  is followed only by RDY, so that a call that sees RDY sends into a system
  without an old DONE. The wait for RDY is what makes it inductive; the mutant
  `AnyState` drops it.
* `GettersAreFresh`: `Spec => []AnswerIsFresh`, adds `FreshInv`: in a clean run the
  output register of a call that has seen DONE is its own.
* `HandshakeIsAService`: `Spec => ServiceIsImplemented`. Every step of
  `ControlProtocol` is under `Service` a step of `CommandService` or a stutter, one
  lemma per action. It rests on all the invariants above and on `ServiceInv`: a getter
  reads only after a success (`ReadInv`), in a clean run a script that has begun no
  command has not begun the command of this call (`AgainInv`), and every answer on its
  way is the answer to a call that was made (`ValueInv`). The interesting steps are
  the beginning of a command, where `CleanInv` shows that the command taken from the
  register is the one its caller waits for, and the return, where it shows that it is
  done.

`AsyncProofs` (for every number of commands and waypoints, counters up to 128):

* `AsyncTypeCorrect`, `HostDecodes`: types, and the packed word decodes to the
  counters, from the lemma `WordParts` about the shifts and masks.
* `OneThreadMoves`: `Spec => []OneMover`, from `MoverInv`: a thread that is not
  through is the one its handle names, and where `process_cmd` stands tells which
  handles it has cleared.
* `RunningHasOwner`: `Spec => []RunningIsAnswered`.
* `ComparingIsSound`: `Spec => []EqualMeansUnchanged`, from `SeenInv`: until the
  counter has come round, it tells how many writes were missed.

`RegisterProofs` (for every controller version, every set of functions, any number
of calls and IO calls):

* `ArgumentsAreGenuine`, `AnswersAreWritten`, `InterfacesAreSeparate`:
  `Spec => []ArgumentsArrive`, `[]AnswerIsWritten`, `[]Separate`, from one inductive
  invariant `RegistersInv`. Its part `CommandInv` says that a command in register 0
  is there together with all the registers of its call, which is what makes stale
  arguments impossible although registers keep old values; `WaitInv` ties a waiting
  call to its command and to the output registers of its branch; `SepInv` says who
  wrote what. That a step establishes `CommandInv` rests on the constant lemma
  `AllFit`: the package of every function has the length of its recipe, and
  everything its branch reads is at the place where the package has it, except the
  `tcp_offset` that `getForwardKinematics(q)` does not send (`Unsent`). It is
  proved by giving recipes a normal form (`RecipeIs`: integers, doubles, integers),
  packages the same (`JoinedUp`), and one lemma per kind of argument list.
* `OutputsAreAsAsked`: `Spec => []OutputsAsAsked`, from `OutInv` with `MaskBits` (the mask
  of an output has its bit and no other, and none for a number past 7) and `TypeBits`
  (the type byte has at most bit 0, which is right for every output and type except a
  voltage on output 1; that case is excepted, see section 5).

`StreamProofs` (for every recipe, every number of packages and every way to cut the
bytes):

* `ReceiveKeepsItsPlace`, `QuietIsUpToDate`, `FirstStateIsData`:
  `Spec => []BufferAligned`, `[]NewestWhenQuiet`, `[]FirstStateMeansData`, from
  `StreamInv`. `AlignInv` says that the buffer begins at a message and ends within
  what was sent, `StoreInv` that the package being stored is the one cut out last,
  `QuietInv` that nothing whole is left in the buffer when the loop has ended,
  `ShownInv` and `FreshInv` which package every variable comes from.
* `StreamImplementsFeed`: `Spec => FeedIsImplemented`. Every step of `RtdeStream`
  is under `View` a step of `StateFeed` or a stutter; the interesting one is `Store`,
  which is invisible because the lock is held. Where a message ends is a sum over the
  messages before it; its monotonicity needs an induction, which is done over the set
  of counterexamples and the well-foundedness of `<` on the naturals.

`SessionProofs` (any number of receive threads and text messages):

* `SessionIsSafe`, `ClosedIsQuiet`: `Spec => []SafeUntilLost`, `[]ClosedMeansQuiet`,
  from `LiveInv`: before a loss only the client is in a set-up, at most one receive
  thread is alive and none while the client connects.
* `StartedIsSetUp`: `Spec => []StartedMeansSetUp`, from `AloneInv` and `ShiftInv`:
  the replies that have been taken are, up to the shift by text messages, those of
  the requests that were sent. Without the first part another actor could take them.

`ReceiveProofs`: `SocketsAreThere` (`Spec => []SocketIsThere`, from `SocketInv`: which
threads may be alive at each step of the client) and `RecordsToAnOpenFile`
(`Spec => []NoWriteAfterClose`). About `ReceiveGetters`, for every set of versions of
the CB3 and e-Series and every set of speeds:

* `RampRises`: `GettersSpec => RampIsGradual`, from `RampInv`: while the values are on
  their way to the target (`rising` is `steady`), `pausing_state_` is RAMPUP. Without
  it a step could start from a state in which the ramp has ended below the target,
  and the next value could be anything.
* `GettersAreServed`: `GettersSpec => []GettersServed`. With the version and the range
  in its type (`ServedInv`) it is inductive; what has to be shown is a fact about three
  tables, that every getter's key has its type in `RobotState`, and is
  in the recipe unless one of the version gates leaves it out. Register names are
  concatenated strings, which are opaque to the provers: that they differ from each
  other and from every plain name is `RegisterNames`, an assumption without free
  constants that TLC evaluates.

`DashboardProofs`: `TimeoutsAreOwn` (`Spec => []TimeoutIsOwn`, from `TimerInv`: the
deadline belongs to the wait that runs) and `AnswersAreOwn`
(`Spec => []AnswerIsOwn`, from `LinesInv`: the lines due, on the wire and in the
buffer follow the last one read, so that only an abandoned wait can shift them).

`GripperProofs` (any threads, positions and slack): `AnswersAreMatched`,
`DoneIsThere`, `OpeningOpens`, `CalibrationFindsTheEnds`, from
`GripperInv`: `OwnInv` (who holds the mutex owns the answer on the wire), `DeviceInv`
(what the device's registers say of each other and of `closedAt`), `GoalInv` (what
each call asks for; for `open()` and `close()` only while nobody else has changed the
range between their two reads, `Undisturbed`), `MotionInv` (where an undisturbed call
stands, the device has got at least as far, and a calibration that opens again has a
`max_position` at most the slack below `closedAt`) and `RangeInv` (the stored range).

The only assumptions are on the constants (`ConstantsAssumption`, `AsyncAssumption`,
`RegistersAssumption`, `RecipeAssumption`, `BoundsAssumption`, the two
`BoundAssumption`, `DashboardAssumption`, `GripperAssumption`, `GettersAssumption`):
types, bounds that are natural numbers, a recipe without repetitions, output numbers
that can be shifted by, a slack smaller than the range, the controller families 3 and
5 (`README.md:76-77` of the repository); and `RegisterNames` about strings. TLC
evaluates them in every run.

Only model-checked: the liveness properties (`UndisturbedCallReturns`,
`ReadyAgain`, `RunningEnds`, `LossIsNoticed`, `WaitReturns`, `CallEnds` and the two
`CallReturns`), because the prover has no fairness. Every safety property of a
passing run is a theorem.

## 5. Further configurations

These configurations are not part of the runs above. Each checks one stronger
property that a caller, a comment or a doc would suggest and that the code does not
keep; TLC finds the violation. They are the reason for the conditions in the properties above.

| Configuration | Property | What TLC shows |
|---|---|---|
| `MCSuccessLost.cfg` with `MCControl` | `SuccessMeansExecutedAlways` | `process_cmd` signals DONE for the internal command 254 too (script 1108): a command that arrives meanwhile finds DONE, returns true and is cleared before it is read |
| `MCServoC.cfg` with `MCControl` | `ReadyAgain` | SERVOC is realtime for the host (`rtde_control_interface.cpp` 2225) and not for the script (1134): after `servoC` the script waits for a clear that only the ready timeout sends |
| `MCJointTorques.cfg` with `MCControl` | `RealtimeAnswerIsFresh` | `getJointTorques` (1829) reads its registers as soon as the command is written, so it returns those of an earlier command |
| `MCForwardKin.cfg` with `MCRegisters` | `ArgumentsArriveAlways` | `getForwardKinematics(q)` (1885) sends no TCP offset and the script reads one all the same, from registers of an earlier command |
| `MCAsyncSyncPath.cfg` with `MCAsync` | `RunningMeansAsync` | a synchronous path leaves the running bit set (2421; `rtde_control_interface.h:93`: "1 - async op. running, 0 - async op. finished") |
| `MCAsyncPathId.cfg` with `MCAsync` | `OperationIdStable` | the first waypoint announces progress 0 and changes the operation id (script 100; `rtde_control_interface.h:129`) |
| `MCAsyncStop.cfg` with `MCAsync` | `StopsAsAsked` | `exec_stopl_stopj` never looks at its command: `stopL` runs `stopj`, and after an asynchronous stop `stopJ` runs `stopl` (script 225; `rtde_control_interface.h:338`: "Stop (linear in tool space)") |
| `MCAnalogType.cfg` with `MCRegisters` | `AnalogTypesAsAsked` | `setAnalogOutputVoltage` (`rtde_io_interface.cpp` 257) sets the type byte to 1 and not to the bit of its output: a voltage asked for on output 1 is a current |
| `MCRampReads.cfg` with `MCGetters` | `RampEndsAtTheTarget` | `getSpeedScalingCombined` (`rtde_receive_interface.cpp` 922-924) reads the target twice: with 3 increments and then 0 the ramp ends at 1, and the next call returns 3 |
| `MCGripperRange.cfg` with `MCGripper` | `RangeIsUpright` | fingers that close on something less than the slack from where they open to leave `max_position_` below `min_position_` (`robotiq_gripper.cpp` 168-184) |
| `MCGripperRace.cfg` with `MCGripper` | `EndsAreAskedFor` | a calibration of another thread between the two reads of `max_position_` (`robotiq_gripper.cpp` 433/438, then 391) makes `open()` or `close()` ask for another position |

Seen while modelling and stated by no property: `should_reconnect` makes the old
receive thread reconnect in every later turn; with an uploaded script
`waitForProgramRunning` throws past a running receive thread (`ClosedMeansQuiet`
leaves that mode out); `RTDEReceiveInterface::reconnect` waits for a first state
that a link lost again never brings (`WaitReturns`); a second recording on the same
object ends at once, because `stop_record_thread` stays set; after the dashboard
server has closed the connection `isConnected` stays true, and a failed `connect`
returns without an error; `setUserRole` falls through its cases, so every role is
sent as "restricted"; `parseSafetyStatus` takes AUTOMATIC_MODE_SAFEGUARD_STOP for
SAFEGUARD_STOP, which it looks for first.

## 6. What is not modelled, and the plan

Not modelled:

* `src/urcl` (TCPServer, ScriptSender, sockets, logging): a copy of the
  ur_client_library project, used to hand out the script.
* Custom scripts (`sendCustomScript` and its flags in `sendCommand`), and the edits
  of the script's text (injections, heartbeat placeholders): the script is then no
  longer the one that is modelled.
* Servo, speed, force and jog threads of the script, which only loop over a motion
  and do not touch the status word.
* Dashboard enumerations, logging, Python bindings, thread priorities, the
  priority-inheritance mutex: text tables, output and latency.
* Floating-point values, units, kinematics and motion, which belong to the
  controller; validity ranges of arguments are the choice between `Call` and
  `Reject`.
* The stream after `getRtdeFrequency` has taken bytes out of a message, and two
  overlapping set-ups past their first reply in the passing run.

Worth doing next: that `ControlProtocol`'s `Deliver` and `SkipPackage` are steps of
`StateFeed`, which would join the two refinements into one from the bytes to the
caller (the order of packages is not in `ControlProtocol`'s state, it needs numbered
packages for that); and a model of the custom-script flags of `sendCommand`.

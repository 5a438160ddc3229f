# A verification development for slonk

slonk is the controller of a student rocket engine (Rust, one process on a
Raspberry Pi). It reads sensors through analog to digital converters, switches
drivers (valves, igniters) on GPIO lines, talks JSON over TCP to one dashboard,
and runs two procedures: an *ignition* and an *emergency stop*. This directory
holds TLA+ modules translated from its source, the TLC runs that check them on
small instances, and TLAPS proofs of the properties that matter most.

Paths below are relative to the repository (`src/execution.rs` is what
`PROJECT.json` calls `src/src/execution.rs`).

## 1. Inventory

| Component | Source | State | Operations |
|---|---|---|---|
| State guard | `state.rs` | one `State` behind an `RwLock` | `status`, `move_to` (a table of legal transitions) |
| Command execution | `execution.rs` | position in a sequence, the level of each driver line, the mutex around the lines | `handle_command`, `ignition`, `emergency_stop`, `perform_actions`, `actuate_driver` |
| Command dispatch | `server.rs` (`handle_client`) | the client being served | greet with the configuration; parse; spawn a thread for `Ignition`/`EmergencyStop`; run `Actuate` in place |
| Command framing | `incoming.rs` | brace depth, string and escape flags, a buffer | `Command::parse` |
| Dashboard channel | `outgoing.rs` | the current `TcpStream` behind an `RwLock`, `sent.csv` behind another | `send`, `has_target`, `set_channel` |
| Sensor threads | `data.rs` | rolling averages, log buffers, readings to transmit | `sensor_listen`, `write_sensor_log` |
| Driver status thread | `data.rs` | last known levels | `driver_status_listen` |
| ADC over SPI | `hardware/mod.rs`, `hardware/spi.rs` | bus pins behind a mutex, chip select pins | `Device::transfer`, `Mcp3208::new`, `Mcp3208::read` |
| Configuration | `config.rs` | immutable once parsed | `Configuration::parse` |
| Start-up, accept loop, shut-down | `server.rs` (`run`) | the thread scope, the listener | create logs and hardware, spawn threads, accept clients |
| Heartbeat, user log, errors, executables | `heartbeat.rs`, `console.rs`, `lib.rs`, `bin/` | a pin, a file | output only |

**How they meet.** `run` spawns, in one `thread::scope`, a heartbeat thread, one
sensor thread per group and the driver status thread, and then accepts clients
on the main thread. Each `Ignition` or `EmergencyStop` gets a thread of its own
in the same scope, and so does every reading that takes a rolling average out of
range. All of these share the state guard, the mutex around the driver lines
and the dashboard channel; nothing joins or cancels a procedure thread.

**What is hard.** The guard knows states, not callers: a procedure obtains any
transition the table allows, whoever set the current state. Sleeps in
procedures last seconds, so anything may happen between two steps. A message is
many writes to an unbuffered socket with no timeout. Clients replace each other
and break at any point. A failed write or a poisoned lock ends a procedure
half-way and the error is discarded.

**What makes each part correct.**

- *Guard and execution*: one ignition at a time; an engine that is not in standby
  has somebody who will lead it out; an emergency stop ends with the lines as the
  shutoff sequence leaves them, however many stops overlap; a stop before the
  burn prevents the burn.
- *Channel*: messages arrive whole, unmixed, to the connection that is current;
  a connection that failed is not used again; the log of sent messages is true;
  the dashboard that is sent data is the one whose commands are read; a new
  client is served in the end.
- *Framing*: the stream is cut exactly where the JSON objects end.
- *Sensor threads*: no reading lost from, or repeated in, the log; only the newest
  reading is transmitted, once; no emergency stop without an illegal reading; fast
  sampling from the first moment of a burn, though the period of a nap is chosen
  before it.
- *Status thread*: the levels it reports are those the lines have.
- *All of them together*: procedures get the driver lines, and clients the main
  thread, in the end.
- *SPI*: the value returned is the sample of the channel and the ADC that were asked
  for, whatever happened on the bus before.
- *Configuration*: what passes validation does not make start-up fail or panic.
- *Start-up, shut-down*: whatever an earlier run left behind and however two runs
  interleave, no run writes to another's log, no two drive the engine, outputs start
  at safe levels, and line indices are those of the configuration; no claim is
  waited for.

`PROJECT.json` lists the hazards line by line.

## 2. Modules

| Module | Models | Checked by | Proved in |
|---|---|---|---|
| `EngineState` | the guard's table and `move_to` | as part of the next two | as part of `ExecutionProofs` |
| `Execution` (extends `EngineState`) | procedures, client commands, sensor-triggered stops | `MCExecution` | `ExecutionProofs` |
| `Controller` (instantiates `Execution` and `Outgoing`) | the two in one process, and `driver_status_listen` | `MCController` | `ControllerProofs` |
| `Outgoing` | the channel, its three kinds of sender, the accept loop, the dashboard | `MCOutgoing` | `OutgoingProofs` |
| `Delivery` | abstract: what the channel promises | as a property of `Outgoing` | `OutgoingProofs` |
| `Framing` | `Command::parse` in the loop of `handle_client` | `MCFraming` | `FramingProofs` |
| `Sensor` (extends `EngineState`) | one group's thread, its naps and clocks | `MCSensor` | `SensorProofs` |
| `Spi` | `Mcp3208::read` and `Device::transfer`; the MCP3208 as an external part | `MCSpi` | `SpiProofs` |
| `Config` | `Configuration::parse`, and what `run` derives from a configuration | as part of the next | lemmas in `ConfigProofs` |
| `Startup` (extends `Config`) | `run` from its arguments to the end of its scope, in processes that start, die and start again; the heartbeat | `MCStartup` | `StartupProofs` |

The `MC...` modules only add the sequences, symmetry sets, configurations and other values TLC needs.
Definitions whose comment starts with *Mutant* are slips that a programmer could
make in the definition that follows; no specification uses them. They show
that each property depends on the code: put in place of the original, the
property fails.

### Execution

`pc[t]` is where a spawned thread is (`ignition`, `pre_ignite`, `burn`,
`post_ignite`; `estop`, `shutoff`; or `free`), `next_action[t]` the action of its
sequence it performs next. One call of `move_to` or one action is one step, as
the code holds no lock for longer. `level` is what the driver lines carry,
`lines_lock` the mutex around them, which can be poisoned: the check in
`handle_command` is `driver_id > drivers.len()`, so the id `drivers.len()` panics
with the lock held, and configuration checking has the same comparison. `main`
records that panic. Sleeps are steps that take effect whenever the scheduler
likes, which covers every duration. A slot of `Thread` is reused when its thread
ends: the set bounds how many procedures overlap, not how many happen.

`writer`, `stopped`, `estopped` and `aborted` are history: who wrote a line last,
which ignitions were under way when a stop took over, whether any stop has
taken over, and whether a procedure was abandoned between its transitions. No
action reads them. The rows of the command log are left out; the program never
reads them.

### Outgoing and Delivery

`pc[s]` follows each sender through `send`: waiting for the lock, writing parts of
the message, writing the fields of a row of `sent.csv`. The main thread has a place for each
thing it may stop at: it accepts a client (`accept`), logs it and clones its stream (`accepted`), waits
for the channel in `set_channel` (`attach`), logs that (`attached`), greets the client (`send` on)
and reads its commands (`reading`). Where a `?` follows, `AcceptLoopEnds` is possible; in
`set_channel` it is not. `peer`
is the dashboard's side of each connection: it connects, may stop reading for a
while (writes then block, since the socket has no timeout), and closes. A write
to a closed connection may succeed until the reset arrives, as in TCP. Both logs
may fail, under the threads in `LogFaults`. `Delivery` has no threads, parts or locks: a message is delivered to
the current connection whole, or that connection is given up. `Outgoing`
implements it with `current <- channel` and `got` the messages each connection's
writes amount to; a mixed or repeated one would be `"garbled"`, which `Delivery`
never delivers.

### Controller

The variables of `Execution` and `Outgoing` side by side (`pc` of the latter as
`sender_pc`), and the actions of both, constrained where the threads are the
same: a command arrives only while the main thread reads from a client; a
sensor-triggered stop comes only from a sensor thread that is not blocked in
`send`; a panic in `Actuate` also ends the accept loop; the status thread takes
`lines_lock` when it starts a report and gives it back when its `send` returns.
`ImplementsExecution` maps `held` to `free` and says that a behaviour of the
controller is one of `Execution`. The status thread may end on a poisoned lock or a failing
`drivers.csv`. With `Outgoing` the relation is looser, since a panic of the main thread and
the end of the status thread are steps that `Outgoing` does not have: what it promises of
messages and the log survives them, `TargetIsServed` does not, which is why the controller
has `ServedUnlessPanicked`: after the panic the sensor threads go on sending to a dashboard
whose commands nobody reads. `NoCircularWait` is why a stalled dashboard is all that can
hold a lock for good: whoever has the lines is sending, and whoever has the channel writes to
a connection or logs.

### Framing

One step is one byte, of the five kinds that `parse` tells apart. The reference
(`Ends`, `Escaped`, `InString`, `Count`) defines the end of a command by counting
over the whole text. Whether `serde_json` accepts the object is not modelled.

### Sensor

The loop of `sensor_listen`: read each sensor, transmit if due, flush full
buffers, sleep. A reading is known by its number. Averages are integers, in units of
`1 / Scale`, in place of `f64`: a new average is the quotient of integer division, off by any amount up to
`Rounding`. Take `1 / Scale` for the last place of the numbers at hand, and `Rounding` for as many places as the
few operations on `f64` in one update may be off. (With a width of one the code multiplies by zero and divides by
one, which is exact; `RoundingAssumption` says so.) Which value the
ADC shows and whether it answers are free choices;
the state is moved by others along the guard's table. The buffers written out
in one `FlushLogs` are the thread's own, so the writes need no step each. Every
sensor of the model has a range and the same width; a sensor without a range
is one that never stops anything. The thread also ends when `sent.csv` cannot be written
(`TransmitFails`); what it has buffered then never gets to a log.

Time passes in ticks. `age` is the time since the iteration began, `nap` what is left
of the sleep at the end of the loop, `untransmitted` the time since
`last_transmission_time`, `pre_ignited` how long the engine has been in `PreIgnite`, from
which `ignition` moves it only after `pre_ignite_time`. `Delay` bounds the work of an
iteration and how late a nap may end. This is an assumption about the machine
and the dashboard: a dashboard that stops reading stops the sensor threads too (run
`controller_stall` shows the same for the status thread), and nothing here speaks of
timing then. `PreIgniteAssumption`, that pre-ignition outlasts a
standby period and a delay, is what the procedure's delay is for; validation does not ask for it.

### Spi

A read is one transfer under the bus mutex, so the model is sequential: select,
then for each of 24 bits write MOSI, raise the clock, read MISO, lower the clock,
then deselect. Each pin operation may fail, upon which `transfer` returns and
leaves the pins as they are. The next read may be of any ADC and channel. The
MCP3208 is external and modelled from the comments in `Mcp3208::read`: edges of
chip select and clock move it, and what it drives is named by ADC, channel and
bit. Two ADCs that drive at once give `"other"`. The null bit test is passed by
an ADC's own null bit, and may be passed by anything else.

### Config and Startup

A configuration is a record of the fields that control depends on. `Parse` makes the
checks of `Configuration::parse` in their order and returns the first error;
`LineRequests` and `Threads` are the lines and threads that `run` derives from the configuration, in its
order. A label is what `run` makes of it, a part of a path: a sequence of the names between its slashes. `ConsolePath`,
`GroupPath`, `SensorPath` and `FinalPath` push labels onto the logs path as the code does (an absolute one replaces it), and
`Trail` is where the file system goes by them, so that `..`, `.` and empty names, and different paths to one place,
mean what they do there. `DirBlocked` and `FileBlocked` say when `create_dir_all` and
`file_create_new` fail, given the files and directories that exist; `Refuses` are the names that no file system
takes. `PathsClash` is a run whose own paths block each other. `GroupOf` is the group that a thread works for: `group_id as u8` keeps
one of `GroupIds` values, 256 in the code, while the log files are those it was spawned with. `AdcAccepts` is the assertion of `Mcp3208::new` with its division
in whole nanoseconds; `PanicsAtStart` and `MayPanicLater` are the divisions by a frequency
and the subtraction from a width, and `MayPanicLater` also the log file that a wrapped group id lacks.

`Startup` has any number of processes that share a file system, a chip and a port. `pc`
is where a main thread is: making the logs path, creating the console log, parsing, making directories and log
files group by group, creating the other logs, requesting lines, spawning, binding, serving, or joining the scope after the accept loop has ended. One log file or one line
is one step, since each is one system call; so is one `create_dir_all`, which in truth makes one directory after
another and, when it fails, may leave some of them behind. What a process leaves behind (files, and the levels of lines)
the next one finds; lines and the port are released. A process may be killed at any
step. Every claim may fail: `Fault` returns the error from `run`; a line that is held
or absent is refused; and a look-up that fails (`LookupFails`) is dropped for ADCs and drivers,
as `flat_map` does with an `Err`, and returned for the others. In the scope, `threads` are those
that still run, `panicked` whether one panicked (which makes the scope panic when it joins),
and the heartbeat, commands and readings flip the levels of lines. `opened` and `made` (the files and directories a process has created) and `disturbed` (it met a
fault, or a file, line or port of another) are history.

## 3. Runs

| Run | Instance | Shows |
|---|---|---|
| `exec` | 3 overlapping procedures, 1 driver, GPIO faults | `StateHasOwner`, `IgnitionExclusive`, `EStopSettles`, `PreIgnitionStopHolds`, `ReturnsToStandby` |
| `controller` | 1 procedure, status and sensor thread, 1 client, all faults, an ignition sequence that names driver `drivers.len()` | `StatusIsCurrent`, `NoCircularWait`, `ServedUnlessPanicked`, `ImplementsExecution`, `ThreadsEnd` |
| `outgoing` | sensor, status and main thread, 2 clients, 2 writes per message, 2 reports, log faults under the main thread | `LogMatchesWire`, `TargetIsServed`, `DeliversWholeMessages`, `ClientsAreGreeted` |
| `framing` | every stream of at most 7 bytes, one I/O error anywhere | `CutsAtFirstEnd` |
| `sensor` | 1 sensor, 4 loops, width 2, averages in halves that may be off by one, buffers of 2, faults; naps of 2 ticks and 1, a delay of 1, pre-ignition of 4 | `LogIsComplete`, `SendsNewestOnce`, `EStopHasCause`, `SamplesInTime` |
| `spi` | 2 ADCs, 2 channels, any number of reads, GPIO faults | `CleanReadIsRight`, `SelectionHasCause` |
| `startup` | 2 logs paths; 2 processes for three small configurations; 1 process for a sound one with one edit, or two, and for a small one with each of 15 ways to label its sensor groups; 2 group ids; all faults | `LogsAreOwn`, `ControllersExclude`, `StartsSafe`, `AcceptedStarts`, `StartsOrStops` |

and five runs that end in a counterexample, each a place where the code does not do
what the repository says of it (section 6).

**Why these bounds are enough.** The races of `Execution` are between two
procedures and a third that changes the state under them: the ABA case of
`PreIgnitionStopHolds` needs a stopped ignition, the stop, and a second ignition.
One driver that the shutoff sequence sets twice already has an intermediate
level, which is where `EStopSettles` could fail. Two writes per message make
"half a message" possible, two clients replacement, three senders contention for
the lock both with and without the main thread. With two clients and two reports, the main thread
comes to `set_channel` while reporters write to the client before it, or wait for it to read, and to its greeting while
they write to the client it has just attached. Log faults under the main thread make it
leave a client that is still there; the controller has them under every thread. Seven bytes hold an object with
a string that contains an escaped quote, or a doubled backslash before its end.
Four loops hold two flushes, an empty buffer, and an average that has left the
range and is on its way back, or has been rounded out of it; the sensors of a group share nothing
but the order in which they are read. The controller needs one procedure and one message
of another thread to have every pair of lock holder and waiter: main greeting
while the status thread waits with the lines in hand and a procedure waits for
them. Contention among reporters, replacement of clients and overlap of
procedures are the business of the two modules it is made of. `Spi` has no bounds but
its ADCs and channels; channels 2 and 5 differ in every bit of the command.
A slow nap of two ticks in a pre-ignition of four, with a delay of one, is the tightest the
assumption allows. Two processes have every order of two start-ups, with a kill
or a fault between any two claims, in the same logs path and in different ones. Each edit of the
sound configuration breaks one check of `parse` or falls into one gap between its checks and
what start-up needs. The labels lead up, down, to the root, nowhere, to each other's files and to
names the file system refuses; some of them get away with it. Three sensor groups are one more than there are group ids.

**Deadlock** is checked for `Execution` and `Spi`. `Controller`, `Outgoing`, `Sensor` and `Startup` really stop: dashboards
close all connections and reporters reach their bound, a thread ends, or every process is over; `Framing` stops at
the end of the stream. Their configurations say `CHECK_DEADLOCK FALSE`.

**Symmetry** is used for `Adc` in `spi`, which checks no liveness.

**Fairness.** `Execution`: weak fairness of each procedure thread's steps, since the
operating system runs every thread that can run and every sleep ends. Commands
and measurements need not come. `ReturnsToStandby` excepts engines in which a
procedure was abandoned: then, by the code, nothing moves the state.
`Outgoing`: strong fairness of what each thread does without a fault and without a client (`GoesOn`).
For a thread that computes this is no
more than weak fairness. For one that waits for a lock it says that a lock which
is free again and again is obtained: Rust's locks promise no order, but all that
take one for long (the reporters) sleep for a whole period in between. For one
blocked in a write it says that the write goes on if the dashboard reads again
and again. That a log may fail does not count as going on: no step that a fault offers is ever owed, so
a thread that is stuck cannot be rescued by one. The dashboard owes nothing; `ClientsAreGreeted` is
stated under the hypothesis that no connection is stalled for good, because a
stalled one does hold up everything (run `controller_stall`).
`Controller`: the same for its threads, and strong fairness of each procedure; `ThreadsEnd` has the same hypothesis.
`Startup`: weak fairness of each main thread's own steps. Starts, kills, faults, the end of
an accept loop and the end of a thread need not come. `StartsOrStops` counts a process
that waits for the threads of its scope as arrived: that wait need not end (section 6).
`Sensor`, `Framing` and `Spi` are checked for safety only.

## 4. Proofs

Thirty-three theorems, in eight modules. They state
every invariant, every action property and both refinements that the runs check, for every
value of the constants that the named assumptions allow. None uses fairness, and
liveness is left to the runs. The strengthenings of `Execution` and `Startup` were
model-checked before they were proved.

Where an assumption is more than the type of a constant, it is about the surroundings:
`PreIgniteAssumption` (`Sensor`) is discussed in section 2; `ChipAssumption` (`Startup`) is that the chip has
the lines which `parse` allows, GPIO 2 to 27 (the header of the Raspberry Pi);
`ConfigurationAssumption` that a configuration is a record of the fields named in `Config`; `DirAssumption` that a logs path is
a sequence of names, and `NamesAssumption` that the file system takes the names of the four logs every run has. `RoundingAssumption` (`Sensor`) is that
averages of width one are exact.

### ExecutionProofs

For every number of threads and drivers, every ignition and shutoff sequence, with and
without GPIO faults:

| Theorem | Property |
|---|---|
| `TypeCorrect` | `TypeOK` |
| `EveryStateHasAnOwner` | `StateHasOwner` |
| `IgnitionsExclude` | `IgnitionExclusive` |
| `StopDuringPreIgnition` | `PreIgnitionStopHolds` |
| `EmergencyStopsSettle` | `EStopSettles` |

- *Types* are inductive as they stand.
- *Owners*: `TypeOK /\ StateHasOwner` is inductive. A step that ends a procedure also
  leaves its state behind, is a refusal (so the state belongs to somebody else), or
  sets `aborted`.
- *Exclusion* also needs `NoShutoffYet`: while no stop has taken over, no thread is in
  the shutoff part. Otherwise a thread in `shutoff` could release the engine to
  standby under a burning ignition, and a second one start.
- *Stops during pre-ignition* need `StoppedIsUnderWay` (a stopped thread is still in an
  ignition) and `PreIgniteOwned` (the state is `PreIgnite` only if an ignition that
  has not been stopped waits in it): the table lets `Ignite` be entered from
  `PreIgnite` only, and a stop takes that state away from all that wait.
- *Settling* needs `SettledOrPending`: a line whose last writer is an emergency stop
  either has its final level, or some thread is in the shutoff part at or before
  the action that will set it. Two overlapping stops may undo each other's
  actions, but the last one to write has the last word.

### OutgoingProofs

For any senders, connections and length of a message:

| Theorem | Property |
|---|---|
| `TypesHold` | `TypeOK` |
| `TargetStaysServed` | `TargetIsServed` |
| `LogFollowsWire` | `LogMatchesWire` |
| `ChannelDelivers` | `DeliversWholeMessages`: the refinement of `Delivery` |

- `IInv` adds to the types that a thread which writes or logs has the lock (`HoldsLock`), that its
  count is below the end of its message or row (`PartsLeft`), and what the main thread serves in
  which place (`MainServes`: until `set_channel` is done, a client that the channel does not hold yet). `TargetIsServed` is inductive relative to it.
- `LogMatchesWire` needs `RowsMatch`: at most one thread is in its row, that row is of the newest
  message, and the log is as long as that thread's count says.
- `DeliversWholeMessages` needs `WireInv`. `EndsWhole`: the current connection ends with a whole
  number of messages, or after them with exactly what the one thread that writes has written so far.
  `TargetOnce`: a connection is made the target once and had no writes before.
  Then a write is a stutter unless it is the last of its message (`MessageNotYet`), and
  that one appends the sender, never `"garbled"`, to the messages of the target and of no other
  connection (`MessageComplete`); what was delivered before is read off the same writes as before (`MessagesKept`).

### ControllerProofs

For any numbers of threads, drivers, sensors and clients together:

| Theorem | Property |
|---|---|
| `TypesHold` | `TypeOK` |
| `StatusStaysCurrent` | `StatusIsCurrent` |
| `WaitsHaveAnEnd` | `NoCircularWait` |
| `ServedUntilPanic` | `ServedUnlessPanicked` |
| `ControllerImplementsExecution` | `ImplementsExecution` |
| `ProceduresStaySafe`, `PreIgnitionStopsHold` | `StateHasOwner`, `IgnitionExclusive`, `EStopSettles`; `PreIgnitionStopHolds` of `Execution` |
| `DashboardIsServed` | `DeliversWholeMessages` and `LogMatchesWire` of `Outgoing` |

- `StatusInv` adds to `StatusIsCurrent` that the status thread has the lines while it is in `send`
  (`LinesHeld`); every other step then either leaves that thread and the lines alone or needs the lines to be free.
- *Implementing `Execution`*: each step of a procedure or command maps to the step of the same name
  (`TransitionMaps`, `PerformActionMaps`, ...), and every other step changes at most `lines_lock` between
  `free` and `held`, which is a stutter; that `SendStatus` is one needs `LinesHeld`.
- *What is proved of the parts* is carried over by the lemmas of their proof modules, instantiated as `EP`
  and `OP`. For `Execution` each step is one of its own or a stutter, so its invariants (`ExecInv`) are kept.
  For `Outgoing`, `NextDash` says that a step is one of its own, a stutter, or `Quits`: the
  main thread has panicked or the status thread has given up. `Quits` is no step of `Outgoing`, so its
  invariants are shown to survive it separately: either thread leaves from a place where it neither holds the channel
  nor is in the middle of a message. `IInv` collects what both sides need, with the types of the lines and of the status thread.
- *No circle*: `LocksInv` says that a lock which is taken is taken by a thread that is at work with it: the lines by
  the status thread in its `send`, the channel by a thread that writes or logs. Neither
  waits for a lock that a procedure or another sender holds.

### SensorProofs

For any sensors, periods, buffer size, width, range and number of loops:

| Theorem | Property |
|---|---|
| `TypesHold` | `TypeOK` |
| `NewestIsSentOnce` | `SendsNewestOnce` |
| `SamplesKeepTime` | `SamplesInTime` |
| `LogStaysComplete` | `LogIsComplete` |
| `EStopIsCaused` | `EStopHasCause` |

- *Types*: that readings and clocks stay below their bounds needs `ReadOncePerLoop` (an iteration reads a sensor at
  most once), `WorkInTime` and `NapFits` (a nap begins in time and is a period long at most).
- *Newest*: nothing was sent that had not been read (`SentWereRead`).
- *Time* rests on `TimesAssumption` and `PreIgniteAssumption`, along `NapInTime`: a
  nap is a fast one, or was begun in another state than a burn, and then has less left
  than pre-ignition has; a tick takes as much from the nap as it gives to pre-ignition, so the
  engine can ignite only after the nap is over.
- *Log*: nothing is in the log or a buffer before it is read (`KeptWereRead`). Flushing moves a buffer to the end of its
  file, or part of it before the write that fails; the two together stay in order and, until a write fails, miss nothing.
- *Cause*: as long as a sensor has shown only values in its range, and at least `Width` roundings from its ends
  (`WellWithin`), its average is in the range (`AverageInRange`): each update adds one rounding and keeps all but one part in `Width`
  of the old average, so the errors never add up to more (`MeanBetween`). The first average is the middle of the range.

### SpiProofs

For any number of ADCs and channels: `TypesHold` (`TypeOK`), `SelectionKeepsCause` (`SelectionHasCause`) and
`CleanReadsAreRight` (`CleanReadIsRight`). The types need that an ADC which is not selected is reset (`Quiet`) and
that it counts command bits by its clock (`CommandBits`). The cause of a selection needs only the type of `cs`.
A clean read stays on track (`OnTrack`): its own ADC alone is selected, has seen as many edges as the transfer has made,
has taken the command bits that the two bytes of `Mcp3208::read` amount to (`BitsSent`), and drives the answer
that belongs to the bit at hand; so what has come in is, bit by bit, the answer.

### FramingProofs

For streams of any length: `TypesHold` (`TypeOK`) and `CommandsAreCutRight` (`CutsAtFirstEnd`). `LocalsInv` says what the locals of
`parse` mean: `escaped` is the parity of the run of backslashes before the next byte (`Run`), `in_string` and `depth` are
`InString` and `Count` over the text so far; that the depth never goes below zero is part of it. A byte that is read
changes none of the definitions for earlier positions (`Known`) and each definition at its own as the code changes its local.

### StartupProofs and ConfigProofs

For any number of processes and logs paths, and any configuration (`ConfigurationAssumption`, `ProcessAssumption`):

| Theorem | Property |
|---|---|
| `TypesHold` | `TypeOK` |
| `LogsStayOwn` | `LogsAreOwn` |
| `OneController` | `ControllersExclude` |
| `ThreadsStartSafe` | `StartsSafe` |
| `AcceptedRuns` | `AcceptedStarts` |

- *Types*: where each process is (`Control`, with the sensor group it has come to) and what it has (`Resources`). The files
  that exist are those which some process has opened, and so are the directories.
- *Logs* need that handles are to files that exist (`Handles`): then a file that is created is nobody's.
- *One controller* rests on `ClockHeld`: the first line that any process requests is that of the bus clock
  (`FirstRequest`), whatever the configuration, so whoever is past it holds that one line, and only one can.
  It does not depend on the logs path or the port.
- *Safe starts*: a process that no fault and no other process disturbed was granted every line it has asked for so far
  (`Granted`), each still at the level it asked for until the threads run (`Levelled`), and has counted its
  ADCs and drivers in the configuration's order (`Counted`). A line that is held is refused to whoever asks, itself included, so no later request changes its level; nor do the
  threads of other processes, which have no lines but those these processes were granted (`OwnLines`, `Scoped`).
- *Accepted configurations*: at each place in `run`, a process has made exactly the files and directories that `Written` and `Made` say
  (`SoFar`). So if a claim is blocked, then either by another's files (the process is disturbed) or by its own, which is the gap `PathsClash`.
  All its lines exist on the chip (`ChipAssumption`) and are different (`RequestsApart`), its procedures and threads find what
  they index (`ProceduresFit`, `SensorsFit`), whichever group a thread has been given (`GroupOfGroup`); so every claim of an undisturbed process succeeds (`Unharmed`).

`ConfigProofs` shows what those rest on. What `parse` lets through: `FirstErrorFinds` (a scan that finds no error found every check good, which
takes a least element, `LeastElement`), `FlattenKeepsAll` (a concatenation of lists holds every element of every list), and from these
`AdcsExist`, `DriversExist`, `PinsAccepted` and `ParseAccepts`; `LineRequestsAre` says which lines `run` requests. It also has a theorem of
its own, for any configuration and any logs path: `PlainLabelsFit`, that labels which are plain names, differ where
they must and are not the name of another log do not clash (`PathsClash`). With it the gap that labels leave in validation has an upper bound in terms of the
configuration alone: a label with a slash, one of a few names, or one label twice.

The library's induction theorems take an operator as a parameter and cannot be used by these provers. `SetInduction`
proves induction for *sets* of naturals from cardinalities: counting on would map a set with a gap into
itself without zero, one-to-one. That is enough for these lemmas, whose induction is over lengths.

**Model-checked only**: `ReturnsToStandby`, `ThreadsEnd`, `ClientsAreGreeted` and `StartsOrStops`. The provers
handle neither liveness under fairness nor `ENABLED`.

## 5. Not modelled, and why

- *Clock period*: `transfer`'s sleeps have no duration here; only the comparison that
  `Mcp3208::new` asserts is modelled.
- *The Dummy hardware* (`server.rs`): it claims nothing and every read succeeds. The
  models are of the Raspberry Pi.
- *Deserialisation* of the configuration: a file that is missing or malformed is a fault of `Startup`.
- *A wall clock that is set back*: `sensor_listen` decides by `SystemTime` when to transmit;
  the clocks of `Sensor` only advance.
- *Quit*: nothing in the program requests it; only tests of `data.rs` do. The
  transition is in the table and `Sensor` answers to it.
- *User log*, *error types*, *executables*: output and conversions, without
  shared state. A failing user log is a fault in `Outgoing`, `Controller` and `Startup`.
- *The lengths of the heartbeat's sleeps*; its levels are in `Startup`.
- *Serialisation* of messages and commands, log row formats, time stamps.
- *`f64`*: the averages of `Sensor` are integers with an error of rounding that is one constant for all of them; infinities and
  values that are not numbers are left out. Rounding can take an average out of a range that no reading has left: an average of exactly 0.1 and
  a reading of 0.1 make 0.10000000000000002 at a width of three, which is beyond a maximum of 0.1. `Sensor` allows more of this than `f64` does, and
  `EStopHasCause` is stated so that it holds all the same.
- *The file system*: it has no links, and nobody but the controllers changes it below the logs paths. Two spellings of one name are two names.

## 6. Where code and documentation differ

Each has a run that ends in a counterexample.

- `exec_halt`: an ignition that performs its sequence does not notice an emergency
  stop; it goes on to actuate drivers during and after it. `api.md` says it is halted.
- `exec_overlap`: two emergency stops run the shutoff sequence at once; a comment
  says a second one does not interfere. When the first ends, the state is standby
  while the other still acts.
- `outgoing_config_first`: a sensor or status message can precede the `Config` message
  that the conversation is said to start with.
- `controller_stall`: a dashboard that stops reading, while the status thread sends to it
  with the driver lines locked, keeps an emergency stop from actuating anything;
  `api.md` says the shutoff procedure starts immediately.
- `spi_selected`: after a transfer that failed half-way on one ADC, a read from another
  may return bits that are not its sample, without an error.

Others, seen while reading and not given a run. `driver_id = drivers.len()` passes the
check of `handle_command`, panics the main thread and poisons the
driver lock instead of being answered with an error (`UserActuate`); from then on the dashboard
is still sent data, but nothing it says is read. An error of `bind` or of the accept loop is
not returned, as `server.rs:243` ("# Errors") says: the scope waits for threads that never
end, and the process goes on without a listener (`BindFails`, `AcceptLoopEnds`, `Join`). Validation accepts a clock
of exactly 10 kHz, which panics in `Mcp3208::new`; a heartbeat pin that is reserved,
out of range or used for something else; labels that lead to each other's files or to directories that are not made (`PathsClash`: two sensors with one label in one group; a slash in the label of a
sensor; a group without a label that has a sensor `commands`); frequencies and widths of
zero; `driver_id = drivers.len()` in a sequence (the disjuncts of `Gap` in `Startup`); and a
`pre_ignite_time` shorter than a standby period. It also accepts labels with `..` or a leading slash, whose logs are then made outside
of the logs path, and more than 256 sensor groups: `group_id as u8` gives the thread of the 257th the sensors of the first, so their readings are
logged in files named for others, and sent twice, while the sensors of the 257th are never read or checked (`GroupOf`). "Please delete that file" is not enough to
start again after a failed start, since other log files of that run remain. `handle_command` ignores a
driver's `protected` flag ("protected from user access", `config.rs:88`); a client
that resets its connection before it is served ends the accept loop
(`AcceptLoopEnds`), though `lib.rs:77` says only a failing log does so;
`state.rs:35` says `Ignite` is
reached from `Standby`, the table says `PreIgnite`; `data.rs:62` says `sensor_listen` fails only on a
poisoned guard, but it also returns when `sent.csv` cannot be written; `api.md:154`
speaks of ranges during ignition while they are checked in every state; `api.md:164`
speaks of a window of samples while the average is exponential.

## 7. Plan

Done, in the order of importance: `EngineState`, `Execution` and its proofs;
`Outgoing` with `Delivery`; `Controller`; `Sensor`; `Framing`; `Spi`; then `Config` and `Startup`, the
clocks of `Sensor`; then the proofs of every safety property of every module.

Next:

1. A second abstract specification, of the engine as its operator sees it (standby,
   firing, stopping), with `Execution` shown to implement it while nothing is abandoned, and
   so the controller.
2. The sensor thread's clocks under a channel that may block: `Delay` replaced by the steps of
   `Outgoing`'s `send`.
3. Numbers: a bound on how long the driver lines can be held, from the length of a message and the pace at
   which the dashboard reads.

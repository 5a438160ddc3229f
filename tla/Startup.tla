------------------------------ MODULE Startup ------------------------------
(***************************************************************************)
(* The life of a controller process on the Raspberry Pi: run and           *)
(* RaspberryPi (src/server.rs) from the arguments to the end of the thread *)
(* scope, and the heartbeat thread (src/heartbeat.rs).                     *)
(*                                                                         *)
(* A process claims what it needs piece by piece: log files, which it      *)
(* creates only where there are none; GPIO lines, which the kernel gives   *)
(* to one process at a time; the TCP port.  It may be killed at any        *)
(* moment, another may be started before or after, in the same logs path   *)
(* or a different one, and what the first left behind is what the second   *)
(* finds: its files stay, its lines and its port are released, and lines   *)
(* keep their levels.  All use one configuration file.                     *)
(*                                                                         *)
(* Files and directories are known by their places: the directories from   *)
(* the root to them.  Nothing but these processes makes or removes any     *)
(* below the logs paths, and create_dir_all makes all of a path at once or *)
(* nothing.                                                                *)
(***************************************************************************)
EXTENDS Config

CONSTANTS
  NumProcesses,     \* bound: how many processes are ever started
  Started(_),       \* bound: how many of them, with one configuration
  Nobody,
  Dir,              \* places of the logs paths they may be given
  Configurations,   \* what the configuration file may say
  ChipLines,        \* offsets of the lines that /dev/gpiochip0 has
  Faults,           \* whether files, lines, logs and the socket may fail
  LookupFaults      \* whether Chip::get_line may fail

Process == 1 .. NumProcesses

ASSUME ProcessAssumption       == NumProcesses \in Nat /\ Nobody \notin Nat
ASSUME ConfigurationAssumption == Configurations \subseteq Configuration
ASSUME DirAssumption           == Dir \subseteq Seq(STRING)
ASSUME FaultsAssumption        == Faults \in BOOLEAN /\ LookupFaults \in BOOLEAN

\* The chip has every line that parse allows: GPIO 2 to 27, those of the
\* Raspberry Pi's header.
ASSUME ChipAssumption == {pin \in Byte : IsLegal(pin)} \subseteq ChipLines

\* The file system has no objection to the names of the logs that every run has.
ASSUME NamesAssumption ==
  \A d \in Dir : /\ ~ Refuses(ConsolePath(d).names)
                /\ \A n \in 1 .. 3 : ~ Refuses(FinalPath(d, n).names)

\* What outlives a process.
VARIABLES
  config,     \* the contents of the configuration file
  files,      \* the log files that exist
  dirs,       \* the directories that exist
  holder,     \* which process has requested each line
  level,      \* the level of each line
  port        \* the process that listens on TCP port 2707

\* A process.
VARIABLES
  pc,         \* where its main thread is
  dir,        \* its logs path
  group,      \* the sensor group it makes log files for, or makes them for next
  next,       \* the log file or line it is about to claim
  drivers,    \* the pins behind driver_lines, in order
  adcs,       \* the chip selects behind adcs, in order
  threads,    \* the threads of its scope that are running
  panicked,   \* whether a thread of the scope, or the scope's closure, panicked
  result      \* how run ended

\* History variables: no action reads them.
VARIABLES
  opened,     \* the log files each process has handles to, or had
  made,       \* the directories each process has made or found made
  disturbed   \* processes that met with a fault, or with another's property

world   == <<config, files, dirs, holder, level, port>>
process == <<pc, dir, group, next, drivers, adcs, threads, panicked, result>>
history == <<opened, made, disturbed>>
vars    == <<world, process, history>>

InScope == {"bind", "serving", "joining"}
Begun   == {"path", "console", "parse", "group", "sensors", "logs", "gpio", "spawn"}
Pc      == {"off", "done"} \cup Begun \cup InScope
Result  == {"none", "error", "panic", "killed"}

\* How many claims the main thread makes in its present phase.
Claims(p) ==
  IF pc[p] = "sensors" THEN Len(config.sensor_groups[group[p]].sensors)
  ELSE IF pc[p] = "logs" THEN 3
  ELSE IF pc[p] = "gpio" THEN Len(LineRequests(config))
  ELSE 1

TypeOK ==
  /\ config \in Configurations
  /\ files = UNION {opened[p] : p \in Process}
  /\ dirs = {<<>>} \cup UNION {made[p] : p \in Process}
  /\ holder \in [ChipLines -> Process \cup {Nobody}]
  /\ level \in [ChipLines -> BOOLEAN]
  /\ port \in Process \cup {Nobody}
  /\ pc \in [Process -> Pc]
  /\ dir \in [Process -> Dir]
  /\ group \in [Process -> 1 .. Len(config.sensor_groups) + 1]
  /\ \A p \in Process : pc[p] \in {"group", "sensors"} =>
       group[p] \in DOMAIN config.sensor_groups
  /\ next \in [Process -> Nat]
  /\ \A p \in Process : next[p] \in 1 .. Claims(p)
  /\ drivers \in [Process -> Seq(ChipLines)]
  /\ adcs \in [Process -> Seq(ChipLines)]
  /\ threads \in [Process -> SUBSET Threads(config)]
  /\ panicked \in [Process -> BOOLEAN]
  /\ result \in [Process -> Result]
  /\ DOMAIN opened = Process /\ DOMAIN made = Process
  /\ disturbed \subseteq Process

Init ==
  /\ config \in Configurations
  /\ files = {}
  /\ dirs = {<<>>}
  /\ holder = [l \in ChipLines |-> Nobody]
  /\ level = [l \in ChipLines |-> FALSE]
  /\ port = Nobody
  /\ pc = [p \in Process |-> "off"]
  /\ dir \in [Process -> Dir]
  /\ group = [p \in Process |-> 1]
  /\ next = [p \in Process |-> 1]
  /\ drivers = [p \in Process |-> <<>>]
  /\ adcs = [p \in Process |-> <<>>]
  /\ threads = [p \in Process |-> {}]
  /\ panicked = [p \in Process |-> FALSE]
  /\ result = [p \in Process |-> "none"]
  /\ opened = [p \in Process |-> {}]
  /\ made = [p \in Process |-> {}]
  /\ disturbed = {}

-----------------------------------------------------------------------------
\* Steps of the main thread, and how they end it.

\* Mutant: the count of claims is not started afresh.
ProceedCounting(p, label) ==
  /\ next' = [next EXCEPT ![p] = @ + 1]
  /\ pc' = IF next[p] < Claims(p) THEN pc ELSE [pc EXCEPT ![p] = label]

\* On to the next claim, or to label when there is none.
Proceed(p, label) ==
  IF next[p] < Claims(p)
  THEN /\ next' = [next EXCEPT ![p] = @ + 1]
       /\ UNCHANGED pc
  ELSE /\ pc' = [pc EXCEPT ![p] = label]
       /\ next' = [next EXCEPT ![p] = 1]

\* The head of the loop over sensor groups: to the directory of group g, or
\* behind the loop.
GroupOrLogs(g) == IF g \in DOMAIN config.sensor_groups THEN "group" ELSE "logs"

\* The process is over: the kernel takes back its lines, which keep their
\* levels, and its port.
Release(p, how) ==
  /\ pc' = [pc EXCEPT ![p] = "done"]
  /\ next' = [next EXCEPT ![p] = 1]
  /\ result' = [result EXCEPT ![p] = how]
  /\ threads' = [threads EXCEPT ![p] = {}]
  /\ holder' = [l \in ChipLines |-> IF holder[l] = p THEN Nobody ELSE holder[l]]
  /\ port' = IF port = p THEN Nobody ELSE port
  /\ drivers' = [drivers EXCEPT ![p] = <<>>]
  /\ adcs' = [adcs EXCEPT ![p] = <<>>]
  /\ panicked' = [panicked EXCEPT ![p] = FALSE]
  /\ UNCHANGED <<config, files, dirs, dir, group, opened, made>>

Exit(p, how) == Release(p, how) /\ UNCHANGED level

Disturb(p, cause) == disturbed' = IF cause THEN disturbed \cup {p} ELSE disturbed

\* Processes have the numbers in whose order they are started.
Begin(p) ==
  /\ pc[p] = "off"
  /\ p <= Started(config)
  /\ \A q \in Process : q < p => pc[q] # "off"
  /\ pc' = [pc EXCEPT ![p] = "path"]
  /\ UNCHANGED <<world, dir, group, next, drivers, adcs, threads, panicked, result, history>>

\* The log file that the main thread creates here.
LogPath(p) ==
  IF pc[p] = "console" THEN ConsolePath(dir[p])
  ELSE IF pc[p] = "sensors" THEN SensorPath(config, dir[p], group[p], next[p])
  ELSE FinalPath(dir[p], next[p])

\* The directories that it makes here, where there are none: the logs path, or
\* that of a sensor group.
NewDirs(p) ==
  IF pc[p] = "path" THEN Prefixes(dir[p]) ELSE Range(Trail(GroupPath(config, dir[p], group[p])))

\* The claim that it makes here cannot be had, with these files and directories.
Blocked(p, taken, there) ==
  IF pc[p] = "path" THEN Prefixes(dir[p]) \cap taken # {}
  ELSE IF pc[p] = "group" THEN DirBlocked(GroupPath(config, dir[p], group[p]), taken, there)
  ELSE FileBlocked(LogPath(p), taken, there)

\* create_dir_all; a group without sensors needs no more.
MakeDirs(p) ==
  /\ pc[p] \in {"path", "group"}
  /\ ~ Blocked(p, files, dirs)
  /\ dirs' = dirs \cup NewDirs(p)
  /\ made' = [made EXCEPT ![p] = @ \cup NewDirs(p)]
  /\ IF pc[p] = "path"
     THEN /\ pc' = [pc EXCEPT ![p] = "console"]
          /\ UNCHANGED group
     ELSE IF config.sensor_groups[group[p]].sensors = <<>>
     THEN /\ group' = [group EXCEPT ![p] = @ + 1]
          /\ pc' = [pc EXCEPT ![p] = GroupOrLogs(group[p] + 1)]
     ELSE /\ pc' = [pc EXCEPT ![p] = "sensors"]
          /\ UNCHANGED group
  /\ UNCHANGED <<config, files, holder, level, port, dir, next, drivers, adcs, threads,
                 panicked, result, opened, disturbed>>

\* A log file is created, and the thread goes on to the next, of this group,
\* of the next group, or of the run.
KeepLog(p) ==
  /\ files' = files \cup {Place(LogPath(p))}
  /\ opened' = [opened EXCEPT ![p] = @ \cup {Place(LogPath(p))}]
  /\ group' = IF pc[p] = "sensors" /\ next[p] = Claims(p)
              THEN [group EXCEPT ![p] = @ + 1] ELSE group
  /\ Proceed(p, IF pc[p] = "console" THEN "parse"
                ELSE IF pc[p] = "sensors" THEN GroupOrLogs(group[p] + 1) ELSE "gpio")
  /\ UNCHANGED <<config, dirs, holder, level, port, dir, drivers, adcs, threads, panicked,
                 result, made, disturbed>>

\* Mutant: an existing file is opened, as File::create would.
CreateLogAnyway(p) ==
  /\ pc[p] \in {"console", "sensors", "logs"}
  /\ KeepLog(p)

\* file_create_new: O_CREAT and O_EXCL, one step for the file system.
CreateLog(p) ==
  /\ pc[p] \in {"console", "sensors", "logs"}
  /\ ~ Blocked(p, files, dirs)
  /\ KeepLog(p)

\* Mutant: the main thread tries again until the file is gone.
LogBlockedRetries(p) ==
  /\ pc[p] \in {"path", "console", "group", "sensors", "logs"}
  /\ Blocked(p, files, dirs)
  /\ UNCHANGED vars

\* The file, or the directory, cannot be made.  That is the doing of another
\* process unless what this one has made is enough to explain it.
LogBlocked(p) ==
  /\ pc[p] \in {"path", "console", "group", "sensors", "logs"}
  /\ Blocked(p, files, dirs)
  /\ Exit(p, "error")
  /\ Disturb(p, ~ Blocked(p, opened[p], {<<>>} \cup made[p]))

ParseConfig(p) ==
  /\ pc[p] = "parse"
  /\ IF Parse(config) = "ok"
     THEN /\ Proceed(p, GroupOrLogs(1))
          /\ UNCHANGED <<world, dir, group, drivers, adcs, threads, panicked, result, history>>
     ELSE /\ Exit(p, "error")
          /\ UNCHANGED disturbed

\* A file, a directory, a line, the chip or the user log fails, or the
\* configuration file is missing or malformed: run returns the error.
Fault(p) ==
  /\ pc[p] \in Begun
  /\ Faults
  /\ Exit(p, "error")
  /\ Disturb(p, TRUE)

-----------------------------------------------------------------------------
\* bus, adcs, heartbeat and drivers.

LineRequest(p) == LineRequests(config)[next[p]]

\* The line is granted; an output takes its level at once.  An ADC behind it
\* is constructed on the spot, and may refuse the clock by panicking.
AcquireLine(p) ==
  /\ pc[p] = "gpio"
  /\ LET line == LineRequest(p)
     IN  /\ line.pin \in ChipLines
         /\ holder[line.pin] = Nobody
         /\ level' = [level EXCEPT ![line.pin] =
                        IF line.level = "in" THEN @ ELSE line.level = "high"]
         /\ IF line.use = "adc" /\ ~ AdcAccepts(config)
            THEN /\ Release(p, "panic")
                 /\ UNCHANGED disturbed
            ELSE /\ holder' = [holder EXCEPT ![line.pin] = p]
                 /\ drivers' = IF line.use = "driver"
                               THEN [drivers EXCEPT ![p] = Append(@, line.pin)] ELSE drivers
                 /\ adcs' = IF line.use = "adc"
                            THEN [adcs EXCEPT ![p] = Append(@, line.pin)] ELSE adcs
                 /\ Proceed(p, "spawn")
                 /\ UNCHANGED <<config, files, dirs, port, dir, group, threads, panicked, result, history>>

\* Mutant: flat_map drops the refusals as well, for every line.
LineRefusedSkips(p) ==
  /\ pc[p] = "gpio"
  /\ LET pin == LineRequest(p).pin IN pin \in ChipLines => holder[pin] # Nobody
  /\ Proceed(p, "spawn")
  /\ UNCHANGED <<world, dir, group, drivers, adcs, threads, panicked, result, history>>

\* The kernel refuses: there is no such line, or somebody holds it.
LineRefused(p) ==
  /\ pc[p] = "gpio"
  /\ LET pin == LineRequest(p).pin
     IN  /\ pin \in ChipLines => holder[pin] # Nobody
         /\ Exit(p, "error")
         /\ Disturb(p, pin \in ChipLines /\ holder[pin] # p)

\* get_line fails.  flat_map drops the Err of an ADC's or a driver's line and
\* goes on with the next one; the other lines return it.
LookupFails(p) ==
  /\ pc[p] = "gpio"
  /\ LookupFaults
  /\ IF LineRequest(p).use \in {"adc", "driver"}
     THEN /\ Proceed(p, "spawn")
          /\ UNCHANGED <<world, dir, group, drivers, adcs, threads, panicked, result, opened, made>>
     ELSE Exit(p, "error")
  /\ Disturb(p, TRUE)

-----------------------------------------------------------------------------
\* The thread scope.

\* The threads are spawned and begin; those that cannot panic at once.
SpawnThreads(p) ==
  /\ pc[p] = "spawn"
  /\ LET doomed == {t \in Threads(config) : PanicsAtStart(config, t)}
     IN  /\ threads' = [threads EXCEPT ![p] = Threads(config) \ doomed]
         /\ panicked' = [panicked EXCEPT ![p] = doomed # {}]
  /\ Proceed(p, "bind")
  /\ UNCHANGED <<world, dir, group, drivers, adcs, result, history>>

Bind(p) ==
  /\ pc[p] = "bind"
  /\ port = Nobody
  /\ port' = p
  /\ Proceed(p, "serving")
  /\ UNCHANGED <<config, files, dirs, holder, level, dir, group, drivers, adcs, threads, panicked,
                 result, history>>

\* The port is taken, or the user log fails: the closure returns the error, and
\* the scope joins its threads.
BindFails(p) ==
  /\ pc[p] = "bind"
  /\ port # Nobody \/ Faults
  /\ Disturb(p, TRUE)
  /\ Proceed(p, "joining")
  /\ UNCHANGED <<world, dir, group, drivers, adcs, threads, panicked, result, opened, made>>

\* The accept loop returns an error (a client that resets its connection is
\* enough) or panics on a command.  The listener is dropped.
AcceptLoopEnds(p) ==
  /\ pc[p] = "serving"
  /\ port' = Nobody
  /\ \E panics \in BOOLEAN : panicked' = [panicked EXCEPT ![p] = @ \/ panics]
  /\ Disturb(p, TRUE)
  /\ Proceed(p, "joining")
  /\ UNCHANGED <<config, files, dirs, holder, level, dir, group, drivers, adcs, threads, result,
                 opened, made>>

\* A procedure that a command or a sensor began runs off the end of
\* driver_lines, in a thread of its own, and poisons the lines.
ProcedurePanics(p) ==
  /\ pc[p] = "serving" \/ \E t \in threads[p] : t[1] = "sensor"
  /\ \E a \in Range(config.ignition_sequence \o config.estop_sequence) :
       a.type = "Actuate" /\ a.driver_id >= Len(drivers[p])
  /\ panicked' = [panicked EXCEPT ![p] = TRUE]
  /\ UNCHANGED <<world, pc, dir, group, next, drivers, adcs, threads, result, history>>

\* A sensor thread reads from an ADC that look-ups left out.
LacksAdc(p, t) ==
  /\ t[1] = "sensor"
  /\ LET sensors == GroupOf(config, t[2]).sensors
     IN  \E s \in DOMAIN sensors : sensors[s].adc >= Len(adcs[p])

\* A thread returns because a log or the heartbeat's pin cannot be written or
\* a lock is poisoned, or panics.  None returns for any other reason: nothing
\* in the program requests Quit.
ThreadEnds(p, t) ==
  /\ t \in threads[p]
  /\ \/ Faults /\ UNCHANGED panicked /\ Disturb(p, TRUE)
     \/ t = <<"status">> /\ panicked[p] /\ UNCHANGED <<panicked, disturbed>>
     \/ /\ MayPanicLater(config, t) \/ LacksAdc(p, t)
        /\ panicked' = [panicked EXCEPT ![p] = TRUE]
        /\ UNCHANGED disturbed
  /\ threads' = [threads EXCEPT ![p] = @ \ {t}]
  /\ UNCHANGED <<world, pc, dir, group, next, drivers, adcs, result, opened, made>>

Join(p) ==
  /\ pc[p] = "joining"
  /\ threads[p] = {}
  /\ Exit(p, IF panicked[p] THEN "panic" ELSE "error")
  /\ UNCHANGED disturbed

\* heartbeat turns its pin on and off.
Heartbeat(p) ==
  /\ <<"heartbeat">> \in threads[p]
  /\ level' = [level EXCEPT ![config.pin_heartbeat] = ~ @]
  /\ UNCHANGED <<config, files, dirs, holder, port, process, history>>

\* Commands and procedures write driver lines, readings move chip selects.
Operate(p) ==
  /\ threads[p] # {} \/ pc[p] = "serving"
  /\ \E l \in Range(drivers[p]) \cup Range(adcs[p]) : level' = [level EXCEPT ![l] = ~ @]
  /\ UNCHANGED <<config, files, dirs, holder, port, process, history>>

\* The process is killed, or the power fails.
Kill(p) ==
  /\ pc[p] \in Begun \cup InScope
  /\ Exit(p, "killed")
  /\ UNCHANGED disturbed

-----------------------------------------------------------------------------
MainThread(p) ==
  \/ MakeDirs(p) \/ CreateLog(p) \/ LogBlocked(p) \/ ParseConfig(p)
  \/ AcquireLine(p) \/ LineRefused(p)
  \/ SpawnThreads(p) \/ Bind(p) \/ BindFails(p) \/ Join(p)

Next ==
  \E p \in Process :
    \/ Begin(p) \/ MainThread(p) \/ Fault(p) \/ LookupFails(p)
    \/ AcceptLoopEnds(p) \/ ProcedurePanics(p) \/ Kill(p)
    \/ Heartbeat(p) \/ Operate(p)
    \/ \E t \in Threads(config) : ThreadEnds(p, t)

\* The main thread runs; nobody need start, stop or disturb a process.
Fairness == \A p \in Process : WF_vars(MainThread(p))

Spec == Init /\ [][Next]_vars /\ Fairness

-----------------------------------------------------------------------------
\* Safety.

\* A run never writes to the log of another run, be it over, killed or still
\* active: every log file has one process for ever (file_create_new).
LogsAreOwn ==
  \A p, q \in Process : p # q => opened[p] \cap opened[q] = {}

\* Two controllers never run their threads at once, however their start-ups
\* interleave and wherever one was killed: the engine obeys one of them (the
\* lines are requested before the threads are spawned, and kept).
ControllersExclude ==
  \A p, q \in Process : pc[p] \in InScope /\ pc[q] \in InScope => p = q

\* When the threads are spawned, driver i of the configuration is the i-th
\* line and is low, and ADC i the i-th chip select and not selected, whatever
\* levels an earlier run died with, unless a look-up failed (adcs and drivers:
\* the pins are distinct, and each request sets its level).
StartsSafe ==
  \A p \in Process : pc[p] = "spawn" /\ p \notin disturbed =>
    /\ Len(drivers[p]) = Len(config.drivers)
    /\ \A i \in DOMAIN drivers[p] :
         drivers[p][i] = config.drivers[i].pin /\ ~ level[drivers[p][i]]
    /\ adcs[p] = config.adc_cs
    /\ \A i \in DOMAIN adcs[p] : level[adcs[p][i]]

\* What Configuration::parse lets through although start-up cannot use it.
ClockOnTheLimit(c) == ~ AdcAccepts(c)
HeartbeatTaken(c)  == c.pin_heartbeat \in Range(PinsUsed(c)) \cup (Byte \ ChipLines)
OffTheEnd(c)       == \E a \in Range(c.ignition_sequence \o c.estop_sequence) :
                        a.type = "Actuate" /\ a.driver_id = Len(c.drivers)
Doomed(c)          == \E t \in Threads(c) : PanicsAtStart(c, t) \/ MayPanicLater(c, t)

Gap(c, d) ==
  ClockOnTheLimit(c) \/ HeartbeatTaken(c) \/ PathsClash(c, d) \/ OffTheEnd(c) \/ Doomed(c)

\* Validation is complete but for these gaps: with any other accepted
\* configuration run fails or panics only if a fault, or the property of
\* another process, got in its way (parse against everything that start-up
\* does with the configuration).
AcceptedStarts ==
  \A p \in Process : result[p] \in {"error", "panic"} \/ panicked[p] =>
    Parse(config) # "ok" \/ Gap(config, dir[p]) \/ p \in disturbed

-----------------------------------------------------------------------------
\* Liveness.

\* A process that has begun comes to serve clients, is over, or has begun to
\* wait for the threads of its scope: no claim is waited for.
StartsOrStops ==
  \A p \in Process :
    pc[p] \in Begun ~> pc[p] \in {"serving", "joining", "done"}

=============================================================================

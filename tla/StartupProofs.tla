--------------------------- MODULE StartupProofs ---------------------------
(***************************************************************************)
(* Proofs about Startup, for any number of processes, any logs paths, any  *)
(* chip and any configurations: the types, that processes keep their log   *)
(* files to themselves (LogsAreOwn), that no two of them control the       *)
(* engine at once (ControllersExclude), that the threads find every line   *)
(* they use requested and at rest (StartsSafe), and that a configuration   *)
(* which was accepted starts (AcceptedStarts).                             *)
(***************************************************************************)
EXTENDS Startup, ConfigProofs

\* What a step of Proceed may do to pc and next.
Proceeds(p, label) ==
  \/ /\ next' = [next EXCEPT ![p] = @ + 1]
     /\ UNCHANGED pc
  \/ /\ pc' = [pc EXCEPT ![p] = label]
     /\ next' = [next EXCEPT ![p] = 1]

\* Proceed goes on counting, or on to its label with the count at one.
LEMMA ProceedSplits == ASSUME NEW p, NEW label, Proceed(p, label) PROVE Proceeds(p, label)
  BY DEF Proceed, Proceeds

-----------------------------------------------------------------------------
\* Log files.

\* A process only has handles to files that exist.
Handles == opened \in [Process -> SUBSET files]

LogInv == Handles /\ LogsAreOwn

LEMMA LogInvInit == Init => LogInv
  BY DEF Init, LogInv, Handles, LogsAreOwn

LEMMA LogInvCreate ==
  ASSUME LogInv, NEW p \in Process, CreateLog(p)
  PROVE  LogInv'
<1> DEFINE file == Place(LogPath(p))
<1>1. file \notin files /\ files' = files \cup {file}
      /\ opened' = [opened EXCEPT ![p] = @ \cup {file}]
  BY DEF CreateLog, KeepLog, Blocked, FileBlocked
<1> HIDE DEF file
<1>2. Handles'
  BY <1>1 DEF LogInv, Handles
<1>3. ASSUME NEW q \in Process, NEW r \in Process, q # r
      PROVE  opened'[q] \cap opened'[r] = {}
  <2>1. opened[q] \subseteq files /\ opened[r] \subseteq files /\ opened[q] \cap opened[r] = {}
    BY <1>3 DEF LogInv, Handles, LogsAreOwn
  <2>2. /\ opened'[q] = IF q = p THEN opened[q] \cup {file} ELSE opened[q]
        /\ opened'[r] = IF r = p THEN opened[r] \cup {file} ELSE opened[r]
    BY <1>1 DEF LogInv, Handles
  <2> QED  BY <1>1, <1>3, <2>1, <2>2
<1> QED  BY <1>2, <1>3 DEF LogInv, LogsAreOwn

\* Every other step leaves files and handles alone.
LEMMA LogInvStep == LogInv /\ [Next]_vars => LogInv'
<1> SUFFICES ASSUME LogInv, [Next]_vars PROVE LogInv'
  OBVIOUS
<1>1. ASSUME UNCHANGED <<files, opened>> PROVE LogInv'
  BY <1>1 DEF LogInv, Handles, LogsAreOwn
<1>2. CASE UNCHANGED vars
  BY <1>1, <1>2 DEF vars, world, history
<1>3. ASSUME NEW p \in Process, CreateLog(p) PROVE LogInv'
  BY <1>3, LogInvCreate
<1>4. ASSUME NEW p \in Process,
             \/ Begin(p) \/ MakeDirs(p) \/ LogBlocked(p) \/ ParseConfig(p) \/ Fault(p)
             \/ LineRefused(p) \/ LookupFails(p) \/ Join(p) \/ Kill(p)
      PROVE  UNCHANGED <<files, opened>>
  BY <1>4 DEF Begin, MakeDirs, LogBlocked, ParseConfig, Fault, LineRefused, LookupFails, Join, Kill,
              Exit, Release, world, history
<1>5. ASSUME NEW p \in Process, AcquireLine(p) PROVE UNCHANGED <<files, opened>>
  BY <1>5 DEF AcquireLine, Release, history
<1>6. ASSUME NEW p \in Process,
             \/ SpawnThreads(p) \/ Bind(p) \/ BindFails(p) \/ AcceptLoopEnds(p)
             \/ ProcedurePanics(p) \/ Heartbeat(p) \/ Operate(p)
             \/ \E t \in Threads(config) : ThreadEnds(p, t)
      PROVE  UNCHANGED <<files, opened>>
  BY <1>6 DEF SpawnThreads, Bind, BindFails, AcceptLoopEnds, ProcedurePanics, Heartbeat,
              Operate, ThreadEnds, world, history
<1> QED  BY <1>1, <1>2, <1>3, <1>4, <1>5, <1>6 DEF Next, MainThread

\* A run never writes to the log of another run (file_create_new creates, or
\* fails).
THEOREM LogsStayOwn == Spec => []LogsAreOwn
<1>1. LogInv => LogsAreOwn
  BY DEF LogInv
<1> QED  BY LogInvInit, LogInvStep, <1>1, PTL DEF Spec

-----------------------------------------------------------------------------
\* Lines.

LineTypes ==
  /\ config \in Configurations
  /\ holder \in [ChipLines -> Process \cup {Nobody}]
  /\ pc \in [Process -> Pc]
  /\ DOMAIN next = Process

\* Past the first request: the clock's line was granted.
HasClock(p) == pc[p] \in {"spawn"} \cup InScope \/ (pc[p] = "gpio" /\ next[p] # 1)

\* Whoever is past the first request of a line holds the line of the bus clock.
ClockHeld == \A p \in Process : HasClock(p) =>
               config.spi_clk \in ChipLines /\ holder[config.spi_clk] = p

LineInv == LineTypes /\ ClockHeld

\* The first line that a process requests is the clock's, for the bus.
LEMMA FirstRequest ==
  ASSUME NEW c \in Configuration
  PROVE  LineRequests(c)[1] = Request("bus", c.spi_clk, "low")
BY LineRequestsAre

LEMMA LineInvInit == Init => LineInv
<1> SUFFICES ASSUME Init PROVE LineInv
  OBVIOUS
<1>1. LineTypes
  BY DEF Init, LineTypes, Pc, Begun, InScope
<1>2. \A p \in Process : pc[p] = "off"
  BY DEF Init
<1> QED  BY <1>1, <1>2 DEF LineInv, ClockHeld, HasClock, InScope

\* A step that moves only p, and not past its first request of a line unless it
\* was there before, and keeps the holders.
LEMMA LineInvMove ==
  ASSUME LineInv, NEW p \in Process, UNCHANGED <<config, holder>>,
         pc' \in [Process -> Pc], DOMAIN next' = Process,
         \A q \in Process \ {p} : pc'[q] = pc[q] /\ next'[q] = next[q],
         HasClock(p)' => HasClock(p)
  PROVE  LineInv'
<1>1. \A q \in Process : HasClock(q)' => HasClock(q)
  BY DEF HasClock
<1> QED  BY <1>1 DEF LineInv, LineTypes, ClockHeld

\* The end of a process takes lines only from itself.
LEMMA LineInvRelease ==
  ASSUME LineInv, NEW p \in Process, NEW how, Release(p, how)
  PROVE  LineInv'
<1>1. /\ pc' = [pc EXCEPT ![p] = "done"]
      /\ next' = [next EXCEPT ![p] = 1]
      /\ holder' = [l \in ChipLines |-> IF holder[l] = p THEN Nobody ELSE holder[l]]
      /\ config' = config
  BY DEF Release
<1>2. LineTypes'
  BY <1>1 DEF LineInv, LineTypes, Pc
<1>3. ASSUME NEW q \in Process, HasClock(q)'
      PROVE  config.spi_clk \in ChipLines /\ holder'[config.spi_clk] = q
  <2>1. q # p
    BY <1>1, <1>3 DEF HasClock, InScope, LineInv, LineTypes
  <2>2. HasClock(q)
    BY <1>1, <1>3, <2>1 DEF HasClock, LineInv, LineTypes
  <2>3. config.spi_clk \in ChipLines /\ holder[config.spi_clk] = q
    BY <2>2 DEF LineInv, ClockHeld
  <2> QED  BY <1>1, <2>1, <2>3
<1> QED  BY <1>1, <1>2, <1>3 DEF LineInv, ClockHeld

LEMMA LineInvAcquire ==
  ASSUME LineInv, NEW p \in Process, AcquireLine(p)
  PROVE  LineInv'
<1> DEFINE line == LineRequest(p)
<1>1. CASE line.use = "adc" /\ ~ AdcAccepts(config)
  BY <1>1, LineInvRelease DEF AcquireLine
<1>2. CASE ~ (line.use = "adc" /\ ~ AdcAccepts(config))
  <2>1. /\ pc[p] = "gpio"
        /\ line.pin \in ChipLines /\ holder[line.pin] = Nobody
        /\ holder' = [holder EXCEPT ![line.pin] = p]
        /\ config' = config
        /\ Proceeds(p, "spawn")
    BY <1>2, ProceedSplits DEF AcquireLine
  <2>2. LineTypes'
    BY <2>1 DEF Proceeds, LineInv, LineTypes, Pc, Begun
  <2>3. config \in Configuration
    BY ConfigurationAssumption DEF LineInv, LineTypes
  <2>4. ASSUME NEW q \in Process, HasClock(q)'
        PROVE  config.spi_clk \in ChipLines /\ holder'[config.spi_clk] = q
    <3>1. CASE q = p /\ next[p] = 1
      <4>1. line.pin = config.spi_clk
        <5>1. LineRequests(config)[1] = Request("bus", config.spi_clk, "low")
          BY <2>3, FirstRequest
        <5> QED  BY <3>1, <5>1 DEF LineRequest, Request
      <4> QED  BY <2>1, <3>1, <4>1 DEF LineInv, LineTypes
    <3>2. CASE q # p \/ next[p] # 1
      <4>1. HasClock(q)
        BY <2>1, <2>4, <3>2 DEF HasClock, Proceeds, LineInv, LineTypes
      <4>2. config.spi_clk \in ChipLines /\ holder[config.spi_clk] = q
        BY <4>1 DEF LineInv, ClockHeld
      <4>3. q # Nobody
        BY ProcessAssumption DEF Process
      <4> QED  BY <2>1, <4>2, <4>3 DEF LineInv, LineTypes
    <3> QED  BY <3>1, <3>2
  <2> QED  BY <2>1, <2>2, <2>4 DEF LineInv, ClockHeld
<1> QED  BY <1>1, <1>2

LEMMA LineInvLookup ==
  ASSUME LineInv, NEW p \in Process, LookupFails(p)
  PROVE  LineInv'
<1>1. CASE LineRequest(p).use \in {"adc", "driver"}
  <2>1. pc[p] = "gpio" /\ Proceeds(p, "spawn") /\ UNCHANGED <<config, holder>>
    BY <1>1, ProceedSplits DEF LookupFails, world
  <2>2. next[p] # 1
    <3>1. config \in Configuration
      BY ConfigurationAssumption DEF LineInv, LineTypes
    <3>2. LineRequests(config)[1] = Request("bus", config.spi_clk, "low")
      BY <3>1, FirstRequest
    <3> QED  BY <1>1, <3>2 DEF LineRequest, Request
  <2>3. HasClock(p)
    BY <2>1, <2>2 DEF HasClock
  <2>4. /\ pc' \in [Process -> Pc] /\ DOMAIN next' = Process
        /\ \A q \in Process \ {p} : pc'[q] = pc[q] /\ next'[q] = next[q]
    BY <2>1 DEF Proceeds, LineInv, LineTypes, Pc, Begun
  <2> QED  BY <2>1, <2>3, <2>4, LineInvMove
<1>2. CASE LineRequest(p).use \notin {"adc", "driver"}
  BY <1>2, LineInvRelease DEF LookupFails, Exit
<1> QED  BY <1>1, <1>2

\* Directories, log files and the configuration: only the last claim leads to the
\* lines, with the count at one.
LEMMA LineInvClaims ==
  ASSUME LineInv, NEW p \in Process, NEW label \in Begun \ {"spawn"},
         pc[p] \in Begun \ {"gpio", "spawn"}, Proceeds(p, label),
         UNCHANGED <<config, holder>>
  PROVE  LineInv'
<1>1. /\ pc' \in [Process -> Pc] /\ DOMAIN next' = Process
      /\ \A q \in Process \ {p} : pc'[q] = pc[q] /\ next'[q] = next[q]
  BY DEF Proceeds, LineInv, LineTypes, Pc
<1>2. ~ HasClock(p)'
  BY DEF Proceeds, HasClock, Begun, InScope, LineInv, LineTypes
<1> QED  BY <1>1, <1>2, LineInvMove

\* The thread scope is entered, and walked through, with the clock in hand.
LEMMA LineInvScope ==
  ASSUME LineInv, NEW p \in Process, NEW label \in InScope,
         pc[p] \in {"spawn"} \cup InScope, Proceed(p, label),
         UNCHANGED <<config, holder>>
  PROVE  LineInv'
<1>1. Proceeds(p, label)
  BY ProceedSplits
<1>2. /\ pc' \in [Process -> Pc] /\ DOMAIN next' = Process
      /\ \A q \in Process \ {p} : pc'[q] = pc[q] /\ next'[q] = next[q]
  BY <1>1 DEF Proceeds, LineInv, LineTypes, Pc
<1>3. HasClock(p)
  BY DEF HasClock
<1> QED  BY <1>2, <1>3, LineInvMove

LEMMA LineInvStep == LineInv /\ [Next]_vars => LineInv'
<1> SUFFICES ASSUME LineInv, [Next]_vars PROVE LineInv'
  OBVIOUS
<1>1. ASSUME UNCHANGED <<config, holder, pc, next>> PROVE LineInv'
  BY <1>1 DEF LineInv, LineTypes, ClockHeld, HasClock
<1>2. CASE UNCHANGED vars
  BY <1>1, <1>2 DEF vars, world, process
<1>3. ASSUME NEW p \in Process,
             \/ LogBlocked(p) \/ Fault(p) \/ LineRefused(p) \/ Join(p) \/ Kill(p)
      PROVE  LineInv'
  BY <1>3, LineInvRelease DEF LogBlocked, Fault, LineRefused, Join, Kill, Exit
<1>4. ASSUME NEW p \in Process, Begin(p) PROVE LineInv'
  <2>1. pc' = [pc EXCEPT ![p] = "path"] /\ UNCHANGED <<config, holder, next>>
    BY <1>4 DEF Begin, world
  <2>2. ~ HasClock(p)'
    BY <2>1 DEF HasClock, InScope, LineInv, LineTypes
  <2> QED  BY <2>1, <2>2, LineInvMove DEF LineInv, LineTypes, Pc, Begun
<1>5. ASSUME NEW p \in Process, MakeDirs(p) PROVE LineInv'
  <2>1. /\ pc[p] \in {"path", "group"} /\ UNCHANGED <<config, holder, next>>
        /\ \E label \in {"console", "group", "sensors", "logs"} : pc' = [pc EXCEPT ![p] = label]
    BY <1>5 DEF MakeDirs, GroupOrLogs
  <2>2. ~ HasClock(p)'
    BY <2>1 DEF HasClock, InScope, LineInv, LineTypes
  <2> QED  BY <2>1, <2>2, LineInvMove DEF LineInv, LineTypes, Pc, Begun
<1>6. ASSUME NEW p \in Process, CreateLog(p) \/ ParseConfig(p) PROVE LineInv'
  <2>1. CASE CreateLog(p)
    <3>1. /\ pc[p] \in {"console", "sensors", "logs"} /\ UNCHANGED <<config, holder>>
          /\ \E label \in {"parse", "group", "logs", "gpio"} : Proceeds(p, label)
      BY <2>1, ProceedSplits DEF CreateLog, KeepLog, GroupOrLogs
    <3> QED  BY <3>1, LineInvClaims DEF Begun
  <2>2. CASE ParseConfig(p) /\ Parse(config) = "ok"
    <3>1. /\ pc[p] = "parse" /\ UNCHANGED <<config, holder>>
          /\ \E label \in {"group", "logs"} : Proceeds(p, label)
      BY <2>2, ProceedSplits DEF ParseConfig, GroupOrLogs, world
    <3> QED  BY <3>1, LineInvClaims DEF Begun
  <2>3. CASE ParseConfig(p) /\ Parse(config) # "ok"
    BY <2>3, LineInvRelease DEF ParseConfig, Exit
  <2> QED  BY <1>6, <2>1, <2>2, <2>3
<1>7. ASSUME NEW p \in Process, AcquireLine(p) \/ LookupFails(p) PROVE LineInv'
  BY <1>7, LineInvAcquire, LineInvLookup
<1>8. ASSUME NEW p \in Process,
             SpawnThreads(p) \/ Bind(p) \/ BindFails(p) \/ AcceptLoopEnds(p)
      PROVE  LineInv'
  BY <1>8, LineInvScope DEF SpawnThreads, Bind, BindFails, AcceptLoopEnds, world, InScope
<1>9. ASSUME NEW p \in Process,
             \/ ProcedurePanics(p) \/ Heartbeat(p) \/ Operate(p)
             \/ \E t \in Threads(config) : ThreadEnds(p, t)
      PROVE  LineInv'
  BY <1>1, <1>9 DEF ProcedurePanics, Heartbeat, Operate, ThreadEnds, world, process
<1> QED  BY <1>2, <1>3, <1>4, <1>5, <1>6, <1>7, <1>8, <1>9 DEF Next, MainThread

\* Two controllers never run their threads at once: both would hold the clock.
THEOREM OneController == Spec => []ControllersExclude
<1>1. LineInv => ControllersExclude
  BY DEF LineInv, ClockHeld, HasClock, ControllersExclude
<1> QED  BY LineInvInit, LineInvStep, <1>1, PTL DEF Spec

-----------------------------------------------------------------------------
\* Types.

LEMMA SomeClaims ==
  ASSUME NEW c \in Configuration
  PROVE  /\ Len(LineRequests(c)) \in Nat \ {0}
         /\ DOMAIN LineRequests(c) = 1 .. Len(LineRequests(c))
<1>1. LineRequests(c) \in Seq(Line)
      /\ Len(LineRequests(c)) = 4 + Len(c.adc_cs) + Len(c.drivers)
      /\ Len(c.adc_cs) \in Nat /\ Len(c.drivers) \in Nat
  BY LineRequestsAre
<1>2. DOMAIN LineRequests(c) = 1 .. Len(LineRequests(c)) /\ Len(LineRequests(c)) \in Nat
  BY <1>1, LenProperties
<1>3. \A a, b \in Nat : 4 + a + b \in Nat \ {0}
  OBVIOUS
<1> QED  BY <1>1, <1>2, <1>3

LEMMA GroupTypes ==
  ASSUME config \in Configurations
  PROVE  /\ Len(config.sensor_groups) \in Nat
         /\ DOMAIN config.sensor_groups = 1 .. Len(config.sensor_groups)
         /\ \A g \in DOMAIN config.sensor_groups :
              /\ Len(config.sensor_groups[g].sensors) \in Nat
              /\ DOMAIN config.sensor_groups[g].sensors
                   = 1 .. Len(config.sensor_groups[g].sensors)
              /\ config.sensor_groups[g].sensors # <<>> =>
                   Len(config.sensor_groups[g].sensors) \in Nat \ {0}
<1>1. config.sensor_groups \in Seq(SensorGroup)
  BY ConfigurationAssumption, ConfigurationTypes
<1>2. ASSUME NEW g \in DOMAIN config.sensor_groups
      PROVE  config.sensor_groups[g].sensors \in Seq(Sensor)
  <2>1. config.sensor_groups[g] \in SensorGroup
    BY <1>1, ElementOfSeq, LenProperties
  <2> QED  BY <2>1 DEF SensorGroup
<1>3. \A s \in Seq(Sensor) : /\ Len(s) \in Nat /\ DOMAIN s = 1 .. Len(s)
                             /\ s # <<>> => Len(s) \in Nat \ {0}
  <2>1. \A s \in Seq(Sensor) : Len(s) \in Nat /\ DOMAIN s = 1 .. Len(s)
    BY LenProperties
  <2>2. \A s \in Seq(Sensor) : s # <<>> => Len(s) # 0
    BY EmptySeq
  <2> QED  BY <2>1, <2>2
<1> QED  BY <1>1, <1>2, <1>3, LenProperties

\* Until the configuration is parsed no sensor group has been come to.
Before == {"off", "path", "console", "parse"}

\* Where the main thread is, and the claim it is about to make.
Control ==
  /\ pc \in [Process -> Pc]
  /\ group \in [Process -> 1 .. Len(config.sensor_groups) + 1]
  /\ \A q \in Process : pc[q] \in {"group", "sensors"} =>
       group[q] \in DOMAIN config.sensor_groups
  /\ \A q \in Process : pc[q] \in Before => group[q] = 1
  /\ next \in [Process -> Nat]
  /\ \A q \in Process : next[q] \in 1 .. Claims(q)

\* A process enters a phase, with its first claim.
LEMMA ControlEnters ==
  ASSUME Control, config \in Configurations, config' = config, NEW p \in Process,
         NEW label \in Pc, NEW g \in 1 .. Len(config.sensor_groups) + 1,
         pc' = [pc EXCEPT ![p] = label], next' = [next EXCEPT ![p] = 1],
         group' = [group EXCEPT ![p] = g],
         label \in {"group", "sensors"} => g \in DOMAIN config.sensor_groups,
         label = "sensors" => config.sensor_groups[g].sensors # <<>>,
         label \in Before => g = 1
  PROVE  Control'
<1>1. /\ pc'[p] = label /\ next'[p] = 1 /\ group'[p] = g
      /\ \A q \in Process \ {p} : pc'[q] = pc[q] /\ next'[q] = next[q] /\ group'[q] = group[q]
  BY DEF Control
<1>2. ASSUME NEW q \in Process PROVE next'[q] \in 1 .. Claims(q)'
  <2>1. CASE q = p
    <3>1. Claims(p)' \in Nat \ {0}
      <4>1. CASE label = "sensors"
        <5>1. Claims(p)' = Len(config.sensor_groups[g].sensors)
          BY <1>1, <4>1 DEF Claims
        <5> QED  BY <4>1, <5>1, GroupTypes
      <4>2. CASE label = "gpio"
        <5>1. Claims(p)' = Len(LineRequests(config))
          BY <1>1, <4>2 DEF Claims
        <5> QED  BY <5>1, SomeClaims, ConfigurationAssumption
      <4>3. CASE label \notin {"sensors", "gpio"}
        <5>1. Claims(p)' \in {1, 3}
          BY <1>1, <4>3 DEF Claims
        <5> QED  BY <5>1
      <4> QED  BY <4>1, <4>2, <4>3
    <3> QED  BY <1>1, <2>1, <3>1
  <2>2. CASE q # p
    <3>1. Claims(q)' = Claims(q)
      BY <1>1, <2>2 DEF Claims
    <3> QED  BY <1>1, <2>2, <3>1 DEF Control
  <2> QED  BY <2>1, <2>2
<1>3. /\ pc' \in [Process -> Pc] /\ next' \in [Process -> Nat]
      /\ group' \in [Process -> 1 .. Len(config.sensor_groups) + 1]
  BY DEF Control
<1>4. \A q \in Process : /\ pc'[q] \in {"group", "sensors"} =>
                              group'[q] \in DOMAIN config.sensor_groups
                         /\ pc'[q] \in Before => group'[q] = 1
  BY <1>1 DEF Control
<1> QED  BY <1>2, <1>3, <1>4 DEF Control

\* It counts on while there is a claim left.
LEMMA ControlCounts ==
  ASSUME Control, config \in Configurations, NEW p \in Process, next[p] < Claims(p),
         next' = [next EXCEPT ![p] = @ + 1], UNCHANGED <<config, pc, group>>
  PROVE  Control'
<1>1. next'[p] = next[p] + 1 /\ (\A q \in Process \ {p} : next'[q] = next[q])
      /\ next' \in [Process -> Nat]
  BY DEF Control
<1>2. \A q \in Process : Claims(q)' = Claims(q)
  BY DEF Claims
<1>3. Claims(p) \in Nat
  <2>1. pc[p] = "sensors" => group[p] \in DOMAIN config.sensor_groups
    BY DEF Control
  <2>2. Len(LineRequests(config)) \in Nat
    BY SomeClaims, ConfigurationAssumption
  <2> QED  BY <2>1, <2>2, GroupTypes DEF Claims
<1>4. next'[p] \in 1 .. Claims(p)
  BY <1>1, <1>3 DEF Control
<1> QED  BY <1>1, <1>2, <1>4 DEF Control

LEMMA ControlProceeds ==
  ASSUME Control, config \in Configurations, UNCHANGED <<config, group>>,
         NEW p \in Process, pc[p] \notin {"sensors"}, NEW label \in Pc \ {"sensors"},
         label = "group" => group[p] \in DOMAIN config.sensor_groups,
         label \in Before => group[p] = 1, Proceed(p, label)
  PROVE  Control'
<1>1. CASE next[p] < Claims(p)
  BY <1>1, ControlCounts DEF Proceed
<1>2. CASE ~ next[p] < Claims(p)
  <2>1. group[p] \in 1 .. Len(config.sensor_groups) + 1 /\ group' = [group EXCEPT ![p] = group[p]]
    BY DEF Control
  <2>2. pc' = [pc EXCEPT ![p] = label] /\ next' = [next EXCEPT ![p] = 1]
    BY <1>2 DEF Proceed
  <2> QED  BY <2>1, <2>2, ControlEnters
<1> QED  BY <1>1, <1>2

\* Steps that leave control alone.
LEMMA ControlStays ==
  ASSUME Control, UNCHANGED <<config, pc, group, next>>
  PROVE  Control'
<1>1. \A q \in Process : Claims(q)' = Claims(q)
  BY DEF Claims
<1> QED  BY <1>1 DEF Control

\* What the process, and the world, have of files, lines, threads and results.
Resources ==
  /\ config \in Configurations
  /\ files = UNION {opened[q] : q \in Process}
  /\ dirs = {<<>>} \cup UNION {made[q] : q \in Process}
  /\ holder \in [ChipLines -> Process \cup {Nobody}]
  /\ level \in [ChipLines -> BOOLEAN]
  /\ port \in Process \cup {Nobody}
  /\ dir \in [Process -> Dir]
  /\ drivers \in [Process -> Seq(ChipLines)]
  /\ adcs \in [Process -> Seq(ChipLines)]
  /\ threads \in [Process -> SUBSET Threads(config)]
  /\ panicked \in [Process -> BOOLEAN]
  /\ result \in [Process -> Result]
  /\ DOMAIN opened = Process /\ DOMAIN made = Process
  /\ disturbed \subseteq Process

TypeInv == Resources /\ Control

LEMMA TypeSplits == TypeInv => TypeOK
  BY DEF TypeInv, TypeOK, Resources, Control

LEMMA TypeInit == Init => TypeInv
<1> SUFFICES ASSUME Init PROVE TypeInv
  OBVIOUS
<1>1. Resources
  BY DEF Init, Resources, Result
<1>2. Control
  <2>1. config \in Configurations /\ Len(config.sensor_groups) \in Nat
    BY GroupTypes DEF Init
  <2>2. \A q \in Process : pc[q] = "off" /\ next[q] = 1 /\ group[q] = 1 /\ Claims(q) = 1
    BY DEF Init, Claims
  <2>3. pc \in [Process -> Pc] /\ next \in [Process -> Nat]
        /\ group \in [Process -> 1 .. Len(config.sensor_groups) + 1]
    BY <2>1 DEF Init, Pc
  <2> QED  BY <2>2, <2>3 DEF Control
<1> QED  BY <1>1, <1>2 DEF TypeInv

LEMMA TypeRelease ==
  ASSUME Resources, Control, NEW p \in Process, NEW how \in Result, Release(p, how),
         level' \in [ChipLines -> BOOLEAN], disturbed' \subseteq Process
  PROVE  Resources' /\ Control'
<1>1. /\ pc' = [pc EXCEPT ![p] = "done"]
      /\ next' = [next EXCEPT ![p] = 1]
      /\ result' = [result EXCEPT ![p] = how]
      /\ threads' = [threads EXCEPT ![p] = {}]
      /\ holder' = [l \in ChipLines |-> IF holder[l] = p THEN Nobody ELSE holder[l]]
      /\ port' = IF port = p THEN Nobody ELSE port
      /\ drivers' = [drivers EXCEPT ![p] = <<>>]
      /\ adcs' = [adcs EXCEPT ![p] = <<>>]
      /\ panicked' = [panicked EXCEPT ![p] = FALSE]
      /\ UNCHANGED <<config, files, dirs, dir, group, opened, made>>
  BY DEF Release
<1>2. Resources'
  BY <1>1 DEF Resources
<1>3. Control'
  <2>1. group[p] \in 1 .. Len(config.sensor_groups) + 1 /\ group' = [group EXCEPT ![p] = group[p]]
    BY <1>1 DEF Control
  <2> QED  BY <1>1, <2>1, ControlEnters DEF Resources, Pc, Before
<1> QED  BY <1>2, <1>3

\* Of a family of sets one grows.
LEMMA UnionGrows ==
  ASSUME NEW S, NEW f, DOMAIN f = S, NEW p \in S, NEW x, NEW g, g = [f EXCEPT ![p] = @ \cup x]
  PROVE  UNION {g[q] : q \in S} = x \cup UNION {f[q] : q \in S} /\ DOMAIN g = S
<1>1. \A q \in S : g[q] = IF q = p THEN f[p] \cup x ELSE f[q]
  OBVIOUS
<1>2. ASSUME NEW e
      PROVE  (\E q \in S : e \in g[q]) <=> (\E q \in S : e \in f[q]) \/ e \in x
  BY <1>1
<1>3. UNION {g[q] : q \in S} = x \cup UNION {f[q] : q \in S}
  BY <1>2
<1> QED  BY <1>3

\* The groups before, the next one and the place behind the last.
LEMMA GroupGoesOn ==
  ASSUME config \in Configurations, NEW g \in 0 .. Len(config.sensor_groups)
  PROVE  /\ g + 1 \in 1 .. Len(config.sensor_groups) + 1
         /\ GroupOrLogs(g + 1) \in {"group", "logs"}
         /\ GroupOrLogs(g + 1) = "group" <=> g + 1 \in DOMAIN config.sensor_groups
BY GroupTypes DEF GroupOrLogs

LEMMA TypeCreate ==
  ASSUME Resources, Control, NEW p \in Process, CreateLog(p)
  PROVE  Resources' /\ Control'
<1> DEFINE file == Place(LogPath(p))
<1>1. /\ pc[p] \in {"console", "sensors", "logs"}
      /\ files' = files \cup {file}
      /\ opened' = [opened EXCEPT ![p] = @ \cup {file}]
      /\ group' = IF pc[p] = "sensors" /\ next[p] = Claims(p)
                  THEN [group EXCEPT ![p] = @ + 1] ELSE group
      /\ Proceed(p, IF pc[p] = "console" THEN "parse"
                    ELSE IF pc[p] = "sensors" THEN GroupOrLogs(group[p] + 1) ELSE "gpio")
      /\ UNCHANGED <<config, dirs, holder, level, port, dir, drivers, adcs, threads, panicked,
                     result, made, disturbed>>
  BY DEF CreateLog, KeepLog
<1> HIDE DEF file
<1>2. Resources'
  <2>1. files' = UNION {opened'[q] : q \in Process} /\ DOMAIN opened' = Process
    BY <1>1, UnionGrows DEF Resources
  <2> QED  BY <1>1, <2>1 DEF Resources
<1>3. CASE pc[p] = "console"
  <2>1. group[p] = 1
    BY <1>3 DEF Control, Before
  <2>2. Control'
    BY <1>1, <1>3, <2>1, ControlProceeds DEF Resources, Pc, Begun
  <2> QED  BY <1>2, <2>2
<1>4. CASE pc[p] = "logs"
  <2>1. Control'
    BY <1>1, <1>4, ControlProceeds DEF Resources, Pc, Begun, Before
  <2> QED  BY <1>2, <2>1
<1>5. CASE pc[p] = "sensors"
  <2>1. /\ group[p] \in DOMAIN config.sensor_groups /\ next[p] \in 1 .. Claims(p)
        /\ Claims(p) \in Nat /\ config \in Configurations
    BY <1>5, GroupTypes DEF Control, Resources, Claims
  <2>2. CASE next[p] < Claims(p)
    <3>1. next' = [next EXCEPT ![p] = @ + 1] /\ UNCHANGED <<config, pc, group>>
      BY <1>1, <1>5, <2>1, <2>2 DEF Proceed
    <3>2. Control'
      BY <2>1, <2>2, <3>1, ControlCounts
    <3> QED  BY <1>2, <3>2
  <2>3. CASE ~ next[p] < Claims(p)
    <3>1. next[p] = Claims(p)
      BY <2>1, <2>3
    <3> DEFINE label == GroupOrLogs(group[p] + 1)
    <3>2. /\ next' = [next EXCEPT ![p] = 1] /\ pc' = [pc EXCEPT ![p] = label]
          /\ group' = [group EXCEPT ![p] = group[p] + 1]
      BY <1>1, <1>5, <2>3, <3>1 DEF Proceed
    <3>3. group[p] \in 0 .. Len(config.sensor_groups)
      BY <2>1, GroupTypes
    <3>4. /\ group[p] + 1 \in 1 .. Len(config.sensor_groups) + 1
          /\ label \in {"group", "logs"}
          /\ label = "group" => group[p] + 1 \in DOMAIN config.sensor_groups
      BY <2>1, <3>3, GroupGoesOn
    <3> HIDE DEF label
    <3>5. Control'
      BY <1>1, <2>1, <3>2, <3>4, ControlEnters DEF Pc, Begun, Before
    <3> QED  BY <1>2, <3>5
  <2> QED  BY <2>2, <2>3
<1> QED  BY <1>1, <1>3, <1>4, <1>5

LEMMA TypeMakeDirs ==
  ASSUME Resources, Control, NEW p \in Process, MakeDirs(p)
  PROVE  Resources' /\ Control'
<1>1. /\ pc[p] \in {"path", "group"}
      /\ dirs' = dirs \cup NewDirs(p)
      /\ made' = [made EXCEPT ![p] = @ \cup NewDirs(p)]
      /\ UNCHANGED <<config, files, holder, level, port, dir, next, drivers, adcs, threads,
                     panicked, result, opened, disturbed>>
  BY DEF MakeDirs
<1>2. Resources'
  <2>1. dirs' = {<<>>} \cup UNION {made'[q] : q \in Process} /\ DOMAIN made' = Process
    BY <1>1, UnionGrows DEF Resources
  <2> QED  BY <1>1, <2>1 DEF Resources
<1>3. next' = [next EXCEPT ![p] = 1] /\ next[p] = 1
  <2>1. Claims(p) = 1
    BY <1>1 DEF Claims
  <2> QED  BY <1>1, <2>1 DEF Control
<1>4. config \in Configurations /\ group[p] \in 1 .. Len(config.sensor_groups) + 1
  BY DEF Resources, Control
<1>5. CASE pc[p] = "path"
  <2>1. pc' = [pc EXCEPT ![p] = "console"] /\ group' = [group EXCEPT ![p] = group[p]]
        /\ group[p] = 1
    BY <1>5 DEF MakeDirs, Control, Before
  <2>2. Control'
    BY <1>1, <1>3, <1>4, <2>1, ControlEnters DEF Pc, Begun
  <2> QED  BY <1>2, <2>2
<1>6. CASE pc[p] = "group" /\ config.sensor_groups[group[p]].sensors = <<>>
  <2> DEFINE label == GroupOrLogs(group[p] + 1)
  <2>1. pc' = [pc EXCEPT ![p] = label] /\ group' = [group EXCEPT ![p] = group[p] + 1]
    BY <1>6 DEF MakeDirs
  <2>2. group[p] \in 0 .. Len(config.sensor_groups)
    BY <1>4, <1>6, GroupTypes DEF Control
  <2>3. /\ group[p] + 1 \in 1 .. Len(config.sensor_groups) + 1
        /\ label \in {"group", "logs"}
        /\ label = "group" => group[p] + 1 \in DOMAIN config.sensor_groups
    BY <1>4, <2>2, GroupGoesOn
  <2> HIDE DEF label
  <2>4. Control'
    BY <1>1, <1>3, <1>4, <2>1, <2>3, ControlEnters DEF Pc, Begun, Before
  <2> QED  BY <1>2, <2>4
<1>7. CASE pc[p] = "group" /\ config.sensor_groups[group[p]].sensors # <<>>
  <2>1. pc' = [pc EXCEPT ![p] = "sensors"] /\ group' = [group EXCEPT ![p] = group[p]]
        /\ group[p] \in DOMAIN config.sensor_groups
    BY <1>7 DEF MakeDirs, Control
  <2>2. Control'
    BY <1>1, <1>3, <1>4, <1>7, <2>1, ControlEnters DEF Pc, Begun, Before
  <2> QED  BY <1>2, <2>2
<1> QED  BY <1>1, <1>5, <1>6, <1>7

LEMMA TypeAcquire ==
  ASSUME Resources, Control, NEW p \in Process, AcquireLine(p)
  PROVE  Resources' /\ Control'
<1> DEFINE line == LineRequest(p)
<1>1. level' = [level EXCEPT ![line.pin] =
                  IF line.level = "in" THEN @ ELSE line.level = "high"]
  BY DEF AcquireLine
<1>2. level' \in [ChipLines -> BOOLEAN]
  <2>1. level \in [ChipLines -> BOOLEAN]
    BY DEF Resources
  <2>2. \A l \in ChipLines : (IF line.level = "in" THEN level[l] ELSE line.level = "high") \in BOOLEAN
    BY <2>1
  <2> QED  BY <1>1, <2>1, <2>2
<1>3. CASE line.use = "adc" /\ ~ AdcAccepts(config)
  <2>1. Release(p, "panic") /\ UNCHANGED disturbed
    BY <1>3 DEF AcquireLine
  <2> QED  BY <1>2, <2>1, TypeRelease DEF Resources, Result
<1>4. CASE ~ (line.use = "adc" /\ ~ AdcAccepts(config))
  <2>1. /\ pc[p] = "gpio" /\ line.pin \in ChipLines
        /\ holder' = [holder EXCEPT ![line.pin] = p]
        /\ drivers' = IF line.use = "driver"
                      THEN [drivers EXCEPT ![p] = Append(@, line.pin)] ELSE drivers
        /\ adcs' = IF line.use = "adc"
                   THEN [adcs EXCEPT ![p] = Append(@, line.pin)] ELSE adcs
        /\ Proceed(p, "spawn")
        /\ UNCHANGED <<config, files, dirs, port, dir, group, threads, panicked, result, history>>
    BY <1>4 DEF AcquireLine
  <2>2. Control'
    BY <2>1, ControlProceeds DEF Resources, Pc, Begun, Before
  <2>3. drivers' \in [Process -> Seq(ChipLines)] /\ adcs' \in [Process -> Seq(ChipLines)]
    <3>1. Append(drivers[p], line.pin) \in Seq(ChipLines)
          /\ Append(adcs[p], line.pin) \in Seq(ChipLines)
      BY <2>1, AppendProperties DEF Resources
    <3> QED  BY <2>1, <3>1 DEF Resources
  <2>4. Resources'
    BY <1>2, <2>1, <2>3 DEF Resources, history
  <2> QED  BY <2>2, <2>4
<1> QED  BY <1>3, <1>4

LEMMA TypeMove ==
  ASSUME Resources, Control, NEW p \in Process,
         \/ Begin(p) \/ ParseConfig(p) \/ LookupFails(p)
         \/ SpawnThreads(p) \/ Bind(p) \/ BindFails(p) \/ AcceptLoopEnds(p)
  PROVE  Resources' /\ Control'
<1>0. config \in Configurations /\ group[p] \in 1 .. Len(config.sensor_groups) + 1
      /\ group = [group EXCEPT ![p] = group[p]]
  BY DEF Resources, Control
<1>1. CASE Begin(p)
  <2>1. /\ pc[p] = "off" /\ pc' = [pc EXCEPT ![p] = "path"]
        /\ UNCHANGED <<world, dir, group, next, drivers, adcs, threads, panicked, result, history>>
    BY <1>1 DEF Begin
  <2>2. next' = [next EXCEPT ![p] = 1] /\ group[p] = 1
    <3>1. Claims(p) = 1
      BY <2>1 DEF Claims
    <3> QED  BY <2>1, <3>1 DEF Control, Before
  <2>3. Control'
    BY <1>0, <2>1, <2>2, ControlEnters DEF world, Pc, Begun
  <2> QED  BY <2>1, <2>3 DEF Resources, world, history
<1>2. CASE ParseConfig(p)
  <2>1. CASE Parse(config) = "ok"
    <3>1. /\ pc[p] = "parse" /\ Proceed(p, GroupOrLogs(1))
          /\ UNCHANGED <<world, dir, group, drivers, adcs, threads, panicked, result, history>>
      BY <1>2, <2>1 DEF ParseConfig
    <3>2. group[p] = 1
      BY <3>1 DEF Control, Before
    <3>3. /\ GroupOrLogs(1) \in {"group", "logs"}
          /\ GroupOrLogs(1) = "group" => 1 \in DOMAIN config.sensor_groups
      BY DEF GroupOrLogs
    <3>4. Control'
      BY <1>0, <3>1, <3>2, <3>3, ControlProceeds DEF world, Pc, Begun, Before
    <3> QED  BY <3>1, <3>4 DEF Resources, world, history
  <2>2. CASE Parse(config) # "ok"
    BY <1>2, <2>2, TypeRelease DEF ParseConfig, Exit, Resources, Result
  <2> QED  BY <2>1, <2>2
<1>3. CASE LookupFails(p)
  <2>0. disturbed' \subseteq Process
    BY <1>3 DEF LookupFails, Disturb, Resources
  <2>1. CASE LineRequest(p).use \in {"adc", "driver"}
    <3>1. /\ pc[p] = "gpio" /\ Proceed(p, "spawn")
          /\ UNCHANGED <<world, dir, group, drivers, adcs, threads, panicked, result, opened, made>>
      BY <1>3, <2>1 DEF LookupFails
    <3>2. Control'
      BY <1>0, <3>1, ControlProceeds DEF world, Pc, Begun, Before
    <3> QED  BY <2>0, <3>1, <3>2 DEF Resources, world
  <2>2. CASE LineRequest(p).use \notin {"adc", "driver"}
    BY <1>3, <2>0, <2>2, TypeRelease DEF LookupFails, Exit, Resources, Result
  <2> QED  BY <2>1, <2>2
<1>4. CASE SpawnThreads(p)
  <2> DEFINE doomed == {t \in Threads(config) : PanicsAtStart(config, t)}
  <2>1. /\ threads' = [threads EXCEPT ![p] = Threads(config) \ doomed]
        /\ panicked' = [panicked EXCEPT ![p] = doomed # {}]
        /\ pc[p] = "spawn" /\ Proceed(p, "bind")
        /\ UNCHANGED <<world, dir, group, drivers, adcs, result, history>>
    BY <1>4 DEF SpawnThreads
  <2>2. Control'
    BY <1>0, <2>1, ControlProceeds DEF world, Pc, InScope, Before
  <2> HIDE DEF doomed
  <2>3. Resources'
    BY <2>1 DEF Resources, world, history
  <2> QED  BY <2>2, <2>3
<1>5. CASE Bind(p)
  <2>1. Control'
    BY <1>0, <1>5, ControlProceeds DEF Bind, Pc, InScope, Before
  <2>2. Resources'
    BY <1>5 DEF Bind, Resources, history
  <2> QED  BY <2>1, <2>2
<1>6. CASE BindFails(p)
  <2>1. Control'
    BY <1>0, <1>6, ControlProceeds DEF BindFails, world, Pc, InScope, Before
  <2>2. disturbed' \subseteq Process
    BY <1>6 DEF BindFails, Disturb, Resources
  <2>3. Resources'
    BY <1>6, <2>2 DEF BindFails, Resources, world
  <2> QED  BY <2>1, <2>3
<1>7. CASE AcceptLoopEnds(p)
  <2>1. Control'
    BY <1>0, <1>7, ControlProceeds DEF AcceptLoopEnds, Pc, InScope, Before
  <2>2. disturbed' \subseteq Process
    BY <1>7 DEF AcceptLoopEnds, Disturb, Resources
  <2>3. panicked' \in [Process -> BOOLEAN]
    BY <1>7 DEF AcceptLoopEnds, Resources
  <2>4. Resources'
    BY <1>7, <2>2, <2>3 DEF AcceptLoopEnds, Resources
  <2> QED  BY <2>1, <2>4
<1> QED  BY <1>1, <1>2, <1>3, <1>4, <1>5, <1>6, <1>7

LEMMA TypeRun ==
  ASSUME Resources, Control, NEW p \in Process,
         \/ ProcedurePanics(p) \/ Heartbeat(p) \/ Operate(p)
         \/ \E t \in Threads(config) : ThreadEnds(p, t)
  PROVE  Resources' /\ Control'
<1>1. UNCHANGED <<config, pc, group, next>>
  BY DEF ProcedurePanics, Heartbeat, Operate, ThreadEnds, world, process
<1>2. Control'
  BY <1>1, ControlStays
<1>3. CASE ProcedurePanics(p)
  BY <1>2, <1>3 DEF ProcedurePanics, Resources, world, history
<1>4. CASE Heartbeat(p)
  <2>1. level' \in [ChipLines -> BOOLEAN]
    BY <1>4 DEF Heartbeat, Resources
  <2> QED  BY <1>2, <1>4, <2>1 DEF Heartbeat, Resources, process, history
<1>5. CASE Operate(p)
  <2>1. level' \in [ChipLines -> BOOLEAN]
    BY <1>5 DEF Operate, Resources
  <2> QED  BY <1>2, <1>5, <2>1 DEF Operate, Resources, process, history
<1>6. ASSUME NEW t \in Threads(config), ThreadEnds(p, t)
      PROVE  Resources'
  <2>1. panicked' \in [Process -> BOOLEAN] /\ disturbed' \subseteq Process
    BY <1>6 DEF ThreadEnds, Disturb, Resources
  <2>2. threads' = [threads EXCEPT ![p] = @ \ {t}]
        /\ UNCHANGED <<world, pc, dir, group, next, drivers, adcs, result, opened, made>>
    BY <1>6 DEF ThreadEnds
  <2> QED  BY <2>1, <2>2 DEF Resources, world
<1> QED  BY <1>2, <1>3, <1>4, <1>5, <1>6

LEMMA TypeStep == TypeInv /\ [Next]_vars => TypeInv'
<1> SUFFICES ASSUME Resources, Control, [Next]_vars PROVE Resources' /\ Control'
  BY DEF TypeInv
<1>1. CASE UNCHANGED vars
  BY <1>1, ControlStays DEF vars, world, process, history, Resources
<1>2. ASSUME NEW p \in Process,
             \/ LogBlocked(p) \/ Fault(p) \/ LineRefused(p) \/ Join(p) \/ Kill(p)
      PROVE  Resources' /\ Control'
  <2>1. \E how \in Result : Release(p, how)
    BY <1>2 DEF LogBlocked, Fault, LineRefused, Join, Kill, Exit, Result
  <2>2. level' = level
    BY <1>2 DEF LogBlocked, Fault, LineRefused, Join, Kill, Exit
  <2>3. disturbed' \subseteq Process
    BY <1>2 DEF LogBlocked, Fault, LineRefused, Join, Kill, Disturb, Resources
  <2>4. level' \in [ChipLines -> BOOLEAN]
    BY <2>2 DEF Resources
  <2> QED  BY <2>1, <2>3, <2>4, TypeRelease
<1> QED  BY <1>1, <1>2, TypeCreate, TypeMakeDirs, TypeAcquire, TypeMove, TypeRun
         DEF Next, MainThread

\* The variables have their types: no process counts past its claims, or its
\* sensor groups, and files and directories are those that processes have made.
THEOREM TypesHold == Spec => []TypeOK
  BY TypeInit, TypeStep, TypeSplits, PTL DEF Spec

-----------------------------------------------------------------------------
\* The lines that a process has been granted.

\* How many lines a process has been through, by where its main thread is.
Through(c, at, k) ==
  IF at = "gpio" THEN k - 1
  ELSE IF at \in {"spawn"} \cup InScope THEN Len(LineRequests(c))
  ELSE 0

Asked(p) == Through(config, pc[p], next[p])

\* How many of count requests that follow the first m0 are among the first m.
Past(m, m0, count) ==
  IF m <= m0 THEN 0 ELSE IF m <= m0 + count THEN m - m0 ELSE count

\* What a process that no look-up disturbed was granted: every line, ...
Granted(p) ==
  \A k \in 1 .. Asked(p) :
    LineRequests(config)[k].pin \in ChipLines /\ holder[LineRequests(config)[k].pin] = p

\* ... with the level it asked for, until its threads run, ...
Levelled(p) ==
  pc[p] \in {"gpio", "spawn"} =>
    \A k \in 1 .. Asked(p) :
      LET line == LineRequests(config)[k]
      IN  line.level # "in" => level[line.pin] = (line.level = "high")

\* ... for all ADCs and drivers, in order.
Counted(p) ==
  /\ Len(adcs[p]) = Past(Asked(p), 3, Len(config.adc_cs))
  /\ \A i \in DOMAIN adcs[p] : adcs[p][i] = config.adc_cs[i]
  /\ Len(drivers[p]) = Past(Asked(p), 4 + Len(config.adc_cs), Len(config.drivers))
  /\ \A i \in DOMAIN drivers[p] : drivers[p][i] = config.drivers[i].pin

\* A process has no other lines than those it has asked for,
OwnLines(p) ==
  \A l \in ChipLines : holder[l] = p =>
    \E k \in 1 .. Asked(p) : LineRequests(config)[k].pin = l

\* and threads only in their scope.
Scoped(p) == threads[p] # {} => pc[p] \in InScope

\* What holds of each process.
Kept(p) ==
  /\ p \notin disturbed => Granted(p) /\ Levelled(p) /\ Counted(p)
  /\ OwnLines(p) /\ Scoped(p)

StartInv == \A p \in Process : Kept(p)

LEMMA PastGrows ==
  ASSUME NEW m \in Nat, NEW m0 \in Nat, NEW count \in Nat
  PROVE  /\ m \in m0 .. m0 + count - 1 =>
              Past(m, m0, count) = m - m0 /\ Past(m + 1, m0, count) = Past(m, m0, count) + 1
         /\ m \notin m0 .. m0 + count - 1 =>
              Past(m + 1, m0, count) = Past(m, m0, count)
         /\ Past(0, m0, count) = 0
         /\ Past(m0 + count, m0, count) = count
BY DEF Past

\* What the k-th request is for.
LEMMA RequestKinds ==
  ASSUME NEW c \in Configuration, NEW k \in 1 .. Len(LineRequests(c))
  PROVE  LET line == LineRequests(c)[k]
             n == Len(c.adc_cs)
             d == Len(c.drivers)
         IN  \/ k \in 4 .. 3 + n /\ line.use = "adc" /\ line.pin = c.adc_cs[k - 3]
             \/ k \in 5 + n .. 4 + n + d /\ line.use = "driver"
                  /\ line.pin = c.drivers[k - (4 + n)].pin
             \/ k \in {1, 2, 3, 4 + n} /\ line.use \notin {"adc", "driver"}
<1> DEFINE R == LineRequests(c)
           n == Len(c.adc_cs)
           d == Len(c.drivers)
<1>1. /\ n \in Nat /\ d \in Nat /\ Len(R) = 4 + n + d
      /\ R[1] = Request("bus", c.spi_clk, "low")
      /\ R[2] = Request("bus", c.spi_mosi, "low")
      /\ R[3] = Request("bus", c.spi_miso, "in")
      /\ \A i \in 1 .. n : R[3 + i] = Request("adc", c.adc_cs[i], "high")
      /\ R[4 + n] = Request("heartbeat", c.pin_heartbeat, "low")
      /\ \A i \in 1 .. d : R[4 + n + i] = Request("driver", c.drivers[i].pin, "low")
  BY LineRequestsAre
<1>2. \A use, pin, level0 : Request(use, pin, level0).use = use
                            /\ Request(use, pin, level0).pin = pin
  BY DEF Request
<1>3. k \in 1 .. Len(R)
  OBVIOUS
<1> HIDE DEF R, n, d
<1>4. k \in {1, 2, 3, 4 + n} => R[k].use \notin {"adc", "driver"}
  BY <1>1, <1>2
<1>5. ASSUME k \in 4 .. 3 + n
      PROVE  R[k].use = "adc" /\ R[k].pin = c.adc_cs[k - 3]
  <2>1. k - 3 \in 1 .. n /\ 3 + (k - 3) = k
    BY <1>1, <1>5
  <2>2. R[k] = Request("adc", c.adc_cs[k - 3], "high")
    BY <1>1, <2>1
  <2> QED  BY <1>2, <2>2
<1>6. ASSUME k \in 5 + n .. 4 + n + d
      PROVE  R[k].use = "driver" /\ R[k].pin = c.drivers[k - (4 + n)].pin
  <2>1. k - (4 + n) \in 1 .. d /\ 4 + n + (k - (4 + n)) = k
    BY <1>1, <1>6
  <2>2. R[k] = Request("driver", c.drivers[k - (4 + n)].pin, "low")
    BY <1>1, <2>1
  <2> QED  BY <1>2, <2>2
<1>7. k \in {1, 2, 3, 4 + n} \/ k \in 4 .. 3 + n \/ k \in 5 + n .. 4 + n + d
  BY <1>1, <1>3
<1>8. \/ k \in 4 .. 3 + n /\ R[k].use = "adc" /\ R[k].pin = c.adc_cs[k - 3]
      \/ k \in 5 + n .. 4 + n + d /\ R[k].use = "driver"
           /\ R[k].pin = c.drivers[k - (4 + n)].pin
      \/ k \in {1, 2, 3, 4 + n} /\ R[k].use \notin {"adc", "driver"}
  BY <1>4, <1>5, <1>6, <1>7
<1> QED  BY <1>8 DEF R, n, d

\* A claim of a line, granted or skipped, is one more.
LEMMA AskedGrows ==
  ASSUME Resources, Control, config' = config, NEW p \in Process,
         pc[p] = "gpio", Proceed(p, "spawn")
  PROVE  /\ Asked(p) \in Nat /\ Asked(p)' = Asked(p) + 1
         /\ Asked(p) + 1 \in 1 .. Len(LineRequests(config)) /\ next[p] = Asked(p) + 1
         /\ pc'[p] \in {"gpio", "spawn"}
<1>1. Len(LineRequests(config)) \in Nat \ {0}
  BY SomeClaims, ConfigurationAssumption DEF Resources
<1>2. Claims(p) = Len(LineRequests(config))
  BY DEF Claims
<1>3. next[p] \in 1 .. Len(LineRequests(config)) /\ next[p] \in Nat
  BY <1>2 DEF Control
<1>4. Asked(p) = next[p] - 1
  BY DEF Asked, Through
<1>5. CASE next[p] < Len(LineRequests(config))
  <2>1. next' = [next EXCEPT ![p] = next[p] + 1] /\ pc' = pc
    BY <1>2, <1>5 DEF Proceed
  <2>2. Asked(p)' = (next[p] + 1) - 1
    BY <2>1 DEF Asked, Through, Control
  <2> QED  BY <1>1, <1>3, <1>4, <2>1, <2>2
<1>6. CASE ~ (next[p] < Len(LineRequests(config)))
  <2>1. pc' = [pc EXCEPT ![p] = "spawn"]
    BY <1>2, <1>6 DEF Proceed
  <2>2. Asked(p)' = Len(LineRequests(config)) /\ pc'[p] = "spawn"
    BY <2>1 DEF Asked, Through, Control
  <2> QED  BY <1>1, <1>3, <1>4, <1>6, <2>2
<1> QED  BY <1>5, <1>6

\* Phases before the first line is requested.
Early == {"path", "console", "parse", "group", "sensors", "logs"}

\* The other claims, and the other moves, leave the count of lines alone.
LEMMA AskedStays ==
  ASSUME Control, config' = config, NEW p \in Process, NEW label,
         \/ pc[p] \in Early /\ label \in Early \cup {"gpio"}
         \/ pc[p] \in {"spawn"} \cup InScope /\ label \in InScope,
         Proceeds(p, label)
  PROVE  /\ Asked(p)' = Asked(p)
         /\ pc[p] \in Early => Asked(p) = 0
         /\ pc'[p] \in {pc[p], label}
<1>1. \/ pc'[p] = pc[p]
      \/ pc'[p] = label /\ next'[p] = 1
  BY DEF Proceeds, Control
<1>2. CASE pc[p] \in Early /\ label \in Early \cup {"gpio"}
  BY <1>1, <1>2 DEF Asked, Through, InScope, Early
<1>3. CASE pc[p] \in {"spawn"} \cup InScope /\ label \in InScope
  BY <1>1, <1>3 DEF Asked, Through, InScope, Early
<1> QED  BY <1>2, <1>3

\* Proceed moves one process.
LEMMA OthersWait ==
  ASSUME Control, NEW p \in Process, NEW label, Proceed(p, label),
         NEW q \in Process \ {p}
  PROVE  pc'[q] = pc[q] /\ next'[q] = next[q]
BY DEF Proceed, Control

\* A process keeps what it has where its lines and their levels stay.
LEMMA LinesKept ==
  ASSUME NEW q \in Process, Kept(q), config' = config, Asked(q)' = Asked(q),
         drivers'[q] = drivers[q], adcs'[q] = adcs[q],
         q \in disturbed => q \in disturbed',
         \A l \in ChipLines : holder[l] = q <=> holder'[l] = q,
         threads'[q] # {} => pc'[q] \in InScope,
         pc'[q] \in {"gpio", "spawn"} =>
           \/ Asked(q) = 0
           \/ /\ pc[q] \in {"gpio", "spawn"}
              /\ \A l \in ChipLines : holder[l] = q => level'[l] = level[l]
  PROVE  Kept(q)'
<1>1. ASSUME q \notin disturbed' PROVE Granted(q)' /\ Levelled(q)' /\ Counted(q)'
  <2>1. Granted(q) /\ Levelled(q) /\ Counted(q)
    BY <1>1 DEF Kept
  <2>2. Granted(q)'
    BY <2>1 DEF Granted
  <2>3. Counted(q)'
    BY <2>1 DEF Counted
  <2>4. Levelled(q)'
    <3>1. SUFFICES ASSUME pc'[q] \in {"gpio", "spawn"}, NEW k \in 1 .. Asked(q),
                          LineRequests(config)[k].level # "in"
                   PROVE  level'[LineRequests(config)[k].pin]
                            = (LineRequests(config)[k].level = "high")
      BY DEF Levelled
    <3>2. CASE Asked(q) = 0
      BY <3>2
    <3>3. CASE pc[q] \in {"gpio", "spawn"}
               /\ \A l \in ChipLines : holder[l] = q => level'[l] = level[l]
      BY <2>1, <3>1, <3>3 DEF Levelled, Granted
    <3> QED  BY <3>1, <3>2, <3>3
  <2> QED  BY <2>2, <2>3, <2>4
<1>2. OwnLines(q)'
  BY DEF Kept, OwnLines
<1>3. Scoped(q)'
  BY DEF Scoped
<1> QED  BY <1>1, <1>2, <1>3 DEF Kept

\* A process that is over has nothing.
LEMMA ReleaseKept ==
  ASSUME Resources, Control, NEW p \in Process, NEW how, Release(p, how)
  PROVE  Kept(p)'
<1>1. /\ pc'[p] = "done" /\ threads'[p] = {} /\ drivers'[p] = <<>> /\ adcs'[p] = <<>>
      /\ holder' = [l \in ChipLines |-> IF holder[l] = p THEN Nobody ELSE holder[l]]
      /\ config' = config
  BY DEF Release, Resources, Control
<1>2. p # Nobody
  BY ProcessAssumption DEF Process
<1>3. Asked(p)' = 0
  BY <1>1 DEF Asked, Through, InScope
<1>4. \A l \in ChipLines : holder'[l] # p
  BY <1>1, <1>2
<1>5. Len(config.adc_cs) \in Nat /\ Len(config.drivers) \in Nat
  BY LineRequestsAre, ConfigurationAssumption DEF Resources
<1>6. Counted(p)'
  <2>1. Past(0, 3, Len(config.adc_cs)) = 0
    BY <1>5, PastGrows
  <2>2. Past(0, 4 + Len(config.adc_cs), Len(config.drivers)) = 0
    <3>1. 4 + Len(config.adc_cs) \in Nat
      BY <1>5
    <3> QED  BY <1>5, <3>1, PastGrows
  <2> QED  BY <1>1, <1>3, <2>1, <2>2 DEF Counted
<1>7. Granted(p)' /\ Levelled(p)'
  BY <1>3 DEF Granted, Levelled
<1>8. OwnLines(p)' /\ Scoped(p)'
  BY <1>1, <1>4 DEF OwnLines, Scoped
<1> QED  BY <1>6, <1>7, <1>8 DEF Kept

\* The others keep what they have when one is over.
LEMMA ReleaseOthers ==
  ASSUME Resources, Control, StartInv, NEW p \in Process, NEW how, Release(p, how),
         \A l \in ChipLines : holder[l] # Nobody => level'[l] = level[l],
         disturbed \subseteq disturbed',
         NEW q \in Process, q # p
  PROVE  Kept(q)'
<1>1. /\ pc'[q] = pc[q] /\ next'[q] = next[q] /\ threads'[q] = threads[q]
      /\ drivers'[q] = drivers[q] /\ adcs'[q] = adcs[q]
      /\ holder' = [l \in ChipLines |-> IF holder[l] = p THEN Nobody ELSE holder[l]]
      /\ config' = config
  BY DEF Release, Resources, Control
<1>2. q # Nobody
  BY ProcessAssumption DEF Process
<1>3. Asked(q)' = Asked(q)
  BY <1>1 DEF Asked
<1>4. Kept(q)
  BY DEF StartInv
<1>5. \A l \in ChipLines : holder[l] = q <=> holder'[l] = q
  BY <1>1, <1>2
<1>6. threads'[q] # {} => pc'[q] \in InScope
  BY <1>1, <1>4 DEF Kept, Scoped
<1>7. \A l \in ChipLines : holder[l] = q => level'[l] = level[l]
  BY <1>2
<1> QED  BY <1>1, <1>3, <1>4, <1>5, <1>6, <1>7, LinesKept

LEMMA StartRelease ==
  ASSUME Resources, Control, StartInv, NEW p \in Process, NEW how, Release(p, how),
         \A l \in ChipLines : holder[l] # Nobody => level'[l] = level[l],
         disturbed \subseteq disturbed'
  PROVE  StartInv'
BY ReleaseKept, ReleaseOthers DEF StartInv

\* Steps after which p has asked for as much, and the others wait.
LEMMA StartMove ==
  ASSUME Resources, Control, StartInv, UNCHANGED <<config, holder, level, drivers, adcs>>,
         disturbed \subseteq disturbed', NEW p \in Process,
         \A q \in Process \ {p} : /\ pc'[q] = pc[q] /\ next'[q] = next[q]
                                  /\ threads'[q] = threads[q],
         Asked(p)' = Asked(p), threads'[p] # {} => pc'[p] \in InScope,
         pc'[p] \in {"gpio", "spawn"} => Asked(p) = 0 \/ pc[p] \in {"gpio", "spawn"}
  PROVE  StartInv'
<1>1. ASSUME NEW q \in Process, q # p PROVE Kept(q)'
  <2>1. Kept(q) /\ Asked(q)' = Asked(q)
    BY <1>1 DEF StartInv, Asked
  <2>2. threads'[q] # {} => pc'[q] \in InScope
    BY <1>1, <2>1 DEF Kept, Scoped
  <2> QED  BY <1>1, <2>1, <2>2, LinesKept
<1>2. Kept(p)'
  <2>1. Kept(p)
    BY DEF StartInv
  <2> QED  BY <2>1, LinesKept
<1> QED  BY <1>1, <1>2 DEF StartInv

LEMMA AppendAt ==
  ASSUME NEW S, NEW s \in Seq(S), NEW x \in S
  PROVE  /\ Len(Append(s, x)) = Len(s) + 1
         /\ \A i \in DOMAIN Append(s, x) :
              \/ i \in DOMAIN s /\ Append(s, x)[i] = s[i]
              \/ i = Len(s) + 1 /\ Append(s, x)[i] = x
OBVIOUS

\* The process that is granted a line has one more, and none of those it had.
LEMMA AcquireKept ==
  ASSUME Resources, Control, StartInv, NEW p \in Process, AcquireLine(p),
         ~ (LineRequest(p).use = "adc" /\ ~ AdcAccepts(config))
  PROVE  Kept(p)'
<1> DEFINE R == LineRequests(config)
           m == Asked(p)
           line == LineRequest(p)
           n == Len(config.adc_cs)
           d == Len(config.drivers)
<1>1. /\ pc[p] = "gpio"
      /\ line.pin \in ChipLines
      /\ holder[line.pin] = Nobody
      /\ level' = [level EXCEPT ![line.pin] =
                     IF line.level = "in" THEN @ ELSE line.level = "high"]
      /\ holder' = [holder EXCEPT ![line.pin] = p]
      /\ drivers' = IF line.use = "driver"
                    THEN [drivers EXCEPT ![p] = Append(@, line.pin)] ELSE drivers
      /\ adcs' = IF line.use = "adc"
                 THEN [adcs EXCEPT ![p] = Append(@, line.pin)] ELSE adcs
      /\ Proceed(p, "spawn")
      /\ UNCHANGED <<config, threads, disturbed>>
  BY DEF AcquireLine, history
<1>2. /\ m \in Nat /\ Asked(p)' = m + 1 /\ m + 1 \in 1 .. Len(R) /\ line = R[m + 1]
      /\ pc'[p] \in {"gpio", "spawn"}
  BY <1>1, AskedGrows DEF LineRequest
<1>3. config \in Configuration /\ R' = R
  BY <1>1, ConfigurationAssumption DEF Resources
<1>4. Kept(p) /\ p # Nobody
  BY ProcessAssumption DEF StartInv, Process
<1>5. /\ \A l \in ChipLines : holder'[l] = IF l = line.pin THEN p ELSE holder[l]
      /\ \A l \in ChipLines \ {line.pin} : level'[l] = level[l]
      /\ line.level # "in" => level'[line.pin] = (line.level = "high")
  BY <1>1 DEF Resources
<1>6. n \in Nat /\ d \in Nat
  BY <1>3, LineRequestsAre
<1>7. drivers[p] \in Seq(ChipLines) /\ adcs[p] \in Seq(ChipLines)
  BY DEF Resources
<1>8. /\ drivers'[p] = IF line.use = "driver" THEN Append(drivers[p], line.pin) ELSE drivers[p]
      /\ adcs'[p] = IF line.use = "adc" THEN Append(adcs[p], line.pin) ELSE adcs[p]
  BY <1>1 DEF Resources
<1>9. \/ m + 1 \in 4 .. 3 + n /\ line.use = "adc" /\ line.pin = config.adc_cs[(m + 1) - 3]
      \/ m + 1 \in 5 + n .. 4 + n + d /\ line.use = "driver"
           /\ line.pin = config.drivers[(m + 1) - (4 + n)].pin
      \/ m + 1 \in {1, 2, 3, 4 + n} /\ line.use \notin {"adc", "driver"}
  BY <1>2, <1>3, RequestKinds
<1>10. ~ pc'[p] \in InScope /\ threads'[p] = threads[p] /\ threads[p] = {}
  BY <1>1, <1>2, <1>4 DEF Kept, Scoped, InScope
<1> HIDE DEF R, m, line, n, d
<1>11. 1 .. m + 1 = (1 .. m) \cup {m + 1}
  BY <1>2
<1>12. OwnLines(p)'
  <2>1. ASSUME NEW l \in ChipLines, holder'[l] = p
        PROVE  \E k \in 1 .. m + 1 : R[k].pin = l
    <3>1. CASE l = line.pin
      BY <1>2, <1>11, <3>1
    <3>2. CASE l # line.pin
      BY <1>4, <1>5, <1>11, <2>1, <3>2 DEF Kept, OwnLines, m, R
    <3> QED  BY <3>1, <3>2
  <2> QED  BY <1>2, <1>3, <2>1 DEF OwnLines, R
<1>13. Scoped(p)'
  BY <1>10 DEF Scoped
<1>14. ASSUME p \notin disturbed PROVE Granted(p)' /\ Levelled(p)' /\ Counted(p)'
  <2>1. Granted(p) /\ Levelled(p) /\ Counted(p)
    BY <1>4, <1>14 DEF Kept
  <2>2. \A k \in 1 .. m : R[k].pin \in ChipLines /\ holder[R[k].pin] = p /\ R[k].pin # line.pin
    BY <1>1, <1>4, <2>1 DEF Granted, m, R
  <2>3. \A k \in 1 .. m + 1 : R[k].pin \in ChipLines /\ holder'[R[k].pin] = p
    BY <1>1, <1>2, <1>5, <1>11, <2>2
  <2>4. Granted(p)'
    BY <1>2, <1>3, <2>3 DEF Granted, R
  <2>5. \A k \in 1 .. m : R[k].level # "in" => level[R[k].pin] = (R[k].level = "high")
    BY <1>1, <2>1 DEF Levelled, m, R
  <2>6. \A k \in 1 .. m + 1 : R[k].level # "in" => level'[R[k].pin] = (R[k].level = "high")
    BY <1>2, <1>5, <1>11, <2>2, <2>5
  <2>7. Levelled(p)'
    BY <1>2, <1>3, <2>6 DEF Levelled, R
  <2>8. Counted(p)'
    <3>1. /\ Len(adcs[p]) = Past(m, 3, n)
          /\ \A i \in DOMAIN adcs[p] : adcs[p][i] = config.adc_cs[i]
          /\ Len(drivers[p]) = Past(m, 4 + n, d)
          /\ \A i \in DOMAIN drivers[p] : drivers[p][i] = config.drivers[i].pin
      BY <2>1 DEF Counted, m, n, d
    <3>2. /\ m \in 3 .. 3 + n - 1 =>
               Past(m, 3, n) = m - 3 /\ Past(m + 1, 3, n) = Past(m, 3, n) + 1
          /\ m \notin 3 .. 3 + n - 1 => Past(m + 1, 3, n) = Past(m, 3, n)
      <4>1. m \in Nat /\ n \in Nat /\ 3 \in Nat
        BY <1>2, <1>6
      <4> QED  BY <4>1, PastGrows
    <3>3. /\ m \in 4 + n .. 4 + n + d - 1 =>
               /\ Past(m, 4 + n, d) = m - (4 + n)
               /\ Past(m + 1, 4 + n, d) = Past(m, 4 + n, d) + 1
          /\ m \notin 4 + n .. 4 + n + d - 1 => Past(m + 1, 4 + n, d) = Past(m, 4 + n, d)
      <4>1. 4 + n \in Nat
        BY <1>6
      <4> QED  BY <1>2, <1>6, <4>1, PastGrows, ZenonT(60)
    <3>4. /\ Len(adcs'[p]) = Past(m + 1, 3, n)
          /\ \A i \in DOMAIN adcs'[p] : adcs'[p][i] = config.adc_cs[i]
      <4>1. CASE line.use = "adc"
        <5>1. m + 1 \in 4 .. 3 + n /\ line.pin = config.adc_cs[(m + 1) - 3]
          BY <1>9, <4>1
        <5>2. m \in 3 .. 3 + n - 1 /\ (m + 1) - 3 = (m - 3) + 1
          BY <1>2, <1>6, <5>1
        <5>3. Len(adcs[p]) + 1 = (m + 1) - 3 /\ Past(m + 1, 3, n) = Len(adcs[p]) + 1
          BY <3>1, <3>2, <5>2
        <5>4. adcs'[p] = Append(adcs[p], line.pin) /\ line.pin \in ChipLines
          BY <1>1, <1>8, <4>1
        <5> QED  BY <1>7, <3>1, <5>1, <5>3, <5>4, AppendAt
      <4>2. CASE line.use # "adc"
        <5>1. m \notin 3 .. 3 + n - 1
          BY <1>2, <1>6, <1>9, <4>2
        <5> QED  BY <1>8, <3>1, <3>2, <4>2, <5>1
      <4> QED  BY <4>1, <4>2
    <3>5. /\ Len(drivers'[p]) = Past(m + 1, 4 + n, d)
          /\ \A i \in DOMAIN drivers'[p] : drivers'[p][i] = config.drivers[i].pin
      <4>1. CASE line.use = "driver"
        <5>1. m + 1 \in 5 + n .. 4 + n + d
              /\ line.pin = config.drivers[(m + 1) - (4 + n)].pin
          BY <1>9, <4>1
        <5>2. m \in 4 + n .. 4 + n + d - 1 /\ (m + 1) - (4 + n) = (m - (4 + n)) + 1
          BY <1>2, <1>6, <5>1
        <5>3. Len(drivers[p]) + 1 = (m + 1) - (4 + n)
              /\ Past(m + 1, 4 + n, d) = Len(drivers[p]) + 1
          BY <3>1, <3>3, <5>2
        <5>4. drivers'[p] = Append(drivers[p], line.pin) /\ line.pin \in ChipLines
          BY <1>1, <1>8, <4>1
        <5> QED  BY <1>7, <3>1, <5>1, <5>3, <5>4, AppendAt
      <4>2. CASE line.use # "driver"
        <5>1. m \notin 4 + n .. 4 + n + d - 1
          BY <1>2, <1>6, <1>9, <4>2
        <5> QED  BY <1>8, <3>1, <3>3, <4>2, <5>1
      <4> QED  BY <4>1, <4>2
    <3>6. config'.adc_cs = config.adc_cs /\ config'.drivers = config.drivers
      BY <1>1
    <3> QED  BY <1>2, <3>4, <3>5, <3>6 DEF Counted, n, d
  <2> QED  BY <2>4, <2>7, <2>8
<1> QED  BY <1>1, <1>12, <1>13, <1>14 DEF Kept

LEMMA StartAcquire ==
  ASSUME Resources, Control, StartInv, NEW p \in Process, AcquireLine(p)
  PROVE  StartInv'
<1> DEFINE line == LineRequest(p)
<1>1. /\ line.pin \in ChipLines
      /\ holder[line.pin] = Nobody
      /\ level' = [level EXCEPT ![line.pin] =
                     IF line.level = "in" THEN @ ELSE line.level = "high"]
  BY DEF AcquireLine
<1> HIDE DEF line
<1>2. \A l \in ChipLines : holder[l] # Nobody => level'[l] = level[l]
  BY <1>1 DEF Resources
<1>3. CASE line.use = "adc" /\ ~ AdcAccepts(config)
  <2>1. Release(p, "panic") /\ UNCHANGED disturbed
    BY <1>3 DEF AcquireLine, line
  <2> QED  BY <1>2, <2>1, StartRelease
<1>4. CASE ~ (line.use = "adc" /\ ~ AdcAccepts(config))
  <2>1. /\ holder' = [holder EXCEPT ![line.pin] = p]
        /\ drivers' = IF line.use = "driver"
                      THEN [drivers EXCEPT ![p] = Append(@, line.pin)] ELSE drivers
        /\ adcs' = IF line.use = "adc"
                   THEN [adcs EXCEPT ![p] = Append(@, line.pin)] ELSE adcs
        /\ Proceed(p, "spawn")
        /\ UNCHANGED <<config, threads, disturbed>>
    BY <1>4 DEF AcquireLine, history, line
  <2>2. ASSUME NEW q \in Process, q # p PROVE Kept(q)'
    <3>1. Kept(q) /\ q # Nobody
      BY ProcessAssumption DEF StartInv, Process
    <3>2. /\ pc'[q] = pc[q] /\ next'[q] = next[q] /\ threads'[q] = threads[q]
          /\ drivers'[q] = drivers[q] /\ adcs'[q] = adcs[q]
      BY <2>1, <2>2, OthersWait DEF Resources
    <3>3. Asked(q)' = Asked(q)
      BY <2>1, <3>2 DEF Asked
    <3>4. \A l \in ChipLines : holder[l] = q <=> holder'[l] = q
      BY <1>1, <2>1, <2>2, <3>1 DEF Resources
    <3>5. threads'[q] # {} => pc'[q] \in InScope
      BY <3>1, <3>2 DEF Kept, Scoped
    <3>6. \A l \in ChipLines : holder[l] = q => level'[l] = level[l]
      BY <1>2, <3>1
    <3> QED  BY <2>1, <3>1, <3>2, <3>3, <3>4, <3>5, <3>6, LinesKept
  <2>3. Kept(p)'
    BY <1>4, AcquireKept DEF line
  <2> QED  BY <2>2, <2>3 DEF StartInv
<1> QED  BY <1>3, <1>4

\* A look-up that fails and is skipped disturbs the process.
LEMMA StartLookup ==
  ASSUME Resources, Control, StartInv, NEW p \in Process, LookupFails(p)
  PROVE  StartInv'
<1>0. disturbed' = disturbed \cup {p} /\ pc[p] = "gpio"
  BY DEF LookupFails, Disturb
<1>1. CASE LineRequest(p).use \in {"adc", "driver"}
  <2>1. Proceed(p, "spawn")
        /\ UNCHANGED <<config, holder, level, drivers, adcs, threads>>
    BY <1>1 DEF LookupFails, world
  <2>2. ASSUME NEW q \in Process, q # p PROVE Kept(q)'
    <3>1. Kept(q)
      BY DEF StartInv
    <3>2. pc'[q] = pc[q] /\ next'[q] = next[q] /\ threads'[q] = threads[q]
      BY <2>1, <2>2, OthersWait
    <3>3. Asked(q)' = Asked(q)
      BY <2>1, <3>2 DEF Asked
    <3>4. threads'[q] # {} => pc'[q] \in InScope
      BY <3>1, <3>2 DEF Kept, Scoped
    <3> QED  BY <1>0, <2>1, <3>1, <3>2, <3>3, <3>4, LinesKept
  <2>3. Kept(p)'
    <3>1. Kept(p)
      BY DEF StartInv
    <3>2. Asked(p) \in Nat /\ Asked(p)' = Asked(p) + 1
      BY <1>0, <2>1, AskedGrows
    <3>3. 1 .. Asked(p) \subseteq 1 .. Asked(p)'
      BY <3>2
    <3>4. OwnLines(p)'
      BY <2>1, <3>1, <3>3 DEF Kept, OwnLines
    <3>5. Scoped(p)'
      BY <1>0, <2>1, <3>1 DEF Kept, Scoped, InScope
    <3> QED  BY <1>0, <3>4, <3>5 DEF Kept
  <2> QED  BY <2>2, <2>3 DEF StartInv
<1>2. CASE LineRequest(p).use \notin {"adc", "driver"}
  <2>1. Release(p, "error") /\ UNCHANGED level
    BY <1>2 DEF LookupFails, Exit
  <2> QED  BY <1>0, <2>1, StartRelease
<1> QED  BY <1>1, <1>2

\* Whoever runs threads has the clock, so that nobody else has a line yet.
LEMMA NobodyElse ==
  ASSUME Resources, Control, LineInv, StartInv,
         NEW p \in Process, pc[p] \in InScope,
         NEW q \in Process, pc[q] \in {"gpio", "spawn"}, NEW l \in ChipLines, holder[l] = q
  PROVE  FALSE
<1>1. PICK k \in 1 .. Asked(q) : LineRequests(config)[k].pin = l
  BY DEF StartInv, Kept, OwnLines
<1>2. HasClock(q)
  <2>1. CASE pc[q] = "spawn"
    BY <2>1 DEF HasClock
  <2>2. CASE pc[q] = "gpio"
    <3>1. Asked(q) = next[q] - 1 /\ next[q] \in Nat
      BY <2>2 DEF Asked, Through, Control
    <3>2. next[q] # 1
      BY <1>1, <3>1
    <3> QED  BY <2>2, <3>2 DEF HasClock
  <2> QED  BY <2>1, <2>2
<1>3. HasClock(p)
  BY DEF HasClock
<1>4. p = q
  BY <1>2, <1>3 DEF LineInv, ClockHeld
<1> QED  BY <1>4 DEF InScope

\* Threads move levels, and end, and panic.
LEMMA StartRun ==
  ASSUME Resources, Control, LineInv, StartInv, NEW p \in Process, pc[p] \in InScope,
         UNCHANGED <<config, holder, pc, next, drivers, adcs>>,
         \A q \in Process : threads'[q] # {} => threads[q] # {},
         disturbed \subseteq disturbed'
  PROVE  StartInv'
<1>1. ASSUME NEW q \in Process PROVE Kept(q)'
  <2>1. Kept(q) /\ Asked(q)' = Asked(q)
    BY DEF StartInv, Asked
  <2>2. threads'[q] # {} => pc'[q] \in InScope
    BY <2>1 DEF Kept, Scoped
  <2>3. pc'[q] \in {"gpio", "spawn"} =>
          pc[q] \in {"gpio", "spawn"}
            /\ \A l \in ChipLines : holder[l] = q => level'[l] = level[l]
    BY NobodyElse
  <2> QED  BY <2>1, <2>2, <2>3, LinesKept
<1> QED  BY <1>1 DEF StartInv

LEMMA StartClaims ==
  ASSUME Resources, Control, StartInv, NEW p \in Process, NEW label,
         \/ pc[p] \in Early /\ label \in Early \cup {"gpio"} /\ UNCHANGED threads
         \/ pc[p] \in {"spawn"} \cup InScope /\ label \in InScope
              /\ \A q \in Process \ {p} : threads'[q] = threads[q],
         Proceed(p, label), UNCHANGED <<config, holder, level, drivers, adcs>>,
         disturbed \subseteq disturbed'
  PROVE  StartInv'
<1>1. /\ Asked(p)' = Asked(p)
      /\ pc[p] \in Early => Asked(p) = 0
  BY AskedStays, ProceedSplits
<1>2. \A q \in Process \ {p} : pc'[q] = pc[q] /\ next'[q] = next[q]
  BY OthersWait
<1>3. CASE pc[p] \in Early /\ UNCHANGED threads
  <2>1. threads'[p] = {}
    BY <1>3 DEF StartInv, Kept, Scoped, InScope, Early
  <2> QED  BY <1>1, <1>2, <1>3, <2>1, StartMove
<1>4. CASE /\ pc[p] \in {"spawn"} \cup InScope /\ label \in InScope
           /\ \A q \in Process \ {p} : threads'[q] = threads[q]
  <2>1. pc'[p] = label
    <3>1. Claims(p) = 1
      BY <1>4 DEF Claims, InScope
    <3>2. ~ next[p] < Claims(p)
      BY <3>1 DEF Control
    <3> QED  BY <3>2 DEF Proceed, Control
  <2>2. pc'[p] \in InScope /\ pc'[p] \notin {"gpio", "spawn"}
    BY <1>4, <2>1 DEF InScope
  <2> QED  BY <1>1, <1>2, <1>4, <2>2, StartMove
<1> QED  BY <1>3, <1>4

LEMMA StartInit == Init => StartInv
<1> SUFFICES ASSUME Init, NEW p \in Process PROVE Kept(p)
  BY DEF StartInv
<1>1. Asked(p) = 0
  BY DEF Init, Asked, Through, InScope
<1>2. drivers[p] = <<>> /\ adcs[p] = <<>> /\ threads[p] = {} /\ config \in Configuration
      /\ \A l \in ChipLines : holder[l] # p
  BY ConfigurationAssumption, ProcessAssumption DEF Init, Process
<1>3. Len(config.adc_cs) \in Nat /\ Len(config.drivers) \in Nat
  BY <1>2, LineRequestsAre
<1>4. Counted(p)
  <2>1. Past(0, 3, Len(config.adc_cs)) = 0
    BY <1>3, PastGrows
  <2>2. Past(0, 4 + Len(config.adc_cs), Len(config.drivers)) = 0
    <3>1. 4 + Len(config.adc_cs) \in Nat
      BY <1>3
    <3> QED  BY <1>3, <3>1, PastGrows
  <2> QED  BY <1>1, <1>2, <2>1, <2>2 DEF Counted
<1>5. Granted(p) /\ Levelled(p)
  BY <1>1 DEF Granted, Levelled
<1>6. OwnLines(p) /\ Scoped(p)
  BY <1>2 DEF OwnLines, Scoped
<1> QED  BY <1>4, <1>5, <1>6 DEF Kept

LEMMA StartStep == TypeInv /\ LineInv /\ StartInv /\ [Next]_vars => StartInv'
<1> SUFFICES ASSUME Resources, Control, LineInv, StartInv, [Next]_vars PROVE StartInv'
  BY DEF TypeInv
<1>1. CASE UNCHANGED vars
  <2>1. ASSUME NEW q \in Process PROVE Kept(q)'
    <3>1. UNCHANGED <<config, holder, level, pc, next, drivers, adcs, threads, disturbed>>
      BY <1>1 DEF vars, world, process, history
    <3>2. Kept(q) /\ Asked(q)' = Asked(q)
      BY <3>1 DEF StartInv, Asked
    <3>3. threads'[q] # {} => pc'[q] \in InScope
      BY <3>1, <3>2 DEF Kept, Scoped
    <3> QED  BY <3>1, <3>2, <3>3, LinesKept
  <2> QED  BY <2>1 DEF StartInv
<1>2. ASSUME NEW p \in Process,
             \/ LogBlocked(p) \/ Fault(p) \/ LineRefused(p) \/ Join(p) \/ Kill(p)
      PROVE  StartInv'
  <2>1. \E how : Release(p, how)
    BY <1>2 DEF LogBlocked, Fault, LineRefused, Join, Kill, Exit
  <2>2. level' = level
    BY <1>2 DEF LogBlocked, Fault, LineRefused, Join, Kill, Exit
  <2>3. disturbed \subseteq disturbed'
    BY <1>2 DEF LogBlocked, Fault, LineRefused, Join, Kill, Disturb
  <2> QED  BY <2>1, <2>2, <2>3, StartRelease
<1>3. ASSUME NEW p \in Process, Begin(p) \/ MakeDirs(p) PROVE StartInv'
  <2>1. /\ pc[p] \in {"off", "path", "group"}
        /\ \E label \in Early : pc' = [pc EXCEPT ![p] = label]
        /\ UNCHANGED <<config, holder, level, next, drivers, adcs, threads, disturbed>>
    BY <1>3 DEF Begin, MakeDirs, GroupOrLogs, Early, world, history
  <2>2. pc'[p] \in Early /\ \A q \in Process \ {p} : pc'[q] = pc[q]
    BY <2>1 DEF Control
  <2>3. Asked(p)' = Asked(p)
    BY <2>1, <2>2 DEF Asked, Through, InScope, Early
  <2>4. threads'[p] = {}
    BY <2>1 DEF StartInv, Kept, Scoped, InScope
  <2>5. pc'[p] \notin {"gpio", "spawn"}
    BY <2>2 DEF Early
  <2> QED  BY <2>1, <2>2, <2>3, <2>4, <2>5, StartMove
<1>4. ASSUME NEW p \in Process, CreateLog(p) PROVE StartInv'
  <2>1. /\ pc[p] \in Early /\ UNCHANGED <<config, holder, level, drivers, adcs, threads, disturbed>>
        /\ \E label \in Early \cup {"gpio"} : Proceed(p, label)
    BY <1>4 DEF CreateLog, KeepLog, GroupOrLogs, Early
  <2> QED  BY <2>1, StartClaims
<1>5. ASSUME NEW p \in Process, ParseConfig(p) PROVE StartInv'
  <2>1. CASE Parse(config) = "ok"
    <3>1. /\ pc[p] \in Early /\ UNCHANGED <<config, holder, level, drivers, adcs, threads, disturbed>>
          /\ \E label \in Early \cup {"gpio"} : Proceed(p, label)
      BY <1>5, <2>1 DEF ParseConfig, GroupOrLogs, Early, world, history
    <3> QED  BY <3>1, StartClaims
  <2>2. CASE Parse(config) # "ok"
    BY <1>5, <2>2, StartRelease DEF ParseConfig, Exit
  <2> QED  BY <2>1, <2>2
<1>6. ASSUME NEW p \in Process, AcquireLine(p) \/ LookupFails(p) PROVE StartInv'
  BY <1>6, StartAcquire, StartLookup
<1>7. ASSUME NEW p \in Process, SpawnThreads(p) PROVE StartInv'
  <2>1. /\ pc[p] = "spawn" /\ Proceed(p, "bind")
        /\ UNCHANGED <<config, holder, level, drivers, adcs, disturbed>>
    BY <1>7 DEF SpawnThreads, world, history
  <2>2. \A q \in Process \ {p} : threads'[q] = threads[q]
    BY <1>7 DEF SpawnThreads, Resources
  <2> QED  BY <2>1, <2>2, StartClaims DEF InScope
<1>8. ASSUME NEW p \in Process, Bind(p) \/ BindFails(p) \/ AcceptLoopEnds(p)
      PROVE  StartInv'
  <2>1. pc[p] \in InScope
        /\ UNCHANGED <<config, holder, level, drivers, adcs, threads>>
    BY <1>8 DEF Bind, BindFails, AcceptLoopEnds, world, InScope
  <2>2. \E label \in InScope : Proceed(p, label)
    BY <1>8 DEF Bind, BindFails, AcceptLoopEnds, InScope
  <2>3. disturbed \subseteq disturbed'
    BY <1>8 DEF Bind, BindFails, AcceptLoopEnds, Disturb, history
  <2> QED  BY <2>1, <2>2, <2>3, StartClaims
<1>9. ASSUME NEW p \in Process,
             \/ ProcedurePanics(p) \/ Heartbeat(p) \/ Operate(p)
             \/ \E t \in Threads(config) : ThreadEnds(p, t)
      PROVE  StartInv'
  <2>1. pc[p] \in InScope
    BY <1>9 DEF ProcedurePanics, Heartbeat, Operate, ThreadEnds, StartInv, Kept, Scoped,
                InScope
  <2>2. UNCHANGED <<config, holder, pc, next, drivers, adcs>>
    BY <1>9 DEF ProcedurePanics, Heartbeat, Operate, ThreadEnds, world, process
  <2>3. \A q \in Process : threads'[q] # {} => threads[q] # {}
    BY <1>9 DEF ProcedurePanics, Heartbeat, Operate, ThreadEnds, process, Resources
  <2>4. disturbed \subseteq disturbed'
    BY <1>9 DEF ProcedurePanics, Heartbeat, Operate, ThreadEnds, Disturb, history
  <2> QED  BY <2>1, <2>2, <2>3, <2>4, StartRun
<1> QED  BY <1>1, <1>2, <1>3, <1>4, <1>5, <1>6, <1>7, <1>8, <1>9 DEF Next, MainThread

\* At the end of the claims.
LEMMA StartInvStarts == TypeInv /\ StartInv => StartsSafe
<1> SUFFICES ASSUME Resources, Control, StartInv,
                    NEW p \in Process, pc[p] = "spawn", p \notin disturbed
             PROVE  /\ Len(drivers[p]) = Len(config.drivers)
                    /\ \A i \in DOMAIN drivers[p] :
                         drivers[p][i] = config.drivers[i].pin /\ ~ level[drivers[p][i]]
                    /\ adcs[p] = config.adc_cs
                    /\ \A i \in DOMAIN adcs[p] : level[adcs[p][i]]
  BY DEF TypeInv, StartsSafe
<1> DEFINE R == LineRequests(config)
           n == Len(config.adc_cs)
           d == Len(config.drivers)
<1>1. config \in Configuration
  BY ConfigurationAssumption DEF Resources
<1>2. /\ n \in Nat /\ d \in Nat /\ Len(R) = 4 + n + d
      /\ \A i \in 1 .. n : R[3 + i] = Request("adc", config.adc_cs[i], "high")
      /\ \A i \in 1 .. d : R[4 + n + i] = Request("driver", config.drivers[i].pin, "low")
  BY <1>1, LineRequestsAre
<1>3. Asked(p) = Len(R)
  BY DEF Asked, Through
<1>4. Granted(p) /\ Levelled(p) /\ Counted(p)
  BY DEF StartInv, Kept
<1>5. adcs[p] \in Seq(ChipLines) /\ drivers[p] \in Seq(ChipLines)
      /\ config.adc_cs \in Seq(Byte)
  BY <1>1, ConfigurationTypes DEF Resources
<1> HIDE DEF R, n, d
<1>6. /\ Len(adcs[p]) = n /\ \A i \in 1 .. n : adcs[p][i] = config.adc_cs[i]
      /\ Len(drivers[p]) = d /\ \A i \in 1 .. d : drivers[p][i] = config.drivers[i].pin
  <2>1. Past(4 + n + d, 3, n) = n /\ Past(4 + n + d, 4 + n, d) = d
    BY <1>2 DEF Past
  <2>2. /\ Len(adcs[p]) = n /\ \A i \in DOMAIN adcs[p] : adcs[p][i] = config.adc_cs[i]
        /\ Len(drivers[p]) = d
        /\ \A i \in DOMAIN drivers[p] : drivers[p][i] = config.drivers[i].pin
    BY <1>2, <1>3, <1>4, <2>1 DEF Counted, n, d
  <2>3. DOMAIN adcs[p] = 1 .. n /\ DOMAIN drivers[p] = 1 .. d
    BY <1>5, <2>2, LenProperties
  <2> QED  BY <2>2, <2>3
<1>7. \A k \in 1 .. 4 + n + d : R[k].level # "in" => level[R[k].pin] = (R[k].level = "high")
  BY <1>2, <1>3, <1>4 DEF Levelled, R
<1>8. ASSUME NEW i \in 1 .. n PROVE level[config.adc_cs[i]]
  <2>1. 3 + i \in 1 .. 4 + n + d
    BY <1>2
  <2>2. R[3 + i].pin = config.adc_cs[i] /\ R[3 + i].level = "high"
    <3>1. R[3 + i] = Request("adc", config.adc_cs[i], "high")
      BY <1>2
    <3> QED  BY <3>1 DEF Request
  <2>3. level[R[3 + i].pin] = TRUE
    BY <1>7, <2>1, <2>2
  <2> QED  BY <2>2, <2>3
<1>9. ASSUME NEW i \in 1 .. d PROVE ~ level[config.drivers[i].pin]
  <2>1. 4 + n + i \in 1 .. 4 + n + d
    BY <1>2
  <2>2. R[4 + n + i].pin = config.drivers[i].pin /\ R[4 + n + i].level = "low"
    <3>1. R[4 + n + i] = Request("driver", config.drivers[i].pin, "low")
      BY <1>2
    <3> QED  BY <3>1 DEF Request
  <2>3. level[R[4 + n + i].pin] = FALSE
    BY <1>7, <2>1, <2>2
  <2> QED  BY <2>2, <2>3
<1>10. DOMAIN adcs[p] = 1 .. n /\ DOMAIN drivers[p] = 1 .. d
  BY <1>5, <1>6, LenProperties
<1>11. adcs[p] = config.adc_cs
  <2>1. Len(config.adc_cs) = n /\ DOMAIN config.adc_cs = 1 .. n
    BY <1>5, LenProperties DEF n
  <2> QED  BY <1>5, <1>6, <1>10, <2>1, SeqEqual
<1> QED  BY <1>6, <1>8, <1>9, <1>10, <1>11 DEF d

\* When the threads are spawned every driver is low and every ADC not selected,
\* each at its index, if no look-up failed (adcs and drivers).
THEOREM ThreadsStartSafe == Spec => []StartsSafe
  BY TypeInit, TypeStep, LineInvInit, LineInvStep, StartInit, StartStep, StartInvStarts,
     PTL DEF Spec

-----------------------------------------------------------------------------
\* Accepted configurations.

LEMMA InWritten ==
  ASSUME NEW c, NEW d, NEW g, NEW s, NEW e
  PROVE  e \in Written(c, d, g, s) <=>
           \/ e = Place(ConsolePath(d))
           \/ \E i \in SensorIds(c) : /\ i[1] < g \/ (i[1] = g /\ i[2] < s)
                                      /\ e = Place(SensorPath(c, d, i[1], i[2]))
BY DEF Written

LEMMA InSensorIds ==
  ASSUME NEW c \in Configuration
  PROVE  /\ DOMAIN c.sensor_groups \subseteq Nat
         /\ \A i \in SensorIds(c) :
              /\ i[1] \in DOMAIN c.sensor_groups /\ i[2] \in DOMAIN c.sensor_groups[i[1]].sensors
              /\ i[1] \in Nat /\ i[2] \in Nat
         /\ \A g \in DOMAIN c.sensor_groups : \A s \in DOMAIN c.sensor_groups[g].sensors :
              <<g, s>> \in SensorIds(c)
<1>1. c.sensor_groups \in Seq(SensorGroup)
  BY ConfigurationTypes
<1>2. DOMAIN c.sensor_groups \subseteq Nat
  BY <1>1, LenProperties
<1>3. ASSUME NEW i \in SensorIds(c)
      PROVE  /\ i[1] \in DOMAIN c.sensor_groups /\ i[2] \in DOMAIN c.sensor_groups[i[1]].sensors
             /\ i[1] \in Nat /\ i[2] \in Nat
  <2>1. /\ i[1] \in DOMAIN c.sensor_groups
        /\ i[2] \in DOMAIN c.sensor_groups[i[1]].sensors
        /\ c.sensor_groups[i[1]].sensors \in Seq(Sensor)
    BY SensorTypes
  <2>2. i[2] \in Nat
    BY <2>1, LenProperties
  <2> QED  BY <1>2, <2>1, <2>2
<1>4. \A g \in DOMAIN c.sensor_groups : \A s \in DOMAIN c.sensor_groups[g].sensors :
        <<g, s>> \in SensorIds(c)
  BY DEF SensorIds
<1> QED  BY <1>2, <1>3, <1>4

\* What a run has written as it comes to its first group, to the next sensor
\* and to the next group.
LEMMA WrittenFirst ==
  ASSUME NEW c \in Configuration, NEW d
  PROVE  Written(c, d, 1, 1) = {Place(ConsolePath(d))}
<1>1. \A i \in SensorIds(c) : ~ i[1] < 1 /\ ~ i[2] < 1
  <2>1. ASSUME NEW i \in SensorIds(c) PROVE i[1] \in Nat \ {0} /\ i[2] \in Nat \ {0}
    <3>1. /\ i[1] \in DOMAIN c.sensor_groups
          /\ i[2] \in DOMAIN c.sensor_groups[i[1]].sensors
          /\ c.sensor_groups[i[1]].sensors \in Seq(Sensor)
          /\ c.sensor_groups \in Seq(SensorGroup)
      BY SensorTypes, ConfigurationTypes
    <3>2. \A S : \A t \in Seq(S) : DOMAIN t \subseteq Nat \ {0}
      BY LenProperties
    <3> QED  BY <3>1, <3>2
  <2> QED  BY <2>1
<1>2. \A e : e \in Written(c, d, 1, 1) <=> e = Place(ConsolePath(d))
  BY <1>1, InWritten
<1> QED  BY <1>2

LEMMA WrittenSensor ==
  ASSUME NEW c \in Configuration, NEW d, NEW g \in DOMAIN c.sensor_groups,
         NEW s \in DOMAIN c.sensor_groups[g].sensors
  PROVE  Written(c, d, g, s + 1) = Written(c, d, g, s) \cup {Place(SensorPath(c, d, g, s))}
<1>1. <<g, s>> \in SensorIds(c) /\ g \in Nat /\ s \in Nat
  BY InSensorIds
<1>2. ASSUME NEW i \in SensorIds(c)
      PROVE  (i[1] < g \/ (i[1] = g /\ i[2] < s + 1))
               <=> (i[1] < g \/ (i[1] = g /\ i[2] < s)) \/ (i[1] = g /\ i[2] = s)
  BY <1>1, InSensorIds
<1>3. \A e : e \in Written(c, d, g, s + 1)
               <=> e \in Written(c, d, g, s) \cup {Place(SensorPath(c, d, g, s))}
  BY <1>1, <1>2, InWritten
<1> QED  BY <1>3

LEMMA WrittenGroup ==
  ASSUME NEW c \in Configuration, NEW d, NEW g \in DOMAIN c.sensor_groups
  PROVE  Written(c, d, g + 1, 1) = Written(c, d, g, Len(c.sensor_groups[g].sensors) + 1)
<1> DEFINE n == Len(c.sensor_groups[g].sensors)
<1>1. g \in Nat /\ n \in Nat /\ DOMAIN c.sensor_groups[g].sensors = 1 .. n
  <2>1. c.sensor_groups[g].sensors \in Seq(Sensor)
    <3>1. c.sensor_groups \in Seq(SensorGroup)
      BY ConfigurationTypes
    <3>2. c.sensor_groups[g] \in SensorGroup
      BY <3>1, ElementOfSeq, LenProperties
    <3> QED  BY <3>2 DEF SensorGroup
  <2> QED  BY <2>1, InSensorIds, LenProperties
<1> HIDE DEF n
<1>2. ASSUME NEW i \in SensorIds(c)
      PROVE  (i[1] < g + 1 \/ (i[1] = g + 1 /\ i[2] < 1))
               <=> i[1] < g \/ (i[1] = g /\ i[2] < n + 1)
  <2>1. i[1] \in Nat /\ i[2] \in Nat /\ (i[1] = g => i[2] \in 1 .. n) /\ i[2] # 0
    <3>1. i[2] \in DOMAIN c.sensor_groups[i[1]].sensors /\ i[1] \in Nat /\ i[2] \in Nat
          /\ c.sensor_groups[i[1]].sensors \in Seq(Sensor)
      BY InSensorIds, SensorTypes
    <3>2. i[2] # 0
      BY <3>1, LenProperties
    <3> QED  BY <1>1, <3>1, <3>2
  <2> QED  BY <1>1, <2>1
<1>3. \A e : e \in Written(c, d, g + 1, 1) <=> e \in Written(c, d, g, n + 1)
  BY <1>2, InWritten
<1>4. Written(c, d, g + 1, 1) = Written(c, d, g, n + 1)
  BY <1>3
<1> QED  BY <1>4 DEF n

\* The directories that it has made.
LEMMA MadeFirst ==
  ASSUME NEW c \in Configuration, NEW d
  PROVE  Made(c, d, 1) = {<<>>} \cup Prefixes(d)
<1>1. {h \in DOMAIN c.sensor_groups : h < 1} = {}
  <2>1. c.sensor_groups \in Seq(SensorGroup)
    BY ConfigurationTypes
  <2> QED  BY <2>1, LenProperties
<1> QED  BY <1>1 DEF Made

LEMMA MadeGroup ==
  ASSUME NEW c \in Configuration, NEW d, NEW g \in DOMAIN c.sensor_groups
  PROVE  Made(c, d, g + 1) = Made(c, d, g) \cup Range(Trail(GroupPath(c, d, g)))
<1> DEFINE of(h) == Range(Trail(GroupPath(c, d, h)))
<1>1. \A h \in DOMAIN c.sensor_groups : h < g + 1 <=> h < g \/ h = g
  BY InSensorIds
<1> HIDE DEF of
<1>2. ASSUME NEW e
      PROVE  (\E h \in DOMAIN c.sensor_groups : h < g + 1 /\ e \in of(h))
               <=> (\E h \in DOMAIN c.sensor_groups : h < g /\ e \in of(h)) \/ e \in of(g)
  BY <1>1
<1>3. \A e, k : e \in Made(c, d, k) <=>
                  \/ e \in {<<>>} \cup Prefixes(d)
                  \/ \E h \in DOMAIN c.sensor_groups : h < k /\ e \in of(h)
  BY DEF Made, of
<1>4. \A e : e \in Made(c, d, g + 1) <=> e \in Made(c, d, g) \cup of(g)
  BY <1>2, <1>3
<1>5. Made(c, d, g + 1) = Made(c, d, g) \cup of(g)
  BY <1>4
<1> QED  BY <1>5 DEF of

\* The thread spawned for a group has the settings of one of them.
LEMMA GroupOfGroup ==
  ASSUME NEW c \in Configuration, NEW g \in DOMAIN c.sensor_groups
  PROVE  ((g - 1) % GroupIds) + 1 \in DOMAIN c.sensor_groups
<1>1. DOMAIN c.sensor_groups = 1 .. Len(c.sensor_groups) /\ Len(c.sensor_groups) \in Nat
  BY ConfigurationTypes, LenProperties
<1>2. ASSUME NEW a \in Nat, NEW b \in Nat \ {0} PROVE a % b \in 0 .. a
  OBVIOUS
<1>3. g - 1 \in Nat /\ (g - 1) % GroupIds \in 0 .. g - 1
  BY <1>1, <1>2, GroupIdsAssumption
<1> QED  BY <1>1, <1>3

\* What a process has made and written is what its place in run says.
SoFar(p) ==
  LET c   == config
      d   == dir[p]
      end == Len(c.sensor_groups) + 1
  IN  /\ pc[p] \in {"off", "path", "console"} => opened[p] = {}
      /\ pc[p] \in {"parse", "group", "sensors"} => opened[p] = Written(c, d, group[p], next[p])
      /\ pc[p] = "logs" =>
           opened[p] = Written(c, d, end, 1) \cup {Place(FinalPath(d, m)) : m \in 1 .. next[p] - 1}
      /\ pc[p] \in {"off", "path"} => made[p] = {}
      /\ pc[p] = "console" => made[p] = Prefixes(d)
      /\ pc[p] \in {"parse", "group"} => {<<>>} \cup made[p] = Made(c, d, group[p])
      /\ pc[p] = "sensors" => {<<>>} \cup made[p] = Made(c, d, group[p] + 1)
      /\ pc[p] = "logs" => {<<>>} \cup made[p] = Made(c, d, end)

Usable(p) == Parse(config) = "ok" /\ ~ Gap(config, dir[p])

\* A process joins its threads only after a failure, and fails no other way.
Unharmed(p) ==
  p \notin disturbed =>
    /\ pc[p] # "joining"
    /\ Usable(p) => result[p] \in {"none", "killed"} /\ ~ panicked[p]

AcceptInv == \A p \in Process : SoFar(p) /\ Unharmed(p)

LEMMA AcceptInit == Init => AcceptInv
  BY DEF Init, AcceptInv, SoFar, Unharmed

LEMMA AcceptOthers ==
  ASSUME AcceptInv, NEW q \in Process, config' = config, disturbed \subseteq disturbed',
         opened'[q] = opened[q], made'[q] = made[q], dir'[q] = dir[q], group'[q] = group[q],
         pc'[q] = pc[q], next'[q] = next[q], result'[q] = result[q], panicked'[q] = panicked[q]
  PROVE  SoFar(q)' /\ Unharmed(q)'
<1>1. SoFar(q) /\ Unharmed(q)
  BY DEF AcceptInv
<1>2. SoFar(q)'
  BY <1>1, SMTT(30) DEF SoFar
<1>3. Unharmed(q)'
  BY <1>1 DEF Unharmed, Usable
<1> QED  BY <1>2, <1>3

\* Past the log files there is nothing more to say of them.
LEMMA PastLogs ==
  ASSUME NEW p, pc'[p] \in {"gpio", "spawn", "done"} \cup InScope
  PROVE  SoFar(p)'
BY DEF SoFar, InScope

LEMMA AcceptRelease ==
  ASSUME Resources, Control, AcceptInv, NEW p \in Process, NEW how, Release(p, how),
         disturbed \subseteq disturbed',
         p \notin disturbed' /\ Usable(p) => how = "killed"
  PROVE  AcceptInv'
<1>1. /\ pc' = [pc EXCEPT ![p] = "done"]
      /\ next' = [next EXCEPT ![p] = 1]
      /\ result' = [result EXCEPT ![p] = how]
      /\ panicked' = [panicked EXCEPT ![p] = FALSE]
      /\ UNCHANGED <<config, dir, group, opened, made>>
  BY DEF Release
<1>2. ASSUME NEW q \in Process, q # p PROVE SoFar(q)' /\ Unharmed(q)'
  <2>1. /\ pc'[q] = pc[q] /\ next'[q] = next[q] /\ result'[q] = result[q]
        /\ panicked'[q] = panicked[q]
    BY <1>1, <1>2 DEF Resources, Control
  <2> QED  BY <1>1, <2>1, AcceptOthers
<1>3. pc'[p] = "done" /\ result'[p] = how /\ panicked'[p] = FALSE
  BY <1>1 DEF Resources, Control
<1>4. Unharmed(p)'
  BY <1>1, <1>3 DEF Unharmed, Usable
<1>5. SoFar(p)'
  BY <1>3, PastLogs
<1> QED  BY <1>2, <1>4, <1>5 DEF AcceptInv

\* A move behind the log files.
LEMMA AcceptProceed ==
  ASSUME Control, AcceptInv, NEW p \in Process, NEW label,
         pc[p] \in {"gpio", "spawn"} \cup InScope,
         label \in {"spawn"} \cup InScope, pc[p] = "gpio" => label = "spawn",
         Proceed(p, label), UNCHANGED <<config, dir, group, opened, made, result>>,
         disturbed \subseteq disturbed',
         \A q \in Process \ {p} : panicked'[q] = panicked[q],
         p \notin disturbed' => label # "joining" /\ (Usable(p) => ~ panicked'[p])
  PROVE  AcceptInv'
<1>1. ASSUME NEW q \in Process, q # p PROVE SoFar(q)' /\ Unharmed(q)'
  <2>1. pc'[q] = pc[q] /\ next'[q] = next[q]
    BY <1>1, OthersWait
  <2> QED  BY <1>1, <2>1, AcceptOthers
<1>2. pc'[p] \in {pc[p], label}
  BY DEF Proceed, Control
<1>3. Unharmed(p)'
  <2>1. p \notin disturbed' => pc[p] # "joining" /\ (Usable(p) => result[p] \in {"none", "killed"})
    BY DEF AcceptInv, Unharmed
  <2> QED  BY <1>2, <2>1 DEF Unharmed, Usable
<1>4. SoFar(p)'
  BY <1>2, PastLogs
<1> QED  BY <1>1, <1>3, <1>4 DEF AcceptInv

\* Nothing is said of a process that is early but of its files and directories.
LEMMA EarlyUnharmed ==
  ASSUME AcceptInv, NEW p \in Process, pc'[p] # "joining",
         UNCHANGED <<config, dir, result, panicked, disturbed>>
  PROVE  Unharmed(p)'
BY DEF AcceptInv, Unharmed, Usable

LEMMA AcceptCreate ==
  ASSUME Resources, Control, AcceptInv, NEW p \in Process, CreateLog(p)
  PROVE  AcceptInv'
<1> DEFINE file == Place(LogPath(p))
           end == Len(config.sensor_groups) + 1
<1>1. /\ pc[p] \in {"console", "sensors", "logs"}
      /\ opened' = [opened EXCEPT ![p] = @ \cup {file}]
      /\ group' = IF pc[p] = "sensors" /\ next[p] = Claims(p)
                  THEN [group EXCEPT ![p] = @ + 1] ELSE group
      /\ Proceed(p, IF pc[p] = "console" THEN "parse"
                    ELSE IF pc[p] = "sensors" THEN GroupOrLogs(group[p] + 1) ELSE "gpio")
      /\ UNCHANGED <<config, dir, panicked, result, made, disturbed>>
  BY DEF CreateLog, KeepLog
<1>2. ASSUME NEW q \in Process, q # p PROVE SoFar(q)' /\ Unharmed(q)'
  <2>1. /\ pc'[q] = pc[q] /\ next'[q] = next[q] /\ opened'[q] = opened[q]
        /\ group'[q] = group[q]
    BY <1>1, <1>2, OthersWait DEF Resources, Control
  <2> QED  BY <1>1, <2>1, AcceptOthers
<1>3. SoFar(p) /\ config \in Configuration /\ config \in Configurations
  BY ConfigurationAssumption DEF AcceptInv, Resources
<1>4. opened'[p] = opened[p] \cup {file}
  BY <1>1 DEF Resources
<1>5. CASE pc[p] = "console"
  <2>1. next[p] = 1 /\ Claims(p) = 1 /\ group[p] = 1
    <3>1. Claims(p) = 1
      BY <1>5 DEF Claims
    <3> QED  BY <1>5, <3>1 DEF Control, Before
  <2>2. pc'[p] = "parse" /\ next'[p] = 1 /\ group'[p] = 1
    BY <1>1, <1>5, <2>1 DEF Proceed, Control
  <2>3. file = Place(ConsolePath(dir[p]))
    BY <1>5 DEF LogPath
  <2>4. opened'[p] = Written(config, dir[p], 1, 1) /\ {<<>>} \cup made[p] = Made(config, dir[p], 1)
    BY <1>3, <1>4, <1>5, <2>3, WrittenFirst, MadeFirst DEF SoFar
  <2> HIDE DEF file
  <2>5. SoFar(p)'
    BY <1>1, <2>2, <2>4 DEF SoFar
  <2>6. Unharmed(p)'
    BY <1>1, <2>2, EarlyUnharmed
  <2> QED  BY <1>2, <2>5, <2>6 DEF AcceptInv
<1>6. CASE pc[p] = "sensors"
  <2> DEFINE g == group[p]
             s == next[p]
             n == Len(config.sensor_groups[g].sensors)
  <2>1. /\ g \in DOMAIN config.sensor_groups /\ Claims(p) = n /\ n \in Nat
        /\ s \in 1 .. n /\ s \in DOMAIN config.sensor_groups[g].sensors
    BY <1>3, <1>6, GroupTypes DEF Control, Claims
  <2>2. file = Place(SensorPath(config, dir[p], g, s))
    BY <1>6 DEF LogPath
  <2>3. opened'[p] = Written(config, dir[p], g, s + 1)
    <3>1. opened[p] = Written(config, dir[p], g, s)
      BY <1>3, <1>6 DEF SoFar
    <3> QED  BY <1>3, <1>4, <2>1, <2>2, <3>1, WrittenSensor
  <2>4. {<<>>} \cup made'[p] = Made(config, dir[p], g + 1)
    BY <1>1, <1>3, <1>6 DEF SoFar
  <2> HIDE DEF file
  <2>5. CASE s < n
    <3>1. next'[p] = s + 1 /\ pc'[p] = "sensors" /\ group'[p] = g
      BY <1>1, <1>6, <2>1, <2>5 DEF Proceed, Control
    <3>2. SoFar(p)'
      BY <1>1, <2>3, <2>4, <3>1 DEF SoFar
    <3>3. Unharmed(p)'
      BY <1>1, <3>1, EarlyUnharmed
    <3> QED  BY <1>2, <3>2, <3>3 DEF AcceptInv
  <2>6. CASE ~ s < n
    <3>1. s = n
      BY <2>1, <2>6
    <3>2. next'[p] = 1 /\ pc'[p] = GroupOrLogs(g + 1) /\ group'[p] = g + 1
      BY <1>1, <1>6, <2>1, <2>6, <3>1 DEF Proceed, Control
    <3>3. opened'[p] = Written(config, dir[p], g + 1, 1)
      BY <1>3, <2>1, <2>3, <3>1, WrittenGroup
    <3>4. GroupOrLogs(g + 1) \in {"group", "logs"} /\ (GroupOrLogs(g + 1) = "logs" => g + 1 = end)
      BY <1>3, <2>1, GroupTypes DEF GroupOrLogs
    <3> HIDE DEF g
    <3>5. SoFar(p)'
      <4>1. pc'[p] \in {"group", "logs"} /\ (pc'[p] = "logs" => group'[p] = end)
        BY <3>2, <3>4
      <4>2. 1 .. next'[p] - 1 = {}
        BY <3>2
      <4>3. opened'[p] = Written(config, dir[p], group'[p], 1)
            /\ {<<>>} \cup made'[p] = Made(config, dir[p], group'[p])
        BY <2>4, <3>2, <3>3
      <4> QED  BY <1>1, <3>2, <4>1, <4>2, <4>3 DEF SoFar
    <3>6. Unharmed(p)'
      BY <1>1, <3>2, <3>4, EarlyUnharmed
    <3> QED  BY <1>2, <3>5, <3>6 DEF AcceptInv
  <2> QED  BY <2>5, <2>6
<1>7. CASE pc[p] = "logs"
  <2>1. next[p] \in 1 .. 3 /\ Claims(p) = 3
    <3>1. Claims(p) = 3
      BY <1>7 DEF Claims
    <3> QED  BY <3>1 DEF Control
  <2>2. CASE next[p] < 3
    <3> DEFINE Final(m) == Place(FinalPath(dir[p], m))
    <3>1. next'[p] = next[p] + 1 /\ pc'[p] = "logs"
      BY <1>1, <1>7, <2>1, <2>2 DEF Proceed, Control
    <3>2. file = Final(next[p])
      BY <1>7 DEF LogPath
    <3>3. opened[p] = Written(config, dir[p], end, 1) \cup {Final(m) : m \in 1 .. next[p] - 1}
          /\ {<<>>} \cup made[p] = Made(config, dir[p], end)
      BY <1>3, <1>7 DEF SoFar
    <3>4. 1 .. next'[p] - 1 = (1 .. next[p] - 1) \cup {next[p]}
      BY <2>1, <3>1
    <3> HIDE DEF file, Final
    <3>5. opened'[p] = Written(config, dir[p], end, 1) \cup {Final(m) : m \in 1 .. next'[p] - 1}
      BY <1>4, <3>2, <3>3, <3>4
    <3>6. SoFar(p)'
      BY <1>1, <3>1, <3>3, <3>5 DEF SoFar, Final
    <3>7. Unharmed(p)'
      BY <1>1, <3>1, EarlyUnharmed
    <3> QED  BY <1>2, <3>6, <3>7 DEF AcceptInv
  <2>3. CASE ~ next[p] < 3
    <3>1. pc'[p] = "gpio"
      BY <1>1, <1>7, <2>1, <2>3 DEF Proceed, Control
    <3>2. Unharmed(p)'
      BY <1>1, <3>1, EarlyUnharmed
    <3> QED  BY <1>2, <3>1, <3>2, PastLogs DEF AcceptInv
  <2> QED  BY <2>2, <2>3
<1> QED  BY <1>1, <1>5, <1>6, <1>7

LEMMA AcceptMakeDirs ==
  ASSUME Resources, Control, AcceptInv, NEW p \in Process, MakeDirs(p)
  PROVE  AcceptInv'
<1> DEFINE g   == group[p]
           end == Len(config.sensor_groups) + 1
<1>1. /\ pc[p] \in {"path", "group"}
      /\ made' = [made EXCEPT ![p] = @ \cup NewDirs(p)]
      /\ UNCHANGED <<config, dir, next, panicked, result, opened, disturbed>>
      /\ \A q \in Process \ {p} : pc'[q] = pc[q] /\ group'[q] = group[q]
  BY DEF MakeDirs, Control
<1>2. ASSUME NEW q \in Process, q # p PROVE SoFar(q)' /\ Unharmed(q)'
  <2>1. made'[q] = made[q]
    BY <1>1, <1>2 DEF Resources
  <2> QED  BY <1>1, <1>2, <2>1, AcceptOthers
<1>3. SoFar(p) /\ config \in Configuration /\ config \in Configurations
  BY ConfigurationAssumption DEF AcceptInv, Resources
<1>4. made'[p] = made[p] \cup NewDirs(p) /\ next[p] = 1
  <2>1. Claims(p) = 1
    BY <1>1 DEF Claims
  <2> QED  BY <1>1, <2>1 DEF Resources, Control
<1>5. CASE pc[p] = "path"
  <2>1. pc'[p] = "console" /\ NewDirs(p) = Prefixes(dir[p])
    BY <1>5 DEF MakeDirs, NewDirs, Control
  <2>2. SoFar(p)'
    BY <1>1, <1>3, <1>4, <1>5, <2>1 DEF SoFar
  <2>3. Unharmed(p)'
    BY <1>1, <2>1, EarlyUnharmed
  <2> QED  BY <1>2, <2>2, <2>3 DEF AcceptInv
<1>6. CASE pc[p] = "group"
  <2>1. g \in DOMAIN config.sensor_groups /\ NewDirs(p) = Range(Trail(GroupPath(config, dir[p], g)))
    BY <1>6 DEF Control, NewDirs
  <2>2. {<<>>} \cup made'[p] = Made(config, dir[p], g + 1)
    <3>1. {<<>>} \cup made[p] = Made(config, dir[p], g)
      BY <1>3, <1>6 DEF SoFar
    <3>2. Made(config, dir[p], g + 1) = Made(config, dir[p], g) \cup NewDirs(p)
      BY <1>3, <2>1, MadeGroup
    <3> HIDE DEF g
    <3> QED  BY <1>4, <3>1, <3>2
  <2>3. opened'[p] = Written(config, dir[p], g, 1)
    BY <1>1, <1>3, <1>4, <1>6 DEF SoFar
  <2>4. CASE config.sensor_groups[g].sensors = <<>>
    <3>1. pc'[p] = GroupOrLogs(g + 1) /\ group'[p] = g + 1
      BY <1>6, <2>4 DEF MakeDirs, Control
    <3>2. GroupOrLogs(g + 1) \in {"group", "logs"} /\ (GroupOrLogs(g + 1) = "logs" => g + 1 = end)
      BY <1>3, <2>1, GroupTypes DEF GroupOrLogs
    <3>3. opened'[p] = Written(config, dir[p], g + 1, 1)
      <4>1. Written(config, dir[p], g + 1, 1)
              = Written(config, dir[p], g, Len(config.sensor_groups[g].sensors) + 1)
        BY <1>3, <2>1, WrittenGroup
      <4>2. Len(config.sensor_groups[g].sensors) + 1 = 1
        BY <2>4
      <4> QED  BY <2>3, <4>1, <4>2
    <3> HIDE DEF g
    <3>4. pc'[p] \in {"group", "logs"} /\ (pc'[p] = "logs" => group'[p] = end)
      BY <3>1, <3>2
    <3>5. opened'[p] = Written(config, dir[p], group'[p], 1)
          /\ {<<>>} \cup made'[p] = Made(config, dir[p], group'[p])
      BY <2>2, <3>1, <3>3
    <3>6. 1 .. next'[p] - 1 = {} /\ next'[p] = 1
      BY <1>1, <1>4
    <3>7. SoFar(p)'
      BY <1>1, <3>4, <3>5, <3>6 DEF SoFar
    <3>8. Unharmed(p)'
      BY <1>1, <3>4, EarlyUnharmed
    <3> QED  BY <1>2, <3>7, <3>8 DEF AcceptInv
  <2>5. CASE config.sensor_groups[g].sensors # <<>>
    <3>1. pc'[p] = "sensors" /\ group'[p] = g
      BY <1>6, <2>5 DEF MakeDirs, Control
    <3>2. SoFar(p)'
      BY <1>1, <1>4, <2>2, <2>3, <3>1 DEF SoFar
    <3>3. Unharmed(p)'
      BY <1>1, <3>1, EarlyUnharmed
    <3> QED  BY <1>2, <3>2, <3>3 DEF AcceptInv
  <2> QED  BY <2>4, <2>5
<1> QED  BY <1>1, <1>5, <1>6

\* No log of a process is blocked by its own, unless its paths clash.
LEMMA AcceptBlocked ==
  ASSUME Resources, Control, AcceptInv, NEW p \in Process, LogBlocked(p)
  PROVE  AcceptInv'
<1> DEFINE c     == config
           d     == dir[p]
           g     == group[p]
           n     == next[p]
           there == {<<>>} \cup made[p]
           end   == Len(config.sensor_groups) + 1
<1>1. /\ pc[p] \in {"path", "console", "group", "sensors", "logs"} /\ Release(p, "error")
      /\ disturbed' = IF ~ Blocked(p, opened[p], there) THEN disturbed \cup {p} ELSE disturbed
  BY DEF LogBlocked, Exit, Disturb
<1>2. ASSUME Blocked(p, opened[p], there), ~ PathsClash(c, d) PROVE FALSE
  <2>1. SoFar(p) /\ c \in Configuration /\ c \in Configurations /\ d \in Dir
    BY ConfigurationAssumption DEF AcceptInv, Resources
  <2>2. CASE pc[p] = "path"
    BY <1>2, <2>1, <2>2 DEF Blocked, SoFar
  <2>3. CASE pc[p] = "console"
    <3>1. opened[p] = {} /\ made[p] = Prefixes(d)
      BY <2>1, <2>3 DEF SoFar
    <3>2. FileBlocked(ConsolePath(d), {}, {<<>>} \cup Prefixes(d))
      BY <1>2, <2>3, <3>1 DEF Blocked, LogPath
    <3>3. ~ Refuses(ConsolePath(d).names)
      BY <2>1, NamesAssumption
    <3>4. Place(ConsolePath(d)) = Append(d, "console.txt") /\ Ways(ConsolePath(d)) = {d}
      BY FixedPlaces
    <3>5. d \in Seq(STRING)
      BY <2>1, DirAssumption
    <3>6. d \in Prefixes(d) /\ \A e \in Prefixes(d) : e \in Seq(STRING) /\ Len(e) <= Len(d)
      BY <3>5, PrefixesShort
    <3>7. Append(d, "console.txt") # <<>> /\ Append(d, "console.txt") \notin Prefixes(d)
      <4>1. Len(Append(d, "console.txt")) = Len(d) + 1 /\ Len(d) \in Nat
        BY <3>5, AppendsApart
      <4> HIDE DEF d
      <4>2. ASSUME NEW e, e = Append(d, "console.txt") PROVE e # <<>> /\ e \notin Prefixes(d)
        <5>1. Len(e) > Len(d) /\ Len(e) # 0
          BY <4>1, <4>2
        <5> QED  BY <3>6, <4>1, <5>1
      <4> QED  BY <4>2
    <3> HIDE DEF d
    <3> QED  BY <3>2, <3>3, <3>4, <3>6, <3>7 DEF FileBlocked
  <2>4. CASE pc[p] = "group"
    <3>1. g \in DOMAIN c.sensor_groups /\ n = 1
      <4>1. Claims(p) = 1
        BY <2>4 DEF Claims
      <4> QED  BY <2>4, <4>1 DEF Control
    <3>2. opened[p] = Written(c, d, g, 1) /\ there = Made(c, d, g)
      BY <2>1, <2>4, <3>1 DEF SoFar
    <3>3. DirBlocked(GroupPath(c, d, g), Written(c, d, g, 1), Made(c, d, g))
      BY <1>2, <2>4, <3>2 DEF Blocked
    <3> QED  BY <1>2, <3>1, <3>3 DEF PathsClash
  <2>5. CASE pc[p] = "sensors"
    <3>1. g \in DOMAIN c.sensor_groups /\ n \in DOMAIN c.sensor_groups[g].sensors
      <4>1. g \in DOMAIN c.sensor_groups /\ Claims(p) = Len(c.sensor_groups[g].sensors)
        BY <2>5 DEF Control, Claims
      <4> QED  BY <2>1, <4>1, GroupTypes DEF Control
    <3>2. opened[p] = Written(c, d, g, n) /\ there = Made(c, d, g + 1)
      BY <2>1, <2>5 DEF SoFar
    <3>3. FileBlocked(SensorPath(c, d, g, n), Written(c, d, g, n), Made(c, d, g + 1))
      BY <1>2, <2>5, <3>2 DEF Blocked, LogPath
    <3>4. <<g, n>> \in SensorIds(c)
      BY <2>1, <3>1, InSensorIds
    <3> HIDE DEF c, d, g, n
    <3> QED  BY <1>2, <3>3, <3>4 DEF PathsClash
  <2>6. CASE pc[p] = "logs"
    <3>1. n \in 1 .. 3
      <4>1. Claims(p) = 3
        BY <2>6 DEF Claims
      <4> QED  BY <4>1 DEF Control
    <3>2. opened[p] = Written(c, d, end, 1) \cup {Place(FinalPath(d, m)) : m \in 1 .. n - 1}
          /\ there = Made(c, d, end)
      BY <2>1, <2>6 DEF SoFar
    <3>3. FileBlocked(FinalPath(d, n),
                      Written(c, d, end, 1) \cup {Place(FinalPath(d, m)) : m \in 1 .. n - 1},
                      Made(c, d, end))
      BY <1>2, <2>6, <3>2 DEF Blocked, LogPath
    <3> QED  BY <1>2, <3>1, <3>3 DEF PathsClash
  <2> QED  BY <1>1, <2>2, <2>3, <2>4, <2>5, <2>6
<1>3. disturbed \subseteq disturbed' /\ (Usable(p) => p \in disturbed')
  BY <1>1, <1>2 DEF Usable, Gap
<1> HIDE DEF there
<1> QED  BY <1>1, <1>3, AcceptRelease

\* With lines that differ and exist, no process is refused one but by another.
LEMMA AcceptRefused ==
  ASSUME Resources, Control, StartInv, AcceptInv, NEW p \in Process, LineRefused(p)
  PROVE  AcceptInv'
<1> DEFINE R == LineRequests(config)
           pin == LineRequest(p).pin
<1>1. /\ pc[p] = "gpio"
      /\ pin \in ChipLines => holder[pin] # Nobody
      /\ Release(p, "error")
      /\ disturbed' = IF pin \in ChipLines /\ holder[pin] # p
                      THEN disturbed \cup {p} ELSE disturbed
  BY DEF LineRefused, Exit, Disturb
<1>2. ASSUME Usable(p) PROVE pin \in ChipLines /\ holder[pin] # p
  <2>1. config \in Configuration
    BY ConfigurationAssumption DEF Resources
  <2>2. Parse(config) = "ok" /\ config.pin_heartbeat \notin Range(PinsUsed(config))
        /\ config.pin_heartbeat \notin Byte \ ChipLines
    BY <1>2 DEF Usable, Gap, HeartbeatTaken
  <2>3. /\ \A k \in DOMAIN R : IsLegal(R[k].pin) \/ R[k].pin = config.pin_heartbeat
        /\ \A j, k \in DOMAIN R : j # k => R[j].pin # R[k].pin
    BY <2>1, <2>2, RequestsApart
  <2>4. /\ DOMAIN R = 1 .. Len(R) /\ Len(R) \in Nat /\ R \in Seq(Line)
    BY <2>1, SomeClaims, LineRequestsAre
  <2>5. next[p] \in 1 .. Len(R)
    BY <1>1, <2>4 DEF Control, Claims
  <2>6. pin = R[next[p]].pin /\ pin \in Byte
    <3>1. R[next[p]] \in Line
      BY <2>4, <2>5, ElementOfSeq
    <3> QED  BY <3>1 DEF LineRequest, Line
  <2>7. pin \in ChipLines
    BY <2>2, <2>3, <2>4, <2>5, <2>6, ChipAssumption
  <2>8. ASSUME holder[pin] = p PROVE FALSE
    <3>1. PICK k \in 1 .. Asked(p) : R[k].pin = pin
      BY <2>7, <2>8 DEF StartInv, Kept, OwnLines
    <3>2. Asked(p) = next[p] - 1
      BY <1>1 DEF Asked, Through
    <3>3. k \in DOMAIN R /\ next[p] \in DOMAIN R /\ k # next[p]
      BY <2>4, <2>5, <3>2
    <3> QED  BY <2>3, <2>6, <3>1, <3>3
  <2> QED  BY <2>7, <2>8
<1>3. disturbed \subseteq disturbed' /\ (Usable(p) => p \in disturbed')
  BY <1>1, <1>2
<1> QED  BY <1>1, <1>3, AcceptRelease

\* A process that no look-up disturbed has all ADCs and drivers in its scope.
LEMMA ScopeHasAll ==
  ASSUME Resources, StartInv, NEW p \in Process, pc[p] \in InScope, p \notin disturbed
  PROVE  Len(adcs[p]) = Len(config.adc_cs) /\ Len(drivers[p]) = Len(config.drivers)
<1> DEFINE n == Len(config.adc_cs)
           d == Len(config.drivers)
<1>1. n \in Nat /\ d \in Nat /\ Len(LineRequests(config)) = 4 + n + d
  BY LineRequestsAre, ConfigurationAssumption DEF Resources
<1>2. Asked(p) = Len(LineRequests(config))
  BY DEF Asked, Through, InScope
<1>3. Counted(p)
  BY DEF StartInv, Kept
<1> HIDE DEF n, d
<1>4. Past(4 + n + d, 3, n) = n /\ Past(4 + n + d, 4 + n, d) = d
  BY <1>1 DEF Past
<1> QED  BY <1>1, <1>2, <1>3, <1>4 DEF Counted, n, d

\* Its procedures stay within its drivers, ...
LEMMA ProceduresFit ==
  ASSUME Resources, StartInv, NEW p \in Process, pc[p] \in InScope, p \notin disturbed,
         Usable(p), NEW a \in Range(config.ignition_sequence \o config.estop_sequence),
         a.type = "Actuate", a.driver_id >= Len(drivers[p])
  PROVE  FALSE
<1> DEFINE actions == config.ignition_sequence \o config.estop_sequence
<1>1. config \in Configuration
  BY ConfigurationAssumption DEF Resources
<1>2. a \in Action
  <2>1. actions \in Seq(Action)
    BY <1>1, ActionChecksHold
  <2>2. PICK i \in DOMAIN actions : a = actions[i]
    BY DEF Range
  <2> HIDE DEF actions
  <2> QED  BY <2>1, <2>2, ElementOfSeq, LenProperties
<1>3. a.driver_id \in Byte
  BY <1>2 DEF Action
<1>4. Len(config.drivers) \in Nat /\ Len(drivers[p]) = Len(config.drivers)
  BY <1>1, ScopeHasAll, LineRequestsAre
<1>5. ~ (a.type = "Actuate" /\ a.driver_id > Len(config.drivers))
  BY <1>1, DriversExist DEF Usable
<1>6. a.driver_id # Len(config.drivers)
  BY DEF Usable, Gap, OffTheEnd
<1>7. a.driver_id >= Len(config.drivers) /\ ~ a.driver_id > Len(config.drivers)
  BY <1>4, <1>5
<1>8. \A x \in Byte, k \in Nat : x >= k /\ ~ x > k => x = k
  BY DEF Byte
<1> QED  BY <1>3, <1>4, <1>6, <1>7, <1>8

\* ... and its sensors within its ADCs.
LEMMA SensorsFit ==
  ASSUME Resources, StartInv, NEW p \in Process, pc[p] \in InScope, p \notin disturbed,
         Usable(p), NEW t \in Threads(config), LacksAdc(p, t)
  PROVE  FALSE
<1>1. config \in Configuration
  BY ConfigurationAssumption, SMTT(30) DEF Resources
<1> DEFINE k == ((t[2] - 1) % GroupIds) + 1
<1>2. t[1] = "sensor" /\ \E s \in DOMAIN config.sensor_groups[k].sensors :
                           config.sensor_groups[k].sensors[s].adc >= Len(adcs[p])
  BY DEF LacksAdc, GroupOf
<1>3. t[2] \in DOMAIN config.sensor_groups
  BY <1>2 DEF Threads
<1>4. k \in DOMAIN config.sensor_groups
  BY <1>1, <1>3, GroupOfGroup
<1>5. Len(adcs[p]) = Len(config.adc_cs)
  BY ScopeHasAll
<1> HIDE DEF k
<1> QED  BY <1>1, <1>2, <1>4, <1>5, AdcsExist DEF Usable

LEMMA AcceptRun ==
  ASSUME Resources, StartInv, AcceptInv, NEW p \in Process,
         \/ ProcedurePanics(p) \/ Heartbeat(p) \/ Operate(p)
         \/ \E t \in Threads(config) : ThreadEnds(p, t)
  PROVE  AcceptInv'
<1>1. UNCHANGED <<config, pc, next, dir, group, opened, made, result>>
  BY DEF ProcedurePanics, Heartbeat, Operate, ThreadEnds, world, process, history
<1>2. \A q \in Process \ {p} : panicked'[q] = panicked[q]
  BY DEF ProcedurePanics, Heartbeat, Operate, ThreadEnds, process, Resources
<1>3. disturbed \subseteq disturbed'
  BY DEF ProcedurePanics, Heartbeat, Operate, ThreadEnds, Disturb, history
<1>4. ASSUME p \notin disturbed', Usable(p) PROVE panicked'[p] = panicked[p]
  <2>1. CASE ProcedurePanics(p)
    <3>1. PICK a \in Range(config.ignition_sequence \o config.estop_sequence) :
            a.type = "Actuate" /\ a.driver_id >= Len(drivers[p])
      BY <2>1 DEF ProcedurePanics
    <3>2. pc[p] \in InScope
      BY <2>1 DEF ProcedurePanics, StartInv, Kept, Scoped, InScope
    <3> QED  BY <1>3, <1>4, <3>1, <3>2, ProceduresFit
  <2>2. CASE Heartbeat(p) \/ Operate(p)
    BY <2>2 DEF Heartbeat, Operate, process
  <2>3. ASSUME NEW t \in Threads(config), ThreadEnds(p, t) PROVE panicked'[p] = panicked[p]
    <3>1. pc[p] \in InScope
      BY <2>3 DEF ThreadEnds, StartInv, Kept, Scoped
    <3>2. ~ MayPanicLater(config, t)
      BY <1>4 DEF Usable, Gap, Doomed
    <3>3. ~ LacksAdc(p, t)
      BY <1>3, <1>4, <3>1, SensorsFit
    <3> QED  BY <2>3, <3>2, <3>3 DEF ThreadEnds
  <2> QED  BY <2>1, <2>2, <2>3
<1>5. ASSUME NEW q \in Process, q # p PROVE SoFar(q)' /\ Unharmed(q)'
  BY <1>1, <1>2, <1>3, <1>5, AcceptOthers
<1>6. SoFar(p)'
  BY <1>1 DEF AcceptInv, SoFar
<1>7. Unharmed(p)'
  BY <1>1, <1>3, <1>4 DEF AcceptInv, Unharmed, Usable
<1> QED  BY <1>5, <1>6, <1>7 DEF AcceptInv

LEMMA AcceptMove ==
  ASSUME Resources, Control, StartInv, AcceptInv, NEW p \in Process,
         \/ ParseConfig(p) \/ AcquireLine(p) \/ LookupFails(p)
         \/ SpawnThreads(p) \/ Bind(p) \/ BindFails(p) \/ AcceptLoopEnds(p)
  PROVE  AcceptInv'
<1>0. p \notin disturbed => pc[p] # "joining" /\ (Usable(p) => ~ panicked[p])
  BY DEF AcceptInv, Unharmed
<1>1. CASE ParseConfig(p)
  <2>1. CASE Parse(config) = "ok"
    <3>1. /\ pc[p] = "parse" /\ Proceed(p, GroupOrLogs(1))
          /\ UNCHANGED <<config, dir, group, panicked, result, opened, made, disturbed>>
      BY <1>1, <2>1 DEF ParseConfig, world, history
    <3>2. next[p] = 1 /\ group[p] = 1 /\ Claims(p) = 1
      <4>1. Claims(p) = 1
        BY <3>1 DEF Claims
      <4> QED  BY <3>1, <4>1 DEF Control, Before
    <3>3. pc'[p] = GroupOrLogs(1) /\ next'[p] = 1
      BY <3>1, <3>2 DEF Proceed, Control
    <3>4. GroupOrLogs(1) \in {"group", "logs"}
          /\ (GroupOrLogs(1) = "logs" => Len(config.sensor_groups) + 1 = 1)
      BY GroupTypes DEF GroupOrLogs, Resources
    <3>5. opened[p] = Written(config, dir[p], 1, 1) /\ {<<>>} \cup made[p] = Made(config, dir[p], 1)
      BY <3>1, <3>2 DEF AcceptInv, SoFar
    <3>6. SoFar(p)'
      <4>1. 1 .. next'[p] - 1 = {}
        BY <3>3
      <4> QED  BY <3>1, <3>2, <3>3, <3>4, <3>5, <4>1 DEF SoFar
    <3>7. Unharmed(p)'
      BY <3>1, <3>3, <3>4, EarlyUnharmed
    <3>8. ASSUME NEW q \in Process, q # p PROVE SoFar(q)' /\ Unharmed(q)'
      BY <3>1, <3>8, OthersWait, AcceptOthers
    <3> QED  BY <3>6, <3>7, <3>8 DEF AcceptInv
  <2>2. CASE Parse(config) # "ok"
    BY <1>1, <2>2, AcceptRelease DEF ParseConfig, Exit, Usable
  <2> QED  BY <2>1, <2>2
<1>2. CASE AcquireLine(p)
  <2>1. CASE LineRequest(p).use = "adc" /\ ~ AdcAccepts(config)
    <3>1. Release(p, "panic") /\ UNCHANGED disturbed
      BY <1>2, <2>1 DEF AcquireLine
    <3>2. ~ Usable(p)
      BY <2>1 DEF Usable, Gap, ClockOnTheLimit
    <3> QED  BY <3>1, <3>2, AcceptRelease
  <2>2. CASE ~ (LineRequest(p).use = "adc" /\ ~ AdcAccepts(config))
    <3>1. /\ pc[p] = "gpio" /\ Proceed(p, "spawn")
          /\ UNCHANGED <<config, dir, group, panicked, result, opened, made, disturbed>>
      BY <1>2, <2>2 DEF AcquireLine, history
    <3> QED  BY <1>0, <3>1, AcceptProceed DEF InScope
  <2> QED  BY <2>1, <2>2
<1>3. CASE LookupFails(p)
  <2>1. pc[p] = "gpio" /\ disturbed' = disturbed \cup {p}
    BY <1>3 DEF LookupFails, Disturb
  <2>2. CASE LineRequest(p).use \in {"adc", "driver"}
    <3>1. Proceed(p, "spawn") /\ UNCHANGED <<config, dir, group, panicked, result, opened, made>>
      BY <1>3, <2>2 DEF LookupFails, world
    <3> QED  BY <2>1, <3>1, AcceptProceed DEF InScope
  <2>3. CASE LineRequest(p).use \notin {"adc", "driver"}
    BY <1>3, <2>1, <2>3, AcceptRelease DEF LookupFails, Exit
  <2> QED  BY <2>2, <2>3
<1>4. CASE SpawnThreads(p)
  <2> DEFINE doomed == {t \in Threads(config) : PanicsAtStart(config, t)}
  <2>1. /\ pc[p] = "spawn" /\ Proceed(p, "bind")
        /\ panicked' = [panicked EXCEPT ![p] = doomed # {}]
        /\ UNCHANGED <<config, dir, group, opened, made, result, disturbed>>
    BY <1>4 DEF SpawnThreads, world, history
  <2>2. Usable(p) => doomed = {}
    BY DEF Usable, Gap, Doomed
  <2> HIDE DEF doomed
  <2>3. (\A q \in Process \ {p} : panicked'[q] = panicked[q])
        /\ (Usable(p) => ~ panicked'[p])
    BY <2>1, <2>2 DEF Resources
  <2> QED  BY <2>1, <2>3, AcceptProceed DEF InScope
<1>5. CASE Bind(p)
  BY <1>0, <1>5, AcceptProceed DEF Bind, history, InScope
<1>6. CASE BindFails(p)
  <2>1. /\ pc[p] = "bind" /\ Proceed(p, "joining") /\ p \in disturbed'
        /\ disturbed \subseteq disturbed'
        /\ UNCHANGED <<config, dir, group, panicked, result, opened, made>>
    BY <1>6 DEF BindFails, Disturb, world
  <2> QED  BY <2>1, AcceptProceed DEF InScope
<1>7. CASE AcceptLoopEnds(p)
  <2>1. /\ pc[p] = "serving" /\ Proceed(p, "joining") /\ p \in disturbed'
        /\ disturbed \subseteq disturbed'
        /\ UNCHANGED <<config, dir, group, result, opened, made>>
    BY <1>7 DEF AcceptLoopEnds, Disturb
  <2>2. \A q \in Process \ {p} : panicked'[q] = panicked[q]
    BY <1>7 DEF AcceptLoopEnds, Resources
  <2> QED  BY <2>1, <2>2, AcceptProceed DEF InScope
<1> QED  BY <1>1, <1>2, <1>3, <1>4, <1>5, <1>6, <1>7

LEMMA AcceptStep == TypeInv /\ StartInv /\ AcceptInv /\ [Next]_vars => AcceptInv'
<1> SUFFICES ASSUME Resources, Control, StartInv, AcceptInv, [Next]_vars PROVE AcceptInv'
  BY DEF TypeInv
<1>1. CASE UNCHANGED vars
  <2>1. UNCHANGED <<config, opened, made, dir, group, pc, next, result, panicked, disturbed>>
    BY <1>1 DEF vars, world, process, history
  <2> QED  BY <2>1, AcceptOthers DEF AcceptInv
<1>2. ASSUME NEW p \in Process, Begin(p) PROVE AcceptInv'
  <2>1. /\ pc[p] = "off" /\ pc' = [pc EXCEPT ![p] = "path"]
        /\ UNCHANGED <<config, opened, made, dir, group, next, result, panicked, disturbed>>
    BY <1>2 DEF Begin, world, history
  <2>2. ASSUME NEW q \in Process, q # p PROVE SoFar(q)' /\ Unharmed(q)'
    <3>1. pc'[q] = pc[q]
      BY <2>1, <2>2 DEF Control
    <3> QED  BY <2>1, <3>1, AcceptOthers
  <2>3. opened[p] = {} /\ made[p] = {} /\ pc'[p] = "path"
    BY <2>1 DEF AcceptInv, SoFar, Control
  <2>4. SoFar(p)'
    BY <2>1, <2>3 DEF SoFar
  <2>5. Unharmed(p)'
    BY <2>1, <2>3, EarlyUnharmed
  <2> QED  BY <2>2, <2>4, <2>5 DEF AcceptInv
<1>3. ASSUME NEW p \in Process, Fault(p) \/ Join(p) \/ Kill(p) PROVE AcceptInv'
  <2>1. CASE Fault(p)
    BY <2>1, AcceptRelease DEF Fault, Exit, Disturb
  <2>2. CASE Join(p)
    <3>1. p \in disturbed
      BY <2>2 DEF Join, AcceptInv, Unharmed
    <3>2. UNCHANGED disturbed /\ \E how : Release(p, how)
      BY <2>2 DEF Join, Exit
    <3> QED  BY <3>1, <3>2, AcceptRelease
  <2>3. CASE Kill(p)
    BY <2>3, AcceptRelease DEF Kill, Exit
  <2> QED  BY <1>3, <2>1, <2>2, <2>3
<1> QED  BY <1>1, <1>2, <1>3, AcceptCreate, AcceptMakeDirs, AcceptBlocked, AcceptRefused, AcceptMove,
         AcceptRun DEF Next, MainThread

\* Validation is complete but for the gaps that Gap names: with any other
\* configuration that parse accepts, run fails or panics only if a fault, or the
\* property of another process, got in its way.
THEOREM AcceptedRuns == Spec => []AcceptedStarts
<1>1. AcceptInv => AcceptedStarts
  BY DEF AcceptInv, Unharmed, Usable, AcceptedStarts
<1> QED  BY TypeInit, TypeStep, LineInvInit, LineInvStep, StartInit, StartStep,
            AcceptInit, AcceptStep, <1>1, PTL DEF Spec

=============================================================================

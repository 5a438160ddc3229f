------------------------------- MODULE Sensor -------------------------------
(***************************************************************************)
(* One sensor group's thread (sensor_listen, src/data.rs): it reads every  *)
(* sensor of the group, checks rolling averages against their ranges,      *)
(* hands the newest readings to the dashboard channel now and then, logs   *)
(* readings through a buffer per sensor, sleeps, and starts over.          *)
(*                                                                         *)
(* The engine's state is moved by others (Execution.tla), which wait       *)
(* pre_ignite_time before they ignite; what the ADC reads is a choice of   *)
(* the environment.  A reading is known by its number among its sensor's   *)
(* readings.  Time passes in ticks, while the thread sleeps or works.      *)
(***************************************************************************)
EXTENDS EngineState, Integers, Sequences, FiniteSetsExt

CONSTANTS
  NumSensors,      \* group.sensors.len()
  Values,          \* calibrated values a sensor may show
  Low, High,       \* the legal range of every sensor
  Width,           \* rolling_average_width
  Scale,           \* averages are multiples of 1 / Scale
  Rounding,        \* by how many of them a new average may be off, in f64
  LogBufferSize,   \* configuration.log_buffer_size
  MaxLoops,        \* bound: iterations of the thread's loop
  Faults,          \* whether reads and log writes may fail
  StandbyPeriod, IgnitionPeriod, TransmissionPeriod,   \* in ticks
  PreIgniteTime,   \* configuration.pre_ignite_time, in ticks
  Delay            \* what the work of a loop may take, and how late a nap may end

Sensors == 1 .. NumSensors

ASSUME NumSensorsAssumption == NumSensors \in Nat \ {0}
ASSUME ValuesAssumption     == Values \subseteq Nat
ASSUME RangeAssumption      == Low \in Nat /\ High \in Nat /\ Low <= High
ASSUME WidthAssumption      == Width \in Nat \ {0}
ASSUME ScaleAssumption      == Scale \in Nat \ {0}
ASSUME RoundingAssumption   == Rounding \in Nat /\ (Width = 1 => Rounding = 0)
ASSUME BufferAssumption     == LogBufferSize \in Nat
ASSUME LoopsAssumption      == MaxLoops \in Nat
ASSUME FaultsAssumption     == Faults \in BOOLEAN
ASSUME TimesAssumption      == {StandbyPeriod, IgnitionPeriod, TransmissionPeriod,
                                PreIgniteTime, Delay} \subseteq Nat

\* What pre_ignite_time is for: every thread wakes up from a slow nap before
\* the engine ignites.  No check of Configuration::parse implies it.
ASSUME PreIgniteAssumption  == StandbyPeriod + Delay < PreIgniteTime

VARIABLES
  pc,             \* where the thread is in its loop
  next_sensor,    \* the sensor it reads next
  average,        \* rolling_averages, in units of 1 / Scale
  queue,          \* most_recent_readings
  transmission,   \* transmission_readings: a reading's number, or 0 for None
  log_file,       \* the rows of each sensor's log file
  loops           \* iterations begun (for the bound)

\* Clocks, in ticks.  Those that nothing reads further on stop.
VARIABLES
  age,            \* since the current iteration began
  nap,            \* until the nap is over; below 0 it is late
  untransmitted,  \* since last_transmission_time, at most TransmissionPeriod + 1
  pre_ignited     \* in PreIgnite, at most PreIgniteTime

\* History variables: no action reads them, except readings for its length.
VARIABLES
  readings,       \* all values each sensor showed
  sent,           \* the readings handed to DashChannel::send
  spawned,        \* the readings after which an emergency stop was spawned
  log_failed      \* a write to a sensor's log has failed

locals  == <<pc, next_sensor, average, queue, transmission, loops>>
clocks  == <<age, nap, untransmitted, pre_ignited>>
history == <<readings, sent, spawned, log_failed>>
vars    == <<state, locals, log_file, clocks, history>>

TypeOK ==
  /\ state \in State
  /\ pc \in {"top", "read", "transmit", "log", "nap", "sleep", "ended"}
  /\ next_sensor \in 1 .. NumSensors + 1
  /\ average \in [Sensors -> Int]
  /\ queue \in [Sensors -> Seq(1 .. MaxLoops)]
  /\ transmission \in [Sensors -> 0 .. MaxLoops]
  /\ log_file \in [Sensors -> Seq(1 .. MaxLoops)]
  /\ loops \in 0 .. MaxLoops
  /\ age \in 0 .. StandbyPeriod + IgnitionPeriod + 2 * Delay
  /\ nap \in - Delay .. StandbyPeriod + IgnitionPeriod
  /\ untransmitted \in 0 .. TransmissionPeriod + 1
  /\ pre_ignited \in 0 .. PreIgniteTime
  /\ readings \in [Sensors -> Seq(Values)]
  /\ sent \in [Sensors -> Seq(1 .. MaxLoops)]
  /\ spawned \in [Sensors -> SUBSET (1 .. MaxLoops)]
  /\ log_failed \in BOOLEAN

\* The average is seeded with the middle of the range.
Init ==
  /\ state = "Standby"
  /\ pc = "top"
  /\ next_sensor = 1
  /\ average = [s \in Sensors |-> ((Low + High) * Scale) \div 2]
  /\ queue = [s \in Sensors |-> <<>>]
  /\ transmission = [s \in Sensors |-> 0]
  /\ log_file = [s \in Sensors |-> <<>>]
  /\ loops = 0
  /\ age = 0
  /\ nap = 0
  /\ untransmitted = 0
  /\ pre_ignited = 0
  /\ readings = [s \in Sensors |-> <<>>]
  /\ sent = [s \in Sensors |-> <<>>]
  /\ spawned = [s \in Sensors |-> {}]
  /\ log_failed = FALSE

-----------------------------------------------------------------------------
\* Mutant: the old average keeps its whole weight.
RollingOffByOne(old, value) ==
  {(old * Width + value * Scale) \div Width + error : error \in - Rounding .. Rounding}

\* The new averages there may be: the operations on f64 round, up or down.
Rolling(old, value) ==
  {(old * (Width - 1) + value * Scale) \div Width + error : error \in - Rounding .. Rounding}

OutOfRange(avg) == avg < Low * Scale \/ High * Scale < avg

\* `while state.status()? != State::Quit`
BeginLoop ==
  /\ pc = "top"
  /\ state # "Quit"
  /\ loops < MaxLoops
  /\ loops' = loops + 1
  /\ pc' = "read"
  /\ next_sensor' = 1
  /\ age' = 0
  /\ UNCHANGED <<state, average, queue, transmission, log_file,
                 nap, untransmitted, pre_ignited, history>>

QuitLoop ==
  /\ pc = "top"
  /\ state = "Quit"
  /\ pc' = "ended"
  /\ UNCHANGED <<state, next_sensor, average, queue, transmission, loops,
                 log_file, clocks, history>>

\* One sensor is read: its value is buffered for the log and for transmission,
\* and an emergency stop is spawned if the average has left the range.
ReadSensor(s, value) ==
  /\ pc = "read"
  /\ next_sensor = s
  /\ \E avg \in Rolling(average[s], value) :
       LET n == Len(readings[s]) + 1
       IN
         /\ readings' = [readings EXCEPT ![s] = Append(@, value)]
         /\ queue' = [queue EXCEPT ![s] = Append(@, n)]
         /\ transmission' = [transmission EXCEPT ![s] = n]
         /\ average' = [average EXCEPT ![s] = avg]
         /\ spawned' = IF OutOfRange(avg)
                       THEN [spawned EXCEPT ![s] = @ \cup {n}]
                       ELSE spawned
  /\ next_sensor' = next_sensor + 1
  /\ UNCHANGED <<state, pc, loops, log_file, clocks, sent, log_failed>>

\* Mutant: one sensor too many is tried.
ReadFailsPastEnd ==
  /\ pc = "read"
  /\ next_sensor \in 1 .. NumSensors + 1
  /\ Faults
  /\ next_sensor' = next_sensor + 1
  /\ UNCHANGED <<state, pc, average, queue, transmission, loops,
                 log_file, clocks, history>>

\* The ADC does not answer or its mutex is poisoned: on to the next sensor.
ReadFails ==
  /\ pc = "read"
  /\ next_sensor \in Sensors
  /\ Faults
  /\ next_sensor' = next_sensor + 1
  /\ UNCHANGED <<state, pc, average, queue, transmission, loops,
                 log_file, clocks, history>>

AllRead ==
  /\ pc = "read"
  /\ next_sensor > NumSensors
  /\ pc' = "transmit"
  /\ UNCHANGED <<state, next_sensor, average, queue, transmission, loops,
                 log_file, clocks, history>>

\* Mutant: the readings are kept after they were sent.
ForgetNothing == UNCHANGED transmission

Forget == transmission' = [s \in Sensors |-> 0]

TransmissionDue == untransmitted > TransmissionPeriod

TransmitLater ==
  /\ pc = "transmit"
  /\ ~ TransmissionDue
  /\ pc' = "log"
  /\ UNCHANGED <<state, next_sensor, average, queue, transmission, loops,
                 log_file, clocks, history>>

\* With a target or without one.
Transmit(has_target) ==
  /\ pc = "transmit"
  /\ TransmissionDue
  /\ pc' = "log"
  /\ sent' = IF has_target
             THEN [s \in Sensors |-> IF transmission[s] = 0
                                     THEN sent[s]
                                     ELSE Append(sent[s], transmission[s])]
             ELSE sent
  /\ Forget
  /\ untransmitted' = 0
  /\ UNCHANGED <<state, next_sensor, average, queue, loops, log_file, age, nap, pre_ignited,
                 readings, spawned, log_failed>>

\* send returns an error because sent.csv cannot be written; so does the thread,
\* and what it has buffered is lost with it.
TransmitFails ==
  /\ pc = "transmit"
  /\ TransmissionDue
  /\ Faults
  /\ pc' = "ended"
  /\ UNCHANGED <<state, next_sensor, average, queue, transmission, loops,
                 log_file, clocks, history>>

\* Mutant: a buffer that was written out is not cleared.
FlushLogsKeepsBuffer ==
  /\ pc = "log"
  /\ log_file' = [s \in Sensors |-> IF Len(queue[s]) >= LogBufferSize
                                     THEN log_file[s] \o queue[s]
                                     ELSE log_file[s]]
  /\ pc' = "nap"
  /\ UNCHANGED <<state, next_sensor, average, queue, transmission, loops,
                 clocks, history>>

\* Every full buffer is written out and cleared; a write that fails leaves a
\* part of the rows in the file, and the buffer is cleared all the same.
FlushLogs ==
  /\ pc = "log"
  /\ LET full == {s \in Sensors : Len(queue[s]) >= LogBufferSize}
     IN  \E written \in [Sensors -> 0 .. MaxLoops] :
           /\ \A s \in Sensors :
                written[s] \in IF s \notin full THEN {0}
                               ELSE IF Faults THEN 0 .. Len(queue[s])
                               ELSE {Len(queue[s])}
           /\ log_file' = [s \in Sensors |-> log_file[s] \o SubSeq(queue[s], 1, written[s])]
           /\ queue' = [s \in Sensors |-> IF s \in full THEN <<>> ELSE queue[s]]
           /\ log_failed' = (log_failed \/ \E s \in full : written[s] < Len(queue[s]))
  /\ pc' = "nap"
  /\ UNCHANGED <<state, next_sensor, average, transmission, loops, clocks,
                 readings, sent, spawned>>

\* A nap of so many ticks begins.
Nap(period) ==
  /\ pc = "nap"
  /\ nap' = period
  /\ pc' = "sleep"
  /\ UNCHANGED <<state, next_sensor, average, queue, transmission, loops,
                 log_file, age, untransmitted, pre_ignited, history>>

\* Mutant: only while it burns is the engine sampled fast.
ChooseNapLate == Nap(IF state = "Ignite" THEN IgnitionPeriod ELSE StandbyPeriod)

ChooseNap == Nap(IF state = "Standby" THEN StandbyPeriod ELSE IgnitionPeriod)

WakeUp ==
  /\ pc = "sleep"
  /\ nap <= 0
  /\ pc' = "top"
  /\ UNCHANGED <<state, next_sensor, average, queue, transmission, loops,
                 log_file, clocks, history>>

-----------------------------------------------------------------------------
\* Others move the engine on; ignition has slept for PreIgniteTime before it
\* asks for Ignite.  (Only the tests of data.rs ask for Quit.)
Elsewhere(new_state) ==
  /\ new_state # state
  /\ new_state = "Ignite" => pre_ignited = PreIgniteTime
  /\ MoveTo(new_state)
  /\ pre_ignited' = 0
  /\ UNCHANGED <<locals, log_file, age, nap, untransmitted, history>>

\* Time passes, but no more than the thread may still take for what it does:
\* the check at the top of the loop takes none, a nap may end late.
Tick ==
  /\ \/ pc \in {"read", "transmit", "log", "nap"} /\ age < Delay /\ UNCHANGED nap
     \/ pc = "sleep" /\ - Delay < nap /\ nap' = nap - 1
  /\ age' = age + 1
  /\ untransmitted' = Min({untransmitted + 1, TransmissionPeriod + 1})
  /\ pre_ignited' = IF state = "PreIgnite" THEN Min({pre_ignited + 1, PreIgniteTime}) ELSE 0
  /\ UNCHANGED <<state, locals, log_file, history>>

Listen ==
  \/ BeginLoop \/ QuitLoop
  \/ \E s \in Sensors, value \in Values : ReadSensor(s, value)
  \/ ReadFails \/ AllRead
  \/ TransmitLater \/ (\E has_target \in BOOLEAN : Transmit(has_target)) \/ TransmitFails
  \/ FlushLogs \/ ChooseNap \/ WakeUp

Next == Listen \/ Tick \/ \E new_state \in State : Elsewhere(new_state)

Spec == Init /\ [][Next]_vars

-----------------------------------------------------------------------------
Increasing(seq) == \A i, j \in DOMAIN seq : i < j => seq[i] < seq[j]

\* The log of a sensor has its readings in order and none twice, and log and
\* buffer together have all of them unless a write to a sensor's log failed; the
\* buffer never holds more than it should between two loops (most_recent_readings,
\* write_sensor_log).  What is buffered when the thread ends is never written.
LogIsComplete ==
  \A s \in Sensors :
    LET kept == log_file[s] \o queue[s]
    IN  /\ Increasing(kept)
        /\ ~ log_failed => Len(kept) = Len(readings[s])
        /\ pc \in {"nap", "sleep", "top"} => queue[s] = <<>> \/ Len(queue[s]) < LogBufferSize

\* A reading is handed to the dashboard at most once, in order, and only while
\* it is the newest of its sensor (transmission_readings is overwritten by
\* every reading and reset by every transmission, with a target or without).
SendsNewestOnce ==
  \A s \in Sensors :
    /\ transmission[s] \in {0, Len(readings[s])}
    /\ Increasing(sent[s])
    /\ transmission[s] # 0 => \A i \in DOMAIN sent[s] : sent[s][i] < transmission[s]

\* A value so far within the range that rounding cannot carry an average out of
\* it: each step may add an error of Rounding and forgets one part in Width.
WellWithin(value) ==
  /\ Low * Scale + Width * Rounding <= value * Scale
  /\ value * Scale <= High * Scale - Width * Rounding

\* No emergency stop without a cause: the sensor has itself shown a value
\* outside of the range before, or at its very end (the rolling average starts in
\* the range and stays between the values it combines but for rounding, which
\* does not add up).
EStopHasCause ==
  \A s \in Sensors : \A n \in spawned[s] :
    \E m \in 1 .. n : ~ WellWithin(readings[s][m])

\* While the engine burns, no sensor goes unread for longer than an ignition
\* period and the thread's delays, also when ignition came in the middle of a
\* slow nap (the period is chosen after the work of a loop, by a state that may
\* change right after; PreIgnite leaves time to wake up).
SamplesInTime ==
  state = "Ignite" /\ pc # "ended" => age <= IgnitionPeriod + 2 * Delay

=============================================================================

---------------------------- MODULE SensorProofs ----------------------------
(***************************************************************************)
(* Proofs about Sensor, for any group of sensors, any periods and any      *)
(* bound on the loops: the types, that readings are sent once and while    *)
(* they are the newest (SendsNewestOnce), that none is missed while the    *)
(* engine burns (SamplesInTime), that every reading is in its log or still *)
(* to be written there (LogIsComplete), and that an emergency stop has a   *)
(* reading to blame that was out of range, or so close to its end that     *)
(* rounding took the average out (EStopHasCause).                          *)
(***************************************************************************)
EXTENDS Sensor, SequenceTheorems, TLAPS

LEMMA MinOfTwo ==
  ASSUME NEW a \in Int, NEW b \in Int
  PROVE  Min({a, b}) \in {a, b} /\ Min({a, b}) <= a /\ Min({a, b}) <= b
<1>1. \E x \in {a, b} : \A y \in {a, b} : x <= y
  OBVIOUS
<1> QED  BY <1>1 DEF Min

-----------------------------------------------------------------------------
\* Readings and transmissions.

\* What was sent had been read before.
SentWereRead ==
  /\ readings \in [Sensors -> Seq(Values)]
  /\ transmission \in [Sensors -> Nat]
  /\ sent \in [Sensors -> Seq(Nat)]
  /\ \A s \in Sensors : \A i \in DOMAIN sent[s] : sent[s][i] <= Len(readings[s])

SendInv == SentWereRead /\ SendsNewestOnce

LEMMA SendInvInit == Init => SendInv
  BY DEF Init, SendInv, SentWereRead, SendsNewestOnce, Increasing

LEMMA SendInvRead ==
  ASSUME SendInv, NEW s \in Sensors, NEW value \in Values, ReadSensor(s, value)
  PROVE  SendInv'
<1> DEFINE n == Len(readings[s]) + 1
<1>1. /\ readings' = [readings EXCEPT ![s] = Append(@, value)]
      /\ transmission' = [transmission EXCEPT ![s] = n]
      /\ sent' = sent
  BY DEF ReadSensor
<1>2. /\ readings[s] \in Seq(Values) /\ n \in Nat
      /\ Append(readings[s], value) \in Seq(Values) /\ Len(Append(readings[s], value)) = n
  BY DEF SendInv, SentWereRead
<1>3. /\ readings' \in [Sensors -> Seq(Values)]
      /\ transmission' \in [Sensors -> Nat]
      /\ Len(readings'[s]) = n /\ transmission'[s] = n
      /\ \A r \in Sensors : r # s => /\ readings'[r] = readings[r]
                                    /\ transmission'[r] = transmission[r]
  BY <1>1, <1>2 DEF SendInv, SentWereRead
<1>4. \A i \in DOMAIN sent[s] : sent[s][i] < n
  BY <1>2 DEF SendInv, SentWereRead
<1>5. SentWereRead'
  BY <1>1, <1>2, <1>3, <1>4 DEF SendInv, SentWereRead
<1>6. SendsNewestOnce'
  BY <1>1, <1>2, <1>3, <1>4 DEF SendInv, SendsNewestOnce
<1> QED  BY <1>5, <1>6 DEF SendInv

LEMMA SendInvTransmit ==
  ASSUME SendInv, NEW has_target \in BOOLEAN, Transmit(has_target)
  PROVE  SendInv'
<1>1. readings' = readings /\ transmission' = [s \in Sensors |-> 0]
  BY DEF Transmit, Forget
<1>2. ASSUME NEW s \in Sensors
      PROVE  /\ sent'[s] \in Seq(Nat)
             /\ Increasing(sent'[s])
             /\ \A i \in DOMAIN sent'[s] : sent'[s][i] <= Len(readings[s])
  <2>1. /\ sent[s] \in Seq(Nat) /\ transmission[s] \in Nat /\ Len(readings[s]) \in Nat
        /\ Increasing(sent[s])
        /\ \A i \in DOMAIN sent[s] : sent[s][i] <= Len(readings[s])
        /\ transmission[s] \in {0, Len(readings[s])}
        /\ transmission[s] # 0 => \A i \in DOMAIN sent[s] : sent[s][i] < transmission[s]
    BY DEF SendInv, SentWereRead, SendsNewestOnce
  <2>2. CASE sent'[s] = sent[s]
    BY <2>1, <2>2
  <2>3. CASE transmission[s] # 0 /\ sent'[s] = Append(sent[s], transmission[s])
    BY <2>1, <2>3, SMTT(30) DEF Increasing
  <2>4. \/ sent' = sent
        \/ sent' = [r \in Sensors |-> IF transmission[r] = 0 THEN sent[r]
                                      ELSE Append(sent[r], transmission[r])]
    BY DEF Transmit
  <2> QED  BY <2>2, <2>3, <2>4
<1>3. sent' \in [Sensors -> Seq(Nat)]
  <2>1. DOMAIN sent' = Sensors /\ sent' = [s \in Sensors |-> sent'[s]]
    BY DEF Transmit, SendInv, SentWereRead
  <2> QED  BY <1>2, <2>1
<1>4. SentWereRead'
  BY <1>1, <1>2, <1>3 DEF SendInv, SentWereRead
<1>5. SendsNewestOnce'
  BY <1>1, <1>2 DEF SendsNewestOnce
<1> QED  BY <1>4, <1>5 DEF SendInv

LEMMA SendInvStep == SendInv /\ [Next]_vars => SendInv'
<1> SUFFICES ASSUME SendInv, [Next]_vars PROVE SendInv'
  OBVIOUS
<1>1. ASSUME UNCHANGED <<readings, transmission, sent>> PROVE SendInv'
  BY <1>1 DEF SendInv, SentWereRead, SendsNewestOnce
<1>2. CASE UNCHANGED vars
  BY <1>1, <1>2 DEF vars, locals, history
<1>3. ASSUME NEW s \in Sensors, NEW value \in Values, ReadSensor(s, value) PROVE SendInv'
  BY <1>3, SendInvRead
<1>4. ASSUME NEW has_target \in BOOLEAN, Transmit(has_target) PROVE SendInv'
  BY <1>4, SendInvTransmit
<1>5. CASE \/ BeginLoop \/ QuitLoop \/ ReadFails \/ AllRead \/ TransmitLater \/ TransmitFails
           \/ ChooseNap \/ WakeUp
  BY <1>1, <1>5 DEF BeginLoop, QuitLoop, ReadFails, AllRead, TransmitLater, TransmitFails,
                    ChooseNap, Nap, WakeUp, history
<1>6. CASE FlushLogs
  <2>1. UNCHANGED <<readings, transmission, sent>>
    BY <1>6 DEF FlushLogs
  <2> QED  BY <1>1, <2>1
<1>7. CASE Tick \/ \E new_state \in State : Elsewhere(new_state)
  BY <1>1, <1>7 DEF Tick, Elsewhere, locals, history
<1> QED  BY <1>2, <1>3, <1>4, <1>5, <1>6, <1>7 DEF Next, Listen

\* A reading is handed to the dashboard at most once, in order, and only while
\* it is the newest of its sensor (transmission_readings in sensor_listen).
THEOREM NewestIsSentOnce == Spec => []SendsNewestOnce
<1>1. SendInv => SendsNewestOnce
  BY DEF SendInv
<1> QED  BY SendInvInit, SendInvStep, <1>1, PTL DEF Spec

-----------------------------------------------------------------------------
\* Time.

ClockTypes ==
  age \in Int /\ nap \in Int /\ pre_ignited \in Nat /\ pre_ignited <= PreIgniteTime

\* The work of a loop takes no longer than Delay.
WorkInTime == pc \in {"read", "transmit", "log", "nap"} => age <= Delay

\* A nap ends in time.  It is a fast one, or was begun in another state than
\* the engine's phases, and then has less left than PreIgnite has.
NapInTime ==
  pc \in {"sleep", "top"} =>
    /\ - Delay <= nap
    /\ \/ age + nap <= Delay + IgnitionPeriod
       \/ /\ state # "Ignite"
          /\ nap <= StandbyPeriod
          /\ state = "PreIgnite" => nap + pre_ignited <= StandbyPeriod

TimeInv == ClockTypes /\ WorkInTime /\ NapInTime

LEMMA Times ==
  StandbyPeriod \in Nat /\ IgnitionPeriod \in Nat /\ PreIgniteTime \in Nat /\ Delay \in Nat
  BY TimesAssumption

LEMMA TimeInvInit == Init => TimeInv
  BY Times DEF Init, TimeInv, ClockTypes, WorkInTime, NapInTime

\* What PreIgnite gains in a tick the nap loses.
LEMMA LessLeft ==
  ASSUME NEW left \in Int, NEW in_phase \in Int, NEW in_phase_next \in Int, NEW bound \in Int,
         in_phase_next <= in_phase + 1, left + in_phase <= bound
  PROVE  left - 1 + in_phase_next <= bound
  OBVIOUS

LEMMA TimeInvTick == ASSUME TimeInv, Tick PROVE TimeInv'
<1>1. ClockTypes'
  <2>1. PreIgniteTime \in Int /\ pre_ignited + 1 \in Int
    BY Times DEF TimeInv, ClockTypes
  <2>2. Min({pre_ignited + 1, PreIgniteTime}) \in Nat
        /\ Min({pre_ignited + 1, PreIgniteTime}) <= PreIgniteTime
    BY <2>1, Times, MinOfTwo DEF TimeInv, ClockTypes
  <2> QED  BY <2>2, Times DEF Tick, TimeInv, ClockTypes
<1>2. pre_ignited' <= IF state = "PreIgnite" THEN pre_ignited + 1 ELSE 0
  BY Times, MinOfTwo DEF Tick, TimeInv, ClockTypes
<1>3. state' = state /\ pc' = pc /\ age' = age + 1
  BY DEF Tick, locals
<1>4. WorkInTime'
  BY <1>3, Times DEF Tick, TimeInv, ClockTypes, WorkInTime
<1>5. NapInTime'
  <2>1. CASE pc = "sleep"
    <3>1. - Delay < nap /\ nap' = nap - 1
      BY <2>1 DEF Tick
    <3>2. age \in Int /\ nap \in Int /\ pre_ignited \in Nat /\ pre_ignited' \in Nat
      BY <1>1 DEF TimeInv, ClockTypes
    <3>3. - Delay <= nap' /\ age' + nap' = age + nap /\ nap' <= nap
      BY <1>3, <3>1, <3>2, Times
    <3>4. CASE age + nap <= Delay + IgnitionPeriod
      BY <2>1, <3>3, <3>4 DEF NapInTime
    <3>5. CASE /\ state # "Ignite"
               /\ nap <= StandbyPeriod
               /\ state = "PreIgnite" => nap + pre_ignited <= StandbyPeriod
      <4>1. nap' <= StandbyPeriod
        BY <3>1, <3>2, <3>5, Times
      <4>2. ASSUME state = "PreIgnite" PROVE nap' + pre_ignited' <= StandbyPeriod
        <5>1. pre_ignited' <= pre_ignited + 1
          BY <1>2, <4>2
        <5>2. nap + pre_ignited <= StandbyPeriod
          BY <3>5, <4>2
        <5>3. nap' = nap - 1 /\ nap \in Int /\ pre_ignited \in Int /\ pre_ignited' \in Int
          BY <3>1, <3>2
        <5>4. StandbyPeriod \in Int
          BY Times
        <5> QED  BY <5>1, <5>2, <5>3, <5>4, LessLeft
      <4> QED  BY <1>3, <3>3, <3>5, <4>1, <4>2 DEF NapInTime
    <3> QED  BY <2>1, <3>4, <3>5 DEF TimeInv, NapInTime
  <2>2. CASE pc # "sleep"
    BY <1>3, <2>2 DEF Tick, NapInTime
  <2> QED  BY <2>1, <2>2
<1> QED  BY <1>1, <1>4, <1>5 DEF TimeInv

\* The engine can ignite only after a slow nap is over.
LEMMA TimeInvElsewhere ==
  ASSUME TimeInv, NEW new_state \in State, Elsewhere(new_state)
  PROVE  TimeInv'
<1>1. /\ state' = new_state /\ pre_ignited' = 0
      /\ UNCHANGED <<pc, age, nap>>
      /\ new_state = "Ignite" => state = "PreIgnite" /\ pre_ignited = PreIgniteTime
  BY DEF Elsewhere, MoveTo, ValidTransition, locals
<1>2. ClockTypes' /\ WorkInTime'
  BY <1>1, Times DEF TimeInv, ClockTypes, WorkInTime
<1>3. NapInTime'
  BY <1>1, Times, PreIgniteAssumption DEF TimeInv, ClockTypes, NapInTime
<1> QED  BY <1>2, <1>3 DEF TimeInv

\* A step that takes no time and begins neither a loop nor a nap.
GoesOn == \/ pc' = pc
          \/ pc' \in {"transmit", "log", "nap"} /\ pc \in {"read", "transmit", "log"}
          \/ pc' = "top" /\ pc = "sleep"
          \/ pc' = "ended"

LEMMA TimeInvGoesOn ==
  ASSUME TimeInv, GoesOn, state' = state, age' = age, nap' = nap, pre_ignited' = pre_ignited
  PROVE  TimeInv'
<1>1. ClockTypes'
  BY DEF TimeInv, ClockTypes
<1>2. WorkInTime'
  BY DEF TimeInv, WorkInTime, GoesOn
<1>3. NapInTime'
  BY DEF TimeInv, NapInTime, GoesOn
<1> QED  BY <1>1, <1>2, <1>3 DEF TimeInv

LEMMA TimeInvStep == TimeInv /\ [Next]_vars => TimeInv'
<1> SUFFICES ASSUME TimeInv, [Next]_vars PROVE TimeInv'
  OBVIOUS
<1>2. CASE UNCHANGED vars
  BY <1>2, TimeInvGoesOn DEF vars, locals, clocks, GoesOn
<1>3. CASE BeginLoop
  BY <1>3, Times DEF BeginLoop, TimeInv, ClockTypes, WorkInTime, NapInTime
<1>4. ASSUME NEW s \in Sensors, NEW value \in Values, ReadSensor(s, value) PROVE TimeInv'
  <2>1. UNCHANGED <<state, age, nap, pre_ignited, pc>>
    BY <1>4 DEF ReadSensor, clocks
  <2> QED  BY <2>1, TimeInvGoesOn DEF GoesOn
<1>5. CASE QuitLoop \/ ReadFails \/ AllRead \/ TransmitLater \/ TransmitFails \/ WakeUp
  BY <1>5, TimeInvGoesOn
     DEF GoesOn, QuitLoop, ReadFails, AllRead, TransmitLater, TransmitFails, WakeUp, clocks
<1>6. ASSUME NEW has_target \in BOOLEAN, Transmit(has_target) PROVE TimeInv'
  BY <1>6, TimeInvGoesOn DEF GoesOn, Transmit
<1>7. CASE FlushLogs
  <2>1. UNCHANGED <<state, age, nap, pre_ignited>> /\ pc = "log" /\ pc' = "nap"
    BY <1>7 DEF FlushLogs, clocks
  <2> QED  BY <2>1, TimeInvGoesOn DEF GoesOn
<1>8. CASE ChooseNap
  BY <1>8, Times DEF ChooseNap, Nap, TimeInv, ClockTypes, WorkInTime, NapInTime
<1>9. CASE Tick
  BY <1>9, TimeInvTick
<1>10. ASSUME NEW new_state \in State, Elsewhere(new_state) PROVE TimeInv'
  BY <1>10, TimeInvElsewhere
<1> QED  BY <1>2, <1>3, <1>4, <1>5, <1>6, <1>7, <1>8, <1>9, <1>10 DEF Next, Listen

\* The places of the thread, for the conclusion.
Places == pc \in {"top", "read", "transmit", "log", "nap", "sleep", "ended"}

LEMMA PlacesStep == Places /\ [Next]_vars => Places'
<1> SUFFICES ASSUME Places, [Next]_vars PROVE Places'
  OBVIOUS
<1>1. CASE Listen
  <2>1. ASSUME NEW s \in Sensors, NEW value \in Values, ReadSensor(s, value) PROVE pc' = pc
    BY <2>1 DEF ReadSensor
  <2>2. CASE FlushLogs
    BY <2>2 DEF FlushLogs, Places
  <2> QED  BY <1>1, <2>1, <2>2
           DEF Listen, Places, BeginLoop, QuitLoop, ReadFails, AllRead, TransmitLater, Transmit,
               TransmitFails, ChooseNap, Nap, WakeUp
<1>2. CASE ~ Listen
  BY <1>2 DEF Next, Tick, Elsewhere, locals, vars, Places
<1> QED  BY <1>1, <1>2

\* While the engine burns, no sensor goes unread for longer than an ignition
\* period and the thread's delays, if PreIgnite lasts longer than a slow nap
\* (the choice of the period at the end of sensor_listen's loop).
THEOREM SamplesKeepTime == Spec => []SamplesInTime
<1>1. Init => Places
  BY DEF Init, Places
<1>2. TimeInv /\ Places => SamplesInTime
  <2> SUFFICES ASSUME TimeInv, Places, state = "Ignite", pc # "ended"
               PROVE  age <= IgnitionPeriod + 2 * Delay
    BY DEF SamplesInTime
  <2>1. CASE pc \in {"sleep", "top"}
    BY <2>1, Times DEF TimeInv, ClockTypes, NapInTime
  <2>2. CASE pc \notin {"sleep", "top"}
    BY <2>2, Times DEF TimeInv, ClockTypes, WorkInTime, Places
  <2> QED  BY <2>1, <2>2
<1> QED  BY TimeInvInit, TimeInvStep, PlacesStep, <1>1, <1>2, PTL DEF Spec
-----------------------------------------------------------------------------
\* Types.

\* Every iteration reads a sensor at most once.
ReadOncePerLoop ==
  \A s \in Sensors :
    /\ Len(readings[s]) <= loops
    /\ pc = "read" /\ next_sensor <= s => Len(readings[s]) < loops

\* A nap begins within Delay and is a whole period long at most.
NapFits == pc = "sleep" => age + nap <= Delay + StandbyPeriod + IgnitionPeriod

TypeInv == TypeOK /\ ReadOncePerLoop /\ WorkInTime /\ NapFits

LEMMA TransmissionTime == TransmissionPeriod \in Nat
  BY TimesAssumption

LEMMA SumBounded ==
  ASSUME NEW a \in Int, NEW b \in Int, NEW x \in Int, NEW y \in Int, NEW z \in Int,
         a <= x, b <= y + z
  PROVE  a + b <= x + y + z
  OBVIOUS

LEMMA TypeInvInit == Init => TypeInv
<1> SUFFICES ASSUME Init PROVE TypeInv
  OBVIOUS
<1>1. ((Low + High) * Scale) \div 2 \in Int
  <2>1. (Low + High) * Scale \in Int
    BY RangeAssumption, ScaleAssumption
  <2> QED  BY <2>1
<1>2. TypeOK
  <2>1. /\ age \in 0 .. StandbyPeriod + IgnitionPeriod + 2 * Delay
        /\ nap \in - Delay .. StandbyPeriod + IgnitionPeriod
        /\ untransmitted \in 0 .. TransmissionPeriod + 1
        /\ pre_ignited \in 0 .. PreIgniteTime
    BY Times, TransmissionTime DEF Init
  <2>2. next_sensor \in 1 .. NumSensors + 1 /\ loops \in 0 .. MaxLoops
    BY NumSensorsAssumption, LoopsAssumption DEF Init
  <2>3. /\ average \in [Sensors -> Int]
        /\ transmission \in [Sensors -> 0 .. MaxLoops]
        /\ queue \in [Sensors -> Seq(1 .. MaxLoops)]
    BY <1>1, LoopsAssumption DEF Init
  <2>4. /\ log_file \in [Sensors -> Seq(1 .. MaxLoops)]
        /\ readings \in [Sensors -> Seq(Values)]
        /\ sent \in [Sensors -> Seq(1 .. MaxLoops)]
        /\ spawned \in [Sensors -> SUBSET (1 .. MaxLoops)]
    BY DEF Init
  <2>5. state \in State /\ pc = "top" /\ log_failed \in BOOLEAN
    BY DEF Init, State
  <2> QED  BY <2>1, <2>2, <2>3, <2>4, <2>5 DEF TypeOK
<1>3. ReadOncePerLoop
  BY LoopsAssumption DEF Init, ReadOncePerLoop
<1> QED  BY <1>2, <1>3, Times DEF Init, TypeInv, WorkInTime, NapFits

LEMMA RollingType ==
  ASSUME NEW old \in Int, NEW value \in Values PROVE Rolling(old, value) \subseteq Int
<1>1. value \in Nat /\ Width - 1 \in Nat /\ Rounding \in Nat
  BY ValuesAssumption, WidthAssumption, RoundingAssumption
<1>2. old * (Width - 1) + value * Scale \in Int
  BY <1>1, ScaleAssumption
<1>3. (old * (Width - 1) + value * Scale) \div Width \in Int
  BY <1>2, WidthAssumption
<1> QED  BY <1>1, <1>3 DEF Rolling

LEMMA TypeInvRead ==
  ASSUME TypeInv, NEW s \in Sensors, NEW value \in Values, ReadSensor(s, value)
  PROVE  TypeInv'
<1> DEFINE n == Len(readings[s]) + 1
<1>1. n \in 1 .. MaxLoops /\ n <= loops
  BY LoopsAssumption, SMTT(30) DEF TypeInv, TypeOK, ReadOncePerLoop, ReadSensor
<1>2. /\ readings' = [readings EXCEPT ![s] = Append(@, value)]
      /\ queue' = [queue EXCEPT ![s] = Append(@, n)]
      /\ transmission' = [transmission EXCEPT ![s] = n]
      /\ \E avg \in Rolling(average[s], value) : average' = [average EXCEPT ![s] = avg]
      /\ spawned' \in {spawned, [spawned EXCEPT ![s] = @ \cup {n}]}
      /\ next_sensor = s /\ next_sensor' = s + 1 /\ pc = "read"
      /\ UNCHANGED <<state, pc, loops, log_file, clocks, sent, log_failed>>
  BY DEF ReadSensor
<1>3. /\ Append(readings[s], value) \in Seq(Values) /\ Len(Append(readings[s], value)) = n
      /\ Append(queue[s], n) \in Seq(1 .. MaxLoops)
  BY <1>1 DEF TypeInv, TypeOK
<1>4. /\ readings' \in [Sensors -> Seq(Values)]
      /\ queue' \in [Sensors -> Seq(1 .. MaxLoops)]
      /\ transmission' \in [Sensors -> 0 .. MaxLoops]
  <2>1. readings' \in [Sensors -> Seq(Values)]
    BY <1>2, <1>3 DEF TypeInv, TypeOK
  <2>2. queue' \in [Sensors -> Seq(1 .. MaxLoops)]
    BY <1>2, <1>3 DEF TypeInv, TypeOK
  <2>3. n \in 0 .. MaxLoops
    BY <1>1
  <2>4. transmission' \in [Sensors -> 0 .. MaxLoops]
    BY <1>2, <2>3 DEF TypeInv, TypeOK
  <2> QED  BY <2>1, <2>2, <2>4
<1>5. average' \in [Sensors -> Int]
  <2>1. PICK avg \in Rolling(average[s], value) : average' = [average EXCEPT ![s] = avg]
    BY <1>2
  <2>2. average \in [Sensors -> Int]
    BY DEF TypeInv, TypeOK
  <2>3. avg \in Int
    BY <2>2, RollingType
  <2> QED  BY <2>1, <2>2, <2>3
<1>6. spawned' \in [Sensors -> SUBSET (1 .. MaxLoops)]
  <2>1. spawned' \in {spawned, [spawned EXCEPT ![s] = @ \cup {n}]}
    BY <1>2
  <2>2. spawned \in [Sensors -> SUBSET (1 .. MaxLoops)]
    BY DEF TypeInv, TypeOK
  <2> QED  BY <1>1, <2>1, <2>2
<1>7. next_sensor' \in 1 .. NumSensors + 1
  BY <1>2, NumSensorsAssumption DEF Sensors
<1>8. TypeOK'
  BY <1>2, <1>4, <1>5, <1>6, <1>7 DEF TypeInv, TypeOK, clocks
<1>9. ReadOncePerLoop'
  <2>1. Len(readings'[s]) = n /\ \A r \in Sensors : r # s => readings'[r] = readings[r]
    BY <1>2, <1>3 DEF TypeInv, TypeOK
  <2>2. ASSUME NEW r \in Sensors
        PROVE  /\ Len(readings'[r]) <= loops
               /\ next_sensor' <= r => Len(readings'[r]) < loops
    BY <1>1, <1>2, <2>1 DEF TypeInv, ReadOncePerLoop, Sensors
  <2> QED  BY <1>2, <2>2 DEF ReadOncePerLoop
<1> QED  BY <1>2, <1>8, <1>9 DEF TypeInv, WorkInTime, NapFits, clocks

LEMMA TypeInvTransmit ==
  ASSUME TypeInv, NEW has_target \in BOOLEAN, Transmit(has_target) PROVE TypeInv'
<1>1. /\ transmission' = [s \in Sensors |-> 0] /\ untransmitted' = 0 /\ pc' = "log"
      /\ pc = "transmit"
      /\ UNCHANGED <<state, next_sensor, average, queue, loops, log_file, age, nap, pre_ignited,
                     readings, spawned, log_failed>>
  BY DEF Transmit, Forget
<1>2. sent' \in [Sensors -> Seq(1 .. MaxLoops)]
  <2>1. ASSUME NEW s \in Sensors, transmission[s] # 0
        PROVE  Append(sent[s], transmission[s]) \in Seq(1 .. MaxLoops)
    <3>1. transmission[s] \in 1 .. MaxLoops
      BY <2>1, LoopsAssumption DEF TypeInv, TypeOK
    <3> QED  BY <3>1 DEF TypeInv, TypeOK
  <2>2. \/ sent' = sent
        \/ sent' = [s \in Sensors |-> IF transmission[s] = 0 THEN sent[s]
                                      ELSE Append(sent[s], transmission[s])]
    BY DEF Transmit
  <2> QED  BY <2>1, <2>2 DEF TypeInv, TypeOK
<1>3. transmission' \in [Sensors -> 0 .. MaxLoops] /\ untransmitted' \in 0 .. TransmissionPeriod + 1
  BY <1>1, LoopsAssumption, TimesAssumption
<1> QED  BY <1>1, <1>2, <1>3
         DEF TypeInv, TypeOK, ReadOncePerLoop, WorkInTime, NapFits

\* What writing out the buffers does: the rows written, a part of the buffer if
\* the write failed.
Flushed(written) ==
  \A s \in Sensors :
    /\ written[s] \in 0 .. Len(queue[s])
    /\ log_file'[s] = log_file[s] \o SubSeq(queue[s], 1, written[s])
    /\ \/ queue'[s] = <<>> /\ (written[s] < Len(queue[s]) => log_failed')
       \/ queue'[s] = queue[s] /\ written[s] = 0 /\ Len(queue[s]) < LogBufferSize

LEMMA FlushWrites ==
  ASSUME TypeOK, FlushLogs
  PROVE  /\ \E written \in [Sensors -> 0 .. MaxLoops] : Flushed(written)
         /\ DOMAIN log_file' = Sensors /\ DOMAIN queue' = Sensors
         /\ log_file' = [s \in Sensors |-> log_file'[s]]
         /\ queue' = [s \in Sensors |-> queue'[s]]
         /\ log_failed' \in BOOLEAN
         /\ log_failed => log_failed'
         /\ pc = "log" /\ pc' = "nap"
         /\ UNCHANGED <<state, next_sensor, average, transmission, loops, clocks, readings, sent,
                        spawned>>
<1> DEFINE full == {s \in Sensors : Len(queue[s]) >= LogBufferSize}
<1>1. PICK written \in [Sensors -> 0 .. MaxLoops] :
        /\ \A s \in Sensors : written[s] \in IF s \notin full THEN {0}
                                             ELSE IF Faults THEN 0 .. Len(queue[s])
                                             ELSE {Len(queue[s])}
        /\ log_file' = [s \in Sensors |-> log_file[s] \o SubSeq(queue[s], 1, written[s])]
        /\ queue' = [s \in Sensors |-> IF s \in full THEN <<>> ELSE queue[s]]
        /\ log_failed' = (log_failed \/ \E s \in full : written[s] < Len(queue[s]))
  BY DEF FlushLogs
<1>2. ASSUME NEW s \in Sensors PROVE Len(queue[s]) \in Nat
  BY DEF TypeOK
<1>3. ASSUME NEW s \in Sensors, s \in full
      PROVE  /\ written[s] \in 0 .. Len(queue[s]) /\ queue'[s] = <<>>
             /\ written[s] < Len(queue[s]) => log_failed'
  <2>1. written[s] \in 0 .. Len(queue[s])
    <3>1. written[s] \in 0 .. Len(queue[s]) \/ written[s] = Len(queue[s])
      BY <1>1, <1>3
    <3> QED  BY <1>2, <3>1
  <2>2. queue'[s] = <<>>
    BY <1>1, <1>3
  <2>3. written[s] < Len(queue[s]) => log_failed'
    BY <1>1, <1>3
  <2> QED  BY <2>1, <2>2, <2>3
<1>4. ASSUME NEW s \in Sensors, s \notin full
      PROVE  queue'[s] = queue[s] /\ written[s] = 0 /\ Len(queue[s]) < LogBufferSize
  BY <1>1, <1>2, <1>4, BufferAssumption
<1>5. Flushed(written)
  <2>1. ASSUME NEW s \in Sensors
        PROVE  log_file'[s] = log_file[s] \o SubSeq(queue[s], 1, written[s])
    BY <1>1
  <2> HIDE DEF full
  <2> QED  BY <1>2, <1>3, <1>4, <2>1, SMTT(30) DEF Flushed
<1>6. log_failed' \in BOOLEAN /\ (log_failed => log_failed')
  BY <1>1 DEF TypeOK
<1>7. /\ pc = "log" /\ pc' = "nap"
      /\ UNCHANGED <<state, next_sensor, average, transmission, loops, clocks, readings, sent,
                     spawned>>
  BY DEF FlushLogs
<1>8. /\ DOMAIN log_file' = Sensors /\ DOMAIN queue' = Sensors
      /\ log_file' = [s \in Sensors |-> log_file'[s]]
      /\ queue' = [s \in Sensors |-> queue'[s]]
  BY <1>1
<1> QED  BY <1>5, <1>6, <1>7, <1>8

LEMMA RowsAppended ==
  ASSUME NEW S, NEW rows \in Seq(S), NEW buffer \in Seq(S), NEW n \in 0 .. Len(buffer)
  PROVE  /\ rows \o SubSeq(buffer, 1, n) \in Seq(S)
         /\ Len(rows \o SubSeq(buffer, 1, n)) = Len(rows) + n
         /\ \A i \in 1 .. Len(rows) + n : (rows \o SubSeq(buffer, 1, n))[i] = (rows \o buffer)[i]
  OBVIOUS

LEMMA TypeInvFlush == ASSUME TypeInv, FlushLogs PROVE TypeInv'
<1>1. PICK written : Flushed(written)
  BY FlushWrites DEF TypeInv
<1>2. ASSUME NEW s \in Sensors
      PROVE  log_file'[s] \in Seq(1 .. MaxLoops) /\ queue'[s] \in Seq(1 .. MaxLoops)
  <2>1. queue[s] \in Seq(1 .. MaxLoops) /\ log_file[s] \in Seq(1 .. MaxLoops)
    BY DEF TypeInv, TypeOK
  <2>2. /\ written[s] \in 0 .. Len(queue[s])
        /\ log_file'[s] = log_file[s] \o SubSeq(queue[s], 1, written[s])
        /\ queue'[s] = <<>> \/ queue'[s] = queue[s]
    BY <1>1 DEF Flushed
  <2>3. log_file'[s] \in Seq(1 .. MaxLoops)
    BY <2>1, <2>2, RowsAppended
  <2>4. CASE queue'[s] = <<>>
    BY <2>3, <2>4
  <2>5. CASE queue'[s] = queue[s]
    BY <2>1, <2>3, <2>5
  <2> QED  BY <2>2, <2>4, <2>5
<1>3. /\ log_file' \in [Sensors -> Seq(1 .. MaxLoops)]
      /\ queue' \in [Sensors -> Seq(1 .. MaxLoops)]
      /\ log_failed' \in BOOLEAN
  BY <1>2, FlushWrites DEF TypeInv
<1>4. /\ pc = "log" /\ pc' = "nap"
      /\ UNCHANGED <<state, next_sensor, average, transmission, loops, clocks, readings, sent,
                     spawned>>
  BY FlushWrites DEF TypeInv
<1>5. TypeOK'
  BY <1>3, <1>4 DEF TypeInv, TypeOK, clocks
<1> QED  BY <1>4, <1>5 DEF TypeInv, ReadOncePerLoop, WorkInTime, NapFits, clocks

LEMMA TypeInvTick == ASSUME TypeInv, Tick PROVE TypeInv'
<1>1. /\ age \in Nat /\ nap \in Int /\ untransmitted \in Nat /\ pre_ignited \in Nat
      /\ age <= StandbyPeriod + IgnitionPeriod + 2 * Delay
      /\ - Delay <= nap /\ nap <= StandbyPeriod + IgnitionPeriod
  BY Times DEF TypeInv, TypeOK
<1>2. /\ UNCHANGED <<state, pc, loops, next_sensor, readings>>
      /\ UNCHANGED <<average, queue, transmission, log_file, sent, spawned, log_failed>>
      /\ age' = age + 1
  BY DEF Tick, locals, history
<1>3. /\ age' \in 0 .. StandbyPeriod + IgnitionPeriod + 2 * Delay
      /\ nap' \in - Delay .. StandbyPeriod + IgnitionPeriod
      /\ WorkInTime' /\ NapFits'
  <2>1. CASE pc = "sleep"
    <3>1. - Delay < nap /\ nap' = nap - 1 /\ age + nap <= Delay + StandbyPeriod + IgnitionPeriod
      BY <2>1 DEF Tick, TypeInv, NapFits
    <3> QED  BY <1>1, <1>2, <2>1, <3>1, Times DEF WorkInTime, NapFits
  <2>2. CASE pc # "sleep"
    <3>1. age < Delay /\ nap' = nap
      BY <2>2 DEF Tick
    <3> QED  BY <1>1, <1>2, <2>2, <3>1, Times DEF WorkInTime, NapFits
  <2> QED  BY <2>1, <2>2
<1>4. untransmitted' \in 0 .. TransmissionPeriod + 1
  <2>1. untransmitted + 1 \in Int /\ TransmissionPeriod + 1 \in Int
    BY <1>1, TransmissionTime
  <2>2. untransmitted' \in {untransmitted + 1, TransmissionPeriod + 1}
        /\ untransmitted' <= TransmissionPeriod + 1
    BY <2>1, MinOfTwo DEF Tick
  <2> QED  BY <1>1, <2>2, TransmissionTime
<1>5. pre_ignited' \in 0 .. PreIgniteTime
  <2>1. pre_ignited + 1 \in Int /\ PreIgniteTime \in Int
    BY <1>1, Times
  <2>2. Min({pre_ignited + 1, PreIgniteTime}) \in {pre_ignited + 1, PreIgniteTime}
        /\ Min({pre_ignited + 1, PreIgniteTime}) <= PreIgniteTime
    BY <2>1, MinOfTwo
  <2>3. Min({pre_ignited + 1, PreIgniteTime}) \in 0 .. PreIgniteTime
    BY <1>1, <2>2, Times
  <2> QED  BY <2>3, Times DEF Tick
<1> QED  BY <1>2, <1>3, <1>4, <1>5 DEF TypeInv, TypeOK, ReadOncePerLoop

LEMMA TypeInvStep == TypeInv /\ [Next]_vars => TypeInv'
<1> SUFFICES ASSUME TypeInv, [Next]_vars PROVE TypeInv'
  OBVIOUS
<1>1. CASE UNCHANGED vars
  BY <1>1 DEF vars, locals, clocks, history, TypeInv, TypeOK, ReadOncePerLoop, WorkInTime, NapFits
<1>2. CASE BeginLoop
  <2>1. loops' \in 0 .. MaxLoops /\ loops' = loops + 1 /\ 1 \in 1 .. NumSensors + 1
    BY <1>2, LoopsAssumption, NumSensorsAssumption DEF BeginLoop, TypeInv, TypeOK
  <2>2. 0 \in 0 .. StandbyPeriod + IgnitionPeriod + 2 * Delay /\ 0 <= Delay
    BY Times
  <2>3. TypeOK'
    BY <1>2, <2>1, <2>2 DEF BeginLoop, TypeInv, TypeOK, history
  <2>4. \A s \in Sensors : Len(readings[s]) <= loops /\ Len(readings[s]) \in Nat /\ loops \in Nat
    BY LoopsAssumption DEF TypeInv, TypeOK, ReadOncePerLoop
  <2>5. ReadOncePerLoop'
    BY <1>2, <2>1, <2>4 DEF BeginLoop, ReadOncePerLoop, history
  <2> QED  BY <1>2, <2>2, <2>3, <2>5 DEF BeginLoop, TypeInv, WorkInTime, NapFits
<1>3. ASSUME NEW s \in Sensors, NEW value \in Values, ReadSensor(s, value) PROVE TypeInv'
  BY <1>3, TypeInvRead
<1>4. CASE ReadFails
  <2>1. next_sensor' \in 1 .. NumSensors + 1 /\ next_sensor' = next_sensor + 1 /\ next_sensor \in Int
    BY <1>4, NumSensorsAssumption DEF ReadFails, Sensors
  <2>2. \A s \in Sensors : next_sensor' <= s => next_sensor <= s
    BY <2>1 DEF Sensors
  <2> QED  BY <1>4, <2>1, <2>2
           DEF ReadFails, TypeInv, TypeOK, ReadOncePerLoop, WorkInTime, NapFits, clocks, history
<1>5. CASE QuitLoop \/ AllRead \/ TransmitLater \/ TransmitFails \/ WakeUp
  <2>1. TypeOK'
    BY <1>5 DEF QuitLoop, AllRead, TransmitLater, TransmitFails, WakeUp, TypeInv, TypeOK, clocks,
                history
  <2> QED  BY <1>5, <2>1
     DEF QuitLoop, AllRead, TransmitLater, TransmitFails, WakeUp, TypeInv, ReadOncePerLoop,
         WorkInTime, NapFits, clocks, history
<1>6. ASSUME NEW has_target \in BOOLEAN, Transmit(has_target) PROVE TypeInv'
  BY <1>6, TypeInvTransmit
<1>7. CASE FlushLogs
  BY <1>7, TypeInvFlush
<1>8. CASE ChooseNap
  <2>1. nap' \in {StandbyPeriod, IgnitionPeriod} /\ pc' = "sleep" /\ pc = "nap"
        /\ UNCHANGED <<state, next_sensor, average, queue, transmission, loops, log_file, age,
                       untransmitted, pre_ignited, history>>
    BY <1>8 DEF ChooseNap, Nap
  <2>2. nap' \in - Delay .. StandbyPeriod + IgnitionPeriod
    BY <2>1, Times
  <2>3. TypeOK'
    BY <2>1, <2>2 DEF TypeInv, TypeOK, history
  <2>4. NapFits'
    <3>1. age <= Delay /\ age \in Int /\ age' = age
      BY <2>1 DEF TypeInv, TypeOK, WorkInTime
    <3>2. nap' <= StandbyPeriod + IgnitionPeriod /\ nap' \in Int
      BY <2>1, Times
    <3>3. age' + nap' <= Delay + StandbyPeriod + IgnitionPeriod
      <4>1. Delay \in Int /\ StandbyPeriod \in Int /\ IgnitionPeriod \in Int
        BY Times
      <4>2. age \in Int /\ nap' \in Int /\ age <= Delay /\ nap' <= StandbyPeriod + IgnitionPeriod
        BY <3>1, <3>2
      <4>3. age + nap' <= Delay + StandbyPeriod + IgnitionPeriod
        BY <4>1, <4>2, SumBounded
      <4> QED  BY <3>1, <4>3
    <3> QED  BY <3>3 DEF NapFits
  <2> QED  BY <2>1, <2>3, <2>4 DEF TypeInv, ReadOncePerLoop, WorkInTime, history
<1>9. CASE Tick
  BY <1>9, TypeInvTick
<1>10. ASSUME NEW new_state \in State, Elsewhere(new_state) PROVE TypeInv'
  <2>1. /\ state' = new_state /\ pre_ignited' = 0
        /\ UNCHANGED <<locals, log_file, age, nap, untransmitted, history>>
    BY <1>10 DEF Elsewhere, MoveTo
  <2>2. 0 \in 0 .. PreIgniteTime
    BY Times
  <2> QED  BY <2>1, <2>2
           DEF TypeInv, TypeOK, ReadOncePerLoop, WorkInTime, NapFits, locals, history
<1> QED  BY <1>1, <1>2, <1>3, <1>4, <1>5, <1>6, <1>7, <1>8, <1>9, <1>10 DEF Next, Listen

\* The variables keep their types: no sensor is read twice in an iteration, and
\* a nap is over in time (sensor_listen).
THEOREM TypesHold == Spec => []TypeOK
<1>1. TypeInv => TypeOK
  BY DEF TypeInv
<1> QED  BY TypeInvInit, TypeInvStep, <1>1, PTL DEF Spec

-----------------------------------------------------------------------------
\* The log.

\* No reading is kept before it is taken.
KeptWereRead ==
  \A s \in Sensors : \A i \in DOMAIN (log_file[s] \o queue[s]) :
    (log_file[s] \o queue[s])[i] <= Len(readings[s])

LogInv == KeptWereRead /\ LogIsComplete

LEMMA LogInvInit == Init => LogInv
  BY DEF Init, LogInv, KeptWereRead, LogIsComplete, Increasing

\* A step that neither reads nor logs, and ends no iteration before its end.
LEMMA LogInvKept ==
  ASSUME LogInv, UNCHANGED <<log_file, queue, readings>>, log_failed \in BOOLEAN,
         log_failed => log_failed',
         pc' \in {"nap", "sleep", "top"} => pc \in {"nap", "sleep", "top"}
  PROVE  LogInv'
<1>1. KeptWereRead'
  BY DEF LogInv, KeptWereRead
<1>2. LogIsComplete'
  BY DEF LogInv, LogIsComplete
<1> QED  BY <1>1, <1>2 DEF LogInv

\* The newest reading is kept after all the others.
LEMMA KeptNewest ==
  ASSUME NEW rows \in Seq(Nat), NEW buffer \in Seq(Nat), NEW n \in Nat,
         Increasing(rows \o buffer),
         \A i \in DOMAIN (rows \o buffer) : (rows \o buffer)[i] < n
  PROVE  /\ Increasing(rows \o Append(buffer, n))
         /\ \A i \in DOMAIN (rows \o Append(buffer, n)) : (rows \o Append(buffer, n))[i] <= n
         /\ Len(rows \o Append(buffer, n)) = Len(rows \o buffer) + 1
<1> DEFINE kept == rows \o buffer
           more == rows \o Append(buffer, n)
<1>1. /\ kept \in Seq(Nat) /\ more \in Seq(Nat)
      /\ Len(more) = Len(kept) + 1 /\ more[Len(more)] = n
      /\ \A i \in 1 .. Len(kept) : more[i] = kept[i]
  OBVIOUS
<1>2. /\ Increasing(kept)
      /\ \A i \in DOMAIN kept : kept[i] < n
  OBVIOUS
<1> HIDE DEF kept, more
<1>3. DOMAIN kept = 1 .. Len(kept) /\ DOMAIN more = 1 .. Len(more) /\ Len(kept) \in Nat
  BY <1>1
<1>4. \A i \in DOMAIN more : i = Len(more) \/ (i \in DOMAIN kept /\ more[i] = kept[i])
  BY <1>1, <1>3
<1>5. \A i \in DOMAIN kept : kept[i] \in Nat
  BY <1>1
<1>6. ASSUME NEW i \in DOMAIN more PROVE more[i] <= n
  <2>1. CASE i = Len(more)
    BY <1>1, <2>1
  <2>2. CASE i \in DOMAIN kept /\ more[i] = kept[i]
    BY <1>2, <1>5, <2>2
  <2> QED  BY <1>4, <2>1, <2>2
<1>7. ASSUME NEW i \in DOMAIN more, NEW j \in DOMAIN more, i < j PROVE more[i] < more[j]
  <2>1. i \in DOMAIN kept /\ more[i] = kept[i]
    BY <1>1, <1>3, <1>4, <1>7, SMTT(30)
  <2>2. CASE j = Len(more)
    BY <1>1, <1>2, <2>1, <2>2
  <2>3. CASE j \in DOMAIN kept /\ more[j] = kept[j]
    BY <1>2, <1>7, <2>1, <2>3 DEF Increasing
  <2> QED  BY <1>4, <2>2, <2>3
<1> QED  BY <1>1, <1>6, <1>7 DEF Increasing, more, kept

LEMMA LogInvRead ==
  ASSUME TypeInv, LogInv, NEW s \in Sensors, NEW value \in Values, ReadSensor(s, value)
  PROVE  LogInv'
<1> DEFINE n == Len(readings[s]) + 1
<1>1. /\ readings' = [readings EXCEPT ![s] = Append(@, value)]
      /\ queue' = [queue EXCEPT ![s] = Append(@, n)]
      /\ pc = "read" /\ UNCHANGED <<pc, log_file, log_failed>>
  BY DEF ReadSensor
<1>2. /\ log_file[s] \in Seq(Nat) /\ queue[s] \in Seq(Nat) /\ n \in Nat
      /\ queue'[s] = Append(queue[s], n) /\ Len(readings'[s]) = n
      /\ \A r \in Sensors : r # s => queue'[r] = queue[r] /\ readings'[r] = readings[r]
  <2>1. /\ log_file[s] \in Seq(1 .. MaxLoops) /\ queue[s] \in Seq(1 .. MaxLoops)
        /\ readings[s] \in Seq(Values)
        /\ readings \in [Sensors -> Seq(Values)] /\ queue \in [Sensors -> Seq(1 .. MaxLoops)]
    BY DEF TypeInv, TypeOK
  <2>2. 1 .. MaxLoops \subseteq Nat
    BY LoopsAssumption
  <2>3. log_file[s] \in Seq(Nat) /\ queue[s] \in Seq(Nat)
    BY <2>1, <2>2, SeqMonotonic
  <2>4. /\ queue'[s] = Append(queue[s], n)
        /\ readings'[s] = Append(readings[s], value)
        /\ \A r \in Sensors : r # s => queue'[r] = queue[r] /\ readings'[r] = readings[r]
    BY <1>1, <2>1
  <2>5. n \in Nat /\ Len(Append(readings[s], value)) = n
    BY <2>1
  <2> QED  BY <2>3, <2>4, <2>5
<1>3. \A i \in DOMAIN (log_file[s] \o queue[s]) : (log_file[s] \o queue[s])[i] < n
  <2> DEFINE kept == log_file[s] \o queue[s]
  <2>1. \A i \in DOMAIN kept : kept[i] <= Len(readings[s])
    BY DEF LogInv, KeptWereRead
  <2>2. kept \in Seq(Nat)
    BY <1>2
  <2>3. Len(readings[s]) \in Nat
    BY DEF TypeInv, TypeOK
  <2> HIDE DEF kept
  <2>4. \A i \in DOMAIN kept : kept[i] \in Nat
    BY <2>2
  <2>5. \A i \in DOMAIN kept : kept[i] < n
    BY <2>1, <2>3, <2>4
  <2> QED  BY <2>5 DEF kept
<1>4. /\ Increasing(log_file[s] \o queue'[s])
      /\ \A i \in DOMAIN (log_file[s] \o queue'[s]) : (log_file[s] \o queue'[s])[i] <= n
      /\ Len(log_file[s] \o queue'[s]) = Len(log_file[s] \o queue[s]) + 1
  BY <1>2, <1>3, KeptNewest, ZenonT(60) DEF LogInv, LogIsComplete
<1>5. KeptWereRead'
  BY <1>1, <1>2, <1>4 DEF LogInv, KeptWereRead
<1>6. ASSUME NEW r \in Sensors
      PROVE  /\ Increasing(log_file'[r] \o queue'[r])
             /\ ~ log_failed' => Len(log_file'[r] \o queue'[r]) = Len(readings'[r])
  BY <1>1, <1>2, <1>4 DEF LogInv, LogIsComplete
<1>7. LogIsComplete'
  BY <1>1, <1>6 DEF LogIsComplete
<1> QED  BY <1>5, <1>7 DEF LogInv

\* A sequence's first elements.
FirstOf(short, long) == \A i \in DOMAIN short : i \in DOMAIN long /\ short[i] = long[i]

LEMMA FirstIncreasing ==
  ASSUME NEW short, NEW long, FirstOf(short, long), Increasing(long) PROVE Increasing(short)
  BY DEF FirstOf, Increasing

LEMMA FlushedFirst ==
  ASSUME NEW S, NEW rows \in Seq(S), NEW buffer \in Seq(S), NEW n \in 0 .. Len(buffer)
  PROVE  LET more == (rows \o SubSeq(buffer, 1, n)) \o <<>>
         IN  /\ FirstOf(more, rows \o buffer)
             /\ n = Len(buffer) => Len(more) = Len(rows \o buffer)
<1> DEFINE more == rows \o SubSeq(buffer, 1, n)
<1>1. /\ more \in Seq(S) /\ Len(more) = Len(rows) + n
      /\ \A i \in 1 .. Len(rows) + n : more[i] = (rows \o buffer)[i]
  BY RowsAppended
<1>2. /\ DOMAIN (rows \o buffer) = 1 .. Len(rows) + Len(buffer)
      /\ Len(rows \o buffer) = Len(rows) + Len(buffer)
      /\ Len(rows) \in Nat /\ Len(buffer) \in Nat
  OBVIOUS
<1> HIDE DEF more
<1>3. more \o <<>> = more /\ DOMAIN more = 1 .. Len(more)
  BY <1>1
<1>4. FirstOf(more, rows \o buffer)
  BY <1>1, <1>2, <1>3 DEF FirstOf
<1> QED  BY <1>1, <1>2, <1>3, <1>4 DEF more

\* What was written out is as much of what was kept as the write got to.
LEMMA LogInvFlush == ASSUME TypeInv, LogInv, FlushLogs PROVE LogInv'
<1>1. PICK written : Flushed(written)
  BY FlushWrites DEF TypeInv
<1>2. /\ pc = "log" /\ pc' = "nap" /\ readings' = readings
      /\ log_failed => log_failed'
  BY FlushWrites DEF TypeInv
<1>3. ASSUME NEW s \in Sensors
      PROVE  /\ FirstOf(log_file'[s] \o queue'[s], log_file[s] \o queue[s])
             /\ ~ log_failed' => Len(log_file'[s] \o queue'[s]) = Len(log_file[s] \o queue[s])
             /\ queue'[s] = <<>> \/ Len(queue'[s]) < LogBufferSize
  <2>1. queue[s] \in Seq(1 .. MaxLoops) /\ log_file[s] \in Seq(1 .. MaxLoops)
    BY DEF TypeInv, TypeOK
  <2>2. /\ written[s] \in 0 .. Len(queue[s])
        /\ log_file'[s] = log_file[s] \o SubSeq(queue[s], 1, written[s])
        /\ \/ queue'[s] = <<>> /\ (written[s] < Len(queue[s]) => log_failed')
           \/ queue'[s] = queue[s] /\ written[s] = 0 /\ Len(queue[s]) < LogBufferSize
    BY <1>1 DEF Flushed
  <2>3. CASE queue'[s] = <<>> /\ (written[s] < Len(queue[s]) => log_failed')
    <3>1. /\ FirstOf(log_file'[s] \o queue'[s], log_file[s] \o queue[s])
          /\ written[s] = Len(queue[s])
               => Len(log_file'[s] \o queue'[s]) = Len(log_file[s] \o queue[s])
      BY <2>1, <2>2, <2>3, FlushedFirst
    <3>2. ~ log_failed' => written[s] = Len(queue[s])
      BY <2>1, <2>2, <2>3
    <3> QED  BY <2>3, <3>1, <3>2
  <2>4. CASE queue'[s] = queue[s] /\ written[s] = 0 /\ Len(queue[s]) < LogBufferSize
    <3>1. log_file'[s] \o queue'[s] = log_file[s] \o queue[s]
      <4>1. log_file[s] \o SubSeq(queue[s], 1, 0) = log_file[s]
        BY <2>1
      <4> QED  BY <2>2, <2>4, <4>1
    <3> QED  BY <2>4, <3>1 DEF FirstOf
  <2> QED  BY <2>2, <2>3, <2>4
<1>4. KeptWereRead'
  BY <1>2, <1>3 DEF LogInv, KeptWereRead, FirstOf
<1>5. LogIsComplete'
  <2>1. ASSUME NEW s \in Sensors PROVE Increasing(log_file'[s] \o queue'[s])
    BY <1>3, FirstIncreasing DEF LogInv, LogIsComplete
  <2>2. ASSUME NEW s \in Sensors, ~ log_failed'
        PROVE  Len(log_file'[s] \o queue'[s]) = Len(readings'[s])
    BY <1>2, <1>3, <2>2 DEF LogInv, LogIsComplete
  <2> QED  BY <1>3, <2>1, <2>2 DEF LogIsComplete
<1> QED  BY <1>4, <1>5 DEF LogInv

LEMMA LogInvStep == TypeInv /\ LogInv /\ [Next]_vars => LogInv'
<1> SUFFICES ASSUME TypeInv, LogInv, [Next]_vars PROVE LogInv'
  OBVIOUS
<1>1. log_failed \in BOOLEAN
  BY DEF TypeInv, TypeOK
<1>2. CASE UNCHANGED vars
  BY <1>1, <1>2, LogInvKept DEF vars, locals, history
<1>3. ASSUME NEW s \in Sensors, NEW value \in Values, ReadSensor(s, value) PROVE LogInv'
  BY <1>3, LogInvRead
<1>4. CASE FlushLogs
  BY <1>4, LogInvFlush
<1>5. ASSUME NEW has_target \in BOOLEAN, Transmit(has_target) PROVE LogInv'
  BY <1>1, <1>5, LogInvKept DEF Transmit
<1>6. CASE \/ BeginLoop \/ QuitLoop \/ ReadFails \/ AllRead \/ TransmitLater \/ TransmitFails
           \/ ChooseNap \/ WakeUp
  BY <1>1, <1>6, LogInvKept
     DEF BeginLoop, QuitLoop, ReadFails, AllRead, TransmitLater, TransmitFails, ChooseNap, Nap,
         WakeUp, history
<1>7. CASE Tick \/ \E new_state \in State : Elsewhere(new_state)
  BY <1>1, <1>7, LogInvKept DEF Tick, Elsewhere, locals, history
<1> QED  BY <1>2, <1>3, <1>4, <1>5, <1>6, <1>7 DEF Next, Listen

\* The log of a sensor has its readings in order and none twice, and log and
\* buffer together have all of them unless a write failed; the buffer never
\* holds more than it should between two loops (most_recent_readings,
\* write_sensor_log).
THEOREM LogStaysComplete == Spec => []LogIsComplete
<1>1. LogInv => LogIsComplete
  BY DEF LogInv
<1> QED  BY TypeInvInit, TypeInvStep, LogInvInit, LogInvStep, <1>1, PTL DEF Spec

-----------------------------------------------------------------------------
\* Emergency stops.

\* As long as a sensor has shown nothing else its average is in the range.
AverageInRange ==
  \A s \in Sensors :
    (\A m \in DOMAIN readings[s] : WellWithin(readings[s][m])) => ~ OutOfRange(average[s])

SpawnedWereRead == \A s \in Sensors : \A n \in spawned[s] : n <= Len(readings[s])

CauseInv == AverageInRange /\ SpawnedWereRead /\ EStopHasCause

LEMMA ScaledUp ==
  ASSUME NEW a \in Int, NEW b \in Int, a <= b PROVE a * Scale <= b * Scale
  BY ScaleAssumption

LEMMA QuotientBetween ==
  ASSUME NEW sum \in Int, NEW lo \in Int, NEW hi \in Int, lo * Width <= sum, sum <= hi * Width
  PROVE  lo <= sum \div Width /\ sum \div Width <= hi
  BY WidthAssumption

\* A weighted mean lies between bounds of the values it combines, also when it is
\* rounded, if the new value keeps its distance from them.
LEMMA MeanBetween ==
  ASSUME NEW a \in Int, NEW b \in Int, NEW lo \in Int, NEW hi \in Int,
         NEW error \in - Rounding .. Rounding,
         lo <= a, a <= hi, lo + Width * Rounding <= b, b <= hi - Width * Rounding
  PROVE  /\ lo <= (a * (Width - 1) + b) \div Width + error
         /\ (a * (Width - 1) + b) \div Width + error <= hi
<1> DEFINE sum == a * (Width - 1) + b
<1>1. Rounding \in Int /\ Width \in Int /\ Width * Rounding \in Int
  BY WidthAssumption, RoundingAssumption
<1>2. sum \in Int /\ lo * (Width - 1) <= a * (Width - 1) /\ a * (Width - 1) <= hi * (Width - 1)
  BY WidthAssumption
<1>3. /\ lo * (Width - 1) + (lo + Width * Rounding) = (lo + Rounding) * Width
      /\ hi * (Width - 1) + (hi - Width * Rounding) = (hi - Rounding) * Width
  BY <1>1
<1>4. (lo + Rounding) * Width <= sum /\ sum <= (hi - Rounding) * Width
  <2> DEFINE down == lo * (Width - 1)  up == hi * (Width - 1)  old == a * (Width - 1)
             gap == Width * Rounding
  <2>1. /\ down \in Int /\ up \in Int /\ old \in Int /\ gap \in Int
        /\ down <= old /\ old <= up /\ sum = old + b
        /\ lo + gap <= b /\ b <= hi - gap
    BY <1>1, <1>2
  <2>2. (lo + Rounding) * Width = down + (lo + gap) /\ (hi - Rounding) * Width = up + (hi - gap)
    BY <1>3
  <2> HIDE DEF sum, down, up, old, gap
  <2> QED  BY <2>1, <2>2
<1> HIDE DEF sum
<1>5. lo + Rounding <= sum \div Width /\ sum \div Width <= hi - Rounding
  <2>1. lo + Rounding \in Int /\ hi - Rounding \in Int /\ sum \in Int
    BY <1>1, <1>2
  <2> QED  BY <1>4, <2>1, QuotientBetween
<1>6. sum \div Width \in Int
  BY <1>2, WidthAssumption
<1> QED  BY <1>1, <1>5, <1>6 DEF sum

LEMMA RollingInRange ==
  ASSUME NEW old \in Int, NEW value \in Values, ~ OutOfRange(old), WellWithin(value),
         NEW avg \in Rolling(old, value)
  PROVE  ~ OutOfRange(avg)
<1> DEFINE lo == Low * Scale  hi == High * Scale  new == value * Scale
<1>1. lo \in Int /\ hi \in Int /\ new \in Int
  BY RangeAssumption, ValuesAssumption, ScaleAssumption
<1>2. lo <= old /\ old <= hi
  BY <1>1 DEF OutOfRange
<1>3. lo + Width * Rounding <= new /\ new <= hi - Width * Rounding
  BY DEF WellWithin
<1>4. PICK error \in - Rounding .. Rounding :
        avg = (old * (Width - 1) + new) \div Width + error
  BY DEF Rolling
<1> HIDE DEF lo, hi, new
<1>5. lo <= avg /\ avg <= hi
  BY <1>1, <1>2, <1>3, <1>4, MeanBetween
<1>6. avg \in Int
  BY RollingType
<1> QED  BY <1>1, <1>5, <1>6 DEF OutOfRange, lo, hi

\* The seed is the middle of the range.
LEMMA CauseInvInit == Init => CauseInv
<1> SUFFICES ASSUME Init PROVE CauseInv
  OBVIOUS
<1> DEFINE lo == Low * Scale  hi == High * Scale  middle == ((Low + High) * Scale) \div 2
<1>1. lo \in Int /\ hi \in Int /\ lo <= hi
  BY RangeAssumption, ScaleAssumption, ScaledUp
<1>2. (Low + High) * Scale = lo + hi
  BY RangeAssumption, ScaleAssumption
<1>3. middle = (lo + hi) \div 2
  BY <1>2
<1>4. ~ OutOfRange(middle)
  <2> HIDE DEF lo, hi, middle
  <2>1. lo <= middle /\ middle <= hi /\ middle \in Int
    BY <1>1, <1>3
  <2> QED  BY <1>1, <2>1 DEF OutOfRange, lo, hi
<1>5. \A s \in Sensors : average[s] = middle
  BY DEF Init
<1> HIDE DEF middle
<1> QED  BY <1>4, <1>5 DEF Init, CauseInv, AverageInRange, SpawnedWereRead, EStopHasCause

LEMMA CauseInvRead ==
  ASSUME TypeInv, CauseInv, NEW s \in Sensors, NEW value \in Values, ReadSensor(s, value)
  PROVE  CauseInv'
<1> DEFINE n == Len(readings[s]) + 1
<1>0. PICK avg \in Rolling(average[s], value) :
        /\ average' = [average EXCEPT ![s] = avg]
        /\ spawned' = IF OutOfRange(avg) THEN [spawned EXCEPT ![s] = @ \cup {n}] ELSE spawned
  BY DEF ReadSensor
<1>1. /\ readings \in [Sensors -> Seq(Values)] /\ average \in [Sensors -> Int]
      /\ spawned \in [Sensors -> SUBSET (1 .. MaxLoops)]
  BY DEF TypeInv, TypeOK
<1>2. /\ readings'[s] = Append(readings[s], value) /\ average'[s] = avg
      /\ spawned'[s] = IF OutOfRange(avg) THEN spawned[s] \cup {n} ELSE spawned[s]
      /\ \A r \in Sensors : r # s => /\ readings'[r] = readings[r]
                                     /\ average'[r] = average[r]
                                     /\ spawned'[r] = spawned[r]
  <2>1. readings' = [readings EXCEPT ![s] = Append(@, value)]
    BY DEF ReadSensor
  <2> QED  BY <1>0, <1>1, <2>1
<1>3. /\ readings[s] \in Seq(Values) /\ n \in Nat /\ Len(readings'[s]) = n
      /\ DOMAIN readings[s] = 1 .. Len(readings[s]) /\ DOMAIN readings'[s] = 1 .. n
      /\ \A m \in DOMAIN readings[s] : readings'[s][m] = readings[s][m]
      /\ readings'[s][n] = value /\ n \in 1 .. n
  BY <1>1, <1>2
<1>4. ASSUME \A m \in 1 .. n : WellWithin(readings'[s][m])
      PROVE  ~ OutOfRange(avg)
  <2>1. \A m \in DOMAIN readings[s] : WellWithin(readings[s][m])
    BY <1>3, <1>4
  <2>2. ~ OutOfRange(average[s]) /\ WellWithin(value)
    BY <1>3, <1>4, <2>1 DEF CauseInv, AverageInRange
  <2> QED  BY <1>1, <2>2, RollingInRange
<1>5. ASSUME NEW r \in Sensors, \A m \in DOMAIN readings'[r] : WellWithin(readings'[r][m])
      PROVE  ~ OutOfRange(average'[r])
  <2>1. CASE r = s
    BY <1>2, <1>3, <1>4, <1>5, <2>1
  <2>2. CASE r # s
    BY <1>2, <1>5, <2>2 DEF CauseInv, AverageInRange
  <2> QED  BY <2>1, <2>2
<1>6. ASSUME NEW r \in Sensors, NEW k \in spawned'[r] PROVE k <= Len(readings'[r])
  <2>1. CASE r = s
    <3>1. k \in spawned[s] \/ k = n
      BY <1>2, <1>6, <2>1
    <3>2. ASSUME k \in spawned[s] PROVE k \in Nat /\ k <= Len(readings[s])
      BY <1>1, <3>2 DEF CauseInv, SpawnedWereRead
    <3> QED  BY <1>3, <2>1, <3>1, <3>2
  <2>2. CASE r # s
    BY <1>2, <1>6, <2>2 DEF CauseInv, SpawnedWereRead
  <2> QED  BY <2>1, <2>2
<1>7. ASSUME OutOfRange(avg)
      PROVE  \E m \in 1 .. n : ~ WellWithin(readings'[s][m])
  BY <1>4, <1>7
<1>8. ASSUME NEW k \in spawned[s]
      PROVE  \E m \in 1 .. k : ~ WellWithin(readings'[s][m])
  <2>1. PICK m \in 1 .. k : ~ WellWithin(readings[s][m])
    BY DEF CauseInv, EStopHasCause
  <2>2. k \in Nat /\ k <= Len(readings[s])
    BY <1>1 DEF CauseInv, SpawnedWereRead
  <2>3. m \in DOMAIN readings[s]
    BY <1>3, <2>2
  <2> QED  BY <1>3, <2>1, <2>3
<1>9. ASSUME NEW r \in Sensors, NEW k \in spawned'[r]
      PROVE  \E m \in 1 .. k : ~ WellWithin(readings'[r][m])
  <2>1. CASE r = s
    <3>1. k \in spawned[s] \/ (OutOfRange(avg) /\ k = n)
      BY <1>2, <1>9, <2>1
    <3> QED  BY <1>7, <1>8, <2>1, <3>1
  <2>2. CASE r # s
    BY <1>2, <1>9, <2>2 DEF CauseInv, EStopHasCause
  <2> QED  BY <2>1, <2>2
<1>10. AverageInRange'
  BY <1>5 DEF AverageInRange, OutOfRange, WellWithin
<1>11. EStopHasCause'
  BY <1>9 DEF EStopHasCause
<1>12. SpawnedWereRead'
  BY <1>6 DEF SpawnedWereRead
<1> QED  BY <1>10, <1>11, <1>12 DEF CauseInv

LEMMA CauseInvStep == TypeInv /\ CauseInv /\ [Next]_vars => CauseInv'
<1> SUFFICES ASSUME TypeInv, CauseInv, [Next]_vars PROVE CauseInv'
  OBVIOUS
<1>1. ASSUME UNCHANGED <<readings, average, spawned>> PROVE CauseInv'
  BY <1>1 DEF CauseInv, AverageInRange, SpawnedWereRead, EStopHasCause, OutOfRange, WellWithin
<1>2. CASE UNCHANGED vars
  BY <1>1, <1>2 DEF vars, locals, history
<1>3. ASSUME NEW s \in Sensors, NEW value \in Values, ReadSensor(s, value) PROVE CauseInv'
  BY <1>3, CauseInvRead
<1>4. CASE FlushLogs
  <2>1. UNCHANGED <<readings, average, spawned>>
    BY <1>4 DEF FlushLogs
  <2> QED  BY <1>1, <2>1
<1>5. ASSUME NEW has_target \in BOOLEAN, Transmit(has_target) PROVE CauseInv'
  BY <1>1, <1>5 DEF Transmit
<1>6. CASE \/ BeginLoop \/ QuitLoop \/ ReadFails \/ AllRead \/ TransmitLater \/ TransmitFails
           \/ ChooseNap \/ WakeUp
  BY <1>1, <1>6
     DEF BeginLoop, QuitLoop, ReadFails, AllRead, TransmitLater, TransmitFails, ChooseNap, Nap,
         WakeUp, history
<1>7. CASE Tick \/ \E new_state \in State : Elsewhere(new_state)
  BY <1>1, <1>7 DEF Tick, Elsewhere, locals, history
<1> QED  BY <1>2, <1>3, <1>4, <1>5, <1>6, <1>7 DEF Next, Listen

\* No emergency stop without a cause: the sensor has itself shown a value
\* outside of the range before, or within Width roundings of its end, whatever
\* the width of the average and the range (rolling_averages is seeded with the
\* middle of the range, and errors of rounding do not add up beyond that).
THEOREM EStopIsCaused == Spec => []EStopHasCause
<1>1. CauseInv => EStopHasCause
  BY DEF CauseInv
<1> QED  BY TypeInvInit, TypeInvStep, CauseInvInit, CauseInvStep, <1>1, PTL DEF Spec

=============================================================================

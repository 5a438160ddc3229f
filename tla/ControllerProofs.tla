-------------------------- MODULE ControllerProofs --------------------------
(***************************************************************************)
(* Proofs about Controller, for any number of threads, drivers and         *)
(* clients: the status thread reports the levels that the lines have       *)
(* (StatusIsCurrent), the controller implements Execution, every variable  *)
(* keeps its type, threads do not wait in a circle (NoCircularWait), and   *)
(* what is proved of Execution and of Outgoing alone is carried over to    *)
(* the two together.                                                       *)
(***************************************************************************)
EXTENDS Controller, TLAPS

\* The status thread has the lines from the moment it reads them until its
\* message has been sent.
LinesHeld == Sending(DriverStatus) => lines_lock = "held"

SenderTypes == DOMAIN sender_pc = Sensor \cup {DriverStatus, Main}

StatusInv == SenderTypes /\ LinesHeld /\ StatusIsCurrent

LEMMA StatusInvInit == Init => StatusInv
  BY SendersAssumption DEF Init, O!Init, O!Sender, O!Reporter, StatusInv, SenderTypes, LinesHeld,
                           StatusIsCurrent, Sending

-----------------------------------------------------------------------------
\* What the parts of a step do.

\* Only s moves.
Alone(s) == /\ DOMAIN sender_pc' = DOMAIN sender_pc
            /\ \A r \in DOMAIN sender_pc : r # s => sender_pc'[r] = sender_pc[r]

LEMMA GoToAlone == ASSUME NEW s, NEW label, O!GoTo(s, label) PROVE Alone(s)
  BY DEF O!GoTo, Alone

LEMMA SendReturnsAlone == ASSUME NEW s, NEW ok, O!SendReturns(s, ok) PROVE Alone(s)
  BY GoToAlone DEF O!SendReturns

\* A step of s in send moves no other thread.
LEMMA SendMoves == ASSUME NEW s, O!Send(s) PROVE Sending(s) /\ Alone(s)
<1>1. CASE O!SendNowhere(s)
  BY <1>1, SendReturnsAlone DEF O!SendNowhere, Sending
<1>2. CASE O!BeginSend(s)
  BY <1>2, GoToAlone DEF O!BeginSend, Sending
<1>3. CASE O!WritePart(s)
  BY <1>3, GoToAlone DEF O!WritePart, Sending, Alone
<1>4. CASE O!WriteFails(s)
  BY <1>4, SendReturnsAlone DEF O!WriteFails, Sending
<1>5. CASE O!LogPart(s)
  <2>1. UNCHANGED sender_pc \/ O!SendReturns(s, TRUE)
    BY <1>5 DEF O!LogPart
  <2>2. sender_pc[s] = "logging"
    BY <1>5 DEF O!LogPart
  <2>3. Sending(s)
    BY <2>2 DEF Sending
  <2>4. CASE UNCHANGED sender_pc
    BY <2>3, <2>4 DEF Alone
  <2>5. CASE O!SendReturns(s, TRUE)
    BY <2>3, <2>5, SendReturnsAlone
  <2> QED  BY <2>1, <2>4, <2>5
<1>6. CASE O!LogFails(s)
  BY <1>6, SendReturnsAlone DEF O!LogFails, Sending
<1> QED  BY <1>1, <1>2, <1>3, <1>4, <1>5, <1>6 DEF O!Send, O!SendOn

\* The accept loop moves the main thread only.
LEMMA AcceptLoopAlone == ASSUME O!AcceptLoop PROVE Alone(Main)
<1>1. ASSUME NEW c \in Conn, O!Accept(c) PROVE Alone(Main)
  BY <1>1, GoToAlone DEF O!Accept
<1>2. CASE O!AcceptLoopEnds
  BY <1>2, GoToAlone DEF O!AcceptLoopEnds
<1>3. CASE O!SetChannel
  BY <1>3, GoToAlone DEF O!SetChannel
<1>4. CASE O!ClientDone
  BY <1>4, GoToAlone DEF O!ClientDone
<1>5. CASE O!Duplicate \/ O!Greet
  BY <1>5, GoToAlone DEF O!Duplicate, O!Greet, O!MainGoesOn
<1> QED  BY <1>1, <1>2, <1>3, <1>4, <1>5 DEF O!AcceptLoop, O!AcceptOn

\* No step of a procedure, and no command, touches the lines or the lock while
\* the status thread has it.
LEMMA ProcedureWaits ==
  ASSUME lines_lock = "held", NEW t, X!Step(t) \/ X!Call(t)
  PROVE  UNCHANGED <<lines_lock, level>>
<1>1. ASSUME NEW s, NEW label, X!Transition(t, s, label) PROVE UNCHANGED <<lines_lock, level>>
  BY <1>1 DEF X!Transition
<1>2. ASSUME NEW seq, NEW who, X!PerformAction(t, seq, who) PROVE UNCHANGED <<lines_lock, level>>
  BY <1>2 DEF X!PerformAction, X!PerformSleep, X!PerformActuate, X!AbandonActuate
<1>3. ASSUME X!Return(t) PROVE UNCHANGED <<lines_lock, level>>
  BY <1>3 DEF X!Return
<1>4. ASSUME NEW label, X!Spawn(t, label) PROVE UNCHANGED <<lines_lock, level>>
  BY <1>4 DEF X!Spawn
<1>5. CASE X!Step(t)
  BY <1>1, <1>2, <1>3, <1>5
     DEF X!Step, X!BeginIgnition, X!EndPreIgnite, X!IgnitionAction, X!EndBurn,
         X!EndPostIgnite, X!BeginEStop, X!EStopAction, X!EndEStop
<1>6. CASE X!Call(t)
  BY <1>4, <1>6 DEF X!Call, X!CallIgnition, X!CallEStop, X!SensorEStop
<1> QED  BY <1>5, <1>6

-----------------------------------------------------------------------------
\* A step by which the status thread is where it was, and the lines too if it
\* has them.
LEMMA StatusInvKeeps ==
  ASSUME StatusInv, DOMAIN sender_pc' = DOMAIN sender_pc,
         sender_pc'[DriverStatus] = sender_pc[DriverStatus],
         UNCHANGED status_vars,
         lines_lock = "held" => UNCHANGED <<lines_lock, level>>
  PROVE  StatusInv'
<1>1. CASE Sending(DriverStatus)
  BY <1>1 DEF StatusInv, SenderTypes, LinesHeld, StatusIsCurrent, Sending, status_vars, X!Driver
<1>2. CASE ~ Sending(DriverStatus)
  BY <1>2 DEF StatusInv, SenderTypes, LinesHeld, StatusIsCurrent, Sending
<1> QED  BY <1>1, <1>2

LEMMA StatusInvTake == ASSUME StatusInv, TakeStatus PROVE StatusInv'
<1>1. SenderTypes'
  BY GoToAlone DEF TakeStatus, O!StartReport, StatusInv, SenderTypes, Alone
<1>2. LinesHeld'
  BY DEF TakeStatus, LinesHeld
<1>3. StatusIsCurrent'
  <2>1. level' = level
    BY DEF TakeStatus
  <2>2. ASSUME NEW d \in X!Driver, d \notin unread' PROVE driver_states'[d] = level[d]
    BY <2>2 DEF TakeStatus, ReadDrivers
  <2> QED  BY <2>1, <2>2 DEF StatusIsCurrent, X!Driver
<1> QED  BY <1>1, <1>2, <1>3 DEF StatusInv

LEMMA StatusInvSend == ASSUME StatusInv, SendStatus PROVE StatusInv'
<1>1. Sending(DriverStatus) /\ Alone(DriverStatus)
  BY SendMoves DEF SendStatus
<1>2. SenderTypes'
  BY <1>1 DEF StatusInv, SenderTypes, Alone
<1>3. LinesHeld'
  BY DEF SendStatus, LinesHeld
<1>4. StatusIsCurrent'
  BY <1>1 DEF SendStatus, StatusInv, StatusIsCurrent, status_vars, X!Driver
<1> QED  BY <1>2, <1>3, <1>4 DEF StatusInv

LEMMA StatusInvStep == StatusInv /\ [Next]_vars => StatusInv'
<1> SUFFICES ASSUME StatusInv, [Next]_vars PROVE StatusInv'
  OBVIOUS
<1>0. DriverStatus \in DOMAIN sender_pc /\ Main # DriverStatus /\ DriverStatus \notin Sensor
  BY SendersAssumption DEF StatusInv, SenderTypes
<1>1. CASE UNCHANGED vars
  BY <1>1, StatusInvKeeps DEF vars, exec_vars, dash_vars
<1>2. ASSUME NEW t \in Thread, SpawnProcedure(t) \/ SensorEStop(t) \/ Procedure(t)
      PROVE  StatusInv'
  <2>1. X!Step(t) \/ X!Call(t)
    BY <1>2 DEF SpawnProcedure, SensorEStop, Procedure, X!Call
  <2>2. UNCHANGED <<sender_pc, status_vars>>
    BY <1>2 DEF SpawnProcedure, SensorEStop, Procedure, dash_vars
  <2> QED  BY <2>1, <2>2, ProcedureWaits, StatusInvKeeps
<1>3. ASSUME NEW driver_id \in 0 .. NumDrivers + 1, NEW value \in BOOLEAN,
             Actuate(driver_id, value)
      PROVE  StatusInv'
  <2>1. lines_lock = "free"
    BY <1>3 DEF Actuate, X!UserActuate
  <2>2. /\ DOMAIN sender_pc' = DOMAIN sender_pc
        /\ sender_pc'[DriverStatus] = sender_pc[DriverStatus]
    BY <1>0, <1>3 DEF Actuate
  <2> QED  BY <1>3, <2>1, <2>2, StatusInvKeeps DEF Actuate
<1>4. CASE TakeStatus
  BY <1>4, StatusInvTake
<1>5. CASE SendStatus
  BY <1>5, StatusInvSend
<1>6. CASE StatusEnds
  BY <1>0, <1>6 DEF StatusEnds, StatusInv, SenderTypes, LinesHeld, StatusIsCurrent, Sending
<1>7. ASSUME NEW s \in Sensor \cup {Main}, SendOther(s) \/ (s \in Sensor /\ Report(s))
      PROVE  StatusInv'
  <2>1. Alone(s)
    BY <1>7, SendMoves, GoToAlone DEF SendOther, Report, O!StartReport
  <2> QED  BY <1>0, <1>7, <2>1, StatusInvKeeps DEF SendOther, Report, exec_vars, Alone
<1>8. CASE AcceptLoop
  BY <1>0, <1>8, AcceptLoopAlone, StatusInvKeeps DEF AcceptLoop, exec_vars, Alone
<1>9. ASSUME NEW c \in Conn, Dashboard(c) PROVE StatusInv'
  <2>1. UNCHANGED sender_pc
    BY <1>9 DEF Dashboard, O!Dashboard, O!Connect, O!Stall, O!Resume, O!Close, O!PeerMoves,
                O!threads
  <2> QED  BY <1>9, <2>1, StatusInvKeeps DEF Dashboard, exec_vars
<1> QED  BY <1>1, <1>2, <1>3, <1>4, <1>5, <1>6, <1>7, <1>8, <1>9 DEF Next

\* The levels in a status message are those the lines have while it is sent
\* (driver_status_listen keeps the guard across send).
THEOREM StatusStaysCurrent == Spec => []StatusIsCurrent
<1>1. StatusInv => StatusIsCurrent
  BY DEF StatusInv
<1> QED  BY StatusInvInit, StatusInvStep, <1>1, PTL DEF Spec

-----------------------------------------------------------------------------
\* The refinement of Execution: the lock counts as free while the status thread
\* has it, and each step of the exec_vars is the step of the same name.

LEMMA TransitionMaps ==
  ASSUME NEW t, NEW new_state, NEW label, X!Transition(t, new_state, label)
  PROVE  E!Transition(t, new_state, label)
  BY DEF X!Transition, E!Transition, X!MoveTo, E!MoveTo, X!Refuses, E!Refuses,
         X!Enter, E!Enter, X!End, E!End, X!IgnitionUnderWay, E!IgnitionUnderWay,
         X!ValidTransition, E!ValidTransition

LEMMA PerformActionMaps ==
  ASSUME NEW t, NEW seq, NEW who, X!PerformAction(t, seq, who)
  PROVE  E!PerformAction(t, seq, who)
<1> DEFINE action == seq[next_action[t]]
<1>1. CASE X!PerformSleep(t, action)
  <2>1. E!PerformSleep(t, action)
    BY <1>1 DEF X!PerformSleep, E!PerformSleep, X!Advance, E!Advance
  <2> QED  BY <2>1 DEF X!PerformAction, E!PerformAction
<1>2. CASE X!PerformActuate(t, action, who)
  <2>1. E!PerformActuate(t, action, who)
    BY <1>2 DEF X!PerformActuate, E!PerformActuate, X!Advance, E!Advance,
                X!WriteLine, E!WriteLine, X!Driver, E!Driver
  <2> QED  BY <2>1 DEF X!PerformAction, E!PerformAction
<1>3. CASE X!AbandonActuate(t, action)
  <2>1. E!AbandonActuate(t, action)
    BY <1>3 DEF X!AbandonActuate, E!AbandonActuate, X!End, E!End, X!Enter, E!Enter,
                X!Driver, E!Driver
  <2> QED  BY <2>1 DEF X!PerformAction, E!PerformAction
<1> QED  BY <1>1, <1>2, <1>3 DEF X!PerformAction

LEMMA ReturnMaps == ASSUME NEW t, X!Return(t) PROVE E!Return(t)
  BY DEF X!Return, E!Return, X!MoveTo, E!MoveTo, X!Refuses, E!Refuses, X!End, E!End,
         X!Enter, E!Enter, X!ValidTransition, E!ValidTransition

LEMMA StepMaps == ASSUME NEW t, X!Step(t) PROVE E!Step(t)
  BY TransitionMaps, PerformActionMaps, ReturnMaps
     DEF X!Step, E!Step, X!BeginIgnition, E!BeginIgnition, X!EndPreIgnite, E!EndPreIgnite,
         X!IgnitionAction, E!IgnitionAction, X!EndBurn, E!EndBurn, X!EndPostIgnite,
         E!EndPostIgnite, X!BeginEStop, E!BeginEStop, X!EStopAction, E!EStopAction,
         X!EndEStop, E!EndEStop

LEMMA CallMaps == ASSUME NEW t, X!Call(t) PROVE E!Call(t)
  BY DEF X!Call, E!Call, X!CallIgnition, E!CallIgnition, X!CallEStop, E!CallEStop,
         X!SensorEStop, E!SensorEStop, X!Spawn, E!Spawn, X!Enter, E!Enter,
         X!history, E!history

LEMMA ActuateMaps ==
  ASSUME NEW driver_id, NEW value, X!UserActuate(driver_id, value)
  PROVE  E!UserActuate(driver_id, value)
  BY DEF X!UserActuate, E!UserActuate, X!WriteLine, E!WriteLine, X!Driver, E!Driver

\* A step that leaves Execution's variables alone, and the lock too but for the
\* hold of the status thread, is a stutter of Execution.
LEMMA Stutters ==
  ASSUME UNCHANGED <<state, pc, next_action, level, main, exec_history>>,
         \/ UNCHANGED lines_lock
         \/ {lines_lock, lines_lock'} = {"free", "held"}
         \/ lines_lock = "held" /\ lines_lock' = "held"
  PROVE  UNCHANGED E!vars
  BY DEF E!vars, E!exec_vars, E!history, exec_history

LEMMA NextMaps == StatusInv /\ [Next]_vars => [E!Next]_(E!vars)
<1> SUFFICES ASSUME StatusInv, [Next]_vars PROVE [E!Next]_(E!vars)
  OBVIOUS
<1>1. ASSUME NEW t \in Thread, SpawnProcedure(t) \/ SensorEStop(t) \/ Procedure(t)
      PROVE  E!Next
  <2>1. X!Step(t) \/ X!Call(t)
    BY <1>1 DEF SpawnProcedure, SensorEStop, Procedure, X!Call
  <2>2. E!Step(t) \/ E!Call(t)
    BY <2>1, StepMaps, CallMaps
  <2> QED  BY <2>2 DEF E!Next
<1>2. ASSUME NEW driver_id \in 0 .. NumDrivers + 1, NEW value \in BOOLEAN,
             Actuate(driver_id, value)
      PROVE  E!Next
  <2>1. E!UserActuate(driver_id, value)
    BY <1>2, ActuateMaps DEF Actuate
  <2> QED  BY <2>1 DEF E!Next
<1>3. CASE TakeStatus
  BY <1>3, Stutters DEF TakeStatus
<1>4. CASE SendStatus
  <2>1. lines_lock = "held"
    BY <1>4, SendMoves DEF SendStatus, StatusInv, LinesHeld
  <2> QED  BY <1>4, <2>1, Stutters DEF SendStatus
<1>5. CASE UNCHANGED exec_vars
  BY <1>5, Stutters DEF exec_vars
<1>6. CASE ~ UNCHANGED exec_vars
  BY <1>1, <1>2, <1>3, <1>4, <1>6
     DEF Next, vars, StatusEnds, SendOther, Report, AcceptLoop, Dashboard
<1> QED  BY <1>5, <1>6

\* Whatever the status thread holds and whatever befalls the client, the
\* procedures do nothing that they could not do alone (run composes the threads
\* by the state guard and the mutex around the driver lines).
THEOREM ControllerImplementsExecution == Spec => ImplementsExecution
<1>1. Init => E!Init
  BY DEF Init, X!Init, E!Init, X!Driver, E!Driver
<1> QED  BY StatusInvInit, StatusInvStep, NextMaps, <1>1, PTL DEF Spec, ImplementsExecution

-----------------------------------------------------------------------------
\* What is proved of the parts.  Execution sees the lock as E does.  In Next the
\* parts are named X, E and O; the lemmas below say that they are the same.
EP == INSTANCE ExecutionProofs WITH
        lines_lock <- IF lines_lock = "held" THEN "free" ELSE lines_lock
OP == INSTANCE OutgoingProofs WITH pc <- sender_pc

\* The assumptions of Outgoing and of Execution.
LEMMA ChannelFacts ==
  /\ DriverStatus \notin Sensor /\ Main \notin OP!Reporter /\ Nobody \notin OP!Sender
  /\ NoConn \notin Conn
  /\ Parts \in Nat \ {0} /\ MaxMessages \in Nat
  /\ LogFaults \subseteq OP!Sender
  BY ChannelAssumption, SendersAssumption DEF OP!Sender, OP!Reporter, O!Sender, O!Reporter

LEMMA ProcedureFacts ==
  /\ NumDrivers \in Nat
  /\ IgnitionSequence \in Seq(EP!Action) /\ EStopSequence \in Seq(EP!Action)
  /\ GpioFaults \in BOOLEAN
  BY ProceduresAssumption DEF X!Action, EP!Action

LEMMA SameSteps == ASSUME NEW t PROVE E!Step(t) = EP!Step(t)
  BY DEF E!Step, EP!Step, E!BeginIgnition, EP!BeginIgnition, E!EndPreIgnite,
         EP!EndPreIgnite, E!IgnitionAction, EP!IgnitionAction, E!EndBurn, EP!EndBurn,
         E!EndPostIgnite, EP!EndPostIgnite, E!BeginEStop, EP!BeginEStop, E!EStopAction,
         EP!EStopAction, E!EndEStop, EP!EndEStop, E!Transition, EP!Transition,
         E!PerformAction, EP!PerformAction, E!Return, EP!Return, E!MoveTo, EP!MoveTo,
         E!Refuses, EP!Refuses, E!Enter, EP!Enter, E!End, EP!End, E!IgnitionUnderWay,
         EP!IgnitionUnderWay, E!PerformSleep, EP!PerformSleep, E!PerformActuate,
         EP!PerformActuate, E!AbandonActuate, EP!AbandonActuate, E!Advance, EP!Advance,
         E!WriteLine, EP!WriteLine, E!Driver, EP!Driver, E!ValidTransition,
         EP!ValidTransition

LEMMA SameCalls == ASSUME NEW t PROVE E!Call(t) = EP!Call(t)
  BY DEF E!Call, EP!Call, E!CallIgnition, EP!CallIgnition, E!CallEStop, EP!CallEStop,
         E!SensorEStop, EP!SensorEStop, E!Spawn, EP!Spawn, E!Enter, EP!Enter,
         E!history, EP!history

LEMMA SameActuate ==
  ASSUME NEW driver_id, NEW value
  PROVE  E!UserActuate(driver_id, value) = EP!UserActuate(driver_id, value)
  BY DEF E!UserActuate, EP!UserActuate, E!WriteLine, EP!WriteLine, E!Driver, EP!Driver

LEMMA SameStutter == UNCHANGED E!vars => UNCHANGED EP!vars
  BY DEF E!vars, EP!vars, E!exec_vars, EP!exec_vars, E!history, EP!history

\* Each step is one of Execution, or leaves it alone.
LEMMA ExecSteps == StatusInv /\ [Next]_vars => [EP!Next]_(EP!vars)
<1>1. E!Next => EP!Next
  BY SameSteps, SameCalls, SameActuate DEF E!Next, EP!Next
<1> QED  BY <1>1, NextMaps, SameStutter

LEMMA SameSend == ASSUME NEW s PROVE O!Send(s) = OP!Send(s)
  BY DEF O!Send, OP!Send, O!SendOn, OP!SendOn, O!SendNowhere, OP!SendNowhere,
         O!BeginSend, OP!BeginSend, O!WritePart, OP!WritePart, O!WriteFails, OP!WriteFails, O!LogPart, OP!LogPart,
         O!LogFails, OP!LogFails, O!SendReturns, OP!SendReturns, O!GoTo, OP!GoTo,
         O!LogRow, OP!LogRow, O!history, OP!history

LEMMA SameReport == ASSUME NEW s PROVE O!StartReport(s) = OP!StartReport(s)
  BY DEF O!StartReport, OP!StartReport, O!GoTo, OP!GoTo, O!history, OP!history

LEMMA SameAccept == O!AcceptLoop = OP!AcceptLoop
  BY DEF O!AcceptLoop, OP!AcceptLoop, O!AcceptOn, OP!AcceptOn, O!Duplicate, OP!Duplicate,
         O!Greet, OP!Greet, O!MainGoesOn, OP!MainGoesOn, O!Accept, OP!Accept, O!AcceptLoopEnds,
         OP!AcceptLoopEnds, O!SetChannel, OP!SetChannel, O!ClientDone, OP!ClientDone,
         O!GoTo, OP!GoTo, O!history, OP!history

LEMMA SameDashboard == ASSUME NEW c PROVE O!Dashboard(c) = OP!Dashboard(c)
  BY DEF O!Dashboard, OP!Dashboard, O!Connect, OP!Connect, O!Stall, OP!Stall,
         O!Resume, OP!Resume, O!Close, OP!Close, O!PeerMoves, OP!PeerMoves,
         O!threads, OP!threads, O!history, OP!history
-----------------------------------------------------------------------------
\* What the composition adds to Outgoing: the main thread ends by a panic, and
\* the status thread because it cannot have the lines or write its files.
Quits(s) ==
  /\ sender_pc[s] \in {"idle", "reading"}
  /\ sender_pc' = [sender_pc EXCEPT ![s] = "ended"]
  /\ serving' = IF s = Main THEN NoConn ELSE serving
  /\ UNCHANGED target_vars

DashSteps ==
  \/ [OP!Next]_(OP!vars)
  \/ Quits(Main) /\ main' = "panicked"
  \/ Quits(DriverStatus)

\* Each step is one of Outgoing, leaves it alone, or ends one of the two threads.
LEMMA NextDash == [Next]_vars => DashSteps
<1> SUFFICES ASSUME [Next]_vars PROVE DashSteps
  OBVIOUS
<1>1. CASE UNCHANGED dash_vars
  BY <1>1 DEF DashSteps, dash_vars, target_vars, OP!vars, OP!threads, OP!history
<1>2. ASSUME NEW s \in Sensor \cup {DriverStatus, Main}, O!Send(s) PROVE DashSteps
  <2>1. OP!Send(s) /\ s \in OP!Sender
    BY <1>2, SameSend DEF OP!Sender, OP!Reporter
  <2> QED  BY <2>1 DEF DashSteps, OP!Next
<1>3. ASSUME NEW s \in Sensor \cup {DriverStatus}, O!StartReport(s) PROVE DashSteps
  <2>1. OP!StartReport(s) /\ s \in OP!Reporter
    BY <1>3, SameReport DEF OP!Reporter
  <2> QED  BY <2>1 DEF DashSteps, OP!Next
<1>4. CASE O!AcceptLoop
  BY <1>4, SameAccept DEF DashSteps, OP!Next
<1>5. ASSUME NEW c \in Conn, O!Dashboard(c) PROVE DashSteps
  BY <1>5, SameDashboard DEF DashSteps, OP!Next
<1>6. ASSUME NEW driver_id \in 0 .. NumDrivers + 1, NEW value \in BOOLEAN,
             Actuate(driver_id, value)
      PROVE  DashSteps
  BY <1>1, <1>6 DEF Actuate, Quits, DashSteps, dash_vars
<1>7. CASE StatusEnds
  BY <1>7, SendersAssumption DEF StatusEnds, Quits, DashSteps
<1>8. UNCHANGED dash_vars \/ ~ UNCHANGED vars
  BY DEF vars
<1> QED
  BY <1>1, <1>2, <1>3, <1>4, <1>5, <1>6, <1>7, <1>8
     DEF Next, SpawnProcedure, SensorEStop, Procedure, TakeStatus, SendStatus, SendOther,
         Report, AcceptLoop, Dashboard

LEMMA QuitsKeeps ==
  ASSUME OP!IInv, NEW s \in {Main, DriverStatus}, Quits(s)
  PROVE  OP!IInv'
<1>1. s \in OP!Sender /\ Main \in OP!Sender
  BY DEF OP!Sender, OP!Reporter
<1>2. /\ sender_pc'[s] = "ended" /\ UNCHANGED part
      /\ \A r \in OP!Sender : r # s => sender_pc'[r] = sender_pc[r]
      /\ sender_pc' \in [OP!Sender -> OP!Pc]
  BY <1>1 DEF Quits, OP!IInv, OP!TypeOK, OP!Pc, target_vars
<1>3. OP!HoldsLock' /\ OP!PartsLeft'
  BY <1>1, <1>2 DEF Quits, target_vars, OP!IInv, OP!HoldsLock, OP!PartsLeft
<1>4. serving' \in Conn \cup {NoConn} /\ UNCHANGED accepted
  BY DEF Quits, target_vars, OP!IInv, OP!TypeOK
<1>5. OP!TypeOK'
  BY <1>2, <1>4 DEF Quits, target_vars, OP!IInv, OP!TypeOK
<1>6. OP!MainServes'
  <2>1. UNCHANGED <<channel, accepted>>
    BY DEF Quits, target_vars
  <2>2. CASE s = Main
    BY <1>1, <1>2, <2>1, <2>2 DEF OP!IInv, OP!MainServes
  <2>3. CASE s # Main
    <3>1. UNCHANGED serving /\ sender_pc'[Main] = sender_pc[Main]
      BY <1>1, <1>2, <2>3 DEF Quits
    <3> QED  BY <2>1, <3>1 DEF OP!IInv, OP!MainServes
  <2> QED  BY <2>2, <2>3
<1> QED  BY <1>3, <1>5, <1>6 DEF OP!IInv

LEMMA QuitsWrites ==
  ASSUME OP!IInv, OP!WireInv, OP!RowsMatch, NEW s \in {Main, DriverStatus}, Quits(s)
  PROVE  OP!WireInv' /\ OP!RowsMatch' /\ OP!DeliverySteps
<1>1. s \in OP!Sender /\ Main \in OP!Sender
  BY DEF OP!Sender, OP!Reporter
<1>2. /\ sender_pc'[s] = "ended" /\ UNCHANGED part
      /\ \A r \in OP!Sender : r # s => sender_pc'[r] = sender_pc[r]
  BY <1>1 DEF Quits, OP!IInv, OP!TypeOK, OP!Pc, target_vars
<1>3. \A r \in OP!Sender :
        \/ sender_pc'[r] = sender_pc[r] /\ part'[r] = part[r]
        \/ /\ sender_pc[r] \notin {"writing", "logging"}
           /\ sender_pc'[r] \notin {"writing", "logging"}
  BY <1>1, <1>2 DEF Quits
<1>4. sender_pc'[Main] \in {"accepted", "attach"} => serving' \notin attached
  BY <1>1, <1>2 DEF Quits, OP!WireInv, OP!TargetOnce
<1>5. UNCHANGED <<channel, attached, wire, message_log, delivered, failed>>
  BY DEF Quits, target_vars
<1>6. OP!RowsMatch'
  BY <1>3, <1>5, OP!RowsKept, ChannelFacts
<1>7. OP!WireInv' /\ OP!DeliverySteps
  BY <1>3, <1>4, <1>5, OP!WireKept, ChannelFacts
<1> QED  BY <1>6, <1>7
-----------------------------------------------------------------------------
\* The types.

IInv ==
  /\ StatusInv
  /\ EP!TypeOK
  /\ OP!IInv
  /\ lines_lock \in X!LockState
  /\ driver_states \in [X!Driver -> BOOLEAN]
  /\ unread \subseteq X!Driver

LEMMA InitInv == Init => IInv /\ OP!WireInv /\ OP!RowsMatch
<1> SUFFICES ASSUME Init PROVE IInv /\ OP!WireInv /\ OP!RowsMatch
  OBVIOUS
<1>1. EP!Init
  BY DEF Init, X!Init, EP!Init, X!Driver, EP!Driver
<1>2. EP!TypeOK
  BY <1>1, EP!InitTypes, ProcedureFacts
<1>3. OP!Init
  BY DEF Init, O!Init, OP!Init, O!Sender, O!Reporter, OP!Sender, OP!Reporter
<1>4. OP!IInv
  BY <1>3, OP!InitIInv, ChannelFacts
<1>5. OP!WireInv
  BY <1>3, OP!InitDelivery, ChannelFacts
<1>6. OP!RowsMatch
  BY <1>3, OP!InitRows, ChannelFacts
<1>7. StatusInv
  BY StatusInvInit
<1>8. lines_lock \in X!LockState
  BY DEF Init, X!Init, X!LockState
<1>9. driver_states \in [X!Driver -> BOOLEAN] /\ unread \subseteq X!Driver
  BY DEF Init
<1> QED  BY <1>2, <1>4, <1>5, <1>6, <1>7, <1>8, <1>9 DEF IInv

LEMMA StatusTypes ==
  ASSUME EP!TypeOK, driver_states \in [X!Driver -> BOOLEAN], unread \subseteq X!Driver,
         [Next]_vars
  PROVE  driver_states' \in [X!Driver -> BOOLEAN] /\ unread' \subseteq X!Driver
<1>1. CASE UNCHANGED status_vars
  BY <1>1 DEF status_vars, X!Driver
<1>2. CASE TakeStatus
  <2>1. level \in [X!Driver -> BOOLEAN]
    BY DEF EP!TypeOK, EP!Driver, X!Driver
  <2>2. PICK failing \in SUBSET X!Driver :
          /\ unread' = failing
          /\ driver_states' = [d \in X!Driver |-> IF d \in failing THEN driver_states[d]
                                                                  ELSE level[d]]
    BY <1>2 DEF TakeStatus, ReadDrivers
  <2> QED  BY <2>1, <2>2
<1> QED
  BY <1>1, <1>2 DEF Next, vars, SpawnProcedure, SensorEStop, Procedure, Actuate, SendStatus,
                    StatusEnds, SendOther, Report, AcceptLoop, Dashboard

LEMMA InvStep == IInv /\ [Next]_vars => IInv'
<1> SUFFICES ASSUME IInv, [Next]_vars PROVE IInv'
  OBVIOUS
<1>1. StatusInv'
  BY StatusInvStep DEF IInv
<1>2. EP!TypeOK'
  BY ExecSteps, EP!TypeStep, ProcedureFacts DEF IInv
<1>3. OP!IInv'
  BY NextDash, OP!NextIInv, ChannelFacts, QuitsKeeps DEF IInv, DashSteps
<1>4. lines_lock' \in X!LockState
  BY <1>2 DEF EP!TypeOK, EP!LockState, X!LockState
<1>5. driver_states' \in [X!Driver -> BOOLEAN] /\ unread' \subseteq X!Driver
  BY StatusTypes DEF IInv
<1> QED  BY <1>1, <1>2, <1>3, <1>4, <1>5 DEF IInv, X!Driver, X!LockState

LEMMA InvTypes == IInv => TypeOK
<1> SUFFICES ASSUME IInv PROVE TypeOK
  OBVIOUS
<1>1. X!TypeOK
  BY DEF IInv, X!TypeOK, EP!TypeOK, X!State, EP!State, X!Pc, EP!Pc, X!StepNumber,
         EP!StepNumber, X!Length, EP!Length, X!Driver, EP!Driver, X!Writer, EP!Writer,
         X!IgnitionUnderWay, EP!IgnitionUnderWay
<1>2. O!TypeOK
  BY DEF IInv, OP!IInv, O!TypeOK, OP!TypeOK, O!Sender, OP!Sender, O!Reporter, OP!Reporter,
         O!Pc, OP!Pc, O!Peer, OP!Peer, O!LogRow, OP!LogRow, O!LogField, OP!LogField
<1> QED  BY <1>1, <1>2 DEF IInv, TypeOK

\* Every variable keeps its type, those of the procedures and of the channel
\* in all their interleavings.
THEOREM TypesHold == Spec => []TypeOK
  BY InitInv, InvStep, InvTypes, PTL DEF Spec

-----------------------------------------------------------------------------
\* The locks.

LinesInUse == lines_lock = "held" => Sending(DriverStatus)

LocksInv == LinesInUse /\ OP!LockInUse

\* No procedure and no command takes the lines for longer than a step.
LEMMA ProcedureHoldsNothing ==
  ASSUME NEW t, X!Step(t) \/ X!Call(t) PROVE lines_lock' = "held" => lines_lock = "held"
<1>1. ASSUME NEW s, NEW label, X!Transition(t, s, label) PROVE lines_lock' = lines_lock
  BY <1>1 DEF X!Transition
<1>2. ASSUME NEW seq, NEW who, X!PerformAction(t, seq, who)
      PROVE  lines_lock' = "held" => lines_lock = "held"
  BY <1>2 DEF X!PerformAction, X!PerformSleep, X!PerformActuate, X!AbandonActuate
<1>3. ASSUME X!Return(t) PROVE lines_lock' = lines_lock
  BY <1>3 DEF X!Return
<1>4. ASSUME NEW label, X!Spawn(t, label) PROVE lines_lock' = lines_lock
  BY <1>4 DEF X!Spawn
<1>5. CASE X!Step(t)
  BY <1>1, <1>2, <1>3, <1>5
     DEF X!Step, X!BeginIgnition, X!EndPreIgnite, X!IgnitionAction, X!EndBurn,
         X!EndPostIgnite, X!BeginEStop, X!EStopAction, X!EndEStop
<1>6. CASE X!Call(t)
  BY <1>4, <1>6 DEF X!Call, X!CallIgnition, X!CallEStop, X!SensorEStop
<1> QED  BY <1>5, <1>6

LEMMA LinesStep == IInv /\ LinesInUse /\ [Next]_vars => LinesInUse'
<1> SUFFICES ASSUME IInv, LinesInUse, [Next]_vars, lines_lock' = "held"
             PROVE  Sending(DriverStatus)'
  BY DEF LinesInUse
<1>0. /\ DriverStatus \in DOMAIN sender_pc /\ Main # DriverStatus
      /\ DriverStatus \notin Sensor \cup {Main}
  BY SendersAssumption DEF IInv, StatusInv, SenderTypes
\* Steps that leave the status thread where it is and do not take the lines.
<1>1. ASSUME sender_pc'[DriverStatus] = sender_pc[DriverStatus], lines_lock = "held"
      PROVE  Sending(DriverStatus)'
  BY <1>1 DEF LinesInUse, Sending
<1>2. ASSUME NEW t \in Thread, SpawnProcedure(t) \/ SensorEStop(t) \/ Procedure(t)
      PROVE  Sending(DriverStatus)'
  <2>1. (X!Step(t) \/ X!Call(t)) /\ sender_pc' = sender_pc
    BY <1>2 DEF SpawnProcedure, SensorEStop, Procedure, X!Call, dash_vars
  <2> QED  BY <1>1, <2>1, ProcedureHoldsNothing
<1>3. ASSUME NEW driver_id \in 0 .. NumDrivers + 1, NEW value \in BOOLEAN,
             Actuate(driver_id, value)
      PROVE  FALSE
  BY <1>3 DEF Actuate, X!UserActuate
<1>4. CASE TakeStatus
  BY <1>0, <1>4 DEF TakeStatus, O!StartReport, O!GoTo, Sending
<1>5. CASE SendStatus
  BY <1>5 DEF SendStatus
<1>6. CASE StatusEnds
  BY <1>6 DEF StatusEnds, exec_vars
<1>7. ASSUME NEW s \in Sensor \cup {Main}, SendOther(s) \/ (s \in Sensor /\ Report(s))
      PROVE  Sending(DriverStatus)'
  <2>1. Alone(s)
    BY <1>7, SendMoves, GoToAlone DEF SendOther, Report, O!StartReport
  <2> QED  BY <1>0, <1>1, <1>7, <2>1 DEF SendOther, Report, exec_vars, Alone
<1>8. CASE AcceptLoop
  BY <1>0, <1>1, <1>8, AcceptLoopAlone DEF AcceptLoop, exec_vars, Alone
<1>9. CASE UNCHANGED <<sender_pc, lines_lock>>
  BY <1>1, <1>9
<1>10. ASSUME NEW c \in Conn, Dashboard(c) PROVE UNCHANGED <<sender_pc, lines_lock>>
  BY <1>10 DEF Dashboard, O!Dashboard, O!Connect, O!Stall, O!Resume, O!Close, O!PeerMoves,
               O!threads, exec_vars
<1> QED
  BY <1>2, <1>3, <1>4, <1>5, <1>6, <1>7, <1>8, <1>9, <1>10 DEF Next, vars, exec_vars, dash_vars

LEMMA LocksStep == IInv /\ LocksInv /\ [Next]_vars => LocksInv'
<1> SUFFICES ASSUME IInv, LocksInv, [Next]_vars PROVE OP!LockInUse'
  BY LinesStep DEF LocksInv
<1>1. CASE [OP!Next]_(OP!vars)
  BY <1>1, OP!NextLock, ChannelFacts DEF IInv, LocksInv
<1>2. ASSUME NEW s \in {Main, DriverStatus}, Quits(s) PROVE OP!LockInUse'
  BY <1>2 DEF Quits, target_vars, LocksInv, OP!LockInUse
<1> QED  BY <1>1, <1>2, NextDash DEF DashSteps

LEMMA LocksHold == IInv /\ LocksInv => NoCircularWait
<1> SUFFICES ASSUME IInv, LocksInv PROVE NoCircularWait
  OBVIOUS
<1>1. lock \in OP!Sender \cup {Nobody}
  BY DEF IInv, OP!IInv, OP!TypeOK
<1> QED
  BY <1>1, ChannelFacts DEF IInv, OP!IInv, OP!PartsLeft, LocksInv, LinesInUse, OP!LockInUse,
                            NoCircularWait

\* Threads never wait for each other in a circle (send drops its guards at every
\* return; driver_lines is always taken before dash_channel).
THEOREM WaitsHaveAnEnd == Spec => []NoCircularWait
<1>1. Init => LocksInv
  <2>1. Init => OP!LockInUse
    BY DEF Init, O!Init, OP!LockInUse
  <2> QED  BY <2>1 DEF Init, X!Init, LocksInv, LinesInUse
<1> QED  BY InitInv, InvStep, LocksStep, LocksHold, <1>1, PTL DEF Spec

-----------------------------------------------------------------------------
\* What the dashboard is sent, whatever the procedures do.

LEMMA WritesStep ==
  IInv /\ OP!WireInv /\ OP!RowsMatch /\ [Next]_vars
    => OP!WireInv' /\ OP!RowsMatch' /\ OP!DeliverySteps
<1> SUFFICES ASSUME IInv, OP!WireInv, OP!RowsMatch, [Next]_vars
             PROVE  OP!WireInv' /\ OP!RowsMatch' /\ OP!DeliverySteps
  OBVIOUS
<1>1. CASE [OP!Next]_(OP!vars)
  BY <1>1, OP!NextWire, OP!NextRows, ChannelFacts DEF IInv
<1>2. ASSUME NEW s \in {Main, DriverStatus}, Quits(s)
      PROVE  OP!WireInv' /\ OP!RowsMatch' /\ OP!DeliverySteps
  BY <1>2, QuitsWrites DEF IInv
<1> QED  BY <1>1, <1>2, NextDash DEF DashSteps

\* The threads of the whole controller never mix or repeat messages, and sent.csv
\* has a row for each (send under the write half of dash_channel): the panic of a
\* command and the end of the status thread come between messages.
THEOREM DashboardIsServed == Spec => O!DeliversWholeMessages /\ []O!LogMatchesWire
<1>1. IInv /\ OP!RowsMatch => O!LogMatchesWire
  <2>1. IInv /\ OP!RowsMatch => OP!LogMatchesWire
    BY OP!RowsImplyLog, ChannelFacts DEF IInv
  <2> QED  BY <2>1 DEF O!LogMatchesWire, OP!LogMatchesWire, O!LogRow, OP!LogRow
<1>2. IInv /\ OP!WireInv /\ OP!RowsMatch /\ [Next]_vars
        => [O!D!Next]_<<channel, attached, [c \in Conn |-> O!Messages(c)]>>
  <2>1. OP!D!Next => O!D!Next
    BY DEF OP!D!Next, O!D!Next, OP!D!Attach, O!D!Attach, OP!D!Deliver, O!D!Deliver,
           OP!D!GiveUp, O!D!GiveUp, OP!Messages, O!Messages, OP!Sender, O!Sender,
           OP!Reporter, O!Reporter
  <2>2. UNCHANGED <<channel, attached, OP!AllMessages>>
          => UNCHANGED <<channel, attached, [c \in Conn |-> O!Messages(c)]>>
    BY DEF OP!AllMessages, OP!Messages, O!Messages
  <2> QED  BY <2>1, <2>2, WritesStep, SMTT(30) DEF OP!DeliverySteps
<1>3. Init => O!D!Init
  <2>1. Init => OP!D!Init
    <3>1. Init => OP!Init
      BY DEF Init, O!Init, OP!Init, O!Sender, O!Reporter, OP!Sender, OP!Reporter
    <3> QED  BY <3>1, OP!InitDelivery, ChannelFacts
  <2> QED  BY <2>1 DEF O!D!Init, OP!D!Init, O!Messages, OP!Messages
<1> QED  BY InitInv, InvStep, WritesStep, <1>1, <1>2, <1>3, PTL
         DEF Spec, O!DeliversWholeMessages, O!D!Spec


\* A main thread that has panicked stays so.
LEMMA PanicLasts == IInv /\ [Next]_vars /\ main' = "serving" => main = "serving"
<1> SUFFICES ASSUME [Next]_vars, main # main' PROVE main = "serving"
  BY DEF IInv, EP!TypeOK
<1>1. ASSUME NEW t \in Thread, X!Step(t) \/ X!Call(t) PROVE main' = main
  BY <1>1 DEF X!Step, X!Call, X!BeginIgnition, X!EndPreIgnite, X!IgnitionAction,
              X!EndBurn, X!EndPostIgnite, X!BeginEStop, X!EStopAction, X!EndEStop,
              X!Transition, X!Return, X!PerformAction, X!CallIgnition, X!CallEStop,
              X!SensorEStop, X!Spawn
<1> QED
  BY <1>1 DEF Next, vars, exec_vars, SpawnProcedure, SensorEStop, Procedure, X!Call, Actuate,
              X!UserActuate, TakeStatus, SendStatus, StatusEnds, SendOther, Report,
              AcceptLoop, Dashboard

LEMMA ServedStep ==
  IInv /\ ServedUnlessPanicked /\ [Next]_vars => ServedUnlessPanicked'
<1> SUFFICES ASSUME IInv, ServedUnlessPanicked, [Next]_vars, main' = "serving"
             PROVE  O!TargetIsServed'
  BY DEF ServedUnlessPanicked
<1>1. OP!TargetIsServed
  BY PanicLasts DEF ServedUnlessPanicked, O!TargetIsServed, OP!TargetIsServed
<1>2. CASE [OP!Next]_(OP!vars)
  <2>1. OP!TargetIsServed'
    BY <1>1, <1>2, OP!NextTarget, ChannelFacts DEF IInv
  <2> QED  BY <2>1 DEF O!TargetIsServed, OP!TargetIsServed
<1>3. CASE Quits(DriverStatus)
  <2>1. UNCHANGED <<failed, channel, peer, serving>>
    BY <1>3, SendersAssumption DEF Quits, target_vars
  <2> QED  BY <1>1, <2>1 DEF O!TargetIsServed, OP!TargetIsServed
<1> QED  BY <1>2, <1>3, NextDash DEF DashSteps

\* Only a panic of the main thread, or a log that cannot be written, can leave a
\* dashboard that is sent messages and not listened to (handle_command indexes
\* driver_lines; the channel holds a clone of the stream).
THEOREM ServedUntilPanic == Spec => []ServedUnlessPanicked
<1>1. Init => ServedUnlessPanicked
  BY DEF Init, O!Init, ServedUnlessPanicked, O!TargetIsServed
<1> QED  BY InitInv, InvStep, ServedStep, <1>1, PTL DEF Spec

-----------------------------------------------------------------------------
\* What the procedures do, whatever the dashboard does.

\* The invariants from which Execution's theorems follow.
ExecInv == EP!StateHasOwner /\ EP!Exclusion /\ EP!StopInv /\ EP!SettledOrPending

LEMMA ExecInvInit == Init => ExecInv
<1> SUFFICES ASSUME Init PROVE ExecInv
  OBVIOUS
<1>1. EP!Init
  BY DEF Init, X!Init, EP!Init, X!Driver, EP!Driver
<1> QED
  BY <1>1, EP!InitOwner, EP!InitExclusion, EP!InitStop, EP!InitSettled, ProcedureFacts
     DEF ExecInv

LEMMA ExecInvStep == IInv /\ ExecInv /\ [Next]_vars => ExecInv'
<1> SUFFICES ASSUME IInv, ExecInv, [Next]_vars PROVE ExecInv'
  OBVIOUS
<1>1. EP!TypeOK /\ [EP!Next]_(EP!vars)
  BY ExecSteps DEF IInv
<1>2. EP!StateHasOwner'
  BY <1>1, EP!OwnerStep, ProcedureFacts DEF ExecInv
<1>3. EP!Exclusion'
  BY <1>1, EP!ExclusionStep, ProcedureFacts DEF ExecInv
<1>4. EP!StopInv'
  BY <1>1, EP!StopInvStep, ProcedureFacts DEF ExecInv
<1>5. EP!SettledOrPending'
  BY <1>1, EP!SettledStep, ProcedureFacts DEF ExecInv
<1> QED  BY <1>2, <1>3, <1>4, <1>5 DEF ExecInv

LEMMA ExecInvHolds ==
  ExecInv => X!StateHasOwner /\ X!IgnitionExclusive /\ X!EStopSettles
<1> SUFFICES ASSUME ExecInv
             PROVE  X!StateHasOwner /\ X!IgnitionExclusive /\ X!EStopSettles
  OBVIOUS
<1>1. EP!EStopSettles
  BY EP!SettledHolds, ProcedureFacts DEF ExecInv
<1>2. X!StateHasOwner
  BY DEF ExecInv, X!StateHasOwner, EP!StateHasOwner, X!Phase, EP!Phase
<1>3. X!IgnitionExclusive
  BY DEF ExecInv, EP!Exclusion, X!IgnitionExclusive, EP!IgnitionExclusive, X!Phase,
         EP!Phase, X!IgnitionUnderWay, EP!IgnitionUnderWay
<1>4. X!EStopSettles
  BY <1>1 DEF X!EStopSettles, EP!EStopSettles, X!Driver, EP!Driver, X!IsLastActuate,
              EP!IsLastActuate
<1> QED  BY <1>2, <1>3, <1>4

\* In the whole controller too a state other than standby has an owner, ignitions
\* exclude one another and emergency stops settle, although the status thread
\* holds the lines while a dashboard stalls (ignition and emergency_stop).
THEOREM ProceduresStaySafe ==
  Spec => [](X!StateHasOwner /\ X!IgnitionExclusive /\ X!EStopSettles)
  BY InitInv, InvStep, ExecInvInit, ExecInvStep, ExecInvHolds, PTL DEF Spec

\* And a stop during the pre-ignition delay calls the burn off.
THEOREM PreIgnitionStopsHold == Spec => X!PreIgnitionStopHolds
<1>1. ASSUME IInv, ExecInv, [Next]_vars, NEW t \in stopped,
             pc[t] = "pre_ignite", pc'[t] = "burn"
      PROVE  \E u \in Thread \ stopped : pc[u] = "pre_ignite"
  BY <1>1, ExecSteps, EP!StoppedBurns, ProcedureFacts DEF IInv, ExecInv
<1>2. IInv /\ ExecInv /\ [Next]_vars
        => [\A t \in stopped :
              pc[t] = "pre_ignite" /\ pc'[t] = "burn"
                => \E u \in Thread \ stopped : pc[u] = "pre_ignite"]_(X!vars)
  BY <1>1
<1> QED  BY InitInv, InvStep, ExecInvInit, ExecInvStep, <1>2, PTL
         DEF Spec, X!PreIgnitionStopHolds

=============================================================================

----------------------------- MODULE Controller -----------------------------
(***************************************************************************)
(* The running controller: command execution (Execution.tla) and the       *)
(* channel to the dashboard (Outgoing.tla) in one process                  *)
(* (run, src/server.rs).                                                   *)
(*                                                                         *)
(* They meet in two threads.  The main thread serves a client: only while  *)
(* it reads from one can commands arrive, and while it is greeting or      *)
(* waits for a lock they cannot.  The driver status thread                 *)
(* (driver_status_listen, src/data.rs) takes the mutex around the driver   *)
(* lines, reads them, and keeps it until its message has been sent, so     *)
(* that procedures wait for the dashboard.                                 *)
(***************************************************************************)
EXTENDS Naturals, Sequences

CONSTANTS
  Thread, NumDrivers, IgnitionSequence, EStopSequence, GpioFaults,
  Sensor, DriverStatus, Main, Conn, NoConn, Nobody, Parts, MaxMessages, LogFaults

ASSUME SendersAssumption == DriverStatus \notin Sensor /\ Main \notin Sensor \cup {DriverStatus}

VARIABLES
  state, pc, next_action, level, lines_lock, main,
  writer, stopped, estopped, aborted

VARIABLES
  channel, lock, sender_pc, part, message_log, serving, accepted, peer, wire,
  started, delivered, attached, failed

VARIABLES
  driver_states,   \* the levels the status thread has read
  unread           \* history: the drivers it could not read this time

X == INSTANCE Execution
O == INSTANCE Outgoing WITH pc <- sender_pc

\* What Execution and Outgoing assume of the constants.
ASSUME ProceduresAssumption == /\ NumDrivers \in Nat
                               /\ IgnitionSequence \in Seq(X!Action)
                               /\ EStopSequence \in Seq(X!Action)
                               /\ GpioFaults \in BOOLEAN
ASSUME ChannelAssumption    == /\ Nobody \notin O!Sender
                               /\ NoConn \notin Conn
                               /\ Parts \in Nat \ {0}
                               /\ MaxMessages \in Nat
                               /\ LogFaults \subseteq O!Sender

exec_history == <<writer, stopped, estopped, aborted>>
exec_vars    == <<state, pc, next_action, level, lines_lock, main, exec_history>>
target_vars  == <<channel, lock, part, message_log, accepted, peer, wire,
                  started, delivered, attached, failed>>
dash_vars    == <<target_vars, sender_pc, serving>>
status_vars  == <<driver_states, unread>>
vars == <<exec_vars, dash_vars, status_vars>>

TypeOK ==
  /\ X!TypeOK
  /\ O!TypeOK
  /\ driver_states \in [X!Driver -> BOOLEAN]
  /\ unread \subseteq X!Driver

Init ==
  /\ X!Init
  /\ O!Init
  /\ driver_states = [d \in X!Driver |-> FALSE]
  /\ unread = {}

-----------------------------------------------------------------------------
\* driver_status_listen

Sending(s) == sender_pc[s] \in {"send", "writing", "logging"}

\* The lines are read under the lock; one that cannot be read keeps the level
\* that was read before.
ReadDrivers ==
  \E failing \in IF GpioFaults THEN SUBSET X!Driver ELSE {{}} :
    /\ unread' = failing
    /\ driver_states' = [d \in X!Driver |-> IF d \in failing THEN driver_states[d]
                                                             ELSE level[d]]

\* Mutant: the guard is a temporary, dropped before the message is sent.
TakeStatusUnheld ==
  /\ lines_lock = "free"
  /\ ReadDrivers
  /\ O!StartReport(DriverStatus)
  /\ UNCHANGED exec_vars

\* Mutant: a poisoned lock is entered all the same.
TakeStatusPoisoned ==
  /\ lines_lock \in {"free", "poisoned"}
  /\ lines_lock' = "held"
  /\ ReadDrivers
  /\ O!StartReport(DriverStatus)
  /\ UNCHANGED <<state, pc, next_action, level, main, exec_history>>

TakeStatus ==
  /\ lines_lock = "free"
  /\ lines_lock' = "held"
  /\ ReadDrivers
  /\ O!StartReport(DriverStatus)
  /\ UNCHANGED <<state, pc, next_action, level, main, exec_history>>

\* One step of its send; the guard is dropped when that returns.
SendStatus ==
  /\ O!Send(DriverStatus)
  /\ lines_lock' = IF Sending(DriverStatus)' THEN "held" ELSE "free"
  /\ UNCHANGED <<state, pc, next_action, level, main, exec_history, status_vars>>

\* The lock is poisoned, or drivers.csv or the user log cannot be written: the
\* thread returns the error.
StatusEnds ==
  /\ sender_pc[DriverStatus] = "idle"
  /\ \/ lines_lock = "poisoned"
     \/ lines_lock = "free" /\ DriverStatus \in LogFaults
  /\ sender_pc' = [sender_pc EXCEPT ![DriverStatus] = "ended"]
  /\ UNCHANGED <<exec_vars, status_vars, target_vars, serving>>

-----------------------------------------------------------------------------
\* The main thread runs the commands of the client it reads from, which may
\* have left since it sent them.

SpawnProcedure(t) ==
  /\ sender_pc[Main] = "reading"
  /\ X!CallIgnition(t) \/ X!CallEStop(t)
  /\ UNCHANGED <<dash_vars, status_vars>>

\* An Actuate command, with which the main thread may panic: its stream is
\* dropped, the clone in the channel stays.
Actuate(driver_id, value) ==
  /\ sender_pc[Main] = "reading"
  /\ X!UserActuate(driver_id, value)
  /\ IF main' = "panicked"
     THEN /\ sender_pc' = [sender_pc EXCEPT ![Main] = "ended"]
          /\ serving' = NoConn
     ELSE UNCHANGED <<sender_pc, serving>>
  /\ UNCHANGED <<target_vars, status_vars>>

\* A sensor thread that is not busy sending finds an average out of range.
SensorEStop(t) ==
  /\ \E s \in Sensor : sender_pc[s] = "idle"
  /\ X!SensorEStop(t)
  /\ UNCHANGED <<dash_vars, status_vars>>

Procedure(t) == X!Step(t) /\ UNCHANGED <<dash_vars, status_vars>>

-----------------------------------------------------------------------------
SendOther(s) == O!Send(s) /\ UNCHANGED <<exec_vars, status_vars>>

Report(s) == O!StartReport(s) /\ UNCHANGED <<exec_vars, status_vars>>

AcceptLoop == O!AcceptLoop /\ UNCHANGED <<exec_vars, status_vars>>

Dashboard(c) == O!Dashboard(c) /\ UNCHANGED <<exec_vars, status_vars>>

Next ==
  \/ \E t \in Thread : SpawnProcedure(t) \/ SensorEStop(t) \/ Procedure(t)
  \/ \E driver_id \in 0 .. NumDrivers + 1, value \in BOOLEAN : Actuate(driver_id, value)
  \/ TakeStatus \/ SendStatus \/ StatusEnds
  \/ \E s \in Sensor \cup {Main} : SendOther(s)
  \/ \E s \in Sensor : Report(s)
  \/ AcceptLoop
  \/ \E c \in Conn : Dashboard(c)

\* A thread that can run again and again does in the end: one that waits for a
\* lock gets it, since those that take it for long sleep in between, and a
\* blocked write goes on when the dashboard reads.  As in Outgoing, the failing of
\* a log is not going on.
OtherGoesOn(s) == O!GoesOn(s) /\ UNCHANGED <<exec_vars, status_vars>>
StatusGoesOn   == SendStatus /\ O!SendOn(DriverStatus)

Fairness ==
  /\ \A t \in Thread : SF_vars(Procedure(t))
  /\ \A s \in Sensor \cup {Main} : SF_vars(OtherGoesOn(s))
  /\ SF_vars(StatusGoesOn)

Spec == Init /\ [][Next]_vars /\ Fairness

-----------------------------------------------------------------------------
\* Safety.

\* The levels in a status message are those the lines have while it is sent
\* (driver_status_listen keeps the guard across send); only a line that could
\* not be read may differ.
StatusIsCurrent ==
  Sending(DriverStatus) =>
    \A d \in X!Driver \ unread : driver_states[d] = level[d]

\* Threads never wait for each other in a circle: the driver lines are held only
\* by the status thread, from its reading to the end of its send; the channel only
\* by a thread that is writing or logging, which waits for nothing but the
\* dashboard (every early return of send drops its guards; driver_lines is always
\* taken before dash_channel).
NoCircularWait ==
  /\ lines_lock = "held" => Sending(DriverStatus)
  /\ lock # Nobody => \/ sender_pc[lock] = "logging"
                      \/ sender_pc[lock] = "writing" /\ channel # NoConn

\* Only a panic of the main thread can leave a dashboard that is being sent
\* messages and to which nobody listens, as long as the logs can be written
\* (handle_command indexes driver_lines; the channel holds a clone of the stream).
ServedUnlessPanicked == main = "serving" => O!TargetIsServed

\* Every behaviour of the controller is one of Execution: neither the status
\* thread's hold on the lines nor what befalls the client lets a procedure do
\* what it could not do alone, so the theorems about Execution hold here.
E == INSTANCE Execution WITH
       lines_lock <- IF lines_lock = "held" THEN "free" ELSE lines_lock
ImplementsExecution == E!Init /\ [][E!Next]_(E!vars)

-----------------------------------------------------------------------------
\* Liveness.

\* Every procedure thread ends, whatever fails and whichever lock is poisoned,
\* provided no dashboard stops reading for good (the ? operator after each
\* lock() and move_to(); driver_lines is always taken before dash_channel).
ThreadsEnd ==
  O!NobodyStallsForever => \A t \in Thread : pc[t] # "free" ~> pc[t] = "free"

-----------------------------------------------------------------------------
\* What the repository says of the program and the code does not do.

\* api.md, "Emergency stop": the controller will immediately start the shutoff
\* procedure.  A stop that has taken over gets through its actions.
StopsActWithoutHelp == \A t \in Thread : pc[t] = "shutoff" ~> pc[t] # "shutoff"
=============================================================================

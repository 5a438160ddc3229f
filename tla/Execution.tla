----------------------------- MODULE Execution -----------------------------
(***************************************************************************)
(* Command execution (src/execution.rs) by the threads that run it.        *)
(*                                                                         *)
(* An Ignition or EmergencyStop command runs in a thread of its own,       *)
(* spawned by the client loop (server.rs); an emergency stop is also       *)
(* spawned by a sensor thread that finds a rolling average out of range    *)
(* (data.rs).  An Actuate command is run by the client loop itself, on     *)
(* the main thread.  They meet in two places: the state guard and the      *)
(* mutex around the driver lines.                                          *)
(*                                                                         *)
(* Every call of move_to and every action of a sequence is one step of its *)
(* thread; a sleep ends at a moment of the scheduler's choosing.  A slot   *)
(* of Thread whose thread has ended is free again, so the set bounds how   *)
(* many procedures overlap, not how many a run may see.                    *)
(***************************************************************************)
EXTENDS EngineState, Naturals, Sequences

CONSTANTS
  Thread,             \* slots for spawned procedure threads
  NumDrivers,         \* configuration.drivers.len(), and driver_lines.len()
  IgnitionSequence,   \* configuration.ignition_sequence
  EStopSequence,      \* configuration.estop_sequence
  GpioFaults          \* whether a GPIO write may fail

Driver == 0 .. NumDrivers - 1

\* Configuration::parse rejects only driver_id > drivers.len().
Action ==
  [type : {"Actuate"}, driver_id : 0 .. NumDrivers, value : BOOLEAN]
    \cup [type : {"Sleep"}]

ASSUME NumDriversAssumption == NumDrivers \in Nat
ASSUME SequencesAssumption  == /\ IgnitionSequence \in Seq(Action)
                               /\ EStopSequence \in Seq(Action)
ASSUME GpioFaultsAssumption == GpioFaults \in BOOLEAN

VARIABLES
  pc,            \* where each procedure thread is
  next_action,   \* the action perform_actions takes next
  level,         \* the logic level of each driver line
  lines_lock,    \* the mutex around driver_lines
  main           \* the main thread, which runs the client loop

\* History variables: no action reads them.
VARIABLES
  writer,        \* who wrote each driver line last
  stopped,       \* ignitions under way when an emergency stop took over
  estopped,      \* an emergency stop has taken over at least once
  aborted        \* a procedure has been abandoned between its transitions

exec_vars == <<pc, next_action, level, lines_lock, main>>
history   == <<writer, stopped, estopped, aborted>>
vars      == <<state, exec_vars, history>>

\* "ignition" and "estop": spawned, first transition not yet attempted.
IgnitionUnderWay == {"pre_ignite", "burn", "post_ignite"}
Pc        == {"free", "ignition", "estop", "shutoff"} \cup IgnitionUnderWay
\* "held" is for driver_status_listen, which keeps the lock across steps.
LockState == {"free", "held", "poisoned"}
Writer    == {"nobody", "user", "ignition", "estop"}

Length(seq)  == Len(seq) + 1
StepNumber   == 1 .. Length(IgnitionSequence) \cup 1 .. Length(EStopSequence)

TypeOK ==
  /\ state \in State
  /\ pc \in [Thread -> Pc]
  /\ next_action \in [Thread -> StepNumber]
  /\ level \in [Driver -> BOOLEAN]
  /\ lines_lock \in LockState
  /\ main \in {"serving", "panicked"}
  /\ writer \in [Driver -> Writer]
  /\ stopped \subseteq Thread
  /\ estopped \in BOOLEAN
  /\ aborted \in BOOLEAN

Init ==
  /\ state = "Standby"
  /\ pc = [t \in Thread |-> "free"]
  /\ next_action = [t \in Thread |-> 1]
  /\ level = [d \in Driver |-> FALSE]
  /\ lines_lock = "free"
  /\ main = "serving"
  /\ writer = [d \in Driver |-> "nobody"]
  /\ stopped = {}
  /\ estopped = FALSE
  /\ aborted = FALSE

-----------------------------------------------------------------------------
\* Bookkeeping of procedure threads.

\* Mutant: the index counts on from one part of a procedure to the next.
EnterCountsOn(t, label) ==
  /\ pc' = [pc EXCEPT ![t] = label]
  /\ next_action' = [next_action EXCEPT ![t] = @ + 1]

Enter(t, label) ==
  /\ pc' = [pc EXCEPT ![t] = label]
  /\ next_action' = [next_action EXCEPT ![t] = 1]

Advance(t) ==
  /\ next_action' = [next_action EXCEPT ![t] = @ + 1]
  /\ UNCHANGED pc

End(t) ==
  /\ Enter(t, "free")
  /\ stopped' = stopped \ {t}

Spawn(t, label) ==
  /\ pc[t] = "free"
  /\ Enter(t, label)
  /\ UNCHANGED <<state, level, lines_lock, main, history>>

\* `state.move_to(new_state)?`: carry on at label, or return the error, which
\* every spawning closure discards.
Transition(t, new_state, label) ==
  /\ \/ /\ MoveTo(new_state)
        /\ Enter(t, label)
        /\ stopped' = IF new_state = "EStopping"
                      THEN stopped \cup {u \in Thread : pc[u] \in IgnitionUnderWay}
                      ELSE stopped
        /\ estopped' = (estopped \/ new_state = "EStopping")
     \/ /\ Refuses(new_state)
        /\ End(t)
        /\ UNCHANGED estopped
  /\ UNCHANGED <<level, lines_lock, main, writer, aborted>>

\* The last statement of both procedures: `state.move_to(State::Standby)?`.
Return(t) ==
  /\ MoveTo("Standby") \/ Refuses("Standby")
  /\ End(t)
  /\ UNCHANGED <<level, lines_lock, main, writer, estopped, aborted>>

WriteLine(d, value, who) ==
  /\ level' = [level EXCEPT ![d] = value]
  /\ writer' = [writer EXCEPT ![d] = who]

-----------------------------------------------------------------------------
\* Commands reach the controller (handle_client, sensor_listen).

\* The dashboard sends Ignition: a thread is spawned to run it.
CallIgnition(t) == main = "serving" /\ Spawn(t, "ignition")

\* The dashboard sends EmergencyStop.
CallEStop(t) == main = "serving" /\ Spawn(t, "estop")

\* A sensor thread finds a rolling average out of range, in whatever state.
SensorEStop(t) == Spawn(t, "estop")

\* The dashboard sends Actuate.  The client loop runs it without a look at the
\* state or at the driver's protected flag.  An id above drivers.len() is
\* answered with DriverOutOfBounds, a failed write or a poisoned lock with an
\* error that is logged: no change in either case.  The id drivers.len()
\* passes the check and panics on the index, with the lock held.
UserActuate(driver_id, value) ==
  /\ main = "serving"
  /\ driver_id <= NumDrivers
  /\ lines_lock = "free"
  /\ \/ /\ driver_id \in Driver
        /\ WriteLine(driver_id, value, "user")
        /\ UNCHANGED <<lines_lock, main>>
     \/ /\ driver_id \notin Driver
        /\ lines_lock' = "poisoned"
        /\ main' = "panicked"
        /\ UNCHANGED <<level, writer>>
  /\ UNCHANGED <<state, pc, next_action, stopped, estopped, aborted>>

-----------------------------------------------------------------------------
\* perform_actions, one action of the sequence at a time.  The lock is taken
\* and released inside the statement that writes the line.

PerformSleep(t, action) ==
  /\ action.type = "Sleep"
  /\ Advance(t)
  /\ UNCHANGED <<level, lines_lock, writer, stopped, aborted>>

PerformActuate(t, action, who) ==
  /\ action.type = "Actuate"
  /\ lines_lock = "free"
  /\ action.driver_id \in Driver
  /\ WriteLine(action.driver_id, action.value, who)
  /\ Advance(t)
  /\ UNCHANGED <<lines_lock, stopped, aborted>>

\* Mutant: a poisoned lock is not an error but one more reason to wait.
AbandonActuateWaits(t, action) ==
  /\ action.type = "Actuate"
  /\ lines_lock = "free"
  /\ IF action.driver_id \in Driver
     THEN GpioFaults /\ UNCHANGED lines_lock
     ELSE lines_lock' = "poisoned"
  /\ aborted' = TRUE
  /\ End(t)
  /\ UNCHANGED <<level, writer>>

\* The write fails, the index is out of bounds (a panic that poisons the lock),
\* or the lock was poisoned before: the procedure ends where it is, and the
\* state stays what it was.
AbandonActuate(t, action) ==
  /\ action.type = "Actuate"
  /\ \/ /\ lines_lock = "free"
        /\ action.driver_id \in Driver
        /\ GpioFaults
        /\ UNCHANGED lines_lock
     \/ /\ lines_lock = "free"
        /\ action.driver_id \notin Driver
        /\ lines_lock' = "poisoned"
     \/ /\ lines_lock = "poisoned"
        /\ UNCHANGED lines_lock
  /\ aborted' = TRUE
  /\ End(t)
  /\ UNCHANGED <<level, writer>>

PerformAction(t, sequence, who) ==
  /\ next_action[t] <= Len(sequence)
  /\ LET action == sequence[next_action[t]]
     IN  \/ PerformSleep(t, action)
         \/ PerformActuate(t, action, who)
         \/ AbandonActuate(t, action)
  /\ UNCHANGED <<state, main, estopped>>

-----------------------------------------------------------------------------
\* ignition()

BeginIgnition(t) ==
  /\ pc[t] = "ignition"
  /\ Transition(t, "PreIgnite", "pre_ignite")

EndPreIgnite(t) ==
  /\ pc[t] = "pre_ignite"
  /\ Transition(t, "Ignite", "burn")

IgnitionAction(t) ==
  /\ pc[t] = "burn"
  /\ PerformAction(t, IgnitionSequence, "ignition")

\* Mutant: the procedure returns after its actions, PostIgnite is forgotten.
EndBurnEarlyReturn(t) ==
  /\ pc[t] = "burn"
  /\ next_action[t] > Len(IgnitionSequence)
  /\ End(t)
  /\ UNCHANGED <<state, level, lines_lock, main, writer, estopped, aborted>>

EndBurn(t) ==
  /\ pc[t] = "burn"
  /\ next_action[t] > Len(IgnitionSequence)
  /\ Transition(t, "PostIgnite", "post_ignite")

EndPostIgnite(t) ==
  /\ pc[t] = "post_ignite"
  /\ Return(t)

\* emergency_stop()

BeginEStop(t) ==
  /\ pc[t] = "estop"
  /\ Transition(t, "EStopping", "shutoff")

EStopAction(t) ==
  /\ pc[t] = "shutoff"
  /\ PerformAction(t, EStopSequence, "estop")

\* Mutant: the loop may stop one action early.
EndEStopEarly(t) ==
  /\ pc[t] = "shutoff"
  /\ next_action[t] >= Len(EStopSequence)
  /\ Return(t)

EndEStop(t) ==
  /\ pc[t] = "shutoff"
  /\ next_action[t] > Len(EStopSequence)
  /\ Return(t)

-----------------------------------------------------------------------------
Call(t) == CallIgnition(t) \/ CallEStop(t) \/ SensorEStop(t)

\* The steps of a procedure thread that has been spawned.
Step(t) ==
  \/ BeginIgnition(t) \/ EndPreIgnite(t) \/ IgnitionAction(t)
  \/ EndBurn(t) \/ EndPostIgnite(t)
  \/ BeginEStop(t) \/ EStopAction(t) \/ EndEStop(t)

Next ==
  \/ \E t \in Thread : Call(t) \/ Step(t)
  \/ \E driver_id \in 0 .. NumDrivers + 1, value \in BOOLEAN :
       UserActuate(driver_id, value)

\* The operating system runs every thread that can run; commands and
\* measurements need not come.
Fairness == \A t \in Thread : WF_vars(Step(t))

Spec == Init /\ [][Next]_vars /\ Fairness

-----------------------------------------------------------------------------
\* Safety.

\* The state that each part of a procedure stands for.
Phase == [pre_ignite |-> "PreIgnite", burn |-> "Ignite",
          post_ignite |-> "PostIgnite", shutoff |-> "EStopping"]

\* The engine never rests in a state other than standby with nobody left to
\* lead it out: as long as no procedure has been abandoned half-way, the guard's
\* state is the phase of some procedure thread (ignition, emergency_stop and
\* the table of move_to together).
StateHasOwner ==
  ~ aborted => \/ state = "Standby"
               \/ \E t \in Thread : pc[t] \in DOMAIN Phase /\ Phase[pc[t]] = state

\* Of any number of Ignition commands only one can be under way, and the state
\* shows how far it is, until an emergency stop intervenes: the guard's table
\* is what makes racing ignition threads exclusive.
IgnitionExclusive ==
  ~ estopped =>
    \A t, u \in Thread :
      pc[t] \in IgnitionUnderWay /\ pc[u] \in IgnitionUnderWay
        => t = u /\ Phase[pc[t]] = state

\* The last action of the shutoff sequence that concerns a driver.
IsLastActuate(i, d) ==
  /\ EStopSequence[i].type = "Actuate"
  /\ EStopSequence[i].driver_id = d
  /\ \A j \in i + 1 .. Len(EStopSequence) :
       ~ (EStopSequence[j].type = "Actuate" /\ EStopSequence[j].driver_id = d)

\* However many emergency stops overlap, once none is at work every line last
\* written by one of them has the level at which the shutoff sequence leaves
\* it (perform_actions on estop_sequence by concurrent threads).
EStopSettles ==
  ~ aborted /\ (\A t \in Thread : pc[t] # "shutoff") =>
    \A d \in Driver : writer[d] = "estop" =>
      \E i \in DOMAIN EStopSequence :
        IsLastActuate(i, d) /\ level[d] = EStopSequence[i].value

\* An emergency stop during the pre-ignition delay calls the burn off: the
\* thread it stopped starts the ignition sequence only while a later Ignition
\* command is itself waiting in pre-ignition (whose transition it then takes).
PreIgnitionStopHolds ==
  [][\A t \in stopped :
       pc[t] = "pre_ignite" /\ pc'[t] = "burn"
         => \E u \in Thread \ stopped : pc[u] = "pre_ignite"]_vars

-----------------------------------------------------------------------------
\* Liveness.

\* Whatever commands overlap, the engine comes back to standby, unless a
\* procedure was abandoned half-way (ignition and emergency_stop end with
\* move_to(Standby)).
ReturnsToStandby == state # "Standby" ~> state = "Standby" \/ aborted

-----------------------------------------------------------------------------
\* What the repository says of the program and the code does not do.

\* api.md, "Emergency stop": the controller will halt any ongoing ignition
\* processes.  No ignition under way when a stop takes over performs another
\* action of its sequence.
EStopHaltsIgnition ==
  [][\A t \in stopped :
       pc[t] = "burn" => next_action'[t] <= next_action[t]]_vars

\* emergency_stop: "if it's already in EStopping, don't interfere".  Two
\* threads never run the shutoff sequence at once.
OneEStopAtATime ==
  \A t, u \in Thread : pc[t] = "shutoff" /\ pc[u] = "shutoff" => t = u

=============================================================================

---------------------------- MODULE EngineState ----------------------------
(***************************************************************************)
(* The controller's global state and the guard that protects it            *)
(* (src/state.rs).  Guard::move_to takes the write half of an RwLock,      *)
(* looks the transition up in a table and either stores the new state or   *)
(* returns IllegalTransition: one atomic step.  Nothing inside the         *)
(* critical section can panic, so the lock is never poisoned.              *)
(*                                                                         *)
(* The guard knows states, not callers: whoever asks for a transition the  *)
(* table allows obtains it, also when the current state was set by a       *)
(* different procedure.  Execution.tla shows what follows from that.       *)
(***************************************************************************)

VARIABLE state    \* Guard.state

State == {"Standby", "PreIgnite", "Ignite", "PostIgnite", "EStopping", "Quit"}

-----------------------------------------------------------------------------
\* Mutants of the transition table, one slip each.

\* Pre-ignition may also be entered while the previous burn is still cooling.
ValidTransitionReignite(old_state, new_state) ==
  \/ new_state = "Standby"    /\ old_state \in {"EStopping", "PostIgnite"}
  \/ new_state = "PreIgnite"  /\ old_state \in {"Standby", "PostIgnite"}
  \/ new_state = "Ignite"     /\ old_state = "PreIgnite"
  \/ new_state = "PostIgnite" /\ old_state = "Ignite"
  \/ new_state = "EStopping"  /\ old_state # "Quit"

\* Ignition may be entered from standby.
ValidTransitionSkipPreIgnite(old_state, new_state) ==
  \/ new_state = "Standby"    /\ old_state \in {"EStopping", "PostIgnite"}
  \/ new_state = "PreIgnite"  /\ old_state = "Standby"
  \/ new_state = "Ignite"     /\ old_state \in {"PreIgnite", "Standby"}
  \/ new_state = "PostIgnite" /\ old_state = "Ignite"
  \/ new_state = "EStopping"  /\ old_state # "Quit"

\* An emergency stop cannot hand the engine back to standby.
ValidTransitionNoRelease(old_state, new_state) ==
  \/ new_state = "Standby"    /\ old_state = "PostIgnite"
  \/ new_state = "PreIgnite"  /\ old_state = "Standby"
  \/ new_state = "Ignite"     /\ old_state = "PreIgnite"
  \/ new_state = "PostIgnite" /\ old_state = "Ignite"
  \/ new_state = "EStopping"  /\ old_state # "Quit"

-----------------------------------------------------------------------------
\* The table of Guard::move_to.
ValidTransition(old_state, new_state) ==
  \/ new_state = "Standby"             /\ old_state \in {"EStopping", "PostIgnite"}
  \/ new_state \in {"PreIgnite", "Quit"} /\ old_state = "Standby"
  \/ new_state = "Ignite"              /\ old_state = "PreIgnite"
  \/ new_state = "PostIgnite"          /\ old_state = "Ignite"
  \/ new_state = "EStopping"           /\ old_state # "Quit"

\* move_to(new_state) returns Ok.
MoveTo(new_state) ==
  /\ ValidTransition(state, new_state)
  /\ state' = new_state

\* move_to(new_state) returns Err(IllegalTransition).
Refuses(new_state) ==
  /\ ~ ValidTransition(state, new_state)
  /\ UNCHANGED state

=============================================================================

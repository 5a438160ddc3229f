-------------------------- MODULE ExecutionProofs --------------------------
(***************************************************************************)
(* Proofs about Execution, for every number of threads and drivers and     *)
(* every pair of configured sequences.                                     *)
(***************************************************************************)
EXTENDS Execution, TLAPS

-----------------------------------------------------------------------------
(***************************************************************************)
(* Type correctness.                                                       *)
(***************************************************************************)

\* What Action says of a single action of either sequence: an actuation
\* carries a driver id and a logic level (config.rs, enum Action).
LEMMA ActionType ==
  ASSUME NEW seq \in Seq(Action), NEW i \in 1 .. Len(seq)
  PROVE  /\ seq[i].type \in {"Actuate", "Sleep"}
         /\ seq[i].type = "Actuate" => seq[i].value \in BOOLEAN
  <1>1. seq[i] \in Action
    OBVIOUS
  <1> QED
    BY <1>1 DEF Action

\* A step of perform_actions leaves next_action within the sequence or one
\* past its end.
LEMMA PerformActionType ==
  ASSUME TypeOK, NEW t \in Thread, NEW who \in Writer,
         NEW seq \in {IgnitionSequence, EStopSequence},
         PerformAction(t, seq, who)
  PROVE  TypeOK'
  <1> DEFINE action == seq[next_action[t]]
  <1>1. seq \in Seq(Action) /\ Len(seq) \in Nat
    BY SequencesAssumption
  <1>2. next_action[t] \in 1 .. Len(seq)
    BY <1>1, SequencesAssumption DEF TypeOK, PerformAction, StepNumber, Length
  <1>3. action.type = "Actuate" => action.value \in BOOLEAN
    BY <1>1, <1>2, ActionType
  <1>4. next_action[t] + 1 \in StepNumber /\ 1 \in StepNumber
    BY <1>1, <1>2, SequencesAssumption DEF StepNumber, Length
  <1> HIDE DEF action
  <1>5. PerformSleep(t, action) \/ PerformActuate(t, action, who) \/ AbandonActuate(t, action)
    BY DEF PerformAction, action
  <1>6. UNCHANGED <<state, main, estopped>>
    BY DEF PerformAction
  <1>7. CASE PerformSleep(t, action)
    BY <1>4, <1>6, <1>7 DEF TypeOK, PerformSleep, Advance
  <1>8. CASE PerformActuate(t, action, who)
    BY <1>3, <1>4, <1>6, <1>8 DEF TypeOK, PerformActuate, Advance, WriteLine
  <1>9. CASE AbandonActuate(t, action)
    BY <1>4, <1>6, <1>9 DEF TypeOK, AbandonActuate, End, Enter, Pc, LockState
  <1> QED
    BY <1>5, <1>7, <1>8, <1>9

\* Every variable keeps its type (Execution!TypeOK).
LEMMA TypeStep == TypeOK /\ [Next]_vars => TypeOK'
  <1> SUFFICES ASSUME TypeOK, [Next]_vars PROVE TypeOK'
    OBVIOUS
  <1>0. 1 \in StepNumber
    BY SequencesAssumption DEF StepNumber, Length
  <1>1. ASSUME NEW t \in Thread, Call(t) PROVE TypeOK'
    BY <1>0, <1>1 DEF TypeOK, Call, CallIgnition, CallEStop, SensorEStop, Spawn, Enter,
                      Pc, history
  <1>2. ASSUME NEW t \in Thread, NEW s \in State, NEW label \in Pc,
               Transition(t, s, label)
        PROVE  TypeOK'
    BY <1>0, <1>2 DEF TypeOK, Transition, MoveTo, Refuses, Enter, End, Pc
  <1>3. ASSUME NEW t \in Thread, Return(t) PROVE TypeOK'
    BY <1>0, <1>3 DEF TypeOK, Return, MoveTo, Refuses, Enter, End, Pc, State
  <1>4. ASSUME NEW t \in Thread, Step(t) PROVE TypeOK'
    <2>1. CASE BeginIgnition(t)
      BY <1>2, <2>1 DEF BeginIgnition, State, Pc, IgnitionUnderWay
    <2>2. CASE EndPreIgnite(t)
      BY <1>2, <2>2 DEF EndPreIgnite, State, Pc, IgnitionUnderWay
    <2>3. CASE IgnitionAction(t)
      BY <2>3, PerformActionType DEF IgnitionAction, Writer
    <2>4. CASE EndBurn(t)
      BY <1>2, <2>4 DEF EndBurn, State, Pc, IgnitionUnderWay
    <2>5. CASE EndPostIgnite(t)
      BY <1>3, <2>5 DEF EndPostIgnite
    <2>6. CASE BeginEStop(t)
      BY <1>2, <2>6 DEF BeginEStop, State, Pc
    <2>7. CASE EStopAction(t)
      BY <2>7, PerformActionType DEF EStopAction, Writer
    <2>8. CASE EndEStop(t)
      BY <1>3, <2>8 DEF EndEStop
    <2> QED
      BY <1>4, <2>1, <2>2, <2>3, <2>4, <2>5, <2>6, <2>7, <2>8 DEF Step
  <1>5. ASSUME NEW driver_id \in 0 .. NumDrivers + 1, NEW value \in BOOLEAN,
               UserActuate(driver_id, value)
        PROVE  TypeOK'
    BY <1>5 DEF TypeOK, UserActuate, WriteLine, Writer, LockState
  <1>6. CASE UNCHANGED vars
    BY <1>6 DEF TypeOK, vars, exec_vars, history
  <1> QED
    BY <1>1, <1>4, <1>5, <1>6 DEF Next

LEMMA InitTypes == Init => TypeOK
  <1>1. 1 \in StepNumber
    BY SequencesAssumption DEF StepNumber, Length
  <1> QED
    BY <1>1 DEF Init, TypeOK, State, Pc, LockState, Writer

\* The type invariant holds in every reachable state.
THEOREM TypeCorrect == Spec => []TypeOK
  BY InitTypes, TypeStep, PTL DEF Spec

-----------------------------------------------------------------------------
(***************************************************************************)
(* Strengthenings.  What the safety properties need to be inductive.       *)
(***************************************************************************)

UnderWay(t) == pc[t] \in IgnitionUnderWay

Owns(t) == pc[t] \in DOMAIN Phase /\ Phase[pc[t]] = state

\* Only an ignition that is under way can be one that was stopped, and the
\* guard says PreIgnite only while an ignition that was not stopped waits there.
StoppedIsUnderWay == \A t \in stopped : UnderWay(t)

PreIgniteOwned ==
  state = "PreIgnite" => \E u \in Thread \ stopped : pc[u] = "pre_ignite"

\* Before the first emergency stop takes over, no thread runs the shutoff
\* sequence, so none can move an ignition's state on.
NoShutoffYet == ~ estopped => \A t \in Thread : pc[t] # "shutoff"

\* A line last written by an emergency stop has its final level, or some thread
\* has still to write it.
Settled(d) ==
  \E i \in DOMAIN EStopSequence :
    IsLastActuate(i, d) /\ level[d] = EStopSequence[i].value

Pending(t, d) ==
  /\ pc[t] = "shutoff"
  /\ \E i \in next_action[t] .. Len(EStopSequence) :
       EStopSequence[i].type = "Actuate" /\ EStopSequence[i].driver_id = d

SettledOrPending ==
  ~ aborted =>
    \A d \in Driver : writer[d] = "estop" =>
      Settled(d) \/ \E t \in Thread : Pending(t, d)

-----------------------------------------------------------------------------
(***************************************************************************)
(* Some procedure owns every state but standby.                            *)
(***************************************************************************)

\* A thread in one of the four phases always obtains the transition that ends
\* its phase, whoever owns the state (the table of move_to).
LEMMA OwnerIsNotRefused ==
  /\ state = "PreIgnite" => ~ Refuses("Ignite")
  /\ state = "Ignite" => ~ Refuses("PostIgnite")
  /\ state \in {"PostIgnite", "EStopping"} => ~ Refuses("Standby")
  BY DEF Refuses, ValidTransition

\* perform_actions changes neither the state nor, unless the procedure is
\* abandoned, the phase of a thread.
LEMMA PerformActionPhase ==
  ASSUME NEW t \in Thread, NEW seq, NEW who, PerformAction(t, seq, who)
  PROVE  /\ UNCHANGED <<state, main, estopped>>
         /\ \/ UNCHANGED <<pc, stopped, aborted>>
            \/ aborted' /\ End(t) /\ UNCHANGED writer
  <1> DEFINE action == seq[next_action[t]]
  <1>1. PerformSleep(t, action) \/ PerformActuate(t, action, who) \/ AbandonActuate(t, action)
    BY DEF PerformAction
  <1>2. UNCHANGED <<state, main, estopped>>
    BY DEF PerformAction
  <1> HIDE DEF action
  <1> QED
    BY <1>1, <1>2 DEF PerformSleep, PerformActuate, AbandonActuate, Advance

LEMMA InitOwner == Init => StateHasOwner
  BY DEF Init, StateHasOwner

\* StateHasOwner is inductive on its own.
LEMMA OwnerStep == TypeOK /\ StateHasOwner /\ [Next]_vars => StateHasOwner'
  <1> SUFFICES ASSUME TypeOK, StateHasOwner, [Next]_vars, ~ aborted',
                      state' # "Standby"
               PROVE  \E u \in Thread : Owns(u)'
    BY DEF StateHasOwner, Owns
  <1>1. aborted = FALSE => state = "Standby" \/ \E u \in Thread : Owns(u)
    BY DEF StateHasOwner, Owns
  \* A thread that enters the phase of the new state owns it.
  <1>2. ASSUME NEW t \in Thread, NEW s, NEW label \in DOMAIN Phase, Phase[label] = s,
               Transition(t, s, label), ~ Owns(t) \/ ~ Refuses(s)
        PROVE  \E u \in Thread : Owns(u)'
    <2>1. aborted' = aborted
      BY <1>2 DEF Transition
    <2>2. CASE MoveTo(s) /\ Enter(t, label)
      BY <1>2, <2>2 DEF Owns, MoveTo, Enter, TypeOK
    <2>3. CASE Refuses(s) /\ End(t)
      <3>1. state' = state /\ \A u \in Thread \ {t} : pc'[u] = pc[u]
        BY <2>3 DEF Refuses, End, Enter, TypeOK
      <3>2. PICK u \in Thread : Owns(u)
        BY <1>1, <2>1, <3>1 DEF TypeOK
      <3> QED
        BY <1>2, <2>3, <3>1, <3>2 DEF Owns
    <2> QED
      BY <1>2, <2>2, <2>3 DEF Transition
  <1>3. ASSUME NEW t \in Thread, Return(t), ~ Owns(t) \/ ~ Refuses("Standby")
        PROVE  \E u \in Thread : Owns(u)'
    <2>1. Refuses("Standby") /\ End(t) /\ aborted' = aborted
      BY <1>3 DEF Return, MoveTo
    <2>2. state' = state /\ \A u \in Thread \ {t} : pc'[u] = pc[u]
      BY <2>1 DEF Refuses, End, Enter, TypeOK
    <2>3. PICK u \in Thread : Owns(u)
      BY <1>1, <2>1, <2>2 DEF TypeOK
    <2> QED
      BY <1>3, <2>1, <2>2, <2>3 DEF Owns
  <1>4. ASSUME NEW t \in Thread, NEW seq, NEW who, PerformAction(t, seq, who)
        PROVE  \E u \in Thread : Owns(u)'
    BY <1>1, <1>4, PerformActionPhase DEF Owns, TypeOK
  <1>5. ASSUME NEW t \in Thread, Call(t) PROVE \E u \in Thread : Owns(u)'
    BY <1>1, <1>5 DEF Call, CallIgnition, CallEStop, SensorEStop, Spawn, Enter, history,
                      Owns, Phase, TypeOK
  <1>6. ASSUME NEW t \in Thread, Step(t) PROVE \E u \in Thread : Owns(u)'
    <2>1. CASE BeginIgnition(t)
      BY <1>2, <2>1 DEF BeginIgnition, Owns, Phase
    <2>2. CASE EndPreIgnite(t)
      BY <1>2, <2>2, OwnerIsNotRefused DEF EndPreIgnite, Owns, Phase
    <2>3. CASE IgnitionAction(t)
      BY <1>4, <2>3 DEF IgnitionAction
    <2>4. CASE EndBurn(t)
      BY <1>2, <2>4, OwnerIsNotRefused DEF EndBurn, Owns, Phase
    <2>5. CASE EndPostIgnite(t)
      BY <1>3, <2>5, OwnerIsNotRefused DEF EndPostIgnite, Owns, Phase
    <2>6. CASE BeginEStop(t)
      BY <1>2, <2>6 DEF BeginEStop, Owns, Phase
    <2>7. CASE EStopAction(t)
      BY <1>4, <2>7 DEF EStopAction
    <2>8. CASE EndEStop(t)
      BY <1>3, <2>8, OwnerIsNotRefused DEF EndEStop, Owns, Phase
    <2> QED
      BY <1>6, <2>1, <2>2, <2>3, <2>4, <2>5, <2>6, <2>7, <2>8 DEF Step
  <1>7. ASSUME NEW driver_id \in 0 .. NumDrivers + 1, NEW value \in BOOLEAN,
               UserActuate(driver_id, value)
        PROVE  \E u \in Thread : Owns(u)'
    BY <1>1, <1>7 DEF UserActuate, Owns, TypeOK
  <1>8. CASE UNCHANGED vars
    BY <1>1, <1>8 DEF vars, exec_vars, history, Owns, TypeOK
  <1> QED
    BY <1>5, <1>6, <1>7, <1>8 DEF Next

\* Unless a procedure was abandoned half-way, some procedure thread is in the
\* phase that the guard's state names, or the state is standby.
THEOREM EveryStateHasAnOwner == Spec => []StateHasOwner
  BY InitOwner, TypeCorrect, OwnerStep, PTL DEF Spec

-----------------------------------------------------------------------------
(***************************************************************************)
(* One ignition at a time, until an emergency stop intervenes.             *)
(***************************************************************************)

Exclusion == NoShutoffYet /\ IgnitionExclusive

LEMMA InitExclusion == Init => Exclusion
  BY DEF Init, Exclusion, NoShutoffYet, IgnitionExclusive, IgnitionUnderWay

\* What a call, an action of a sequence or a user command does to the phases:
\* nothing, or it takes one thread out of its phase.
Quietly ==
  /\ state' = state /\ estopped' = estopped
  /\ \A u \in Thread : \/ pc'[u] = pc[u]
                       \/ pc'[u] \notin IgnitionUnderWay \cup {"shutoff"}

LEMMA CallIsQuiet == ASSUME TypeOK, NEW t \in Thread, Call(t) PROVE Quietly
  BY DEF Call, CallIgnition, CallEStop, SensorEStop, Spawn, Enter, history, Quietly,
         TypeOK, IgnitionUnderWay

LEMMA ActionIsQuiet ==
  ASSUME TypeOK, NEW t \in Thread, NEW seq, NEW who, PerformAction(t, seq, who)
  PROVE  Quietly
  BY PerformActionPhase DEF End, Enter, Quietly, TypeOK, IgnitionUnderWay

LEMMA QuietKeepsExclusion == TypeOK /\ Exclusion /\ Quietly => Exclusion'
  <1> SUFFICES ASSUME TypeOK, Exclusion, Quietly, ~ estopped PROVE Exclusion'
    BY DEF Exclusion, NoShutoffYet, IgnitionExclusive, Quietly
  <1>1. \A u \in Thread : pc'[u] # "shutoff"
    BY DEF Exclusion, NoShutoffYet, Quietly
  <1>2. \A u \in Thread : pc'[u] \in IgnitionUnderWay => pc'[u] = pc[u]
    BY DEF Quietly
  <1> QED
    BY <1>1, <1>2 DEF Exclusion, NoShutoffYet, IgnitionExclusive, Quietly

\* A thread under way moves state and phase together, and nobody else is under
\* way; a thread that begins finds standby, so nobody is under way at all.
LEMMA ExclusionStep == TypeOK /\ Exclusion /\ [Next]_vars => Exclusion'
  <1> SUFFICES ASSUME TypeOK, Exclusion, [Next]_vars, ~ estopped' PROVE Exclusion'
    BY DEF Exclusion, NoShutoffYet, IgnitionExclusive
  <1>1. ASSUME ~ estopped
        PROVE  /\ \A u \in Thread : pc[u] # "shutoff"
               /\ \A t, u \in Thread : UnderWay(t) /\ UnderWay(u)
                                         => t = u /\ Phase[pc[t]] = state
    BY <1>1 DEF Exclusion, NoShutoffYet, IgnitionExclusive, UnderWay
  <1>2. ASSUME NEW t \in Thread, NEW s, s # "EStopping",
               NEW label \in IgnitionUnderWay, Phase[label] = s,
               Transition(t, s, label),
               UnderWay(t) \/ (pc[t] = "ignition" /\ s = "PreIgnite")
        PROVE  Exclusion'
    <2>1. ~ estopped
      BY <1>2 DEF Transition
    <2>2. CASE Refuses(s) /\ End(t)
      BY <1>1, <2>1, <2>2 DEF Refuses, End, Enter, Exclusion, NoShutoffYet,
                              IgnitionExclusive, UnderWay, TypeOK, IgnitionUnderWay
    <2>3. CASE MoveTo(s) /\ Enter(t, label)
      <3>1. \A u \in Thread \ {t} : ~ UnderWay(u)
        BY <1>1, <1>2, <2>1, <2>3
           DEF MoveTo, ValidTransition, UnderWay, Phase, IgnitionUnderWay
      <3>2. /\ state' = s /\ pc'[t] = label
            /\ \A u \in Thread \ {t} : pc'[u] = pc[u]
        BY <2>3 DEF MoveTo, Enter, TypeOK
      <3> QED
        BY <1>1, <1>2, <2>1, <3>1, <3>2
           DEF Exclusion, NoShutoffYet, IgnitionExclusive, UnderWay, IgnitionUnderWay
    <2> QED
      BY <1>2, <2>2, <2>3 DEF Transition
  <1>3. ASSUME NEW t \in Thread, Step(t) PROVE Exclusion'
    <2>1. CASE BeginIgnition(t)
      BY <1>2, <2>1 DEF BeginIgnition, Phase, IgnitionUnderWay
    <2>2. CASE EndPreIgnite(t)
      BY <1>2, <2>2 DEF EndPreIgnite, Phase, IgnitionUnderWay, UnderWay
    <2>3. CASE IgnitionAction(t)
      BY <2>3, ActionIsQuiet, QuietKeepsExclusion DEF IgnitionAction
    <2>4. CASE EndBurn(t)
      BY <1>2, <2>4 DEF EndBurn, Phase, IgnitionUnderWay, UnderWay
    <2>5. CASE EndPostIgnite(t)
      <3>1. ~ estopped /\ End(t)
        BY <2>5 DEF EndPostIgnite, Return
      <3>2. \A u \in Thread : pc'[u] = IF u = t THEN "free" ELSE pc[u]
        BY <3>1 DEF End, Enter, TypeOK
      <3>3. \A u \in Thread : ~ UnderWay(u)'
        BY <1>1, <2>5, <3>1, <3>2 DEF EndPostIgnite, UnderWay, IgnitionUnderWay
      <3> QED
        BY <1>1, <3>1, <3>2, <3>3 DEF Exclusion, NoShutoffYet, IgnitionExclusive, UnderWay
    <2>6. CASE BeginEStop(t)
      <3>1. Refuses("EStopping") /\ End(t) /\ ~ estopped
        BY <2>6 DEF BeginEStop, Transition, TypeOK
      <3>2. Quietly
        BY <2>6, <3>1 DEF BeginEStop, Transition, Refuses, End, Enter, Quietly, TypeOK,
                          IgnitionUnderWay
      <3> QED
        BY <3>2, QuietKeepsExclusion
    <2>7. CASE EStopAction(t)
      BY <2>7, ActionIsQuiet, QuietKeepsExclusion DEF EStopAction
    <2>8. CASE EndEStop(t)
      BY <1>1, <2>8 DEF EndEStop, Return
    <2> QED
      BY <1>3, <2>1, <2>2, <2>3, <2>4, <2>5, <2>6, <2>7, <2>8 DEF Step
  <1>4. ASSUME NEW t \in Thread, Call(t) PROVE Exclusion'
    BY <1>4, CallIsQuiet, QuietKeepsExclusion
  <1>5. ASSUME NEW driver_id \in 0 .. NumDrivers + 1, NEW value \in BOOLEAN,
               UserActuate(driver_id, value)
        PROVE  Exclusion'
    BY <1>5, QuietKeepsExclusion DEF UserActuate, Quietly
  <1>6. CASE UNCHANGED vars
    BY <1>6, QuietKeepsExclusion DEF vars, exec_vars, history, Quietly
  <1> QED
    BY <1>3, <1>4, <1>5, <1>6 DEF Next

\* However many Ignition commands race, at most one is under way and the state
\* shows its phase, as long as no emergency stop has taken over.
THEOREM IgnitionsExclude == Spec => []IgnitionExclusive
  <1>1. Exclusion => IgnitionExclusive
    BY DEF Exclusion
  <1> QED
    BY <1>1, InitExclusion, TypeCorrect, ExclusionStep, PTL DEF Spec

-----------------------------------------------------------------------------
(***************************************************************************)
(* A stop during pre-ignition holds.                                       *)
(***************************************************************************)

StopInv == StoppedIsUnderWay /\ PreIgniteOwned

\* A step that leaves the state alone and only takes a thread out of its
\* procedure, which is not the one that waits in pre-ignition.
LEMMA StopInvKept ==
  ASSUME TypeOK, StopInv, state' = state, stopped' \subseteq stopped,
         \A u \in Thread : pc[u] = "pre_ignite" => pc'[u] = pc[u],
         \A u \in stopped' : pc'[u] = pc[u]
  PROVE  StopInv'
  BY DEF TypeOK, StopInv, StoppedIsUnderWay, PreIgniteOwned, UnderWay

LEMMA StopInvStep == TypeOK /\ StopInv /\ [Next]_vars => StopInv'
  <1> SUFFICES ASSUME TypeOK, StopInv, [Next]_vars PROVE StopInv'
    OBVIOUS
  <1>1. \A u \in stopped : u \in Thread /\ pc[u] \in IgnitionUnderWay
    BY DEF TypeOK, StopInv, StoppedIsUnderWay, UnderWay
  \* The thread that ends takes its own mark away.
  <1>2. ASSUME NEW t \in Thread, End(t), state' = state,
               pc[t] # "pre_ignite" \/ state # "PreIgnite"
        PROVE  StopInv'
    <2>1. \A u \in Thread : pc'[u] = IF u = t THEN "free" ELSE pc[u]
      BY <1>2 DEF End, Enter, TypeOK
    <2> QED
      BY <1>1, <1>2, <2>1
         DEF End, TypeOK, StopInv, StoppedIsUnderWay, PreIgniteOwned, UnderWay
  <1>3. ASSUME NEW t \in Thread, NEW seq, NEW who, PerformAction(t, seq, who),
               pc[t] # "pre_ignite"
        PROVE  StopInv'
    <2>1. state' = state /\ (UNCHANGED <<pc, stopped>> \/ End(t))
      BY <1>3, PerformActionPhase
    <2> QED
      BY <1>2, <1>3, <2>1, StopInvKept
  <1>4. ASSUME NEW t \in Thread, Step(t) PROVE StopInv'
    <2>1. CASE BeginIgnition(t)
      <3>1. CASE Refuses("PreIgnite") /\ End(t)
        BY <1>2, <2>1, <3>1 DEF BeginIgnition, Refuses
      <3>2. CASE Enter(t, "pre_ignite") /\ stopped' = stopped
        <4>1. t \notin stopped
          BY <1>1, <2>1 DEF BeginIgnition, IgnitionUnderWay
        <4>2. \A u \in Thread : pc'[u] = IF u = t THEN "pre_ignite" ELSE pc[u]
          BY <3>2 DEF Enter, TypeOK
        <4> QED
          BY <1>1, <3>2, <4>1, <4>2 DEF StopInv, StoppedIsUnderWay, PreIgniteOwned, UnderWay
      <3> QED
        BY <2>1, <3>1, <3>2 DEF BeginIgnition, Transition
    <2>2. CASE EndPreIgnite(t)
      <3>1. CASE Refuses("Ignite") /\ End(t)
        BY <1>2, <3>1, OwnerIsNotRefused DEF Refuses
      <3>2. CASE MoveTo("Ignite") /\ Enter(t, "burn") /\ stopped' = stopped
        <4>1. \A u \in Thread : pc'[u] = IF u = t THEN "burn" ELSE pc[u]
          BY <3>2 DEF Enter, TypeOK
        <4> QED
          BY <1>1, <3>2, <4>1 DEF MoveTo, StopInv, StoppedIsUnderWay, PreIgniteOwned,
                                  UnderWay, IgnitionUnderWay
      <3> QED
        BY <2>2, <3>1, <3>2 DEF EndPreIgnite, Transition
    <2>3. CASE IgnitionAction(t)
      BY <1>3, <2>3 DEF IgnitionAction
    <2>4. CASE EndBurn(t)
      <3>1. CASE Refuses("PostIgnite") /\ End(t)
        BY <1>2, <2>4, <3>1 DEF EndBurn, Refuses
      <3>2. CASE MoveTo("PostIgnite") /\ Enter(t, "post_ignite") /\ stopped' = stopped
        <4>1. \A u \in Thread : pc'[u] = IF u = t THEN "post_ignite" ELSE pc[u]
          BY <3>2 DEF Enter, TypeOK
        <4> QED
          BY <1>1, <3>2, <4>1 DEF MoveTo, StopInv, StoppedIsUnderWay, PreIgniteOwned,
                                  UnderWay, IgnitionUnderWay
      <3> QED
        BY <2>4, <3>1, <3>2 DEF EndBurn, Transition
    <2>5. ASSUME Return(t), pc[t] # "pre_ignite" PROVE StopInv'
      <3>1. CASE Refuses("Standby")
        BY <1>2, <2>5, <3>1 DEF Return, Refuses
      <3>2. CASE MoveTo("Standby")
        <4>1. \A u \in Thread : pc'[u] = IF u = t THEN "free" ELSE pc[u]
          BY <2>5 DEF Return, End, Enter, TypeOK
        <4> QED
          BY <1>1, <2>5, <3>2, <4>1 DEF Return, End, MoveTo, StopInv, StoppedIsUnderWay,
                                        PreIgniteOwned, UnderWay
      <3> QED
        BY <2>5, <3>1, <3>2 DEF Return
    <2>6. CASE EndPostIgnite(t)
      BY <2>5, <2>6 DEF EndPostIgnite
    <2>7. CASE BeginEStop(t)
      <3>1. CASE Refuses("EStopping") /\ End(t)
        BY <1>2, <2>7, <3>1 DEF BeginEStop, Refuses
      <3>2. CASE /\ MoveTo("EStopping") /\ Enter(t, "shutoff")
                 /\ stopped' = stopped \cup {u \in Thread : pc[u] \in IgnitionUnderWay}
        <4>1. \A u \in Thread : pc'[u] = IF u = t THEN "shutoff" ELSE pc[u]
          BY <3>2 DEF Enter, TypeOK
        <4>2. pc[t] \notin IgnitionUnderWay
          BY <2>7 DEF BeginEStop, IgnitionUnderWay
        <4> QED
          BY <1>1, <3>2, <4>1, <4>2
             DEF MoveTo, StopInv, StoppedIsUnderWay, PreIgniteOwned, UnderWay
      <3> QED
        BY <2>7, <3>1, <3>2 DEF BeginEStop, Transition
    <2>8. CASE EStopAction(t)
      BY <1>3, <2>8 DEF EStopAction
    <2>9. CASE EndEStop(t)
      BY <2>5, <2>9 DEF EndEStop
    <2> QED
      BY <1>4, <2>1, <2>2, <2>3, <2>4, <2>6, <2>7, <2>8, <2>9 DEF Step
  <1>5. ASSUME NEW t \in Thread, Call(t) PROVE StopInv'
    <2>1. pc[t] = "free" /\ UNCHANGED <<state, stopped>> /\
          \A u \in Thread \ {t} : pc'[u] = pc[u]
      BY <1>5 DEF Call, CallIgnition, CallEStop, SensorEStop, Spawn, Enter, history, TypeOK
    <2> QED
      BY <1>1, <2>1, StopInvKept DEF IgnitionUnderWay
  <1>6. ASSUME NEW driver_id \in 0 .. NumDrivers + 1, NEW value \in BOOLEAN,
               UserActuate(driver_id, value)
        PROVE  StopInv'
    BY <1>6, StopInvKept DEF UserActuate
  <1>7. CASE UNCHANGED vars
    BY <1>7, StopInvKept DEF vars, exec_vars, history
  <1> QED
    BY <1>4, <1>5, <1>6, <1>7 DEF Next

LEMMA InitStop == Init => StopInv
  BY DEF Init, StopInv, StoppedIsUnderWay, PreIgniteOwned

\* Only the end of the pre-ignition delay leads from there to the burn, and only
\* from the state PreIgnite.
LEMMA BurnBegins ==
  ASSUME TypeOK, [Next]_vars, NEW t \in Thread, pc[t] = "pre_ignite", pc'[t] = "burn"
  PROVE  state = "PreIgnite"
  <1>1. ASSUME NEW u \in Thread, Call(u) PROVE FALSE
    BY <1>1 DEF Call, CallIgnition, CallEStop, SensorEStop, Spawn, Enter, TypeOK
  <1>2. ASSUME NEW u \in Thread, Step(u) PROVE state = "PreIgnite"
    <2>1. u # t => pc'[t] = pc[t]
      BY <1>2, PerformActionPhase
         DEF Step, BeginIgnition, EndPreIgnite, IgnitionAction, EndBurn, EndPostIgnite,
             BeginEStop, EStopAction, EndEStop, Transition, Return, End, Enter, TypeOK
    <2>2. Step(t)
      BY <1>2, <2>1
    <2>3. EndPreIgnite(t)
      BY <2>2 DEF Step, BeginIgnition, IgnitionAction, EndBurn, EndPostIgnite, BeginEStop,
                  EStopAction, EndEStop
    <2>4. ~ End(t)
      BY DEF End, Enter, TypeOK
    <2> QED
      BY <2>3, <2>4 DEF EndPreIgnite, Transition, MoveTo, ValidTransition
  <1>3. ASSUME NEW driver_id \in 0 .. NumDrivers + 1, NEW value \in BOOLEAN,
               UserActuate(driver_id, value)
        PROVE  FALSE
    BY <1>3 DEF UserActuate
  <1>4. CASE UNCHANGED vars
    BY <1>4 DEF vars, exec_vars
  <1> QED
    BY <1>1, <1>2, <1>3, <1>4 DEF Next

LEMMA StoppedBurns ==
  ASSUME TypeOK, StopInv, [Next]_vars, NEW t \in stopped,
         pc[t] = "pre_ignite", pc'[t] = "burn"
  PROVE  \E u \in Thread \ stopped : pc[u] = "pre_ignite"
  BY BurnBegins DEF TypeOK, StopInv, PreIgniteOwned

\* An ignition stopped during its pre-ignition delay begins to burn only by
\* taking the transition of a later ignition that waits there too.
THEOREM StopDuringPreIgnition == Spec => PreIgnitionStopHolds
  <1>1. TypeOK /\ StopInv /\ [Next]_vars
          => [\A t \in stopped :
                pc[t] = "pre_ignite" /\ pc'[t] = "burn"
                  => \E u \in Thread \ stopped : pc[u] = "pre_ignite"]_vars
    BY StoppedBurns
  <1> QED
    BY <1>1, InitStop, TypeCorrect, StopInvStep, PTL DEF Spec, PreIgnitionStopHolds

-----------------------------------------------------------------------------
(***************************************************************************)
(* Overlapping emergency stops settle.                                     *)
(***************************************************************************)

\* Whatever follows an actuation of d in the shutoff sequence, the sequence has
\* a last one: the actuation itself, or one after it.
LEMMA LastOrLater ==
  ASSUME NEW d, NEW i \in DOMAIN EStopSequence,
         EStopSequence[i].type = "Actuate", EStopSequence[i].driver_id = d
  PROVE  \/ IsLastActuate(i, d)
         \/ \E j \in i + 1 .. Len(EStopSequence) :
              EStopSequence[j].type = "Actuate" /\ EStopSequence[j].driver_id = d
  BY DEF IsLastActuate

\* A step that writes no line and ends no unfinished shutoff.
LEMMA SettledKept ==
  ASSUME TypeOK, SettledOrPending, level' = level, writer' = writer, aborted' = aborted,
         \A u \in Thread :
           pc[u] = "shutoff" /\ next_action[u] <= Len(EStopSequence)
             => pc'[u] = pc[u] /\ next_action'[u] = next_action[u]
  PROVE  SettledOrPending'
  <1> SUFFICES ASSUME ~ aborted, NEW d \in Driver, writer[d] = "estop",
                      NEW u \in Thread, Pending(u, d)
               PROVE  Pending(u, d)'
    BY DEF SettledOrPending, Settled
  <1>1. next_action[u] \in Nat /\ Len(EStopSequence) \in Nat
    BY SequencesAssumption DEF TypeOK, StepNumber, Length
  <1> QED
    BY <1>1 DEF Pending

\* A shutoff that writes a line for the last time leaves it settled; one that
\* will write it again is pending.
LEMMA ShutoffWrites ==
  ASSUME TypeOK, SettledOrPending, NEW t \in Thread, EStopAction(t)
  PROVE  SettledOrPending'
  <1> DEFINE action == EStopSequence[next_action[t]]
             n == next_action[t]
  <1>1. n \in DOMAIN EStopSequence /\ pc[t] = "shutoff" /\ Len(EStopSequence) \in Nat
    BY SequencesAssumption
       DEF EStopAction, PerformAction, TypeOK, StepNumber, Length
  <1>2. PerformSleep(t, action) \/ PerformActuate(t, action, "estop") \/ AbandonActuate(t, action)
    BY DEF EStopAction, PerformAction
  <1>3. \A u \in Thread \ {t}, d \in Driver : Advance(t) /\ Pending(u, d) => Pending(u, d)'
    BY DEF Advance, Pending, TypeOK
  <1>4. CASE AbandonActuate(t, action)
    BY <1>4 DEF AbandonActuate, SettledOrPending
  \* A driver that the action does not concern.
  <1>5. ASSUME NEW d \in Driver, Advance(t), ~ aborted, writer[d] = "estop",
               level'[d] = level[d],
               ~ (action.type = "Actuate" /\ action.driver_id = d)
        PROVE  Settled(d)' \/ \E u \in Thread : Pending(u, d)'
    <2>1. CASE Settled(d)
      BY <1>5, <2>1 DEF Settled
    <2>2. ASSUME Pending(t, d) PROVE Pending(t, d)'
      <3>1. PICK i \in n .. Len(EStopSequence) :
              EStopSequence[i].type = "Actuate" /\ EStopSequence[i].driver_id = d
        BY <2>2 DEF Pending
      <3>2. i # n
        BY <1>5, <3>1
      <3>3. i \in n + 1 .. Len(EStopSequence)
        BY <1>1, <3>1, <3>2
      <3>4. next_action'[t] = n + 1 /\ pc'[t] = "shutoff"
        BY <1>1, <1>5 DEF Advance, TypeOK
      <3> QED
        BY <3>1, <3>3, <3>4 DEF Pending
    <2>3. ASSUME NEW u \in Thread \ {t}, Pending(u, d) PROVE Pending(u, d)'
      BY <1>3, <1>5, <2>3
    <2>4. Settled(d) \/ \E u \in Thread : Pending(u, d)
      BY <1>5 DEF SettledOrPending
    <2> QED
      BY <2>1, <2>2, <2>3, <2>4
  <1>6. CASE PerformSleep(t, action)
    <2>1. /\ Advance(t) /\ UNCHANGED <<level, writer, aborted>>
          /\ action.type # "Actuate"
      BY <1>6 DEF PerformSleep
    <2> HIDE DEF action
    <2> QED
      BY <1>5, <2>1 DEF SettledOrPending
  <1>7. CASE PerformActuate(t, action, "estop")
    \* The action's driver and its place in the sequence, as constants: primed,
    \* action is the next one.
    <2>1. PICK e \in Driver, i \in DOMAIN EStopSequence :
            e = action.driver_id /\ i = n
      BY <1>1, <1>7 DEF PerformActuate
    <2>2. /\ Advance(t) /\ aborted' = aborted
          /\ EStopSequence[i].type = "Actuate" /\ EStopSequence[i].driver_id = e
          /\ level' = [level EXCEPT ![e] = EStopSequence[i].value]
          /\ writer' = [writer EXCEPT ![e] = "estop"]
      BY <1>7, <2>1 DEF PerformActuate, WriteLine
    <2>3. next_action'[t] = i + 1 /\ pc'[t] = "shutoff"
      BY <1>1, <2>1, <2>2 DEF Advance, TypeOK
    <2>4. Settled(e)' \/ Pending(t, e)'
      <3>1. CASE IsLastActuate(i, e)
        <4>1. level'[e] = EStopSequence[i].value
          BY <2>2 DEF TypeOK
        <4> QED
          BY <3>1, <4>1 DEF Settled, IsLastActuate
      <3>2. CASE \E j \in i + 1 .. Len(EStopSequence) :
                   EStopSequence[j].type = "Actuate" /\ EStopSequence[j].driver_id = e
        BY <2>3, <3>2 DEF Pending
      <3> QED
        BY <2>2, <3>1, <3>2, LastOrLater
    <2>5. \A d \in Driver \ {e} : /\ level'[d] = level[d] /\ writer'[d] = writer[d]
                                  /\ ~ (action.type = "Actuate" /\ action.driver_id = d)
      BY <2>1, <2>2 DEF TypeOK
    <2>6. ASSUME NEW d \in Driver \ {e}, ~ aborted, writer'[d] = "estop"
          PROVE  Settled(d)' \/ \E u \in Thread : Pending(u, d)'
      BY <1>5, <2>2, <2>5, <2>6
    <2> QED
      BY <2>2, <2>4, <2>6 DEF SettledOrPending
  <1> QED
    BY <1>2, <1>4, <1>6, <1>7

\* A line written by the user or by an ignition is nobody's concern here.
LEMMA OthersWrite ==
  ASSUME TypeOK, SettledOrPending, aborted' = aborted,
         NEW e \in Driver, NEW value, NEW who \in {"user", "ignition"},
         WriteLine(e, value, who),
         \A u \in Thread : pc'[u] = pc[u],
         \A u \in Thread : pc[u] = "shutoff" => next_action'[u] = next_action[u]
  PROVE  SettledOrPending'
  <1> SUFFICES ASSUME ~ aborted, NEW d \in Driver, writer'[d] = "estop"
               PROVE  Settled(d)' \/ \E u \in Thread : Pending(u, d)'
    BY DEF SettledOrPending
  <1>1. d # e /\ writer[d] = "estop" /\ level'[d] = level[d]
    BY DEF WriteLine, TypeOK
  <1>2. Settled(d) => Settled(d)'
    BY <1>1 DEF Settled
  <1>3. \A u \in Thread : Pending(u, d) => Pending(u, d)'
    BY DEF Pending
  <1> QED
    BY <1>1, <1>2, <1>3 DEF SettledOrPending

LEMMA SettledStep == TypeOK /\ SettledOrPending /\ [Next]_vars => SettledOrPending'
  <1> SUFFICES ASSUME TypeOK, SettledOrPending, [Next]_vars PROVE SettledOrPending'
    OBVIOUS
  <1>1. ASSUME NEW t \in Thread,
               pc[t] # "shutoff" \/ ~ (next_action[t] <= Len(EStopSequence)),
               UNCHANGED <<level, writer, aborted>>,
               \A u \in Thread \ {t} : pc'[u] = pc[u] /\ next_action'[u] = next_action[u]
        PROVE  SettledOrPending'
    BY <1>1, SettledKept
  <1>2. ASSUME NEW t \in Thread, NEW label, Enter(t, label)
        PROVE  \A u \in Thread \ {t} : pc'[u] = pc[u] /\ next_action'[u] = next_action[u]
    BY <1>2 DEF Enter, TypeOK
  <1>3. ASSUME NEW t \in Thread, Step(t) PROVE SettledOrPending'
    <2>1. CASE BeginIgnition(t)
      BY <1>1, <1>2, <2>1 DEF BeginIgnition, Transition, End
    <2>2. CASE EndPreIgnite(t)
      BY <1>1, <1>2, <2>2 DEF EndPreIgnite, Transition, End
    <2>3. CASE IgnitionAction(t)
      <3> DEFINE action == IgnitionSequence[next_action[t]]
      <3>1. /\ pc[t] = "burn"
            /\ \/ PerformSleep(t, action)
               \/ PerformActuate(t, action, "ignition")
               \/ AbandonActuate(t, action)
        BY <2>3 DEF IgnitionAction, PerformAction
      <3> HIDE DEF action
      <3>2. CASE PerformSleep(t, action)
        BY <1>1, <3>1, <3>2 DEF PerformSleep, Advance, TypeOK
      <3>3. CASE PerformActuate(t, action, "ignition")
        BY <3>1, <3>3, OthersWrite DEF PerformActuate, Advance, TypeOK
      <3>4. CASE AbandonActuate(t, action)
        BY <3>4 DEF AbandonActuate, SettledOrPending
      <3> QED
        BY <3>1, <3>2, <3>3, <3>4
    <2>4. CASE EndBurn(t)
      BY <1>1, <1>2, <2>4 DEF EndBurn, Transition, End
    <2>5. CASE EndPostIgnite(t)
      BY <1>1, <1>2, <2>5 DEF EndPostIgnite, Return, End
    <2>6. CASE BeginEStop(t)
      BY <1>1, <1>2, <2>6 DEF BeginEStop, Transition, End
    <2>7. CASE EStopAction(t)
      BY <2>7, ShutoffWrites
    <2>8. CASE EndEStop(t)
      <3>1. ~ (next_action[t] <= Len(EStopSequence))
        BY <2>8, SequencesAssumption DEF EndEStop, TypeOK, StepNumber, Length
      <3> QED
        BY <1>1, <1>2, <2>8, <3>1 DEF EndEStop, Return, End
    <2> QED
      BY <1>3, <2>1, <2>2, <2>3, <2>4, <2>5, <2>6, <2>7, <2>8 DEF Step
  <1>4. ASSUME NEW t \in Thread, Call(t) PROVE SettledOrPending'
    BY <1>1, <1>2, <1>4 DEF Call, CallIgnition, CallEStop, SensorEStop, Spawn, history
  <1>5. ASSUME NEW driver_id \in 0 .. NumDrivers + 1, NEW value \in BOOLEAN,
               UserActuate(driver_id, value)
        PROVE  SettledOrPending'
    <2>1. UNCHANGED <<pc, next_action, aborted>>
      BY <1>5 DEF UserActuate
    <2>2. CASE driver_id \in Driver /\ WriteLine(driver_id, value, "user")
      BY <2>1, <2>2, OthersWrite
    <2>3. CASE UNCHANGED <<level, writer>>
      BY <2>1, <2>3, SettledKept
    <2> QED
      BY <1>5, <2>2, <2>3 DEF UserActuate
  <1>6. CASE UNCHANGED vars
    BY <1>6, SettledKept DEF vars, exec_vars, history
  <1> QED
    BY <1>3, <1>4, <1>5, <1>6 DEF Next

LEMMA InitSettled == Init => SettledOrPending
  BY DEF Init, SettledOrPending

LEMMA SettledHolds == SettledOrPending => EStopSettles
  BY DEF SettledOrPending, EStopSettles, Settled, Pending

\* Once no emergency stop is at work, and none was abandoned, every line last
\* written by one has the level its sequence ends with, however many overlapped.
THEOREM EmergencyStopsSettle == Spec => []EStopSettles
  BY InitSettled, SettledHolds, TypeCorrect, SettledStep, PTL DEF Spec

=============================================================================

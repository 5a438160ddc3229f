---------------------------- MODULE MCExecution ----------------------------
(***************************************************************************)
(* Small instances of Execution for TLC.                                   *)
(***************************************************************************)
EXTENDS Execution, TLC

Set(d, v) == [type |-> "Actuate", driver_id |-> d, value |-> v]
Sleep     == [type |-> "Sleep"]

\* As in the shipped configurations: open, burn for a while, close.
MCIgnition == <<Set(0, TRUE), Sleep, Set(0, FALSE)>>

\* Driver 0 is set twice, so that a half-run shutoff leaves the wrong level.
MCEStop == <<Set(0, TRUE), Set(0, FALSE)>>

Threads == Permutations(Thread)
=============================================================================

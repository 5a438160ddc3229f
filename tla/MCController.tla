---------------------------- MODULE MCController ----------------------------
(***************************************************************************)
(* Small instances of Controller for TLC.                                  *)
(***************************************************************************)
EXTENDS Controller

Set(d, v) == [type |-> "Actuate", driver_id |-> d, value |-> v]

\* What Configuration::parse lets through: driver_id = drivers.len() = 1.
MCIgnition == <<Set(1, FALSE)>>

MCEStop == <<Set(0, FALSE)>>
=============================================================================

---------------------------- MODULE MCOutgoing ----------------------------
(***************************************************************************)
(* Small instances of Outgoing for TLC.                                    *)
(***************************************************************************)
EXTENDS Outgoing
=============================================================================

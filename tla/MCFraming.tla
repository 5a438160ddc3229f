----------------------------- MODULE MCFraming -----------------------------
(***************************************************************************)
(* Framing over every short stream of bytes.                               *)
(***************************************************************************)
EXTENDS Framing
=============================================================================

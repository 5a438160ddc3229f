------------------------------- MODULE MCSpi -------------------------------
(***************************************************************************)
(* Small instances of Spi for TLC.                                         *)
(***************************************************************************)
EXTENDS Spi, TLC

Adcs == Permutations(Adc)
=============================================================================

------------------------------- MODULE MCButtons -------------------------------
(***************************************************************************)
(* A small instance of Buttons: a period that does not divide the ticks,   *)
(* and samples on both sides of a range.                                   *)
(***************************************************************************)
EXTENDS Buttons

mcSamples == {32, 33, 222}
==============================================================================

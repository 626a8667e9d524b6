------------------------------ MODULE MCOsccal ------------------------------
(***************************************************************************)
(* OSCCAL of four bits.  The frame lengths start at a base, rise by a      *)
(* slope, and the upper half lies an offset higher: some oscillators meet  *)
(* the target in the lower half, some in the upper, some in both, some are *)
(* too fast or too slow for it, and some meet it with the last values.     *)
(***************************************************************************)
EXTENDS Osccal

mcHalf == 8
mcCurves ==
  {[v \in 0 .. 15 |-> base + slope * (v % 8) + IF v < 8 THEN 0 ELSE offset] :
     base \in {28 + 3 * b : b \in 0 .. 12}, slope \in {2, 5}, offset \in {5, 12}}
=============================================================================

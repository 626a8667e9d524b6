------------------------------- MODULE MCFls -------------------------------
(***************************************************************************)
(* A small instance of Fls: two pages of three bytes, and a value of its   *)
(* own for each address and each write, so that a byte in the wrong place  *)
(* is noticed, and a write that stored less than it was given.  The writes *)
(* cross into the second page, fill it, change one byte of it, and do      *)
(* nothing.                                                                *)
(***************************************************************************)
EXTENDS Fls

mcFlash0 == [a \in 0 .. 5 |-> 10 + a]
mcWrites ==
  {[start |-> w[1], size |-> w[2],
    bytes |-> [j \in 0 .. w[2] - 1 |-> 30 * w[2] + w[1] + j]] :
     w \in {<<1, 3>>, <<3, 3>>, <<4, 1>>, <<2, 0>>}}
==============================================================================

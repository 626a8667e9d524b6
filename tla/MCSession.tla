------------------------------ MODULE MCSession ------------------------------
(***************************************************************************)
(* A small instance of Session: PINs of two digits out of three, the       *)
(* retries of the device, a hash of two bytes in an EEPROM of four.        *)
(***************************************************************************)
EXTENDS Session

mcHash == [p \in [0 .. 1 -> 0 .. 2] |-> [i \in 0 .. 1 |-> 10 * i + p[i] + p[0]]]
mcDefaultHash == mcHash[[i \in 0 .. 1 |-> 0]]

Memory(x, y) == [a \in 0 .. 3 |-> IF a = 1 THEN x ELSE IF a = 2 THEN y ELSE 7]
mcEeprom0 == Memory(mcDefaultHash[0], mcDefaultHash[1])

(* The hash of PIN 01, whole and half written over the default.            *)
New == mcHash[[i \in 0 .. 1 |-> i]]
mcMemories == {Memory(New[0], New[1]), Memory(9, mcDefaultHash[1])}
==============================================================================

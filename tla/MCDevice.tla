------------------------------- MODULE MCDevice -------------------------------
(***************************************************************************)
(* A small instance of Device: PINs of one digit out of three (0 default,  *)
(* 1 the host's, 2 the one that erases), a hash of two packets, and one    *)
(* credential write of two bytes.                                          *)
(***************************************************************************)
EXTENDS Device

Two(a, b) == [i \in 0 .. 1 |-> IF i = 0 THEN a ELSE b]
Pkt(a, b, off, len, type) ==
  [bytes |-> Two(a, b), offset |-> off, length |-> len, type |-> type]

mcDefaultHash == [i \in 0 .. 3 |-> 9]
NewHash == [i \in 0 .. 3 |-> IF i % 2 = 0 THEN 4 ELSE IF i = 1 THEN 1 ELSE 9]
mcHash == [p \in [{0} -> 0 .. 2] |->
             CASE p[0] = 0 -> mcDefaultHash
               [] p[0] = 1 -> NewHash
               [] OTHER    -> [i \in 0 .. 3 |-> 8]]

SetPin == Pkt(7, 0, 0, 0, 0)
Half1 == Pkt(4, 1, 0, 0, 0)
Half2 == Pkt(4, 9, 0, 0, 0)
KeyTable == Pkt(9, 0, 0, 0, 0)
Write == Pkt(3, 5, 1, 2, 0)

mcPinPackets == {SetPin, Half1, Half2, KeyTable}
mcWritePackets == {Write, Half1}
mcInfoData == [i \in {1} |-> 77]
mcRamBlocks == {}
mcFlash0 == [a \in 0 .. 11 |-> 255]
mcEeprom0 == [a \in 0 .. 11 |-> IF a \in 0 .. 3 THEN 9 ELSE 20]
==============================================================================

-------------------------------- MODULE MCUcp --------------------------------
(***************************************************************************)
(* Small instances of Ucp: packets of two bytes, pages of four, sixteen    *)
(* addresses.  Credentials start at address 1, so flash pages, offsets and *)
(* packets are never aligned with each other.                              *)
(***************************************************************************)
EXTENDS Ucp

Two(a, b) == [i \in 0 .. 1 |-> IF i = 0 THEN a ELSE b]
Pkt(a, b, off, len, type) ==
  [bytes |-> Two(a, b), offset |-> off, length |-> len, type |-> type]

mcDefaultHash == [i \in 0 .. 3 |-> 40 + i]
mcInfoData == [i \in {1} |-> 77]
mcFlash0 == [a \in 0 .. 15 |-> 200 + a]
mcEeprom0 == [a \in 0 .. 15 |-> IF a \in 2 .. 5 THEN 38 + a ELSE 20]
mcRamBlocks == {Two(0, 99)}

Write5 == Pkt(3, 11, 2, 5, 0)   \* crosses a page of offsets, ends inside a packet
Write3 == Pkt(3, 12, 3, 3, 0)   \* first byte fills the page
WriteWrap == Pkt(3, 12, 15, 3, 0) \* the range wraps
ReadFlash == Pkt(2, 0, 2, 5, 0)
ReadRam == Pkt(2, 1, 2, 3, 1)
ReadNothing == Pkt(2, 3, 2, 0, 0)
SetPin == Pkt(7, 0, 0, 0, 0)
ReadPin == Pkt(8, 0, 0, 0, 0)
Keyboard == Pkt(9, 0, 0, 0, 0)
Info == Pkt(5, 0, 0, 0, 0)

mcFlashPackets == {Write5, Write3, WriteWrap}
mcPendingPackets == {Pkt(3, 11, 3, 6, 0), Pkt(2, 0, 0, 4, 0)}  \* refute PendingFits
mcCommandPackets == {SetPin, ReadPin, Keyboard, ReadFlash, ReadRam, ReadNothing,
                     WriteWrap, Info}

------------------------------------------------------------------------------
(* The loop of UCP_WriteTask, byte by byte, as ucp.c:221-242 writes it.    *)
RECURSIVE Loop(_, _)
Loop(i, s) ==
  IF i = PacketSize THEN s
  ELSE LET buff == [j \in 0 .. s.index |->
                      IF j = s.index THEN customReport[i] ELSE s.buff[j]]
           off == Wrap(s.off + 1)
           put == [s EXCEPT !.buff = buff, !.index = @ + 1, !.off = off]
           out == [put EXCEPT !.flash = Store(s.flash, s.addr, buff, put.index),
                              !.addr = Wrap(@ + put.index),
                              !.buff = Empty, !.index = 0]
       IN IF off >= readEnd THEN [out EXCEPT !.state = "IDLE"]
          ELSE IF off % PageSize = 0 THEN Loop(i + 1, out)
          ELSE Loop(i + 1, put)

Before == [buff |-> tempBuff, index |-> buffIndex, off |-> readOffset,
           flash |-> flash, addr |-> flashWriteAddr, state |-> UCP_state]

(* UCP_WriteTask does what its loop does, also for the stale offsets and   *)
(* buffers an interrupted transfer leaves behind.                          *)
WriteTaskIsTheLoop ==
  [][UCP_WriteTask => Before' = Loop(0, Before)]_vars
==============================================================================

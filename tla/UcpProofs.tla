------------------------------ MODULE UcpProofs ------------------------------
(***************************************************************************)
(* Proofs about the USB protocol: the operators it is built from; that     *)
(* every variable keeps its type; the transfer invariant, and from it that *)
(* a transfer the device ended moved its bytes exactly, that nothing       *)
(* outside its range was written, and that the page buffer holds what is   *)
(* kept in it.                                                             *)
(***************************************************************************)
EXTENDS Ucp, TLAPS

------------------------------------------------------------------------------
(* The helpers.                                                            *)

LEMMA Sizes ==
  /\ PacketSize \in Nat /\ PacketSize >= 2 /\ PacketSize < AddrSpace
  /\ AddrSpace \in Nat /\ PageSize \in Nat \ {0}
  /\ CredBase \in Nat /\ CredBase < AddrSpace
  /\ LockHash \in Nat /\ HashSize \in Nat /\ HashSize > 0
  /\ KeyboardLUT \in Nat /\ KeyboardSize \in Nat /\ KeyboardSize > 0
  /\ LockHash + HashSize + PacketSize < AddrSpace
  /\ KeyboardLUT + KeyboardSize + PacketSize < AddrSpace
BY SizesAssumption DEF Addr

LEMMA WrapType ==
  ASSUME NEW x \in Nat
  PROVE  /\ Wrap(x) \in Addr
         /\ x < AddrSpace => Wrap(x) = x
         /\ AddrSpace <= x /\ x < 2 * AddrSpace => Wrap(x) = x - AddrSpace
BY Sizes DEF Wrap, Addr

LEMMA DistanceType ==
  ASSUME NEW a \in Addr, NEW x \in Addr
  PROVE  Distance(a, x) \in Addr
BY Sizes, WrapType DEF Distance, Addr

LEMMA BlockType ==
  ASSUME NEW mem \in [Addr -> Byte], NEW a \in Addr
  PROVE  Block(mem, a) \in [Index -> Byte]
BY Sizes, WrapType DEF Block, Addr, Index

(* A store keeps a memory a memory.                                        *)
LEMMA StoreType ==
  ASSUME NEW mem \in [Addr -> Byte], NEW a \in Addr, NEW m \in Nat,
         NEW s \in [0 .. m - 1 -> Byte]
  PROVE  Store(mem, a, s, m) \in [Addr -> Byte]
<1>1. ASSUME NEW x \in Addr, Distance(a, x) < m
      PROVE  s[Distance(a, x)] \in Byte
  <2>1. Distance(a, x) \in 0 .. m - 1
    BY <1>1, DistanceType DEF Addr
  <2> QED BY <2>1
<1> QED BY <1>1 DEF Store

(* A store that does not wrap changes the bytes from a on, to s.           *)
LEMMA StoreValue ==
  ASSUME NEW mem \in [Addr -> Byte], NEW a \in Addr, NEW m \in Nat,
         NEW s, a + m <= AddrSpace, NEW x \in Addr
  PROVE  /\ a <= x /\ x < a + m => Store(mem, a, s, m)[x] = s[x - a]
         /\ ~(a <= x /\ x < a + m) => Store(mem, a, s, m)[x] = mem[x]
<1>1. Store(mem, a, s, m)[x] =
        IF Distance(a, x) < m THEN s[Distance(a, x)] ELSE mem[x]
  BY DEF Store
<1>2. CASE a <= x
  <2>1. Distance(a, x) = x - a
    BY <1>2, Sizes, WrapType DEF Distance, Addr
  <2> QED BY <1>1, <1>2, <2>1, Sizes DEF Addr
<1>3. CASE x < a
  <2>1. Distance(a, x) = x + AddrSpace - a
    BY <1>3, Sizes, WrapType DEF Distance, Addr
  <2>2. ~(Distance(a, x) < m)
    BY <2>1, <1>3, Sizes DEF Addr
  <2> QED BY <1>1, <1>3, <2>2, Sizes DEF Addr
<1> QED BY <1>2, <1>3 DEF Addr

LEMMA ErrorReportType ==
  ASSUME NEW bytes \in [Index -> Byte], NEW code \in Byte
  PROVE  ErrorReport(bytes, code) \in [Index -> Byte]
<1>1. UCP_CMD_ERROR \in Byte
  BY DEF UCP_CMD_ERROR, Byte
<1>2. [bytes EXCEPT ![0] = UCP_CMD_ERROR] \in [Index -> Byte]
  BY <1>1
<1> QED BY <1>2 DEF ErrorReport

LEMMA BlankType == Blank \in [Index -> Byte]
BY DEF Blank, Byte

LEMMA EmptyType == Empty \in [0 .. -1 -> Byte]
BY DEF Empty

------------------------------------------------------------------------------
(* The history keeps its type.                                             *)

HistoryOK(x) ==
  /\ x \in [op : {"none", "read", "write"}, mem : {"flash", "eeprom", "ram"},
            start : Nat, len : Nat, n : Nat, bytes : {x.bytes},
            sent : [Index -> Byte], quiet : BOOLEAN, intact : BOOLEAN,
            rejected : BOOLEAN, done : BOOLEAN]
  /\ x.bytes \in [0 .. x.n - 1 -> Byte]

LEMMA LostType == HistoryOK(NoTransfer) /\ HistoryOK(Lost)
<1>1. HistoryOK(NoTransfer)
  BY BlankType, EmptyType DEF HistoryOK, NoTransfer
<1>2. HistoryOK([NoTransfer EXCEPT !.intact = FALSE])
  BY <1>1 DEF HistoryOK
<1>3. Lost = [[NoTransfer EXCEPT !.intact = FALSE] EXCEPT !.done = FALSE]
  BY DEF Lost, NoTransfer
<1> QED BY <1>1, <1>2, <1>3 DEF HistoryOK

LEMMA InterruptedType ==
  ASSUME HistoryOK(xfer)
  PROVE  HistoryOK(Interrupted)
BY LostType DEF Interrupted

LEMMA EndedType ==
  ASSUME NEW x, HistoryOK(x)
  PROVE  HistoryOK(Ended(x))
BY DEF HistoryOK, Ended

LEMMA BeginType ==
  ASSUME NEW op \in {"read", "write"}, NEW mem \in {"flash", "eeprom", "ram"},
         NEW start \in Nat, NEW len \in Nat
  PROVE  HistoryOK(Begin(op, mem, start, len))
BY LostType, BlankType, EmptyType DEF HistoryOK, Begin

LEMMA ShareType ==
  ASSUME HistoryOK(xfer)
  PROVE  Share \in 0 .. PacketSize
BY Sizes DEF HistoryOK, Share

LEMMA JoinedType ==
  ASSUME HistoryOK(xfer), NEW s \in [Index -> Byte], NEW k \in 0 .. PacketSize
  PROVE  Joined(s, k) \in [0 .. xfer.n + k - 1 -> Byte]
<1>1. xfer.n \in Nat /\ xfer.bytes \in [0 .. xfer.n - 1 -> Byte]
  BY DEF HistoryOK
<1>2. ASSUME NEW j \in 0 .. xfer.n + k - 1, ~(j < xfer.n)
      PROVE  j - xfer.n \in Index
  BY <1>1, <1>2, Sizes DEF Index
<1> QED BY <1>1, <1>2 DEF Joined

LEMMA MovedType ==
  ASSUME HistoryOK(xfer), NEW s \in [Index -> Byte], NEW k \in 0 .. PacketSize
  PROVE  HistoryOK(Moved(s, k))
<1>1. CASE ~xfer.intact
  BY <1>1 DEF Moved
<1>2. CASE xfer.intact
  <2> DEFINE b == Joined(s, k)
             y == [xfer EXCEPT !.bytes = b]
  <2>1. Moved(s, k) = [y EXCEPT !.n = @ + k]
    BY <1>2 DEF Moved
  <2>2. b \in [0 .. xfer.n + k - 1 -> Byte]
    BY JoinedType
  <2> HIDE DEF b
  <2>3. /\ y \in [op : {"none", "read", "write"}, mem : {"flash", "eeprom", "ram"},
                  start : Nat, len : Nat, n : Nat, bytes : {b},
                  sent : [Index -> Byte], quiet : BOOLEAN, intact : BOOLEAN,
                  rejected : BOOLEAN, done : BOOLEAN]
        /\ y.bytes = b /\ y.n = xfer.n /\ xfer.n \in Nat
    BY DEF HistoryOK
  <2> HIDE DEF y
  <2> DEFINE z == [y EXCEPT !.n = @ + k]
  <2>4. /\ z \in [op : {"none", "read", "write"}, mem : {"flash", "eeprom", "ram"},
                  start : Nat, len : Nat, n : Nat, bytes : {b},
                  sent : [Index -> Byte], quiet : BOOLEAN, intact : BOOLEAN,
                  rejected : BOOLEAN, done : BOOLEAN]
        /\ z.bytes = b /\ z.n = xfer.n + k
    BY <2>3, Sizes
  <2> HIDE DEF z
  <2>5. HistoryOK(z)
    BY <2>2, <2>4 DEF HistoryOK
  <2> QED BY <2>1, <2>5 DEF z
<1> QED BY <1>1, <1>2

LEMMA PacketType ==
  ASSUME NEW p \in Packets
  PROVE  /\ p.bytes \in [Index -> Byte]
         /\ p.offset \in Addr /\ p.length \in Addr /\ p.type \in Byte
BY DataAssumption DEF Packet

LEMMA Codes ==
  /\ UCP_ERR_SIZE \in Byte /\ UCP_ERR_LOCKED \in Byte
  /\ UCP_ERR_PROTOCOL \in Byte /\ UCP_ERR_CMD \in Byte
BY DEF UCP_ERR_SIZE, UCP_ERR_LOCKED, UCP_ERR_PROTOCOL, UCP_ERR_CMD, Byte

------------------------------------------------------------------------------
(* Types.                                                                  *)

MachineOK ==
  /\ UCP_state \in UcpStates
  /\ customReport \in [Index -> Byte]
  /\ readOffset \in Addr /\ readEnd \in Addr /\ readType \in Byte
  /\ usbWrite \in {0, 1} /\ usbWriteAccepted \in {0, 1}
  /\ lockAfterSetPin \in {0, 1}
  /\ buffIndex \in Nat
  /\ tempBuff \in [0 .. buffIndex - 1 -> Byte]
  /\ flashWriteAddr \in Addr
  /\ flash \in [Addr -> Byte] /\ eeprom \in [Addr -> Byte]

LEMMA TypeParts == TypeOK <=> MachineOK /\ HistoryOK(xfer)
BY DEF TypeOK, MachineOK, HistoryOK, TransferType

LEMMA DecodeType ==
  ASSUME TypeOK, NEW p \in Packets, UCP_Decode(p)
  PROVE  TypeOK'
<1> USE DEF range, flags, buffer, memory
<1>1. MachineOK /\ HistoryOK(xfer)
  BY TypeParts
<1>2. SUFFICES MachineOK' /\ HistoryOK(xfer')
  BY DEF TypeOK, MachineOK, HistoryOK, TransferType
<1>3. CASE DecodeWrongSize(p)
  BY <1>1, <1>3, PacketType, Codes, ErrorReportType
     DEF DecodeWrongSize, MachineOK, HistoryOK
<1>4. CASE DecodeLocked(p)
  BY <1>1, <1>4, PacketType, Codes, ErrorReportType DEF DecodeLocked, MachineOK
<1>5. CASE DecodeWriteData(p)
  BY <1>1, <1>5, PacketType DEF DecodeWriteData, MachineOK, HistoryOK
<1>6. CASE DecodeWriteAbort(p)
  BY <1>1, <1>6, PacketType, Codes, ErrorReportType, InterruptedType
     DEF DecodeWriteAbort, MachineOK, UcpStates
<1>7. CASE DecodeEepromData(p)
  <2>1. Store(eeprom, readOffset, p.bytes, PacketSize) \in [Addr -> Byte]
    BY <1>1, PacketType, StoreType, Sizes DEF MachineOK, Index
  <2>2. Wrap(readOffset + PacketSize) \in Addr
    BY <1>1, WrapType, Sizes DEF MachineOK, Addr
  <2>3. HistoryOK(Moved(p.bytes, PacketSize))
    BY <1>1, MovedType, PacketType, Sizes
  <2>4. HistoryOK(Ended(Moved(p.bytes, PacketSize)))
    BY <2>3, EndedType
  <2> QED BY <1>1, <1>7, <2>1, <2>2, <2>3, <2>4, PacketType
             DEF DecodeEepromData, MachineOK, UcpStates
<1>8. CASE DecodeEepromAbort(p)
  BY <1>1, <1>8, PacketType, Codes, ErrorReportType, InterruptedType
     DEF DecodeEepromAbort, MachineOK, UcpStates
<1>9. CASE DecodeRead(p)
  <2>1. /\ HistoryOK(Begin("read", "flash", CredBase + p.offset, p.length))
        /\ HistoryOK(Begin("read", "ram", p.offset, p.length))
        /\ HistoryOK(Begin("read", "eeprom", p.offset, p.length))
    BY PacketType, BeginType, Sizes DEF Addr
  <2>2. Wrap(p.offset + p.length) \in Addr
    BY PacketType, WrapType, Sizes DEF Addr
  <2>3. HistoryOK(xfer')
    BY <1>9, <2>1 DEF DecodeRead
  <2>4. MachineOK'
    BY <1>1, <1>9, <2>2, PacketType DEF DecodeRead, MachineOK, UcpStates
  <2> QED BY <2>3, <2>4
<1>10. CASE DecodeWrite(p)
  <2>1. HistoryOK(Begin("write", "flash", CredBase + p.offset, p.length))
    BY PacketType, BeginType, Sizes DEF Addr
  <2>2. Wrap(p.offset + p.length) \in Addr /\ Wrap(CredBase + p.offset) \in Addr
    BY PacketType, WrapType, Sizes DEF Addr
  <2>3. HistoryOK(xfer')
    BY <1>10, <2>1 DEF DecodeWrite
  <2>4. MachineOK'
    BY <1>1, <1>10, <2>2, PacketType, EmptyType DEF DecodeWrite, MachineOK, UcpStates
  <2> QED BY <2>3, <2>4
<1>11. CASE DecodeNotIdle(p)
  BY <1>1, <1>11, PacketType, Codes, ErrorReportType, InterruptedType
     DEF DecodeNotIdle, MachineOK, UcpStates
<1>12. CASE DecodeSetPin(p)
  <2>1. HistoryOK(Begin("write", "eeprom", LockHash, HashSize))
    BY BeginType, Sizes
  <2>2. LockHash \in Addr /\ LockHash + HashSize \in Addr
    BY Sizes DEF Addr
  <2> QED BY <1>1, <1>12, <2>1, <2>2, PacketType DEF DecodeSetPin, MachineOK, UcpStates
<1>13. CASE DecodeReadPin(p)
  <2>1. HistoryOK(Begin("read", "eeprom", LockHash, HashSize))
    BY BeginType, Sizes
  <2>2. LockHash \in Addr /\ LockHash + HashSize \in Addr /\ 2 \in Byte
    BY Sizes DEF Addr, Byte
  <2> QED BY <1>1, <1>13, <2>1, <2>2, PacketType DEF DecodeReadPin, MachineOK, UcpStates
<1>14. CASE DecodeKeyboard(p)
  <2>1. HistoryOK(Begin("write", "eeprom", KeyboardLUT, KeyboardSize))
    BY BeginType, Sizes
  <2>2. KeyboardLUT \in Addr /\ KeyboardLUT + KeyboardSize \in Addr
    BY Sizes DEF Addr
  <2> QED BY <1>1, <1>14, <2>1, <2>2, PacketType DEF DecodeKeyboard, MachineOK, UcpStates
<1>15. CASE DecodeAnswer(p)
  <2>1. [i \in Index |-> IF i = 0 THEN p.bytes[0] ELSE InfoData[i]] \in [Index -> Byte]
    BY PacketType, DataAssumption, Sizes DEF Index
  <2>2. customReport' \in [Index -> Byte]
    BY <1>15, <2>1, PacketType, Codes, ErrorReportType DEF DecodeAnswer
  <2> QED BY <1>1, <1>15, <2>2 DEF DecodeAnswer, MachineOK
<1> QED BY <1>3, <1>4, <1>5, <1>6, <1>7, <1>8, <1>9, <1>10, <1>11, <1>12, <1>13,
           <1>14, <1>15 DEF UCP_Decode

LEMMA TaskType ==
  ASSUME TypeOK, UCP_Task
  PROVE  TypeOK'
<1> USE DEF range, flags, buffer, memory
<1>1. MachineOK /\ HistoryOK(xfer)
  BY TypeParts
<1>2. SUFFICES MachineOK' /\ HistoryOK(xfer')
  BY DEF TypeOK, MachineOK, HistoryOK, TransferType
<1>3. CASE TaskReadCmd
  BY <1>1, <1>3 DEF TaskReadCmd, MachineOK, UcpStates
<1>4. CASE TaskRead
  <2>1. customReport' \in [Index -> Byte]
    <3>1. Wrap(CredBase + readOffset) \in Addr
      BY <1>1, WrapType, Sizes DEF MachineOK, Addr
    <3>2. /\ Block(flash, Wrap(CredBase + readOffset)) \in [Index -> Byte]
          /\ Block(eeprom, readOffset) \in [Index -> Byte]
      BY <1>1, <3>1, BlockType DEF MachineOK
    <3> QED BY <1>4, <3>2, DataAssumption DEF TaskRead, ReadBlocks
  <2>2. Wrap(readOffset + PacketSize) \in Addr
    BY <1>1, WrapType, Sizes DEF MachineOK, Addr
  <2>3. HistoryOK(Moved(customReport', Share))
    BY <1>1, <2>1, MovedType, ShareType
  <2>4. HistoryOK(Ended(Moved(customReport', Share)))
    BY <2>3, EndedType
  <2>5. HistoryOK(xfer')
    BY <1>4, <2>3, <2>4 DEF TaskRead
  <2>6. UCP_state' \in UcpStates
    BY <1>1, <1>4 DEF TaskRead, MachineOK, UcpStates
  <2>7. MachineOK'
    BY <1>1, <1>4, <2>1, <2>2, <2>6 DEF TaskRead, MachineOK
  <2> QED BY <2>5, <2>7
<1>5. CASE TaskReadEmpty
  BY <1>1, <1>5, Codes, ErrorReportType, InterruptedType
     DEF TaskReadEmpty, MachineOK, UcpStates
<1>6. CASE TaskWrite
  <2>1. HistoryOK(xfer')
    BY <1>1, <1>6, MovedType, ShareType DEF TaskWrite, HistoryOK
  <2> QED BY <1>1, <1>6, <2>1 DEF TaskWrite, MachineOK
<1> QED BY <1>3, <1>4, <1>5, <1>6 DEF UCP_Task

LEMMA PendingType ==
  ASSUME MachineOK, NEW j \in 0 .. buffIndex + PacketSize - 1
  PROVE  Pending(j) \in Byte
<1>1. CASE j < buffIndex
  BY <1>1 DEF Pending, MachineOK
<1>2. CASE ~(j < buffIndex)
  <2>1. j - buffIndex \in Index
    BY <1>2, Sizes DEF MachineOK, Index
  <2> QED BY <1>2, <2>1 DEF Pending, MachineOK
<1> QED BY <1>1, <1>2

LEMMA WriteTaskType ==
  ASSUME TypeOK, UCP_WriteTask
  PROVE  TypeOK'
<1>1. MachineOK /\ HistoryOK(xfer)
  BY TypeParts
<1>2. SUFFICES MachineOK' /\ HistoryOK(xfer')
  BY DEF TypeOK, MachineOK, HistoryOK, TransferType
<1>3. PICK c \in 1 .. PacketSize : \E f \in 0 .. c :
        /\ LET m == IF f = 0 THEN 0 ELSE buffIndex + f IN
             /\ flash' = Store(flash, flashWriteAddr,
                               [j \in 0 .. m - 1 |-> Pending(j)], m)
             /\ flashWriteAddr' = Wrap(flashWriteAddr + m)
             /\ buffIndex' = buffIndex + c - m
             /\ tempBuff' = [j \in 0 .. buffIndex + c - m - 1 |-> Pending(j + m)]
        /\ readOffset' = Wrap(readOffset + c)
        /\ UCP_state' \in {"IDLE", UCP_state}
        /\ xfer' \in {Stored(TRUE), Stored(FALSE)}
  BY DEF UCP_WriteTask
<1>4. PICK f \in 0 .. c :
        /\ LET m == IF f = 0 THEN 0 ELSE buffIndex + f IN
             /\ flash' = Store(flash, flashWriteAddr,
                               [j \in 0 .. m - 1 |-> Pending(j)], m)
             /\ flashWriteAddr' = Wrap(flashWriteAddr + m)
             /\ buffIndex' = buffIndex + c - m
             /\ tempBuff' = [j \in 0 .. buffIndex + c - m - 1 |-> Pending(j + m)]
        /\ readOffset' = Wrap(readOffset + c)
        /\ UCP_state' \in {"IDLE", UCP_state}
        /\ xfer' \in {Stored(TRUE), Stored(FALSE)}
  BY <1>3
<1> DEFINE m == IF f = 0 THEN 0 ELSE buffIndex + f
<1>5. /\ flash' = Store(flash, flashWriteAddr, [j \in 0 .. m - 1 |-> Pending(j)], m)
      /\ flashWriteAddr' = Wrap(flashWriteAddr + m)
      /\ buffIndex' = buffIndex + c - m
      /\ tempBuff' = [j \in 0 .. buffIndex + c - m - 1 |-> Pending(j + m)]
  BY <1>4
<1>6. m \in 0 .. buffIndex + c /\ buffIndex \in Nat
  BY <1>1 DEF MachineOK
<1> HIDE DEF m
<1>7. [j \in 0 .. m - 1 |-> Pending(j)] \in [0 .. m - 1 -> Byte]
  <2>1. \A j \in 0 .. m - 1 : j \in 0 .. buffIndex + PacketSize - 1
    BY <1>6, Sizes
  <2>2. \A j \in 0 .. m - 1 : Pending(j) \in Byte
    BY <1>1, <2>1, PendingType
  <2> QED BY <2>2
<1>8. flash' \in [Addr -> Byte]
  <2> DEFINE s == [j \in 0 .. m - 1 |-> Pending(j)]
  <2>1. /\ s \in [0 .. m - 1 -> Byte] /\ m \in Nat
        /\ flash' = Store(flash, flashWriteAddr, s, m)
    BY <1>5, <1>6, <1>7
  <2> HIDE DEF s
  <2> QED BY <1>1, <2>1, StoreType DEF MachineOK
<1>9. tempBuff' \in [0 .. buffIndex' - 1 -> Byte] /\ buffIndex' \in Nat
  <2>1. \A j \in 0 .. buffIndex + c - m - 1 :
          j + m \in 0 .. buffIndex + PacketSize - 1
    BY <1>6, Sizes
  <2>2. \A j \in 0 .. buffIndex + c - m - 1 : Pending(j + m) \in Byte
    BY <1>1, <2>1, PendingType
  <2>3. buffIndex' = buffIndex + c - m /\ buffIndex' \in Nat
    BY <1>5, <1>6
  <2>4. tempBuff' \in [0 .. buffIndex + c - m - 1 -> Byte]
    BY <1>5, <2>2
  <2>5. buffIndex' - 1 = buffIndex + c - m - 1
    BY <2>3, <1>6
  <2> QED BY <2>3, <2>4, <2>5, Zenon
<1>10. HistoryOK(xfer')
  <2>1. HistoryOK(Stored(TRUE)) /\ HistoryOK(Stored(FALSE))
    BY <1>1, InterruptedType, EndedType DEF Stored
  <2> QED BY <1>4, <2>1
<1>11. readOffset' \in Addr
  BY <1>1, <1>4, WrapType, Sizes DEF MachineOK, Addr
<1>12. flashWriteAddr' \in Addr
  <2>1. flashWriteAddr + m \in Nat
    BY <1>1, <1>6, Sizes DEF MachineOK, Addr
  <2> QED BY <1>5, <2>1, WrapType
<1> QED BY <1>1, <1>4, <1>8, <1>9, <1>10, <1>11, <1>12
        DEF UCP_WriteTask, MachineOK, UcpStates

LEMMA EnvironmentType ==
  ASSUME TypeOK, UCP_Lock \/ UCP_Unlock \/ ResetPin \/ Restart
  PROVE  TypeOK'
<1> USE DEF range, flags, buffer, memory
<1>1. MachineOK /\ HistoryOK(xfer)
  BY TypeParts
<1>2. SUFFICES MachineOK' /\ HistoryOK(xfer')
  BY DEF TypeOK, MachineOK, HistoryOK, TransferType
<1>3. CASE UCP_Lock \/ UCP_Unlock
  BY <1>1, <1>3, InterruptedType DEF UCP_Lock, UCP_Unlock, MachineOK, UcpStates
<1>4. CASE ResetPin
  <2>1. Store(eeprom, LockHash, DefaultHash, HashSize) \in [Addr -> Byte]
    <3>1. LockHash \in Addr /\ DefaultHash \in [0 .. HashSize - 1 -> Byte]
      BY Sizes, DataAssumption DEF Addr
    <3> QED BY <1>1, <3>1, StoreType, Sizes DEF MachineOK
  <2> QED BY <1>1, <1>4, <2>1, LostType DEF ResetPin, MachineOK
<1>5. CASE Restart
  <2>1. 0 \in Addr /\ 0 \in Byte
    BY Sizes DEF Addr, Byte
  <2> QED BY <1>1, <1>5, <2>1, LostType, BlankType, EmptyType
             DEF Restart, MachineOK, UcpStates
<1> QED BY <1>3, <1>4, <1>5

(* The program never leaves its types: no offset, address, flag or buffer  *)
(* of ucp.c takes a value outside its range, in any order of packets,      *)
(* requests, write tasks, menu actions and restarts.                       *)
THEOREM TypeCorrect == Spec => []TypeOK
<1>1. Init => TypeOK
  <2> SUFFICES ASSUME Init PROVE MachineOK /\ HistoryOK(xfer)
    BY TypeParts
  <2>1. 0 \in Addr /\ 0 \in Byte
    BY Sizes DEF Addr, Byte
  <2> QED BY <2>1, LostType, BlankType, EmptyType, DataAssumption
             DEF Init, MachineOK, UcpStates
<1>2. TypeOK /\ [Next]_vars => TypeOK'
  <2> SUFFICES ASSUME TypeOK, [Next]_vars PROVE TypeOK'
    OBVIOUS
  <2>1. CASE UNCHANGED vars
    BY <2>1 DEF vars, range, flags, buffer, memory, TypeOK, TransferType
  <2>2. ASSUME NEW p \in Packets, UCP_Decode(p) PROVE TypeOK'
    BY <2>2, DecodeType
  <2>3. CASE UCP_Task
    BY <2>3, TaskType
  <2>4. CASE UCP_WriteTask
    BY <2>4, WriteTaskType
  <2>5. CASE UCP_Lock \/ UCP_Unlock \/ ResetPin \/ Restart
    BY <2>5, EnvironmentType
  <2> QED BY <2>1, <2>2, <2>3, <2>4, <2>5 DEF Next
<1> QED BY <1>1, <1>2, PTL DEF Spec

------------------------------------------------------------------------------
(* The fields of the history after each of its operations.                 *)

LEMMA InterruptedFacts ==
  ASSUME xfer' = Interrupted, Sound'
  PROVE  Sound /\ xfer.done /\ xfer' = xfer
BY DEF Interrupted, Lost, NoTransfer, Sound

LEMMA BeginFacts ==
  ASSUME NEW op, NEW mem, NEW start, NEW len,
         xfer' = Begin(op, mem, start, len), Sound'
  PROVE  /\ start + len + PacketSize < AddrSpace
         /\ usbWrite = 0 /\ usbWriteAccepted = 0
         /\ xfer'.op = op /\ xfer'.mem = mem
         /\ xfer'.start = start /\ xfer'.len = len /\ xfer'.n = 0
         /\ ~xfer'.done
BY DEF Begin, Lost, NoTransfer, Sound

LEMMA MovedFacts ==
  ASSUME HistoryOK(xfer), NEW s, NEW k \in Nat
  PROVE  LET x == Moved(s, k) IN
         /\ x.op = xfer.op /\ x.mem = xfer.mem
         /\ x.start = xfer.start /\ x.len = xfer.len
         /\ x.sent = xfer.sent /\ x.quiet = xfer.quiet
         /\ x.intact = xfer.intact /\ x.rejected = xfer.rejected
         /\ x.done = xfer.done
         /\ xfer.intact => x.n = xfer.n + k
         /\ xfer.intact => x.bytes = Joined(s, k)
<1> DEFINE b == Joined(s, k)
           y == [xfer EXCEPT !.bytes = b]
<1>1. CASE ~xfer.intact
  BY <1>1 DEF Moved
<1>2. CASE xfer.intact
  <2>1. Moved(s, k) = [y EXCEPT !.n = @ + k]
    BY <1>2 DEF Moved
  <2> HIDE DEF b
  <2>2. /\ y \in [op : {"none", "read", "write"}, mem : {"flash", "eeprom", "ram"},
                  start : Nat, len : Nat, n : Nat, bytes : {b},
                  sent : [Index -> Byte], quiet : BOOLEAN, intact : BOOLEAN,
                  rejected : BOOLEAN, done : BOOLEAN]
        /\ y.op = xfer.op /\ y.mem = xfer.mem
        /\ y.start = xfer.start /\ y.len = xfer.len
        /\ y.sent = xfer.sent /\ y.quiet = xfer.quiet
        /\ y.intact = xfer.intact /\ y.rejected = xfer.rejected
        /\ y.done = xfer.done /\ y.n = xfer.n /\ y.bytes = b
    BY DEF HistoryOK
  <2> HIDE DEF y
  <2>3. LET z == [y EXCEPT !.n = @ + k] IN
        /\ z.op = y.op /\ z.mem = y.mem
        /\ z.start = y.start /\ z.len = y.len
        /\ z.sent = y.sent /\ z.quiet = y.quiet
        /\ z.intact = y.intact /\ z.rejected = y.rejected
        /\ z.done = y.done /\ z.n = y.n + k /\ z.bytes = y.bytes
    BY <2>2
  <2> QED BY <2>1, <2>2, <2>3 DEF b
<1> QED BY <1>1, <1>2

LEMMA EndedFacts ==
  ASSUME NEW x, HistoryOK(x)
  PROVE  LET y == Ended(x) IN
         /\ y.op = x.op /\ y.mem = x.mem
         /\ y.start = x.start /\ y.len = x.len
         /\ y.sent = x.sent /\ y.quiet = x.quiet
         /\ y.intact = x.intact /\ y.rejected = x.rejected
         /\ y.n = x.n /\ y.bytes = x.bytes
         /\ x.intact => y.done
BY DEF HistoryOK, Ended

LEMMA JoinedValue ==
  ASSUME HistoryOK(xfer), NEW s, NEW k \in Nat, NEW j \in 0 .. xfer.n + k - 1
  PROVE  /\ j < xfer.n => Joined(s, k)[j] = xfer.bytes[j]
         /\ xfer.n <= j => Joined(s, k)[j] = s[j - xfer.n]
BY DEF HistoryOK, Joined

(* The variables the invariant reads, as integers.                         *)
LEMMA Numbers ==
  ASSUME TypeOK
  PROVE  /\ readOffset \in Nat /\ readEnd \in Nat /\ flashWriteAddr \in Nat
         /\ readOffset < AddrSpace /\ readEnd < AddrSpace
         /\ flashWriteAddr < AddrSpace
         /\ buffIndex \in Nat /\ xfer.start \in Nat /\ xfer.len \in Nat
         /\ xfer.n \in Nat /\ Base \in Nat
         /\ usbWrite \in {0, 1} /\ usbWriteAccepted \in {0, 1}
         /\ HistoryOK(xfer)
<1>1. MachineOK /\ HistoryOK(xfer)
  BY TypeParts
<1>2. /\ xfer.start \in Nat /\ xfer.len \in Nat /\ xfer.n \in Nat
  BY <1>1 DEF HistoryOK
<1>3. Base \in Nat
  BY Sizes DEF Base
<1> QED BY <1>1, <1>2, <1>3, Sizes DEF MachineOK, Addr

------------------------------------------------------------------------------
(* One lemma per action that the invariant can notice.                     *)

Goal ==
  /\ StateInv /\ RangeInv /\ BufferInv
  /\ ~xfer.rejected => DataInv

LEMMA WrongSizeInv ==
  ASSUME TypeOK, TransferInv, NEW p \in Packets, DecodeWrongSize(p), Sound'
  PROVE  Goal'
<1> USE DEF range, flags, buffer, memory
<1>1. /\ xfer'.op = xfer.op /\ xfer'.mem = xfer.mem
      /\ xfer'.start = xfer.start /\ xfer'.len = xfer.len
      /\ xfer'.n = xfer.n /\ xfer'.bytes = xfer.bytes
      /\ xfer'.sent = xfer.sent /\ xfer'.quiet = xfer.quiet
      /\ xfer'.intact = xfer.intact /\ xfer'.done = xfer.done
      /\ ~xfer'.rejected =>
           /\ ~xfer.rejected
           /\ ~(xfer.op = "write" /\ (usbWrite = 1 \/ usbWriteAccepted = 1))
  BY Numbers DEF DecodeWrongSize, HistoryOK
<1>2. Goal
  BY <1>1 DEF TransferInv, Sound, Goal
<1>3. StateInv' /\ RangeInv' /\ BufferInv'
  BY <1>1, <1>2 DEF DecodeWrongSize, Goal, StateInv, RangeInv, BufferInv, Base,
     Position, Cut, WritingFlash, WritingEeprom, Reading
<1>4. ASSUME ~xfer'.rejected PROVE DataInv'
  BY <1>1, <1>2, <1>4 DEF DecodeWrongSize, Goal, DataInv, Base, Memory,
     Position, Cut, WritingFlash
<1> QED BY <1>3, <1>4 DEF Goal

LEMMA WriteDataInv ==
  ASSUME TypeOK, TransferInv, NEW p \in Packets, DecodeWriteData(p), Sound'
  PROVE  Goal'
<1> USE DEF range, flags, buffer, memory
<1>1. /\ xfer'.op = xfer.op /\ xfer'.mem = xfer.mem
      /\ xfer'.start = xfer.start /\ xfer'.len = xfer.len
      /\ xfer'.n = xfer.n /\ xfer'.bytes = xfer.bytes
      /\ xfer'.quiet = xfer.quiet /\ xfer'.rejected = xfer.rejected
      /\ xfer'.intact = xfer.intact /\ xfer'.done = xfer.done
      /\ xfer.intact => xfer'.sent = p.bytes
  BY Numbers DEF DecodeWriteData, HistoryOK
<1>2. Goal /\ WritingFlash
  BY <1>1 DEF TransferInv, Sound, Goal, StateInv, DecodeWriteData
<1>3. StateInv' /\ RangeInv' /\ BufferInv'
  BY <1>1, <1>2 DEF DecodeWriteData, Goal, StateInv, RangeInv, BufferInv, Base,
     Position, Cut, WritingFlash, WritingEeprom, Reading
<1>4. ASSUME ~xfer'.rejected PROVE DataInv'
  BY <1>1, <1>2, <1>4 DEF DecodeWriteData, Goal, DataInv, Base, Memory,
     Position, Cut, WritingFlash, Sound
<1> QED BY <1>3, <1>4 DEF Goal

(* A packet that only changes the answer, and the request that confirms a  *)
(* read command.                                                           *)
LEMMA AnswerInv ==
  ASSUME TypeOK, TransferInv, Sound', xfer' = xfer, UCP_state # "WRITTING",
         UNCHANGED <<range, flags, buffer, memory>>,
         \/ UCP_state' = UCP_state
         \/ UCP_state = "READING_CMD" /\ UCP_state' = "READING"
  PROVE  Goal'
<1> USE DEF range, flags, buffer, memory
<1>1. Goal /\ xfer' = xfer
  BY DEF TransferInv, Sound, Goal
<1>2. ~WritingFlash
  BY <1>1 DEF Goal, StateInv
<1>3. /\ UNCHANGED <<range, flags, buffer, memory>>
      /\ \/ UCP_state' = UCP_state
         \/ UCP_state = "READING_CMD" /\ UCP_state' = "READING"
  OBVIOUS
<1>4. StateInv' /\ RangeInv' /\ BufferInv'
  BY <1>1, <1>2, <1>3 DEF Goal, StateInv, RangeInv, BufferInv, Base,
     Position, Cut, WritingFlash, WritingEeprom, Reading
<1>5. ASSUME ~xfer'.rejected PROVE DataInv'
  BY <1>1, <1>2, <1>3, <1>5 DEF Goal, DataInv, Memory, WritingFlash
<1> QED BY <1>4, <1>5 DEF Goal

(* Steps that stop whatever was in progress.                               *)
LEMMA DroppedInv ==
  ASSUME TypeOK, TransferInv, Sound', xfer' = Interrupted,
         UCP_state' \in {"IDLE", "DEVICE_LOCKED"},
         UNCHANGED <<range, buffer, memory>>,
         flags' = flags \/ flags' = <<0, 0>>
  PROVE  Goal'
<1> USE DEF range, flags, buffer, memory
<1>1. Goal /\ xfer' = xfer /\ xfer.done
  BY InterruptedFacts DEF TransferInv, Goal
<1>2. ~WritingFlash /\ ~WritingEeprom /\ ~Reading
  BY <1>1 DEF WritingFlash, WritingEeprom, Reading
<1>3. usbWrite = 0 /\ usbWriteAccepted = 0 /\ usbWrite' = 0 /\ usbWriteAccepted' = 0
  BY <1>1, <1>2 DEF Goal, StateInv
<1>4. StateInv' /\ RangeInv' /\ BufferInv'
  BY <1>1, <1>2, <1>3 DEF Goal, StateInv, RangeInv, BufferInv,
     WritingFlash, WritingEeprom, Reading
<1>5. ASSUME ~xfer'.rejected PROVE DataInv'
  BY <1>1, <1>2, <1>3, <1>5 DEF Goal, DataInv, Memory, WritingFlash
<1> QED BY <1>4, <1>5 DEF Goal

(* A command begins a transfer: nothing is moved yet, and no flag is set.  *)
LEMMA BeginInv ==
  ASSUME TypeOK, Sound',
         NEW op \in {"read", "write"}, NEW mem \in {"flash", "eeprom", "ram"},
         NEW start \in Nat, NEW len \in Nat,
         xfer' = Begin(op, mem, start, len),
         UNCHANGED flags,
         readOffset' \in Addr, readEnd' \in Addr,
         readOffset' + (IF mem = "flash" THEN CredBase ELSE 0) = start,
         readEnd' + (IF mem = "flash" THEN CredBase ELSE 0) = start + len,
         op = "read" => /\ UCP_state' = "READING_CMD"
                        /\ CASE readType' = 0 -> mem = "flash"
                             [] readType' = 1 -> mem = "ram"
                             [] OTHER        -> mem = "eeprom",
         op = "write" /\ mem = "flash" =>
           /\ UCP_state' = "WRITTING" /\ buffIndex' = 0
           /\ flashWriteAddr' = start,
         op = "write" /\ mem # "flash" =>
           /\ UCP_state' = "WRITE_EEPROM" /\ mem = "eeprom"
           /\ \E k \in 0 .. len : k * PacketSize = len
  PROVE  Goal'
<1>1. /\ start + len + PacketSize < AddrSpace
      /\ usbWrite' = 0 /\ usbWriteAccepted' = 0
      /\ xfer'.op = op /\ xfer'.mem = mem
      /\ xfer'.start = start /\ xfer'.len = len /\ xfer'.n = 0
      /\ ~xfer'.done
  BY BeginFacts DEF flags
<1>2. StateInv'
  BY <1>1 DEF StateInv, WritingFlash, WritingEeprom, Reading
<1>3. /\ Position' = 0 /\ readEnd' - readOffset' = len
      /\ readOffset' <= readEnd' /\ readEnd' + Base' = start + len
  BY <1>1, Sizes DEF Position, Base, Addr
<1>4. RangeInv'
  BY <1>1, <1>3 DEF RangeInv, WritingEeprom
<1>5. BufferInv'
  BY <1>1, <1>3, Sizes DEF BufferInv, WritingFlash, Base, Position, Addr
<1>6. DataInv'
  BY <1>1, <1>3 DEF DataInv, WritingFlash
<1> QED BY <1>2, <1>4, <1>5, <1>6 DEF Goal

LEMMA CommandInv ==
  ASSUME TypeOK, Sound', NEW p \in Packets,
         DecodeRead(p) \/ DecodeWrite(p) \/ DecodeSetPin(p)
           \/ DecodeReadPin(p) \/ DecodeKeyboard(p)
  PROVE  Goal'
<1> USE DEF range, flags, buffer, memory
<1>1. /\ p.offset \in Addr /\ p.length \in Addr /\ p.type \in Byte
  BY PacketType
<1>2. /\ LockHash \in Addr /\ LockHash + HashSize \in Addr
      /\ KeyboardLUT \in Addr /\ KeyboardLUT + KeyboardSize \in Addr
  BY Sizes DEF Addr
<1>3. CASE DecodeRead(p)
  <2> DEFINE mem == CASE p.type = 0 -> "flash" [] p.type = 1 -> "ram"
                      [] OTHER -> "eeprom"
             start == p.offset + (IF mem = "flash" THEN CredBase ELSE 0)
  <2>1. mem \in {"flash", "eeprom", "ram"} /\ start \in Nat /\ p.length \in Nat
    BY <1>1, Sizes DEF Addr
  <2>2. xfer' = Begin("read", mem, start, p.length)
    BY <1>1, <1>3, Sizes DEF DecodeRead, Addr
  <2>3. start + p.length + PacketSize < AddrSpace
    BY <2>2, BeginFacts
  <2>4. readEnd' = p.offset + p.length /\ readEnd' \in Addr /\ readOffset' = p.offset
    BY <1>1, <1>3, <2>3, Sizes, WrapType DEF DecodeRead, Addr
  <2>5. readOffset' + (IF mem = "flash" THEN CredBase ELSE 0) = start
    BY <2>4
  <2>6. readEnd' + (IF mem = "flash" THEN CredBase ELSE 0) = start + p.length
    BY <1>1, <2>4, Sizes DEF Addr
  <2>7. (CASE readType' = 0 -> mem = "flash"
           [] readType' = 1 -> mem = "ram"
           [] OTHER        -> mem = "eeprom")
    BY <1>3 DEF DecodeRead
  <2>8. UCP_state' = "READING_CMD" /\ UNCHANGED flags
    BY <1>3 DEF DecodeRead
  <2> HIDE DEF mem, start
  <2> QED BY <1>1, <2>1, <2>2, <2>4, <2>5, <2>6, <2>7, <2>8, BeginInv
<1>4. CASE DecodeWrite(p)
  <2> DEFINE start == CredBase + p.offset
  <2>1. start \in Nat /\ p.length \in Nat
    BY <1>1, Sizes DEF Addr
  <2>2. xfer' = Begin("write", "flash", start, p.length)
    BY <1>4 DEF DecodeWrite
  <2>3. start + p.length + PacketSize < AddrSpace
    BY <2>2, BeginFacts
  <2>4. /\ readEnd' = p.offset + p.length /\ readEnd' \in Addr
        /\ readOffset' = p.offset /\ flashWriteAddr' = start
    BY <1>1, <1>4, <2>1, <2>3, Sizes, WrapType DEF DecodeWrite, Addr
  <2>5. readOffset' + CredBase = start /\ readEnd' + CredBase = start + p.length
    BY <1>1, <2>4, Sizes DEF Addr
  <2>6. UCP_state' = "WRITTING" /\ buffIndex' = 0 /\ UNCHANGED flags
    BY <1>4 DEF DecodeWrite
  <2> HIDE DEF start
  <2> QED BY <1>1, <2>1, <2>2, <2>4, <2>5, <2>6, BeginInv
<1>5. CASE DecodeSetPin(p)
  BY <1>2, <1>5, Sizes, WholePacketsAssumption, BeginInv DEF DecodeSetPin
<1>6. CASE DecodeReadPin(p)
  BY <1>2, <1>6, Sizes, BeginInv DEF DecodeReadPin
<1>7. CASE DecodeKeyboard(p)
  BY <1>2, <1>7, Sizes, WholePacketsAssumption, BeginInv DEF DecodeKeyboard
<1> QED BY <1>3, <1>4, <1>5, <1>6, <1>7

LEMMA OneLess ==
  ASSUME NEW k \in Nat, NEW d \in Nat, d > 0, k * PacketSize = d
  PROVE  k - 1 \in Nat /\ (k - 1) * PacketSize = d - PacketSize
<1>1. k # 0
  BY Sizes
<1>2. (k - 1) * PacketSize = k * PacketSize - PacketSize
  BY Sizes
<1> QED BY <1>1, <1>2

(* A packet for the EEPROM is the next one of the transfer.                *)
LEMMA EepromDataStands ==
  ASSUME TypeOK, TransferInv, Sound, NEW p \in Packets, DecodeEepromData(p)
  PROVE  /\ Goal
         /\ WritingEeprom /\ ~WritingFlash /\ ~Reading
         /\ usbWrite = 0 /\ usbWriteAccepted = 0
         /\ xfer.op = "write" /\ xfer.mem = "eeprom" /\ ~xfer.done
         /\ Base = 0
         /\ readOffset < readEnd /\ readEnd = xfer.start + xfer.len
         /\ xfer.n = readOffset - xfer.start /\ xfer.start <= readOffset
         /\ xfer.start + xfer.len + PacketSize < AddrSpace
         /\ Wrap(readOffset + PacketSize) = readOffset + PacketSize
         /\ readOffset' = readOffset + PacketSize /\ readEnd' = readEnd
         /\ UNCHANGED <<flags, flash>>
         /\ readOffset' <= readEnd
         /\ \E k \in 0 .. readEnd - readOffset' : k * PacketSize = readEnd - readOffset'
<1>1. Goal
  BY DEF TransferInv, Goal
<1>2. /\ WritingEeprom /\ ~WritingFlash /\ ~Reading
      /\ readOffset < readEnd
      /\ usbWrite = 0 /\ usbWriteAccepted = 0
  <2>1. UCP_state = "WRITE_EEPROM" /\ readOffset < readEnd
    BY DEF DecodeEepromData
  <2>2. ~(readOffset >= readEnd)
    BY <2>1, Numbers
  <2>3. WritingEeprom
    BY <1>1, <2>1, <2>2 DEF Goal, StateInv
  <2>4. ~WritingFlash /\ ~Reading
    BY <2>3 DEF WritingEeprom, WritingFlash, Reading
  <2> QED BY <1>1, <2>1, <2>3, <2>4 DEF Goal, StateInv
<1>3. /\ xfer.op = "write" /\ xfer.mem = "eeprom" /\ ~xfer.done
      /\ Base = 0
      /\ readEnd = xfer.start + xfer.len
      /\ xfer.n = readOffset - xfer.start /\ xfer.start <= readOffset
      /\ xfer.start + xfer.len + PacketSize < AddrSpace
  BY <1>1, <1>2, Numbers, Sizes DEF Goal, RangeInv, Position, Base, WritingEeprom
<1>4. /\ Wrap(readOffset + PacketSize) = readOffset + PacketSize
      /\ readOffset' = readOffset + PacketSize /\ readEnd' = readEnd
      /\ UNCHANGED <<flags, flash>>
  BY <1>2, <1>3, Numbers, Sizes, WrapType DEF DecodeEepromData
<1>5. PICK k \in 0 .. readEnd - readOffset : k * PacketSize = readEnd - readOffset
  BY <1>1, <1>2 DEF Goal, RangeInv
<1>6. /\ k - 1 \in Nat
      /\ (k - 1) * PacketSize = readEnd - readOffset'
  <2> DEFINE d == readEnd - readOffset
  <2>1. d \in Nat /\ d > 0 /\ k \in Nat /\ k * PacketSize = d
    BY <1>2, <1>5, Numbers
  <2>2. readEnd - readOffset' = d - PacketSize
    BY <1>4, Numbers, Sizes
  <2> HIDE DEF d
  <2> QED BY <2>1, <2>2, OneLess
<1>7. readOffset' <= readEnd /\ k - 1 <= readEnd - readOffset'
  <2>1. (k - 1) * PacketSize >= k - 1
    BY <1>6, Sizes
  <2> QED BY <1>4, <1>6, <2>1, Numbers, Sizes
<1>8. k - 1 \in 0 .. readEnd - readOffset'
  BY <1>4, <1>6, <1>7, Numbers, Sizes
<1> QED BY <1>1, <1>2, <1>3, <1>4, <1>6, <1>7, <1>8

LEMMA EepromDataInv ==
  ASSUME TypeOK, TransferInv, NEW p \in Packets, DecodeEepromData(p), Sound'
  PROVE  Goal'
<1> DEFINE x == Moved(p.bytes, PacketSize)
<1>1. /\ HistoryOK(xfer) /\ HistoryOK(x) /\ HistoryOK(Ended(x))
      /\ p.bytes \in [Index -> Byte]
  BY Numbers, PacketType, MovedType, EndedType, Sizes
<1>2. /\ xfer' = x \/ xfer' = Ended(x)
      /\ EepromEnds => xfer' = Ended(x)
      /\ ~EepromEnds => xfer' = x
  BY DEF DecodeEepromData
<1>3. /\ x.op = xfer.op /\ x.mem = xfer.mem
      /\ x.start = xfer.start /\ x.len = xfer.len
      /\ x.quiet = xfer.quiet /\ x.intact = xfer.intact
      /\ x.rejected = xfer.rejected /\ x.done = xfer.done
      /\ xfer.intact => x.n = xfer.n + PacketSize
      /\ xfer.intact => x.bytes = Joined(p.bytes, PacketSize)
  BY <1>1, MovedFacts, Sizes
<1> HIDE DEF x
<1>4. /\ xfer'.op = xfer.op /\ xfer'.mem = xfer.mem
      /\ xfer'.start = xfer.start /\ xfer'.len = xfer.len
      /\ xfer'.quiet = xfer.quiet /\ xfer'.intact = xfer.intact
      /\ xfer'.rejected = xfer.rejected
      /\ xfer'.n = x.n /\ xfer'.bytes = x.bytes
      /\ EepromEnds /\ xfer.intact => xfer'.done
      /\ ~EepromEnds => xfer'.done = xfer.done
  BY <1>1, <1>2, <1>3, EndedFacts
<1>5. Goal /\ xfer.intact /\ xfer.quiet
  BY <1>4 DEF TransferInv, Sound, Goal
<1>6. /\ WritingEeprom /\ ~WritingFlash /\ ~Reading
      /\ readOffset < readEnd
      /\ usbWrite = 0 /\ usbWriteAccepted = 0
  BY <1>5, EepromDataStands DEF Sound
<1>7. /\ xfer.op = "write" /\ xfer.mem = "eeprom" /\ ~xfer.done
      /\ Base = 0 /\ Base' = 0
      /\ readEnd = xfer.start + xfer.len
      /\ xfer.n = readOffset - xfer.start /\ xfer.start <= readOffset
      /\ xfer.start + xfer.len + PacketSize < AddrSpace
  <2>1. Base' = 0 <=> xfer'.mem # "flash" \/ CredBase = 0
    BY DEF Base
  <2> QED BY <1>4, <1>5, <2>1, EepromDataStands DEF Sound
<1>8. /\ Wrap(readOffset + PacketSize) = readOffset + PacketSize
      /\ readOffset' = readOffset + PacketSize /\ readEnd' = readEnd
      /\ UNCHANGED <<flags, flash>>
  BY <1>5, EepromDataStands DEF Sound
<1>9. /\ readOffset' <= readEnd
      /\ \E k \in 0 .. readEnd - readOffset' : k * PacketSize = readEnd - readOffset'
  BY <1>5, EepromDataStands DEF Sound
<1>12. EepromEnds <=> readOffset' = readEnd
  BY <1>8, <1>9, Numbers, Sizes DEF EepromEnds
<1>13. xfer'.n = xfer.n + PacketSize
  BY <1>3, <1>4, <1>5
<1>14. xfer'.done <=> EepromEnds
  BY <1>4, <1>5, <1>7
<1>15. StateInv'
  <2>1. \/ UCP_state' = "WRITE_EEPROM"
        \/ EepromEnds /\ UCP_state' = "IDLE"
    BY DEF DecodeEepromData
  <2> QED BY <1>4, <1>6, <1>7, <1>8, <1>12, <1>14, <2>1, Numbers
             DEF StateInv, WritingEeprom, WritingFlash, Reading, flags
<1>16. RangeInv'
  <2>1. xfer'.n = readOffset' - xfer.start /\ xfer'.n <= xfer.len
    BY <1>7, <1>8, <1>9, <1>13, Numbers, Sizes
  <2>2. xfer'.done => xfer'.n = xfer.len
    BY <1>7, <1>12, <1>14, <2>1, Numbers
  <2>3. usbWrite' = 0 /\ Position' = readOffset' - xfer.start /\ Position' >= 0
    BY <1>4, <1>6, <1>7, <1>8, Numbers, Sizes DEF Position, flags
  <2>4. \E k \in 0 .. readEnd' - readOffset' : k * PacketSize = readEnd' - readOffset'
    BY <1>8, <1>9
  <2> QED BY <1>4, <1>7, <1>8, <1>9, <2>1, <2>2, <2>3, <2>4, Numbers DEF RangeInv
<1>17. BufferInv'
  BY <1>4, <1>7 DEF BufferInv, WritingFlash
<1>18. ASSUME ~xfer'.rejected PROVE DataInv'
  <2>1. \A j \in 0 .. xfer.n - 1 : eeprom[xfer.start + j] = xfer.bytes[j]
    BY <1>4, <1>5, <1>6, <1>7, <1>18 DEF Goal, DataInv, Memory
  <2>2. eeprom \in [Addr -> Byte] /\ readOffset \in Addr
    BY TypeParts DEF MachineOK
  <2>4. eeprom' = Store(eeprom, readOffset, p.bytes, PacketSize)
    BY DEF DecodeEepromData
  <2>5. readOffset + PacketSize <= AddrSpace
    BY <1>6, <1>7, Numbers, Sizes
  <2>3. ASSUME NEW j \in 0 .. xfer'.n - 1
        PROVE  eeprom'[xfer.start + j] = xfer'.bytes[j]
    <3>1. /\ j \in 0 .. xfer.n + PacketSize - 1
          /\ xfer'.bytes[j] = Joined(p.bytes, PacketSize)[j]
      BY <1>3, <1>4, <1>5, <1>13, Numbers, Sizes
    <3>2. xfer.start + j \in Addr
      BY <1>7, <1>8, <1>9, <3>1, Numbers, Sizes DEF Addr
    <3>3. CASE j < xfer.n
      <4>1. eeprom'[xfer.start + j] = eeprom[xfer.start + j]
        BY <1>7, <2>2, <2>4, <2>5, <3>2, <3>3, StoreValue, Sizes, Numbers
      <4> QED BY <1>1, <2>1, <3>1, <3>3, <4>1, JoinedValue, Sizes, Numbers
    <3>4. CASE xfer.n <= j
      <4>1. eeprom'[xfer.start + j] = p.bytes[xfer.start + j - readOffset]
        BY <1>7, <2>2, <2>4, <2>5, <3>1, <3>2, <3>4, StoreValue, Sizes, Numbers
      <4>2. xfer.start + j - readOffset = j - xfer.n
        BY <1>7, <3>1, Numbers
      <4> QED BY <1>1, <3>1, <3>4, <4>1, <4>2, JoinedValue, Sizes, Numbers
    <3> QED BY <3>1, <3>3, <3>4, Numbers, Sizes
  <2> QED BY <1>4, <1>7, <2>3 DEF DataInv, Memory, WritingFlash
<1> QED BY <1>15, <1>16, <1>17, <1>18 DEF Goal

(* A request in READING answers with the next bytes of the region.         *)
LEMMA ReadInv ==
  ASSUME TypeOK, TransferInv, TaskRead, Sound'
  PROVE  Goal'
<1> DEFINE x == Moved(customReport', Share)
<1> USE DEF range, flags, buffer, memory
<1>1. /\ HistoryOK(xfer) /\ HistoryOK(x) /\ HistoryOK(Ended(x))
      /\ Share \in 0 .. PacketSize
  <2>1. customReport' \in [Index -> Byte]
    BY TaskType DEF UCP_Task, TypeOK
  <2> QED BY <2>1, Numbers, MovedType, EndedType, ShareType
<1> DEFINE ends == readOffset' >= readEnd
<1>2. /\ xfer' = x \/ xfer' = Ended(x)
      /\ ends => xfer' = Ended(x) /\ UCP_state' = "IDLE"
      /\ ~ends => xfer' = x /\ UCP_state' = UCP_state
      /\ UCP_state = "READING" /\ readOffset < readEnd
      /\ readOffset' = Wrap(readOffset + PacketSize)
  BY DEF TaskRead
<1>3. /\ x.op = xfer.op /\ x.mem = xfer.mem
      /\ x.start = xfer.start /\ x.len = xfer.len
      /\ x.quiet = xfer.quiet /\ x.intact = xfer.intact
      /\ x.rejected = xfer.rejected /\ x.done = xfer.done
      /\ xfer.intact => x.n = xfer.n + Share
      /\ xfer.intact => x.bytes = Joined(customReport', Share)
  BY <1>1, MovedFacts
<1> HIDE DEF x
<1>4. /\ xfer'.op = xfer.op /\ xfer'.mem = xfer.mem
      /\ xfer'.start = xfer.start /\ xfer'.len = xfer.len
      /\ xfer'.quiet = xfer.quiet /\ xfer'.intact = xfer.intact
      /\ xfer'.rejected = xfer.rejected
      /\ xfer'.n = x.n /\ xfer'.bytes = x.bytes
      /\ ends /\ xfer.intact => xfer'.done
      /\ ~ends => xfer'.done = xfer.done
  BY <1>1, <1>2, <1>3, EndedFacts
<1>5. Goal /\ xfer.intact /\ xfer.quiet
  BY <1>4 DEF TransferInv, Sound, Goal
<1>6. /\ Reading /\ ~WritingFlash /\ ~WritingEeprom
      /\ usbWrite = 0 /\ usbWriteAccepted = 0
  BY <1>2, <1>5 DEF Goal, StateInv, WritingEeprom, WritingFlash, Reading
<1>7. /\ xfer.op = "read" /\ ~xfer.done /\ Base' = Base
      /\ readEnd + Base = xfer.start + xfer.len
      /\ xfer.n = readOffset + Base - xfer.start
      /\ readOffset + Base >= xfer.start
      /\ xfer.start + xfer.len + PacketSize < AddrSpace
  BY <1>4, <1>5, <1>6, Numbers, Sizes DEF Goal, RangeInv, Position, Base, Reading
<1>8. /\ readOffset' = readOffset + PacketSize
      /\ UNCHANGED <<readEnd, readType, flags, buffer, memory>>
  <2>1. readOffset + PacketSize < AddrSpace
    BY <1>2, <1>7, Numbers, Sizes
  <2> QED BY <1>2, <2>1, Numbers, Sizes, WrapType DEF TaskRead
<1>9. Share = IF readEnd - readOffset < PacketSize THEN readEnd - readOffset
              ELSE PacketSize
  BY <1>2, <1>7, Numbers, Sizes DEF Share
<1>10. xfer'.n = xfer.n + Share
  BY <1>3, <1>4, <1>5
<1>11. xfer'.done <=> ends
  BY <1>4, <1>5, <1>7
<1>12. StateInv'
  BY <1>2, <1>4, <1>5, <1>6, <1>7, <1>8, <1>11
     DEF Goal, StateInv, WritingEeprom, WritingFlash, Reading
<1>13. RangeInv'
  <2>1. ends => xfer'.n = xfer.len
    BY <1>2, <1>7, <1>8, <1>9, <1>10, Numbers, Sizes
  <2>2. ~ends => /\ readOffset' <= readEnd /\ Position' >= 0
                 /\ xfer'.n = Position' /\ xfer'.n <= xfer.len
    BY <1>2, <1>4, <1>7, <1>8, <1>9, <1>10, Numbers, Sizes DEF Position
  <2>3. usbWrite' = 0 /\ ~WritingEeprom'
    BY <1>4, <1>6, <1>7, <1>8 DEF WritingEeprom
  <2>4. readEnd' + Base' = xfer'.start + xfer'.len
    BY <1>4, <1>7, <1>8
  <2>5. /\ xfer'.start + xfer'.len + PacketSize < AddrSpace
        /\ xfer'.n <= xfer'.len
    BY <1>4, <1>7, <2>1, <2>2, Numbers
  <2>6. xfer'.done => xfer'.n = xfer'.len
    BY <1>4, <1>11, <2>1
  <2>7. ~xfer'.done => /\ readOffset' <= readEnd' /\ Position' >= 0
                       /\ xfer'.n = Position'
    BY <1>8, <1>11, <2>2
  <2>8. Position' \in Int
    BY <1>4, <1>7, <1>8, Numbers, Sizes DEF Position
  <2> QED BY <2>3, <2>4, <2>5, <2>6, <2>7, <2>8 DEF RangeInv
<1>14. BufferInv'
  BY <1>4, <1>7 DEF BufferInv, WritingFlash
<1>15. ASSUME ~xfer'.rejected, xfer.mem # "ram" PROVE DataInv'
  <2> DEFINE mem == Memory(xfer.mem)
             a == readOffset + Base
  <2>1. \A j \in 0 .. xfer.n - 1 : mem[xfer.start + j] = xfer.bytes[j]
    BY <1>4, <1>5, <1>6, <1>15 DEF Goal, DataInv
  <2>2. customReport' = Block(mem, a)
    <3>1. CASE readType = 0
      <4>1. xfer.mem = "flash" /\ Base = CredBase
        BY <1>5, <1>6, <3>1 DEF Goal, StateInv, Base
      <4>2. customReport' = Block(flash, Wrap(CredBase + readOffset))
        BY <3>1 DEF TaskRead, ReadBlocks
      <4>3. Wrap(CredBase + readOffset) = a
        BY <1>2, <1>7, <4>1, Numbers, Sizes, WrapType
      <4> QED BY <4>1, <4>2, <4>3 DEF Memory
    <3>2. CASE readType # 0
      <4>1. xfer.mem = "eeprom" /\ Base = 0 /\ readType # 1
        BY <1>5, <1>6, <1>15, <3>2 DEF Goal, StateInv, Base
      <4>2. customReport' = Block(eeprom, readOffset)
        BY <3>2, <4>1 DEF TaskRead, ReadBlocks
      <4> QED BY <4>1, <4>2, Numbers DEF Memory
    <3> QED BY <3>1, <3>2
  <2>3. mem' = mem /\ xfer'.mem = xfer.mem
    BY <1>4, <1>8 DEF Memory
  <2> HIDE DEF mem
  <2>4. ASSUME NEW j \in 0 .. xfer'.n - 1
        PROVE  mem[xfer.start + j] = xfer'.bytes[j]
    <3>1. /\ j \in 0 .. xfer.n + Share - 1
          /\ xfer'.bytes[j] = Joined(customReport', Share)[j]
      BY <1>1, <1>3, <1>4, <1>5, <1>10, Numbers, Sizes
    <3>2. Share \in Nat
      BY <1>1
    <3>3. CASE j < xfer.n
      BY <1>1, <2>1, <3>1, <3>2, <3>3, JoinedValue, Numbers
    <3>4. CASE xfer.n <= j
      <4>1. xfer'.bytes[j] = customReport'[j - xfer.n]
        BY <1>1, <3>1, <3>2, <3>4, JoinedValue
      <4>2. j - xfer.n \in Index
        BY <1>1, <3>1, <3>4, Numbers, Sizes DEF Index
      <4>3. customReport'[j - xfer.n] = mem[Wrap(a + (j - xfer.n))]
        BY <2>2, <4>2 DEF Block
      <4>4. a + (j - xfer.n) = xfer.start + j
        BY <1>7, <3>1, Numbers
      <4>5. xfer.start + j < AddrSpace /\ xfer.start + j \in Nat
        BY <1>2, <1>7, <1>9, <3>1, Numbers, Sizes
      <4> QED BY <4>1, <4>3, <4>4, <4>5, WrapType
    <3> QED BY <3>1, <3>3, <3>4, Numbers, <3>2
  <2> QED BY <1>4, <1>7, <2>3, <2>4 DEF DataInv, WritingFlash, mem
<1>16. ASSUME ~xfer'.rejected, xfer.mem = "ram" PROVE DataInv'
  BY <1>4, <1>16 DEF DataInv, WritingFlash
<1> QED BY <1>12, <1>13, <1>14, <1>15, <1>16 DEF Goal

(* A request in WRITTING hands the accepted packet to UCP_WriteTask.       *)
LEMMA TaskWriteInv ==
  ASSUME TypeOK, TransferInv, TaskWrite, Sound'
  PROVE  Goal'
<1> USE DEF range, flags, buffer, memory
<1>1. HistoryOK(xfer) /\ Share \in Nat
  BY Numbers, ShareType
<1>2. /\ xfer'.op = xfer.op /\ xfer'.mem = xfer.mem
      /\ xfer'.start = xfer.start /\ xfer'.len = xfer.len
      /\ xfer'.sent = xfer.sent /\ xfer'.quiet = xfer.quiet
      /\ xfer'.intact = xfer.intact /\ xfer'.rejected = xfer.rejected
      /\ xfer'.done = xfer.done
      /\ xfer.intact => xfer'.n = xfer.n + Share
      /\ xfer.intact => xfer'.bytes = Joined(xfer.sent, Share)
  BY <1>1, MovedFacts DEF TaskWrite
<1>3. /\ UCP_state = "WRITTING" /\ usbWriteAccepted = 1
      /\ usbWrite' = 1 /\ usbWriteAccepted' = 0
      /\ UNCHANGED <<UCP_state, customReport, range, buffer, memory>>
  BY DEF TaskWrite
<1>4. Goal /\ xfer.intact /\ xfer.quiet
  BY <1>2 DEF TransferInv, Sound, Goal
<1>5. WritingFlash /\ usbWrite = 0 /\ readOffset < readEnd
  BY <1>3, <1>4 DEF Goal, StateInv, BufferInv
<1>6. /\ xfer.op = "write" /\ xfer.mem = "flash" /\ ~xfer.done
      /\ Base = CredBase /\ Base' = CredBase
      /\ readEnd + CredBase = xfer.start + xfer.len
      /\ xfer.n = Position /\ Position >= 0 /\ Position' = Position
      /\ Position = readOffset + CredBase - xfer.start
      /\ xfer.start + xfer.len + PacketSize < AddrSpace
  BY <1>2, <1>3, <1>4, <1>5, Numbers, Sizes
     DEF Goal, RangeInv, Position, Base, WritingFlash
<1>7. Share = Cut /\ Cut' = Cut /\ Cut \in Nat /\ xfer.n + Cut <= xfer.len
  BY <1>3, <1>5, <1>6, Numbers, Sizes DEF Share, Cut
<1>8. xfer'.n = xfer.n + Cut /\ xfer'.bytes = Joined(xfer.sent, Cut)
  BY <1>2, <1>4, <1>7
<1>9. StateInv'
  BY <1>2, <1>3, <1>4, <1>5
     DEF Goal, StateInv, WritingFlash, WritingEeprom, Reading
<1>10. RangeInv'
  BY <1>2, <1>3, <1>4, <1>5, <1>6, <1>7, <1>8
     DEF Goal, RangeInv, WritingEeprom
<1>11. BufferInv'
  BY <1>2, <1>3, <1>4, <1>5, <1>6 DEF Goal, BufferInv
<1>12. ASSUME ~xfer'.rejected PROVE DataInv'
  <2>1. DataInv /\ WritingFlash'
    BY <1>2, <1>4, <1>5, <1>12 DEF Goal, WritingFlash
  <2>2. customReport = xfer.sent /\ buffIndex \in 0 .. Position
    BY <1>3, <1>4, <1>5, <2>1, Numbers DEF Goal, DataInv, BufferInv
  <2>3. ASSUME NEW j \in 0 .. xfer.n - 1 PROVE xfer'.bytes[j] = xfer.bytes[j]
    BY <1>1, <1>7, <1>8, JoinedValue, Numbers
  <2>4. ASSUME NEW j \in 0 .. Cut - 1
        PROVE  xfer'.bytes[Position + j] = customReport[j]
    <3> DEFINE i == Position + j
    <3>1. i \in 0 .. xfer.n + Cut - 1 /\ xfer.n <= i /\ i - xfer.n = j
      BY <1>6, <1>7, Numbers
    <3> HIDE DEF i
    <3>2. Joined(xfer.sent, Cut)[i] = xfer.sent[j]
      BY <1>1, <1>7, <3>1, JoinedValue
    <3> QED BY <1>8, <2>2, <3>2 DEF i
  <2>5. ASSUME NEW j \in 0 .. buffIndex - 1
        PROVE  xfer'.bytes[Position - buffIndex + j] = tempBuff[j]
    <3>1. Position - buffIndex + j \in 0 .. xfer.n - 1
      BY <1>6, <2>2, Numbers
    <3> QED BY <1>5, <2>1, <2>3, <3>1 DEF DataInv
  <2>6. ASSUME NEW j \in 0 .. Position - buffIndex - 1
        PROVE  flash[xfer.start + j] = xfer'.bytes[j]
    <3>1. j \in 0 .. xfer.n - 1
      BY <1>6, <2>2, Numbers
    <3> QED BY <1>5, <2>1, <2>3, <3>1 DEF DataInv
  <2> QED BY <1>2, <1>3, <1>6, <1>7, <2>1, <2>4, <2>5, <2>6 DEF DataInv
<1> QED BY <1>9, <1>10, <1>11, <1>12 DEF Goal

------------------------------------------------------------------------------
(* UCP_WriteTask in a transfer nothing spoiled: it takes what is left of   *)
(* customReport for the transfer, writes m bytes from flashWriteAddr on,   *)
(* all of them inside the transfer's range, and ends at the range's end.   *)

WriteStep(m) ==
  /\ m \in Nat /\ m <= buffIndex + Cut
  /\ flash' = Store(flash, flashWriteAddr, [j \in 0 .. m - 1 |-> Pending(j)], m)
  /\ flashWriteAddr' = flashWriteAddr + m
  /\ buffIndex' = buffIndex + Cut - m
  /\ tempBuff' = [j \in 0 .. buffIndex + Cut - m - 1 |-> Pending(j + m)]
  /\ readOffset' = readOffset + Cut
  /\ usbWrite' = 0
  /\ UNCHANGED <<readEnd, usbWriteAccepted, eeprom>>
  /\ \/ /\ readOffset' < readEnd
        /\ UCP_state' = UCP_state /\ xfer' = xfer
     \/ /\ readOffset' = readEnd /\ m = buffIndex + Cut
        /\ UCP_state' = "IDLE" /\ xfer' = Ended(xfer)

(* A write to flash with bytes left to take, wherever its packets are from; *)
(* and one that stands where its own packets put it.                       *)
Placed ==
  /\ WritingFlash
  /\ xfer.op = "write" /\ xfer.mem = "flash" /\ ~xfer.done
  /\ readOffset < readEnd
  /\ xfer.start + xfer.len + PacketSize < AddrSpace
  /\ readEnd + CredBase = xfer.start + xfer.len
  /\ Base = CredBase
  /\ Position = readOffset + CredBase - xfer.start
  /\ Position \in Nat /\ Cut \in Nat /\ buffIndex <= Position
  /\ flashWriteAddr = xfer.start + Position - buffIndex

Standing ==
  /\ Placed
  /\ usbWrite = 1 /\ usbWriteAccepted = 0
  /\ xfer.n = Position + Cut

LEMMA PlacedByPlace ==
  ASSUME TypeOK, PlaceInv, xfer.intact, WritingFlash, readOffset < readEnd
  PROVE  Placed
<1>1. /\ xfer.start + xfer.len + PacketSize < AddrSpace
      /\ readEnd + CredBase = xfer.start + xfer.len
      /\ xfer.start <= CredBase + readOffset
      /\ flashWriteAddr + buffIndex = CredBase + readOffset
      /\ buffIndex <= CredBase + readOffset - xfer.start
  BY DEF PlaceInv
<1>2. /\ xfer.op = "write" /\ xfer.mem = "flash" /\ ~xfer.done
      /\ Base = CredBase
  BY DEF WritingFlash, Base
<1>3. Position = readOffset + CredBase - xfer.start
  BY <1>2 DEF Position
<1>4. /\ Position \in Nat /\ buffIndex <= Position
      /\ flashWriteAddr = xfer.start + Position - buffIndex
  <2>1. /\ readOffset \in Nat /\ CredBase \in Nat /\ xfer.start \in Nat
        /\ flashWriteAddr \in Nat /\ buffIndex \in Nat
    BY Numbers, Sizes
  <2> QED BY <1>1, <1>3, <2>1
<1>5. Cut \in Nat
  BY Numbers, Sizes DEF Cut
<1> QED BY <1>1, <1>2, <1>3, <1>4, <1>5 DEF Placed

LEMMA WriteTaskStands ==
  ASSUME TypeOK, TransferInv, UCP_WriteTask, Sound \/ Sound'
  PROVE  Goal /\ Sound /\ Standing
<1>1. usbWrite = 1 /\ usbWrite' = 0
  BY DEF UCP_WriteTask
<1>2. xfer' = Stored(TRUE) \/ xfer' = Stored(FALSE)
  BY DEF UCP_WriteTask
<1>3. Sound
  <2>1. CASE xfer.op = "write" /\ xfer.mem = "flash"
    <3>1. xfer' = Ended(xfer) \/ xfer' = xfer
      BY <1>2, <2>1 DEF Stored
    <3>2. xfer'.intact = xfer.intact /\ xfer'.quiet = xfer.quiet
      BY <3>1, EndedFacts, Numbers
    <3> QED BY <3>2 DEF Sound
  <2>2. CASE ~(xfer.op = "write" /\ xfer.mem = "flash")
    BY <1>2, <2>2, InterruptedFacts DEF Stored
  <2> QED BY <2>1, <2>2
<1>4. Goal
  BY <1>3 DEF TransferInv, Goal
<1>5. WritingFlash
  BY <1>1, <1>4 DEF Goal, StateInv
<1>6. /\ xfer.op = "write" /\ xfer.mem = "flash" /\ ~xfer.done /\ Base = CredBase
  BY <1>5 DEF WritingFlash, Base
<1>7. /\ usbWriteAccepted = 0 /\ readOffset < readEnd
      /\ buffIndex <= Position
      /\ flashWriteAddr + buffIndex = CredBase + readOffset
  BY <1>1, <1>4, <1>5, Numbers DEF Goal, BufferInv
<1>8. /\ xfer.start + xfer.len + PacketSize < AddrSpace
      /\ readEnd + CredBase = xfer.start + xfer.len
      /\ Position >= 0 /\ xfer.n = Position + Cut
  BY <1>1, <1>4, <1>6 DEF Goal, RangeInv
<1>9. Position = readOffset + CredBase - xfer.start /\ Position \in Nat
  BY <1>6, <1>8, Numbers, Sizes DEF Position
<1>10. Cut \in Nat
  BY <1>7, Numbers, Sizes DEF Cut
<1>11. flashWriteAddr = xfer.start + Position - buffIndex
  BY <1>7, <1>9, Numbers, Sizes
<1> QED BY <1>1, <1>3, <1>4, <1>5, <1>6, <1>7, <1>8, <1>9, <1>10, <1>11 DEF Standing, Placed

LEMMA WriteTaskSteps ==
  ASSUME TypeOK, Placed, UCP_WriteTask
  PROVE  \E m \in Nat : WriteStep(m)
<1>1. PICK c \in 1 .. PacketSize : \E f \in 0 .. c :
        /\ Takes(c) /\ WritesLastAt(f, c)
        /\ LET m == IF f = 0 THEN 0 ELSE buffIndex + f IN
             /\ flash' = Store(flash, flashWriteAddr,
                               [j \in 0 .. m - 1 |-> Pending(j)], m)
             /\ flashWriteAddr' = Wrap(flashWriteAddr + m)
             /\ buffIndex' = buffIndex + c - m
             /\ tempBuff' = [j \in 0 .. buffIndex + c - m - 1 |-> Pending(j + m)]
        /\ readOffset' = Wrap(readOffset + c)
        /\ IF Ends(c)
           THEN UCP_state' = "IDLE" /\ xfer' = Stored(TRUE)
           ELSE UNCHANGED UCP_state /\ xfer' = Stored(FALSE)
  BY DEF UCP_WriteTask
<1>2. PICK f \in 0 .. c :
        /\ Takes(c) /\ WritesLastAt(f, c)
        /\ LET m == IF f = 0 THEN 0 ELSE buffIndex + f IN
             /\ flash' = Store(flash, flashWriteAddr,
                               [j \in 0 .. m - 1 |-> Pending(j)], m)
             /\ flashWriteAddr' = Wrap(flashWriteAddr + m)
             /\ buffIndex' = buffIndex + c - m
             /\ tempBuff' = [j \in 0 .. buffIndex + c - m - 1 |-> Pending(j + m)]
        /\ readOffset' = Wrap(readOffset + c)
        /\ IF Ends(c)
           THEN UCP_state' = "IDLE" /\ xfer' = Stored(TRUE)
           ELSE UNCHANGED UCP_state /\ xfer' = Stored(FALSE)
  BY <1>1
<1> DEFINE m == IF f = 0 THEN 0 ELSE buffIndex + f
<1>3. ASSUME NEW i \in 1 .. PacketSize
      PROVE  /\ Wrap(readOffset + i) = readOffset + i
             /\ Ends(i) <=> readOffset + i >= readEnd
  <2>1. readOffset + i \in Nat /\ readOffset + i < AddrSpace
    BY Numbers, Sizes DEF Placed
  <2> QED BY <2>1, WrapType DEF Ends
<1>4. c = Cut
  <2>1. CASE c < readEnd - readOffset
    <3>1. ~Ends(c)
      BY <1>3, <2>1, Numbers
    <3>2. c = PacketSize
      BY <1>2, <3>1 DEF Takes
    <3> QED BY <2>1, <3>2, Numbers, Sizes DEF Cut
  <2>2. CASE c = readEnd - readOffset
    BY <2>2, Numbers, Sizes DEF Cut
  <2>3. CASE c > readEnd - readOffset
    <3>1. readEnd - readOffset \in 1 .. c - 1 /\ c - 1 <= PacketSize
      BY <2>3, Numbers, Sizes DEF Placed
    <3>2. Ends(readEnd - readOffset)
      BY <1>3, <3>1, Numbers, Sizes
    <3> QED BY <1>2, <3>1, <3>2 DEF Takes
  <2> QED BY <2>1, <2>2, <2>3, Numbers, Sizes
<1>5. readOffset' = readOffset + Cut /\ readOffset' <= readEnd
  <2>1. Cut <= readEnd - readOffset
    BY Numbers, Sizes DEF Placed, Cut
  <2>2. readOffset' = readOffset + Cut
    BY <1>2, <1>3, <1>4
  <2>3. Cut \in Nat
    BY DEF Placed
  <2> QED BY <2>1, <2>2, <2>3, Numbers
<1>6. Ends(c) <=> readOffset' = readEnd
  BY <1>3, <1>4, <1>5, Numbers, Sizes
<1>7. m \in Nat /\ m <= buffIndex + Cut
  BY <1>4, Numbers
<1>8. flashWriteAddr' = flashWriteAddr + m
  <2>1. flashWriteAddr + m < AddrSpace /\ flashWriteAddr + m \in Nat
    BY <1>5, <1>7, Numbers, Sizes DEF Placed
  <2>2. flashWriteAddr' = Wrap(flashWriteAddr + m)
    BY <1>2
  <2> QED BY <2>1, <2>2, WrapType
<1>9. Ends(c) => m = buffIndex + Cut
  <2> SUFFICES ASSUME Ends(c) PROVE f = c
    BY <1>4, Numbers
  <2>1. Flushes(c)
    BY DEF Flushes
  <2>2. ~(f < c)
    BY <1>2, <2>1 DEF WritesLastAt
  <2> QED BY <2>2
<1>10. /\ Ends(c) => UCP_state' = "IDLE" /\ xfer' = Ended(xfer)
       /\ ~Ends(c) => UCP_state' = UCP_state /\ xfer' = xfer
  <2>1. Stored(TRUE) = Ended(xfer) /\ Stored(FALSE) = xfer
    BY DEF Stored, Placed
  <2> QED BY <1>2, <2>1
<1>11. /\ flash' = Store(flash, flashWriteAddr, [j \in 0 .. m - 1 |-> Pending(j)], m)
       /\ buffIndex' = buffIndex + Cut - m
       /\ tempBuff' = [j \in 0 .. buffIndex + Cut - m - 1 |-> Pending(j + m)]
  BY <1>2, <1>4
<1>12. usbWrite' = 0 /\ UNCHANGED <<readEnd, usbWriteAccepted, eeprom>>
  BY DEF UCP_WriteTask
<1>13. /\ Ends(c) => readOffset' = readEnd
       /\ ~Ends(c) => readOffset' < readEnd
  BY <1>5, <1>6, Numbers, Sizes DEF Placed
<1> HIDE DEF m
<1>14. WriteStep(m)
  <2>1. CASE Ends(c)
    BY <2>1, <1>5, <1>7, <1>8, <1>9, <1>10, <1>11, <1>12, <1>13, Zenon DEF WriteStep
  <2>2. CASE ~Ends(c)
    BY <2>2, <1>5, <1>7, <1>8, <1>10, <1>11, <1>12, <1>13, Zenon DEF WriteStep
  <2> QED BY <2>1, <2>2
<1> QED BY <1>7, <1>14

LEMMA WriteTaskInv ==
  ASSUME TypeOK, TransferInv, UCP_WriteTask, Sound'
  PROVE  Goal'
<1>1. Goal /\ Sound /\ Standing
  BY WriteTaskStands
<1>2. PICK m \in Nat : WriteStep(m)
  BY <1>1, WriteTaskSteps DEF Standing
<1>3. /\ xfer'.op = "write" /\ xfer'.mem = "flash"
      /\ xfer'.start = xfer.start /\ xfer'.len = xfer.len
      /\ xfer'.n = xfer.n /\ xfer'.bytes = xfer.bytes
      /\ xfer'.rejected = xfer.rejected
      /\ readOffset' < readEnd => xfer'.done = FALSE /\ UCP_state' = "WRITTING"
      /\ ~(readOffset' < readEnd) =>
           /\ xfer'.done /\ UCP_state' = "IDLE"
           /\ readOffset' = readEnd /\ m = buffIndex + Cut
  <2>1. UCP_state = "WRITTING" /\ xfer.done \in BOOLEAN
    BY <1>1, Numbers DEF Goal, StateInv, Standing, Placed, HistoryOK
  <2>2. CASE readOffset' < readEnd /\ UCP_state' = UCP_state /\ xfer' = xfer
    BY <1>1, <2>1, <2>2 DEF Standing, Placed
  <2>3. CASE /\ readOffset' = readEnd /\ m = buffIndex + Cut
             /\ UCP_state' = "IDLE" /\ xfer' = Ended(xfer)
    <3>1. ~(readOffset' < readEnd)
      BY <2>3, Numbers
    <3> QED BY <1>1, <2>3, <3>1, EndedFacts, Numbers DEF Standing, Placed, Sound
  <2> QED BY <1>2, <2>2, <2>3 DEF WriteStep
<1>4. /\ m \in Nat /\ m <= buffIndex + Cut
      /\ flashWriteAddr' = flashWriteAddr + m
      /\ buffIndex' = buffIndex + Cut - m
      /\ readOffset' = readOffset + Cut /\ readEnd' = readEnd
      /\ usbWrite' = 0 /\ usbWriteAccepted' = 0
  BY <1>1, <1>2 DEF WriteStep, Standing, Placed
<1>. DEFINE s == [j \in 0 .. m - 1 |-> Pending(j)]
<1>5. /\ flash' = Store(flash, flashWriteAddr, s, m)
      /\ tempBuff' = [j \in 0 .. buffIndex + Cut - m - 1 |-> Pending(j + m)]
  BY <1>2 DEF WriteStep
<1> HIDE DEF s
(* the numbers of the state before the step *)
<1>10. /\ Base = CredBase /\ Position \in Nat /\ Cut \in Nat
       /\ Position = readOffset + CredBase - xfer.start
       /\ readEnd + CredBase = xfer.start + xfer.len
       /\ buffIndex <= Position /\ xfer.n = Position + Cut
       /\ flashWriteAddr = xfer.start + Position - buffIndex
       /\ readOffset < readEnd
       /\ xfer.start + xfer.len + PacketSize < AddrSpace
  BY <1>1 DEF Standing, Placed
<1>11. /\ readOffset \in Nat /\ readEnd \in Nat /\ buffIndex \in Nat
       /\ flashWriteAddr \in Nat /\ CredBase \in Nat /\ PacketSize \in Nat
       /\ AddrSpace \in Nat
       /\ xfer.start \in Nat /\ xfer.len \in Nat /\ xfer.n \in Nat
  BY Numbers, Sizes
<1>12. xfer.n <= xfer.len
  BY <1>1 DEF Goal, RangeInv
<1>13. buffIndex' \in Nat
  BY <1>4, <1>10, <1>11
<1>14. /\ Base' = CredBase /\ Position' = readOffset' + CredBase - xfer.start
  BY <1>3, <1>10 DEF Base, Position
<1>15. /\ Position' = Position + Cut
       /\ Position' \in Nat
       /\ Position' - buffIndex' = Position - buffIndex + m
       /\ buffIndex' <= Position'
  BY <1>4, <1>10, <1>11, <1>13, <1>14
<1>6. StateInv'
  BY <1>3, <1>4 DEF StateInv, WritingFlash, WritingEeprom, Reading
<1>7. RangeInv'
  <2>1. xfer.n = Position'
    BY <1>10, <1>15
  <2>2. readOffset' <= readEnd'
    <3>1. readOffset' < readEnd \/ readOffset' = readEnd
      BY <1>3
    <3>2. readOffset' \in Nat
      BY <1>4, <1>10, <1>11
    <3> QED BY <1>4, <1>11, <3>1, <3>2
  <2>3. ~(readOffset' < readEnd) => xfer.n = xfer.len
    <3> SUFFICES ASSUME ~(readOffset' < readEnd) PROVE xfer.n = xfer.len
      OBVIOUS
    <3>1. readOffset + Cut = readEnd
      BY <1>3, <1>4
    <3>2. /\ readEnd + CredBase = xfer.start + xfer.len
          /\ xfer.n = Position + Cut
          /\ Position = readOffset + CredBase - xfer.start
      BY <1>10
    <3>3. /\ readEnd \in Nat /\ CredBase \in Nat /\ readOffset \in Nat
          /\ Cut \in Nat
          /\ xfer.start \in Nat /\ xfer.len \in Nat /\ xfer.n \in Nat
      BY <1>10, <1>11
    <3>4. (readOffset + CredBase - xfer.start) + Cut = xfer.len
      BY <3>1, <3>2, <3>3
    <3> QED BY <3>2, <3>4
  <2>4. Position' >= 0
    BY <1>15
  <2> QED BY <1>3, <1>4, <1>10, <1>12, <1>14, <2>1, <2>2, <2>3, <2>4
             DEF RangeInv, WritingEeprom
<1>8. BufferInv'
  <2>1. flashWriteAddr' + buffIndex' = CredBase + readOffset'
    BY <1>4, <1>10, <1>11
  <2> QED BY <1>4, <1>15, <2>1 DEF BufferInv
<1>9. ASSUME ~xfer'.rejected PROVE DataInv'
  <2>1. /\ \A j \in 0 .. Cut - 1 : xfer.bytes[Position + j] = customReport[j]
        /\ \A j \in 0 .. buffIndex - 1 :
             xfer.bytes[Position - buffIndex + j] = tempBuff[j]
        /\ \A j \in 0 .. Position - buffIndex - 1 :
             flash[xfer.start + j] = xfer.bytes[j]
    <3>1. DataInv /\ WritingFlash /\ usbWrite = 1
      BY <1>1, <1>3, <1>9 DEF Goal, Standing, Placed
    <3> QED BY <3>1 DEF DataInv
  <2> DEFINE from == Position - buffIndex
  <2>2. ASSUME NEW j \in 0 .. buffIndex + Cut - 1
        PROVE  Pending(j) = xfer.bytes[from + j]
    <3>1. CASE j < buffIndex
      <4>1. j \in 0 .. buffIndex - 1
        BY <1>11, <3>1
      <4> QED BY <2>1, <3>1, <4>1 DEF Pending
    <3>2. CASE ~(j < buffIndex)
      <4> DEFINE i == j - buffIndex
      <4>1. i \in 0 .. Cut - 1 /\ Position + i = from + j
        BY <1>10, <1>11, <3>2
      <4>2. Pending(j) = customReport[i]
        BY <3>2 DEF Pending
      <4> HIDE DEF i, from
      <4>3. xfer.bytes[Position + i] = customReport[i]
        BY <2>1, <4>1
      <4> QED BY <4>1, <4>2, <4>3
    <3> QED BY <3>1, <3>2
  <2>3. from \in Nat /\ from + m = Position' - buffIndex'
        /\ flashWriteAddr = xfer.start + from
    BY <1>10, <1>11, <1>15
  <2> HIDE DEF from
  <2>4. ASSUME NEW j \in 0 .. buffIndex' - 1
        PROVE  tempBuff'[j] = xfer.bytes[Position' - buffIndex' + j]
    <3>1. j + m \in 0 .. buffIndex + Cut - 1 /\ j \in 0 .. buffIndex + Cut - m - 1
      BY <1>4, <1>10, <1>11
    <3>2. tempBuff'[j] = Pending(j + m)
      BY <1>5, <3>1
    <3>3. from + (j + m) = Position' - buffIndex' + j
      BY <1>15, <2>3, <1>13, <1>4
    <3> QED BY <2>2, <3>1, <3>2, <3>3
  <2>5. ASSUME NEW j \in 0 .. from + m - 1
        PROVE  flash'[xfer.start + j] = xfer.bytes[j]
    <3> DEFINE a == xfer.start + j
    <3>1. flash \in [Addr -> Byte] /\ flashWriteAddr \in Addr
      BY TypeParts DEF MachineOK
    <3>2. flashWriteAddr + m <= AddrSpace
      BY <1>4, <1>10, <1>11, <1>12
    <3>3. a \in Addr
      BY <1>4, <1>11, <2>3, <3>2 DEF Addr
    <3>4. CASE j < from
      <4>1. j \in 0 .. Position - buffIndex - 1
        BY <3>4, <1>4, <2>3 DEF from
      <4>2. ~(flashWriteAddr <= a /\ a < flashWriteAddr + m)
        BY <1>4, <1>11, <2>3, <3>4
      <4>3. flash'[a] = flash[a]
        BY <1>4, <1>5, <3>1, <3>2, <3>3, <4>2, StoreValue
      <4> QED BY <2>1, <4>1, <4>3
    <3>5. CASE from <= j
      <4>1. flashWriteAddr <= a /\ a < flashWriteAddr + m /\ a - flashWriteAddr = j - from
        BY <1>4, <1>11, <2>3, <3>5
      <4>2. flash'[a] = s[a - flashWriteAddr]
        BY <1>4, <1>5, <3>1, <3>2, <3>3, <4>1, StoreValue
      <4>3. /\ j - from \in 0 .. m - 1 /\ j - from \in 0 .. buffIndex + Cut - 1
            /\ from + (j - from) = j
        BY <1>4, <1>10, <1>11, <2>3, <3>5
      <4>4. s[j - from] = Pending(j - from)
        BY <4>3 DEF s
      <4> QED BY <2>2, <4>1, <4>2, <4>3, <4>4
    <3> QED BY <2>3, <3>4, <3>5
  <2>6. CASE readOffset' < readEnd
    <3>1. WritingFlash'
      BY <1>3, <2>6 DEF WritingFlash
    <3>2. \A j \in 0 .. Position' - buffIndex' - 1 :
            flash'[xfer.start + j] = xfer.bytes[j]
      BY <2>3, <2>5
    <3> QED BY <1>3, <1>4, <2>4, <3>1, <3>2 DEF DataInv
  <2>7. CASE ~(readOffset' < readEnd)
    <3>1. ~WritingFlash'
      BY <1>3, <2>7 DEF WritingFlash
    <3>2. from + m = xfer.n
      <4>1. buffIndex' = 0
        BY <1>3, <1>4, <1>10, <1>11, <2>7
      <4>2. from + m = Position'
        BY <1>15, <2>3, <4>1
      <4> QED BY <1>10, <1>15, <4>2
    <3>3. \A j \in 0 .. xfer.n - 1 : flash'[xfer.start + j] = xfer.bytes[j]
      <4>1. \A j \in 0 .. from + m - 1 : flash'[xfer.start + j] = xfer.bytes[j]
        BY <2>5
      <4>2. from \in Nat /\ m \in Nat /\ xfer.n \in Nat
        BY <1>11, <2>3
      <4> QED BY <3>2, <4>1, <4>2
    <3>4. xfer'.start = xfer.start /\ xfer'.n = xfer.n
          /\ xfer'.bytes = xfer.bytes /\ xfer'.mem = "flash"
      BY <1>3
    <3> QED BY <3>1, <3>3, <3>4 DEF DataInv, Memory
  <2> QED BY <2>6, <2>7
<1> QED BY <1>6, <1>7, <1>8, <1>9 DEF Goal

------------------------------------------------------------------------------
(* The three kinds of steps together, and the theorems.                    *)

LEMMA DecodeInv ==
  ASSUME TypeOK, TransferInv, NEW p \in Packets, UCP_Decode(p), Sound'
  PROVE  Goal'
<1> USE DEF range, flags, buffer, memory
<1>1. CASE DecodeWrongSize(p)
  BY <1>1, WrongSizeInv
<1>2. CASE DecodeLocked(p)
  BY <1>2, AnswerInv DEF DecodeLocked
<1>3. CASE DecodeWriteData(p)
  BY <1>3, WriteDataInv
<1>4. CASE DecodeWriteAbort(p)
  BY <1>4, DroppedInv DEF DecodeWriteAbort, flags
<1>5. CASE DecodeEepromData(p)
  BY <1>5, EepromDataInv
<1>6. CASE DecodeEepromAbort(p)
  BY <1>6, DroppedInv DEF DecodeEepromAbort
<1>7. CASE DecodeNotIdle(p)
  BY <1>7, DroppedInv DEF DecodeNotIdle
<1>8. CASE DecodeAnswer(p)
  BY <1>8, AnswerInv DEF DecodeAnswer, TakesCommands
<1>9. CASE \/ DecodeRead(p) \/ DecodeWrite(p) \/ DecodeSetPin(p)
           \/ DecodeReadPin(p) \/ DecodeKeyboard(p)
  BY <1>9, CommandInv
<1> QED BY <1>1, <1>2, <1>3, <1>4, <1>5, <1>6, <1>7, <1>8, <1>9 DEF UCP_Decode

LEMMA TaskInv ==
  ASSUME TypeOK, TransferInv, UCP_Task, Sound'
  PROVE  Goal'
<1> USE DEF range, flags, buffer, memory
<1>1. CASE TaskReadCmd
  BY <1>1, AnswerInv DEF TaskReadCmd
<1>2. CASE TaskRead
  BY <1>2, ReadInv
<1>3. CASE TaskReadEmpty
  BY <1>3, DroppedInv DEF TaskReadEmpty
<1>4. CASE TaskWrite
  BY <1>4, TaskWriteInv
<1> QED BY <1>1, <1>2, <1>3, <1>4 DEF UCP_Task

(* An uninterrupted write to flash that was not begun in this step was one *)
(* before it.                                                              *)
LEMMA StillWriting ==
  ASSUME TypeOK, [Next]_vars, ~ \E p \in Packets : DecodeWrite(p),
         xfer'.intact, WritingFlash'
  PROVE  /\ xfer.intact /\ WritingFlash
         /\ xfer'.start = xfer.start /\ xfer'.len = xfer.len
         /\ xfer' # Interrupted /\ xfer' # Lost /\ xfer' # NoTransfer
<1> DEFINE Same(x, y) == /\ x.op = y.op /\ x.mem = y.mem
                         /\ x.start = y.start /\ x.len = y.len
                         /\ x.intact = y.intact
<1>1. HistoryOK(xfer)
  BY Numbers
<1>2. xfer'.op = "write" /\ xfer'.mem = "flash" /\ ~xfer'.done
  BY DEF WritingFlash
<1>3. xfer' # Lost /\ xfer' # NoTransfer
  <2>1. Lost.op = "none" /\ NoTransfer.op = "none"
    BY DEF Lost, NoTransfer
  <2> QED BY <1>2, <2>1
<1>4. xfer' # Interrupted
  <2> SUFFICES ASSUME xfer' = Interrupted PROVE FALSE
    OBVIOUS
  <2>1. CASE xfer.done
    BY <1>2, <2>1 DEF Interrupted
  <2>2. CASE ~xfer.done
    BY <1>3, <2>2 DEF Interrupted
  <2> QED BY <2>1, <2>2
<1>5. ASSUME NEW y, Same(y, xfer), HistoryOK(y), y.done = xfer.done,
             xfer' = y \/ xfer' = Ended(y)
      PROVE  Same(xfer', xfer) /\ ~xfer.done
  <2>1. CASE xfer' = y
    BY <1>2, <1>5, <2>1
  <2>2. CASE xfer' = Ended(y)
    BY <1>2, <1>5, <2>2, EndedFacts
  <2> QED BY <1>5, <2>1, <2>2
<1>6. ASSUME NEW t, NEW k \in 0 .. PacketSize, HistoryOK(Moved(t, k)),
             xfer' = Moved(t, k) \/ xfer' = Ended(Moved(t, k))
      PROVE  Same(xfer', xfer) /\ ~xfer.done
  <2> DEFINE y == Moved(t, k)
  <2>1. Same(y, xfer) /\ y.done = xfer.done
    BY <1>1, <1>6, MovedFacts, Sizes
  <2>2. HistoryOK(y) /\ (xfer' = y \/ xfer' = Ended(y))
    BY <1>6
  <2> HIDE DEF y, Same
  <2> QED BY <1>5, <2>1, <2>2
<1>7. ASSUME NEW op, NEW mem, NEW start, NEW len,
             ~(op = "write" /\ mem = "flash"),
             xfer' = Begin(op, mem, start, len)
      PROVE  FALSE
  <2>1. CASE start + len + PacketSize < AddrSpace
    <3>1. xfer'.op = op /\ xfer'.mem = mem
      BY <1>7, <2>1 DEF Begin
    <3> QED BY <1>2, <1>7, <3>1
  <2>2. CASE ~(start + len + PacketSize < AddrSpace)
    BY <1>3, <1>7, <2>2 DEF Begin
  <2> QED BY <2>1, <2>2
<1>8. Same(xfer', xfer) /\ ~xfer.done
  <2>1. ASSUME NEW p \in Packets, UCP_Decode(p)
        PROVE  Same(xfer', xfer) /\ ~xfer.done
    <3>1. CASE DecodeWrongSize(p) \/ DecodeWriteData(p)
      BY <1>1, <1>2, <3>1 DEF DecodeWrongSize, DecodeWriteData, HistoryOK
    <3>2. CASE DecodeLocked(p) \/ DecodeAnswer(p)
      BY <1>2, <3>2 DEF DecodeLocked, DecodeAnswer
    <3>3. CASE DecodeWriteAbort(p) \/ DecodeEepromAbort(p) \/ DecodeNotIdle(p)
      BY <1>4, <3>3 DEF DecodeWriteAbort, DecodeEepromAbort, DecodeNotIdle
    <3>4. CASE DecodeEepromData(p)
      <4>1. HistoryOK(Moved(p.bytes, PacketSize)) /\ PacketSize \in 0 .. PacketSize
        BY <1>1, MovedType, PacketType, Sizes
      <4>2. \/ xfer' = Moved(p.bytes, PacketSize)
            \/ xfer' = Ended(Moved(p.bytes, PacketSize))
        BY <3>4 DEF DecodeEepromData
      <4> HIDE DEF Same
      <4> QED BY <1>6, <4>1, <4>2
    <3>5. CASE DecodeRead(p)
      <4>1. \E mem, start : xfer' = Begin("read", mem, start, p.length)
        BY <3>5 DEF DecodeRead
      <4> QED BY <1>7, <4>1
    <3>6. CASE DecodeSetPin(p) \/ DecodeReadPin(p) \/ DecodeKeyboard(p)
      BY <1>7, <3>6 DEF DecodeSetPin, DecodeReadPin, DecodeKeyboard
    <3> HIDE DEF Same
    <3> QED BY <2>1, <3>1, <3>2, <3>3, <3>4, <3>5, <3>6 DEF UCP_Decode
  <2>2. CASE UCP_Task
    <3>1. CASE TaskReadCmd
      BY <1>2, <3>1 DEF TaskReadCmd
    <3>2. CASE TaskRead
      <4>1. customReport' \in [Index -> Byte]
        <5>1. TypeOK'
          BY <2>2, TaskType
        <5> QED BY <5>1 DEF TypeOK
      <4>2. HistoryOK(Moved(customReport', Share)) /\ Share \in 0 .. PacketSize
        BY <1>1, <4>1, MovedType, ShareType
      <4>3. \/ xfer' = Moved(customReport', Share)
            \/ xfer' = Ended(Moved(customReport', Share))
        BY <3>2 DEF TaskRead
      <4> HIDE DEF Same
      <4> QED BY <1>6, <4>2, <4>3
    <3>3. CASE TaskReadEmpty
      BY <1>4, <3>3 DEF TaskReadEmpty
    <3>4. CASE TaskWrite
      <4>1. HistoryOK(Moved(xfer.sent, Share)) /\ Share \in 0 .. PacketSize
        BY <1>1, MovedType, ShareType DEF HistoryOK
      <4>2. xfer' = Moved(xfer.sent, Share)
        BY <3>4 DEF TaskWrite
      <4> HIDE DEF Same
      <4> QED BY <1>6, <4>1, <4>2
    <3> HIDE DEF Same
    <3> QED BY <2>2, <3>1, <3>2, <3>3, <3>4 DEF UCP_Task
  <2>3. CASE UCP_WriteTask
    <3>1. xfer' \in {Interrupted, xfer, Ended(xfer)}
      BY <2>3 DEF UCP_WriteTask, Stored
    <3>2. Same(xfer, xfer)
      OBVIOUS
    <3> HIDE DEF Same
    <3> QED BY <1>1, <1>4, <1>5, <3>1, <3>2
  <2>4. CASE UCP_Lock \/ UCP_Unlock \/ ResetPin \/ Restart
    BY <1>3, <1>4, <2>4 DEF UCP_Lock, UCP_Unlock, ResetPin, Restart
  <2>5. CASE UNCHANGED vars
    BY <1>2, <2>5 DEF vars
  <2> HIDE DEF Same
  <2> QED BY <2>1, <2>2, <2>3, <2>4, <2>5 DEF Next
<1> QED BY <1>2, <1>3, <1>4, <1>8 DEF WritingFlash

(* The steps of a write other than UCP_WriteTask leave its place alone.    *)
LEMMA PlaceKept ==
  ASSUME [Next]_vars, ~UCP_WriteTask, ~ \E p \in Packets : DecodeWrite(p),
         UCP_state = "WRITTING",
         xfer' # Interrupted, xfer' # Lost, xfer' # NoTransfer
  PROVE  UNCHANGED <<UCP_state, range, buffer, memory>>
<1> USE DEF range, flags, buffer, memory
<1>1. ASSUME NEW p \in Packets, UCP_Decode(p)
      PROVE  UNCHANGED <<UCP_state, range, buffer, memory>>
  BY <1>1 DEF UCP_Decode, DecodeWrongSize, DecodeLocked, DecodeWriteData,
     DecodeWriteAbort, DecodeEepromData, DecodeEepromAbort, DecodeRead,
     DecodeNotIdle, DecodeSetPin, DecodeReadPin, DecodeKeyboard, DecodeAnswer,
     TakesCommands
<1>2. CASE UCP_Task
  BY <1>2 DEF UCP_Task, TaskReadCmd, TaskRead, TaskReadEmpty, TaskWrite
<1>3. CASE UCP_Lock \/ UCP_Unlock \/ ResetPin \/ Restart
  BY <1>3 DEF UCP_Lock, UCP_Unlock, ResetPin, Restart
<1>4. CASE UNCHANGED vars
  BY <1>4 DEF vars
<1> QED BY <1>1, <1>2, <1>3, <1>4 DEF Next

(* A write that has no bytes left ends with the next one it takes.         *)
LEMMA NothingLeft ==
  ASSUME TypeOK, UCP_WriteTask, WritingFlash, xfer.intact,
         readOffset = readEnd, readEnd + 1 < AddrSpace
  PROVE  ~WritingFlash'
<1>1. PICK c \in 1 .. PacketSize :
        Takes(c) /\ (Ends(c) => xfer' = Stored(TRUE))
  BY DEF UCP_WriteTask
<1>2. Ends(1)
  BY Numbers, WrapType DEF Ends
<1>3. c = 1
  <2>1. ~(1 \in 1 .. c - 1)
    BY <1>1, <1>2 DEF Takes
  <2> QED BY <2>1, Sizes
<1>4. xfer' = Ended(xfer)
  BY <1>1, <1>2, <1>3 DEF Stored, WritingFlash
<1>5. xfer'.done
  BY <1>4, EndedFacts, Numbers
<1> QED BY <1>5 DEF WritingFlash

LEMMA PlaceStep ==
  ASSUME TypeOK, PlaceInv, [Next]_vars
  PROVE  PlaceInv'
<1> USE DEF range, buffer
<1>1. SUFFICES ASSUME xfer'.intact, WritingFlash' PROVE PlaceInv'
  BY DEF PlaceInv
<1>2. ASSUME NEW p \in Packets, DecodeWrite(p) PROVE PlaceInv'
  <2> DEFINE start == CredBase + p.offset
  <2>1. xfer' = Begin("write", "flash", start, p.length)
    BY <1>2 DEF DecodeWrite
  <2>2. start + p.length + PacketSize < AddrSpace
    <3>1. Lost.intact = FALSE
      BY DEF Lost, NoTransfer
    <3> QED BY <1>1, <2>1, <3>1 DEF Begin
  <2>3. xfer'.start = start /\ xfer'.len = p.length
    BY <2>1, <2>2 DEF Begin
  <2>4. p.offset \in Nat /\ p.length \in Nat
    BY <1>2, PacketType, Sizes DEF Addr
  <2>5. /\ UCP_state' = "WRITTING" /\ buffIndex' = 0
        /\ readOffset' = p.offset /\ readEnd' = p.offset + p.length
        /\ flashWriteAddr' = start
    BY <1>2, <2>2, <2>4, WrapType, Sizes DEF DecodeWrite
  <2> QED BY <2>2, <2>3, <2>4, <2>5, Sizes DEF PlaceInv
<1>3. CASE ~ \E p \in Packets : DecodeWrite(p)
  <2>1. /\ xfer.intact /\ WritingFlash
        /\ xfer'.start = xfer.start /\ xfer'.len = xfer.len
        /\ xfer' # Interrupted /\ xfer' # Lost /\ xfer' # NoTransfer
    BY <1>1, <1>3, StillWriting
  <2>2. CASE ~UCP_WriteTask
    <3>1. UNCHANGED <<UCP_state, readOffset, readEnd, buffIndex, flashWriteAddr>>
      BY <1>3, <2>1, <2>2, PlaceKept DEF PlaceInv
    <3> QED BY <2>1, <3>1 DEF PlaceInv
  <2>3. CASE UCP_WriteTask
    <3>1. readOffset < readEnd
      <4> SUFFICES ASSUME ~(readOffset < readEnd) PROVE FALSE
        OBVIOUS
      <4>1. readOffset = readEnd /\ readEnd + 1 < AddrSpace
        BY <2>1, Numbers, Sizes DEF PlaceInv
      <4> QED BY <1>1, <2>1, <2>3, <4>1, NothingLeft
    <3>2. Placed
      BY <2>1, <3>1, PlacedByPlace
    <3>3. PICK m \in Nat : WriteStep(m)
      BY <2>3, <3>2, WriteTaskSteps
    <3>4. readOffset' < readEnd /\ UCP_state' = UCP_state
      <4>1. ~(xfer' = Ended(xfer))
        BY <1>1, <2>1, EndedFacts, Numbers DEF WritingFlash
      <4> QED BY <3>3, <4>1 DEF WriteStep
    <3>5. /\ m <= buffIndex + Cut
          /\ flashWriteAddr' = flashWriteAddr + m
          /\ buffIndex' = buffIndex + Cut - m
          /\ readOffset' = readOffset + Cut /\ readEnd' = readEnd
      BY <3>3 DEF WriteStep
    <3>6. Cut \in Nat
      BY <3>2 DEF Placed
    <3> QED BY <2>1, <3>4, <3>5, <3>6, Numbers, Sizes DEF PlaceInv
  <2> QED BY <2>2, <2>3
<1> QED BY <1>2, <1>3

NoneBegun ==
  /\ UCP_state = "DEVICE_LOCKED" /\ usbWrite = 0 /\ usbWriteAccepted = 0
  /\ xfer = NoTransfer

LEMMA NoTransferInv == NoneBegun => TransferInv
<1> SUFFICES ASSUME NoneBegun PROVE TransferInv
  OBVIOUS
<1> USE DEF NoneBegun
<1>1. xfer.op = "none" /\ xfer.done /\ xfer.mem = "flash"
      /\ xfer.start = 0 /\ xfer.len = 0 /\ xfer.n = 0
  BY DEF NoTransfer
<1>2. StateInv /\ RangeInv /\ BufferInv
  BY <1>1, Sizes DEF StateInv, RangeInv, BufferInv, WritingFlash, WritingEeprom, Reading
<1>3. DataInv
  BY <1>1 DEF DataInv, WritingFlash
<1>4. PlaceInv
  BY <1>1 DEF PlaceInv, WritingFlash
<1> QED BY <1>2, <1>3, <1>4 DEF TransferInv

LEMMA TransferStep ==
  ASSUME TypeOK, TransferInv, [Next]_vars
  PROVE  TransferInv'
<1>1. SUFFICES ASSUME Sound' PROVE Goal'
  <2>1. PlaceInv'
    BY PlaceStep DEF TransferInv
  <2> QED BY <2>1 DEF TransferInv, Goal
<1>2. CASE UNCHANGED vars
  BY <1>1, <1>2 DEF TransferInv, Goal, vars, range, flags, buffer, memory, Sound,
     StateInv, RangeInv, BufferInv, DataInv, Base, Position, Cut, Memory,
     WritingFlash, WritingEeprom, Reading
<1>3. ASSUME NEW p \in Packets, UCP_Decode(p) PROVE Goal'
  BY <1>1, <1>3, DecodeInv
<1>4. CASE UCP_Task
  BY <1>1, <1>4, TaskInv
<1>5. CASE UCP_WriteTask
  BY <1>1, <1>5, WriteTaskInv
<1>6. CASE UCP_Lock \/ UCP_Unlock
  BY <1>1, <1>6, DroppedInv DEF UCP_Lock, UCP_Unlock,
     range, flags, buffer, memory
<1>7. CASE ResetPin
  BY <1>1, <1>7 DEF ResetPin, Lost, NoTransfer, Sound
<1>8. CASE Restart
  <2>1. NoneBegun'
    BY <1>8 DEF Restart, NoneBegun, NoTransfer
  <2>2. NoneBegun' => TransferInv'
    BY NoTransferInv, PTL
  <2> QED BY <1>1, <2>1, <2>2 DEF TransferInv, Goal
<1> QED BY <1>2, <1>3, <1>4, <1>5, <1>6, <1>7, <1>8 DEF Next

(* In a transfer nothing spoiled, the state, the offsets, the flags and    *)
(* the buffer of ucp.c agree about how far it is, and every byte moved so  *)
(* far is where that says: in customReport, in tempBuff or in memory.      *)
THEOREM TransferInvariant == Spec => []TransferInv
<1>1. Init => TransferInv
  <2>1. Init => NoneBegun
    BY DEF Init, NoneBegun
  <2> QED BY <2>1, NoTransferInv
<1>2. TypeOK /\ TransferInv /\ [Next]_vars => TransferInv'
  BY TransferStep
<1> QED BY <1>1, <1>2, TypeCorrect, PTL DEF Spec

LEMMA InvariantExact == TypeOK /\ TransferInv => TransferExact
<1> SUFFICES ASSUME TypeOK, TransferInv, Complete, xfer.quiet, ~xfer.rejected
             PROVE  MemoryHolds
  BY DEF TransferExact
<1>1. Goal /\ xfer.done /\ xfer.mem # "ram"
  BY DEF TransferInv, Goal, Sound, Complete
<1>2. ~WritingFlash
  BY <1>1 DEF WritingFlash
<1>3. xfer.n = xfer.len
  BY <1>1 DEF Goal, RangeInv
<1>4. \A j \in 0 .. xfer.n - 1 :
        Memory(xfer.mem)[xfer.start + j] = xfer.bytes[j]
  BY <1>1, <1>2 DEF Goal, DataInv
<1> QED BY <1>3, <1>4, Numbers DEF MemoryHolds

(* A transfer the device ended by itself moved exactly the bytes the host  *)
(* sent and read back, or was answered, however packets were repeated,     *)
(* replaced or rejected and however page boundaries cut them.              *)
THEOREM TransferCorrect == Spec => []TransferExact
<1> QED BY InvariantExact, TypeCorrect, TransferInvariant, PTL

LEMMA EepromStepWithin ==
  ASSUME TypeOK, TransferInv, Sound, NEW p \in Packets, DecodeEepromData(p),
         NEW a \in Addr, eeprom'[a] # eeprom[a]
  PROVE  Covers(a) /\ xfer.mem = "eeprom"
<1>1. /\ xfer.op = "write" /\ xfer.mem = "eeprom"
      /\ xfer.start <= readOffset
      /\ readOffset + PacketSize <= xfer.start + xfer.len
      /\ xfer.start + xfer.len + PacketSize < AddrSpace
  BY EepromDataStands
<1>2. /\ eeprom' = Store(eeprom, readOffset, p.bytes, PacketSize)
      /\ eeprom \in [Addr -> Byte] /\ readOffset \in Addr
  BY TypeParts DEF DecodeEepromData, MachineOK
<1>3. readOffset <= a /\ a < readOffset + PacketSize
  BY <1>1, <1>2, StoreValue, Sizes, Numbers
<1> QED BY <1>1, <1>3, Numbers, Sizes DEF Covers, Addr

LEMMA FlashStepWithin ==
  ASSUME TypeOK, Placed, UCP_WriteTask, NEW a \in Addr, flash'[a] # flash[a]
  PROVE  Covers(a) /\ xfer.mem = "flash"
<1>1. PICK m \in Nat : WriteStep(m)
  BY WriteTaskSteps
<1>2. /\ xfer.op = "write" /\ xfer.mem = "flash"
      /\ readEnd + CredBase = xfer.start + xfer.len
      /\ Position = readOffset + CredBase - xfer.start
      /\ Position \in Nat /\ Cut \in Nat /\ buffIndex <= Position
      /\ flashWriteAddr = xfer.start + Position - buffIndex
      /\ xfer.start + xfer.len + PacketSize < AddrSpace
  BY DEF Placed
<1>3. Position + Cut <= xfer.len
  <2>1. Cut <= readEnd - readOffset
    BY Numbers, Sizes DEF Cut
  <2> QED BY <1>2, <2>1, Numbers, Sizes
<1>4. m <= buffIndex + Cut
  BY <1>1 DEF WriteStep
<1> DEFINE s == [j \in 0 .. m - 1 |-> Pending(j)]
<1>5. /\ flash' = Store(flash, flashWriteAddr, s, m)
      /\ flash \in [Addr -> Byte] /\ flashWriteAddr \in Addr
  BY <1>1, TypeParts DEF WriteStep, MachineOK
<1> HIDE DEF s
<1>6. /\ xfer.start <= flashWriteAddr
      /\ flashWriteAddr + m <= xfer.start + xfer.len
  BY <1>2, <1>3, <1>4, Numbers
<1>7. flashWriteAddr + m <= AddrSpace
  BY <1>2, <1>6, Numbers, Sizes
<1>8. flashWriteAddr <= a /\ a < flashWriteAddr + m
  BY <1>5, <1>7, StoreValue
<1> QED BY <1>2, <1>6, <1>8, Numbers, Sizes DEF Covers, Addr

LEMMA FlashWriters ==
  ASSUME [Next]_vars, ~UCP_WriteTask
  PROVE  flash' = flash
BY DEF Next, vars, memory, UCP_Task, UCP_Decode, DecodeWrongSize, DecodeLocked,
   DecodeWriteData, DecodeWriteAbort, DecodeEepromData, DecodeEepromAbort,
   DecodeRead, DecodeWrite, DecodeNotIdle, DecodeSetPin, DecodeReadPin,
   DecodeKeyboard, DecodeAnswer, TaskReadCmd, TaskRead, TaskReadEmpty, TaskWrite,
   UCP_Lock, UCP_Unlock, ResetPin, Restart

LEMMA EepromWriters ==
  ASSUME [Next]_vars, ~ResetPin, ~\E p \in Packets : DecodeEepromData(p)
  PROVE  eeprom' = eeprom
BY DEF Next, vars, memory, UCP_Task, UCP_Decode, DecodeWrongSize, DecodeLocked,
   DecodeWriteData, DecodeWriteAbort, DecodeEepromAbort,
   DecodeRead, DecodeWrite, DecodeNotIdle, DecodeSetPin, DecodeReadPin,
   DecodeKeyboard, DecodeAnswer, TaskReadCmd, TaskRead, TaskReadEmpty, TaskWrite,
   UCP_WriteTask, UCP_Lock, UCP_Unlock, Restart

(* A write whose bytes go to a range has bytes left to take, whether its   *)
(* packets are its own or not.                                             *)
LEMMA RangedPlaced ==
  ASSUME TypeOK, TransferInv, UCP_WriteTask, xfer.intact, Ranged
  PROVE  Placed
<1>1. CASE xfer.quiet
  BY <1>1, WriteTaskStands DEF Sound, Standing
<1>2. CASE WritingFlash /\ xfer.len > 0
  BY <1>2, PlacedByPlace DEF TransferInv, PlaceInv
<1> QED BY <1>1, <1>2 DEF Ranged

(* While no transfer is spoiled a byte of flash or EEPROM changes only     *)
(* inside the range of the write in progress, and a packet left pending by *)
(* an earlier write to flash goes into the range of the next one.          *)
THEOREM OnlyRangeWritten == Spec => NothingElseWritten
<1> DEFINE Within ==
      xfer.intact /\ xfer'.intact /\ Ranged =>
        \A a \in Addr :
          /\ flash'[a] # flash[a] => Covers(a) /\ xfer.mem = "flash"
          /\ eeprom'[a] # eeprom[a] => Covers(a) /\ xfer.mem = "eeprom"
<1>1. TypeOK /\ TransferInv /\ [Next]_vars => Within
  <2> SUFFICES ASSUME TypeOK, TransferInv, [Next]_vars,
                      xfer.intact, xfer'.intact, Ranged, NEW a \in Addr
               PROVE  /\ flash'[a] # flash[a] => Covers(a) /\ xfer.mem = "flash"
                      /\ eeprom'[a] # eeprom[a] => Covers(a) /\ xfer.mem = "eeprom"
    OBVIOUS
  <2>1. flash'[a] # flash[a] => Covers(a) /\ xfer.mem = "flash"
    BY FlashWriters, RangedPlaced, FlashStepWithin
  <2>2. ~ResetPin
    BY DEF ResetPin, Lost, NoTransfer
  <2>3. CASE xfer.quiet
    BY <2>1, <2>2, <2>3, EepromWriters, EepromStepWithin DEF Sound
  <2>4. CASE WritingFlash
    <3>1. UCP_state = "WRITTING"
      BY <2>4 DEF TransferInv, PlaceInv
    <3>2. eeprom' = eeprom
      BY <2>2, <3>1, EepromWriters DEF DecodeEepromData
    <3> QED BY <2>1, <3>2
  <2> QED BY <2>3, <2>4 DEF Ranged
<1>2. Within => [Within]_vars
  OBVIOUS
<1> QED BY <1>1, TypeCorrect, TransferInvariant, PTL DEF Spec, NothingElseWritten

------------------------------------------------------------------------------
(* tempBuff, one page of RAM, has room for what UCP_WriteTask keeps in it, *)
(* for all page and packet sizes, offsets and lengths.                     *)

LEMMA Division ==
  ASSUME NEW t \in Nat, NEW p \in Nat \ {0}
  PROVE  \E q \in Nat, r \in 0 .. p - 1 : t % p = r /\ t = p * q + r
<1>1. PICK d \in Int : d = t \div p
  OBVIOUS
<1>2. PICK r \in 0 .. p - 1 : r = t % p
  OBVIOUS
<1>3. t = p * d + r
  BY <1>1, <1>2
<1>4. d \in Nat
  BY <1>1
<1>5. t % p = r /\ t = p * d + r
  BY <1>2, <1>3
<1> WITNESS d \in Nat, r \in 0 .. p - 1
<1> QED BY <1>5

LEMMA Remainder ==
  ASSUME NEW p \in Nat \ {0}, NEW q \in Nat, NEW r \in 0 .. p - 1
  PROVE  (p * q + r) % p = r
OBVIOUS

(* Where no multiple of p is met the remainder grows with the number.      *)
LEMMA NoMultipleBetween ==
  ASSUME NEW t \in Nat, NEW p \in Nat \ {0}, NEW d \in Nat,
         \A j \in 1 .. d : (t + j) % p # 0
  PROVE  (t + d) % p = (t % p) + d
<1>1. PICK q \in Nat, r \in 0 .. p - 1 : t % p = r /\ t = p * q + r
  BY Division
<1>2. r + d < p
  <2> SUFFICES ASSUME ~(r + d < p) PROVE FALSE
    OBVIOUS
  <2>1. p - r \in 1 .. d
    OBVIOUS
  <2>2. t + (p - r) = p * (q + 1) + 0
    BY <1>1
  <2>3. (p * (q + 1) + 0) % p = 0
    BY Remainder
  <2> QED BY <2>1, <2>2, <2>3
<1>3. t + d = p * q + (r + d) /\ r + d \in 0 .. p - 1
  BY <1>1, <1>2
<1> QED BY <1>1, <1>3, Remainder

(* Bytes f + 1 to c of a packet meet no multiple of p, and byte f, if the  *)
(* packet has one, is at a multiple of p.                                  *)
LEMMA SinceMultiple ==
  ASSUME NEW o \in Nat, NEW p \in Nat \ {0}, NEW c \in Nat, NEW f \in 0 .. c,
         f # 0 => (o + f) % p = 0,
         \A i \in f + 1 .. c : (o + i) % p # 0
  PROVE  (o + c) % p = IF f = 0 THEN (o % p) + c ELSE c - f
<1>1. CASE f = 0
  <2>1. \A j \in 1 .. c : (o + j) % p # 0
    BY <1>1
  <2>2. (o + c) % p = (o % p) + c
    BY <2>1, NoMultipleBetween
  <2> QED BY <1>1, <2>2
<1>2. CASE f # 0
  <2>1. \A j \in 1 .. c - f : ((o + f) + j) % p # 0
    <3> TAKE j \in 1 .. c - f
    <3>1. f + j \in f + 1 .. c /\ (o + f) + j = o + (f + j)
      OBVIOUS
    <3> QED BY <3>1
  <2>2. o + f \in Nat /\ c - f \in Nat /\ (o + f) + (c - f) = o + c
    OBVIOUS
  <2>3. ((o + f) + (c - f)) % p = ((o + f) % p) + (c - f)
    BY <2>1, <2>2, NoMultipleBetween
  <2> QED BY <1>2, <2>2, <2>3
<1> QED BY <1>1, <1>2

LEMMA WriteTaskFits ==
  ASSUME TypeOK, BufferFits, UCP_WriteTask, UCP_state' = "WRITTING"
  PROVE  buffIndex' <= readOffset' % PageSize
<1>1. PICK c \in 1 .. PacketSize : \E f \in 0 .. c :
        /\ Takes(c) /\ WritesLastAt(f, c)
        /\ buffIndex' = buffIndex + c - (IF f = 0 THEN 0 ELSE buffIndex + f)
        /\ readOffset' = Wrap(readOffset + c)
        /\ ~Ends(c) /\ UCP_state = "WRITTING"
  BY DEF UCP_WriteTask
<1>2. PICK f \in 0 .. c :
        /\ Takes(c) /\ WritesLastAt(f, c)
        /\ buffIndex' = buffIndex + c - (IF f = 0 THEN 0 ELSE buffIndex + f)
        /\ readOffset' = Wrap(readOffset + c)
        /\ ~Ends(c) /\ UCP_state = "WRITTING"
  BY <1>1
<1>3. /\ readOffset \in Nat /\ readOffset < AddrSpace /\ AddrSpace \in Nat
      /\ buffIndex \in Nat /\ c \in Nat /\ f \in Nat /\ f <= c
      /\ c < AddrSpace /\ PageSize \in Nat \ {0}
  BY Numbers, Sizes
<1>4. ASSUME NEW i \in 1 .. c
      PROVE  Flushes(i) <=> Wrap(readOffset + i) % PageSize = 0
  <2>1. i = c \/ i \in 1 .. c - 1
    BY <1>3
  <2>2. ~Ends(i)
    BY <1>2, <2>1 DEF Takes
  <2> QED BY <2>2 DEF Flushes
<1>5. /\ f # 0 => Wrap(readOffset + f) % PageSize = 0
      /\ \A i \in f + 1 .. c : Wrap(readOffset + i) % PageSize # 0
  <2>1. f # 0 => f \in 1 .. c /\ Flushes(f)
    BY <1>2, <1>3 DEF WritesLastAt
  <2>2. \A i \in f + 1 .. c : i \in 1 .. c /\ ~Flushes(i)
    BY <1>2, <1>3 DEF WritesLastAt
  <2> QED BY <1>4, <2>1, <2>2
<1>6. buffIndex <= readOffset % PageSize
  BY <1>2 DEF BufferFits
<1>7. CASE readOffset + c < AddrSpace
  <2>1. \A i \in 0 .. c : Wrap(readOffset + i) = readOffset + i
    BY <1>3, <1>7, WrapType
  <2>2. /\ f # 0 => (readOffset + f) % PageSize = 0
        /\ \A i \in f + 1 .. c : (readOffset + i) % PageSize # 0
    BY <1>3, <1>5, <2>1
  <2>3. (readOffset + c) % PageSize =
          IF f = 0 THEN (readOffset % PageSize) + c ELSE c - f
    <3>1. /\ readOffset \in Nat /\ PageSize \in Nat \ {0}
          /\ c \in Nat /\ f \in 0 .. c
      BY <1>3
    <3> QED BY <2>2, <3>1, SinceMultiple, Zenon
  <2>4. readOffset' = readOffset + c
    BY <1>2, <1>3, <2>1
  <2>5. readOffset % PageSize \in Nat
    BY <1>3
  <2> QED BY <1>2, <1>3, <1>6, <2>3, <2>4, <2>5
<1>8. CASE AddrSpace <= readOffset + c
  <2> DEFINE z == AddrSpace - readOffset
  <2>1. z \in 1 .. c /\ readOffset + z = AddrSpace
    BY <1>3, <1>8
  <2>2. \A i \in z .. c : Wrap(readOffset + i) = i - z
    <3> TAKE i \in z .. c
    <3>1. /\ readOffset + i \in Nat /\ readOffset + i - AddrSpace = i - z
          /\ AddrSpace <= readOffset + i /\ readOffset + i < 2 * AddrSpace
      <4>1. i \in Nat /\ z \in Nat /\ z <= i /\ i <= c
        BY <1>3, <2>1
      <4>2. readOffset = AddrSpace - z
        BY <1>3
      <4> HIDE DEF z
      <4>3. readOffset + i = AddrSpace + (i - z)
        BY <1>3, <4>1, <4>2
      <4>4. i - z \in Nat /\ i - z < AddrSpace
        BY <1>3, <4>1
      <4> QED BY <1>3, <4>1, <4>3, <4>4
    <3> QED BY <1>3, <3>1, WrapType
  <2>3. z <= f
    <3> SUFFICES ASSUME ~(z <= f) PROVE FALSE
      OBVIOUS
    <3>1. z \in f + 1 .. c /\ Wrap(readOffset + z) = 0
      BY <1>3, <2>1, <2>2
    <3>2. 0 % PageSize = 0
      BY <1>3
    <3> QED BY <1>5, <3>1, <3>2
  <2> HIDE DEF z
  <2>4. /\ c - z \in Nat /\ f - z \in 0 .. c - z /\ f # 0
        /\ f - z # 0 => (0 + (f - z)) % PageSize = 0
        /\ \A i \in (f - z) + 1 .. c - z : (0 + i) % PageSize # 0
    <3>1. f \in z .. c /\ f # 0
      BY <1>3, <2>1, <2>3
    <3>2. (f - z) % PageSize = 0
      BY <1>5, <2>2, <3>1
    <3>3. ASSUME NEW i \in (f - z) + 1 .. c - z PROVE (0 + i) % PageSize # 0
      <4>1. i + z \in f + 1 .. c /\ i + z \in z .. c /\ (i + z) - z = i
        BY <1>3, <2>1, <3>1
      <4> QED BY <1>5, <2>2, <4>1
    <3> QED BY <1>3, <2>1, <3>1, <3>2, <3>3
  <2>5. (0 + (c - z)) % PageSize =
          IF f - z = 0 THEN (0 % PageSize) + (c - z) ELSE (c - z) - (f - z)
    <3>1. 0 \in Nat /\ PageSize \in Nat \ {0}
      BY <1>3
    <3> QED BY <2>4, <3>1, SinceMultiple, Zenon
  <2>6. readOffset' = c - z /\ buffIndex' = c - f
    BY <1>2, <1>3, <2>1, <2>2, <2>4
  <2>7. 0 % PageSize = 0
    BY <1>3
  <2> QED BY <1>3, <2>1, <2>4, <2>5, <2>6, <2>7
<1> QED BY <1>3, <1>7, <1>8

(* The other steps of a write leave its offset and buffer alone.           *)
LEMMA OthersFit ==
  ASSUME BufferFits, [Next]_vars, ~UCP_WriteTask, UCP_state' = "WRITTING"
  PROVE  buffIndex' <= readOffset' % PageSize
<1> USE DEF range, flags, buffer, memory
<1>1. CASE \E p \in Packets : DecodeWrite(p)
  <2>1. buffIndex' = 0 /\ readOffset' \in Nat
    BY <1>1, PacketType, Sizes DEF DecodeWrite, Addr
  <2>2. PICK r \in 0 .. PageSize - 1 : readOffset' % PageSize = r
    BY <2>1, Sizes, Division
  <2> QED BY <2>1, <2>2
<1>2. CASE ~ \E p \in Packets : DecodeWrite(p)
  <2>1. UCP_state = "WRITTING" /\ UNCHANGED <<buffIndex, readOffset>>
    BY <1>2 DEF Next, vars, UCP_Task, UCP_Decode, DecodeWrongSize, DecodeLocked,
       DecodeWriteData, DecodeWriteAbort, DecodeEepromData, DecodeEepromAbort,
       DecodeRead, DecodeNotIdle, DecodeSetPin, DecodeReadPin, DecodeKeyboard,
       DecodeAnswer, TaskReadCmd, TaskRead, TaskReadEmpty, TaskWrite, UCP_Lock,
       UCP_Unlock, ResetPin, Restart
  <2> QED BY <2>1 DEF BufferFits
<1> QED BY <1>1, <1>2

(* In every write tempBuff never holds more bytes than the offset is past  *)
(* a page, so less than a page (ucp.c:216-245): also in one that takes a   *)
(* packet an earlier write left pending, or whose range wraps.             *)
THEOREM BufferHolds == Spec => []BufferFits
<1>1. Init => BufferFits
  BY DEF Init, BufferFits
<1>2. TypeOK /\ BufferFits /\ [Next]_vars => BufferFits'
  <2> SUFFICES ASSUME TypeOK, BufferFits, [Next]_vars, UCP_state' = "WRITTING"
               PROVE  buffIndex' <= readOffset' % PageSize
    BY DEF BufferFits
  <2> QED BY WriteTaskFits, OthersFit
<1> QED BY <1>1, <1>2, TypeCorrect, PTL DEF Spec
==============================================================================

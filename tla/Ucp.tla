--------------------------------- MODULE Ucp ---------------------------------
(***************************************************************************)
(* The USB Communication Protocol of the MemType firmware (ucp.c, ucp.h).  *)
(*                                                                         *)
(* A host configures the device through one HID feature report of 8 bytes. *)
(* SET_REPORT delivers a packet to UCP_Decode; GET_REPORT calls UCP_Task   *)
(* and answers with customReport; the main loop calls UCP_WriteTask        *)
(* whenever the interrupt endpoint is free.  The three run in one thread,  *)
(* each to completion, in any order the host and the endpoint produce.     *)
(*                                                                         *)
(* The menus change the protocol state too: they lock and unlock it        *)
(* (UCP_Lock, UCP_Unlock) and may reset the PIN (usi_resetPin).  Here      *)
(* these are steps that may happen at any time.  FLS_write stores its      *)
(* buffer in one step.  The calls UIF_Init and CRD_Init change only        *)
(* variables of the menus and are composed with these actions there.       *)
(***************************************************************************)
EXTENDS Integers

CONSTANTS
  PacketSize,     \* sizeof(customReport.buf): 8
  PageSize,       \* SPM_PAGESIZE: 64
  AddrSpace,      \* number of uint16_t addresses: 2^16
  CredBase,       \* flash address of credentials[]
  LockHash,       \* EEPROM address of LOCK_HASH[]
  HashSize,       \* sizeof(LOCK_HASH): 16
  KeyboardLUT,    \* EEPROM address of keyboardLUT_ES[]
  KeyboardSize,   \* KEYBOARD_SIZE: 128
  DefaultHash,    \* LOCK_HASH_PGM, the hash of PIN 0000
  InfoData,       \* the bytes of INFO_data
  Packets,        \* the packets the host may send
  RamBlocks,      \* what a RAM read may copy
  Flash0,         \* flash and EEPROM as programmed
  Eeprom0

Byte == 0 .. 255
Addr == 0 .. AddrSpace - 1
Index == 0 .. PacketSize - 1

(* A packet is its bytes with the fields UCP_Decode reads out of them:     *)
(* *(uint16_t* )&data[1], *(uint16_t* )&data[3] and data[5].               *)
Packet == [bytes : [Index -> Byte], offset : Addr, length : Addr, type : Byte]

ASSUME SizesAssumption ==
  /\ PacketSize \in Nat /\ PacketSize >= 2
  /\ PageSize \in Nat \ {0}
  /\ AddrSpace \in Nat
  /\ CredBase \in Addr /\ LockHash \in Addr /\ KeyboardLUT \in Addr
  /\ HashSize \in Nat \ {0} /\ KeyboardSize \in Nat \ {0}
  /\ LockHash + HashSize + PacketSize < AddrSpace
  /\ KeyboardLUT + KeyboardSize + PacketSize < AddrSpace

(* The hash and the keyboard table are whole numbers of packets.           *)
ASSUME WholePacketsAssumption ==
  /\ \E k \in 0 .. HashSize : k * PacketSize = HashSize
  /\ \E k \in 0 .. KeyboardSize : k * PacketSize = KeyboardSize

ASSUME DataAssumption ==
  /\ DefaultHash \in [0 .. HashSize - 1 -> Byte]
  /\ InfoData \in [Index \ {0} -> Byte]
  /\ Packets \subseteq Packet
  /\ RamBlocks \subseteq [Index -> Byte]
  /\ Flash0 \in [Addr -> Byte] /\ Eeprom0 \in [Addr -> Byte]

(* ucp.h: commands and error codes *)
UCP_CMD_ERROR == 0
UCP_CMD_RESET == 1
UCP_CMD_READ == 2
UCP_CMD_WRITE == 3
UCP_CMD_DATA == 4
UCP_CMD_INFO == 5
UCP_CMD_SET_PIN == 7
UCP_CMD_READ_PIN == 8
UCP_CMD_KEYBOARD == 9
UCP_ERR_CMD == 242
UCP_ERR_SIZE == 244
UCP_ERR_PROTOCOL == 245
UCP_ERR_LOCKED == 246

UcpStates == {"IDLE", "READING_CMD", "READING", "WRITTING",
              "DEVICE_LOCKED", "WRITE_EEPROM"}

VARIABLES
  UCP_state, customReport,
  readOffset, readEnd, readType,
  usbWrite, usbWriteAccepted, lockAfterSetPin,
  tempBuff, buffIndex, flashWriteAddr,
  flash, eeprom,
  xfer            \* history: the transfer the host asked for last

range == <<readOffset, readEnd, readType>>
flags == <<usbWrite, usbWriteAccepted>>
buffer == <<tempBuff, buffIndex, flashWriteAddr>>
memory == <<flash, eeprom>>
vars == <<UCP_state, customReport, range, flags, lockAfterSetPin, buffer,
          memory, xfer>>

------------------------------------------------------------------------------
(* uint16_t arithmetic, and copies to and from the memories.               *)

(* Definitions whose names end in _fault are faulty variants of the        *)
(* definition that follows them.  No action uses one; each shows that some *)
(* property would notice the fault.                                        *)

Wrap_fault(x) == x

Wrap(x) == x % AddrSpace

Distance(a, x) == Wrap(x + AddrSpace - a)

Block(mem, a) == [i \in Index |-> mem[Wrap(a + i)]]

Store(mem, a, s, m) ==
  [x \in Addr |-> IF Distance(a, x) < m THEN s[Distance(a, x)] ELSE mem[x]]

ErrorReport(bytes, code) ==
  [bytes EXCEPT ![0] = UCP_CMD_ERROR, ![1] = code]

Empty == [j \in 0 .. -1 |-> 0]
Blank == [i \in Index |-> 0]

------------------------------------------------------------------------------
(* The history of the transfer the host asked for last.                    *)
(*   op, mem      what it does, on which memory                            *)
(*   start, len   the addresses it covers                                  *)
(*   bytes, n     the n bytes moved so far, as the host sent or saw them   *)
(*   sent         the last data packet the device took from the host       *)
(*   quiet        no flag of an earlier transfer was set when it began     *)
(*   intact       nothing interrupted it, and its range does not wrap      *)
(*   rejected     a packet of the wrong size came while one was pending    *)
(*   done         the device ended it                                      *)

NoTransfer ==
  [op |-> "none", mem |-> "flash", start |-> 0, len |-> 0, n |-> 0,
   bytes |-> Empty, sent |-> Blank, quiet |-> TRUE, intact |-> TRUE,
   rejected |-> FALSE, done |-> TRUE]

Lost == [NoTransfer EXCEPT !.intact = FALSE, !.done = FALSE]

Begin(op, mem, start, len) ==
  IF start + len + PacketSize < AddrSpace
  THEN [op |-> op, mem |-> mem, start |-> start, len |-> len, n |-> 0,
        bytes |-> Empty, sent |-> Blank,
        quiet |-> (usbWrite = 0 /\ usbWriteAccepted = 0), intact |-> TRUE,
        rejected |-> FALSE, done |-> FALSE]
  ELSE Lost

Interrupted == IF xfer.done THEN xfer ELSE Lost

Ended(x) == IF x.intact THEN [x EXCEPT !.done = TRUE] ELSE x

Joined(s, k) ==
  [j \in 0 .. xfer.n + k - 1 |->
     IF j < xfer.n THEN xfer.bytes[j] ELSE s[j - xfer.n]]

Moved(s, k) ==
  IF xfer.intact
  THEN [[xfer EXCEPT !.bytes = Joined(s, k)] EXCEPT !.n = @ + k]
  ELSE xfer

(* How many bytes of the next packet belong to the transfer.               *)
Share == IF xfer.len <= xfer.n THEN 0
         ELSE IF xfer.len - xfer.n < PacketSize THEN xfer.len - xfer.n
         ELSE PacketSize

------------------------------------------------------------------------------
Init ==
  /\ UCP_state = "DEVICE_LOCKED"
  /\ customReport = Blank
  /\ readOffset = 0 /\ readEnd = 0 /\ readType = 0
  /\ usbWrite = 0 /\ usbWriteAccepted = 0 /\ lockAfterSetPin = 0
  /\ tempBuff = Empty /\ buffIndex = 0 /\ flashWriteAddr = 0
  /\ flash = Flash0 /\ eeprom = Eeprom0
  /\ xfer = NoTransfer

------------------------------------------------------------------------------
(* UCP_Decode: a packet arrives.  customReport is overwritten first, then  *)
(* the size, the lock and the state decide.                                *)

(* A packet of another size only leaves an error in customReport.          *)
DecodeWrongSize(p) ==
  /\ customReport' = ErrorReport(p.bytes, UCP_ERR_SIZE)
  /\ xfer' = [xfer EXCEPT !.rejected =
                @ \/ (xfer.op = "write" /\ (usbWrite = 1 \/ usbWriteAccepted = 1))]
  /\ UNCHANGED <<UCP_state, range, flags, lockAfterSetPin, buffer, memory>>

DecodeLocked(p) ==
  /\ UCP_state = "DEVICE_LOCKED"
  /\ customReport' = ErrorReport(p.bytes, UCP_ERR_LOCKED)
  /\ UNCHANGED <<UCP_state, range, flags, lockAfterSetPin, buffer, memory, xfer>>

(* The fault: a packet is accepted while another waits to be stored.       *)
DecodeWriteData_fault(p) ==
  /\ UCP_state = "WRITTING"
  /\ readOffset < readEnd
  /\ customReport' = p.bytes
  /\ usbWriteAccepted' = 1
  /\ xfer' = [xfer EXCEPT !.sent = IF xfer.intact THEN p.bytes ELSE @]
  /\ UNCHANGED <<UCP_state, range, usbWrite, lockAfterSetPin, buffer, memory>>

(* WRITTING: the packet waits for the host's GET_REPORT ...                *)
DecodeWriteData(p) ==
  /\ UCP_state = "WRITTING"
  /\ usbWrite = 0 /\ readOffset < readEnd
  /\ customReport' = p.bytes
  /\ usbWriteAccepted' = 1
  /\ xfer' = [xfer EXCEPT !.sent = IF xfer.intact THEN p.bytes ELSE @]
  /\ UNCHANGED <<UCP_state, range, usbWrite, lockAfterSetPin, buffer, memory>>

(* ... unless the previous one is not stored yet: the transfer is dropped. *)
DecodeWriteAbort(p) ==
  /\ UCP_state = "WRITTING"
  /\ ~(usbWrite = 0 /\ readOffset < readEnd)
  /\ UCP_state' = "IDLE"
  /\ customReport' = ErrorReport(p.bytes, UCP_ERR_PROTOCOL)
  /\ usbWriteAccepted' = 0 /\ usbWrite' = 0
  /\ xfer' = Interrupted
  /\ UNCHANGED <<range, lockAfterSetPin, buffer, memory>>

(* WRITE_EEPROM: the packet is stored at once.  When the last one of a PIN *)
(* is stored UIF_Init shows the start menu and UCP_state stays.            *)
EepromEnds_fault == Wrap(readOffset + 2 * PacketSize) >= readEnd
EepromEnds == Wrap(readOffset + PacketSize) >= readEnd

DecodeEepromData(p) ==
  /\ UCP_state = "WRITE_EEPROM"
  /\ readOffset < readEnd
  /\ customReport' = p.bytes
  /\ eeprom' = Store(eeprom, readOffset, p.bytes, PacketSize)
  /\ readOffset' = Wrap(readOffset + PacketSize)
  /\ IF EepromEnds
     THEN /\ UCP_state' = IF lockAfterSetPin = 1 THEN UCP_state ELSE "IDLE"
          /\ lockAfterSetPin' = 0
          /\ xfer' = Ended(Moved(p.bytes, PacketSize))
     ELSE /\ xfer' = Moved(p.bytes, PacketSize)
          /\ UNCHANGED <<UCP_state, lockAfterSetPin>>
  /\ UNCHANGED <<readEnd, readType, flags, buffer, flash>>

DecodeEepromAbort(p) ==
  /\ UCP_state = "WRITE_EEPROM"
  /\ readOffset >= readEnd
  /\ UCP_state' = "IDLE"
  /\ customReport' = ErrorReport(p.bytes, UCP_ERR_PROTOCOL)
  /\ xfer' = Interrupted
  /\ UNCHANGED <<range, flags, lockAfterSetPin, buffer, memory>>

(* In the other states the packet is a command.                            *)
TakesCommands_fault == UCP_state \notin {"WRITTING", "WRITE_EEPROM"}

TakesCommands == UCP_state \in {"IDLE", "READING_CMD", "READING"}

DecodeRead(p) ==
  /\ UCP_state = "IDLE"
  /\ p.bytes[0] = UCP_CMD_READ
  /\ UCP_state' = "READING_CMD"
  /\ customReport' = p.bytes
  /\ readOffset' = p.offset
  /\ readEnd' = Wrap(p.offset + p.length)
  /\ readType' = p.type
  /\ xfer' = CASE p.type = 0 -> Begin("read", "flash", CredBase + p.offset, p.length)
               [] p.type = 1 -> Begin("read", "ram", p.offset, p.length)
               [] OTHER      -> Begin("read", "eeprom", p.offset, p.length)
  /\ UNCHANGED <<flags, lockAfterSetPin, buffer, memory>>

(* The fault: the page buffer is not emptied.                              *)
DecodeWrite_fault(p) ==
  /\ UCP_state = "IDLE"
  /\ p.bytes[0] = UCP_CMD_WRITE
  /\ UCP_state' = "WRITTING"
  /\ customReport' = p.bytes
  /\ readOffset' = p.offset
  /\ readEnd' = Wrap(p.offset + p.length)
  /\ flashWriteAddr' = Wrap(CredBase + p.offset)
  /\ xfer' = Begin("write", "flash", CredBase + p.offset, p.length)
  /\ UNCHANGED <<readType, flags, lockAfterSetPin, tempBuff, buffIndex, memory>>

DecodeWrite(p) ==
  /\ UCP_state = "IDLE"
  /\ p.bytes[0] = UCP_CMD_WRITE
  /\ UCP_state' = "WRITTING"
  /\ customReport' = p.bytes
  /\ readOffset' = p.offset
  /\ readEnd' = Wrap(p.offset + p.length)
  /\ tempBuff' = Empty /\ buffIndex' = 0
  /\ flashWriteAddr' = Wrap(CredBase + p.offset)
  /\ xfer' = Begin("write", "flash", CredBase + p.offset, p.length)
  /\ UNCHANGED <<readType, flags, lockAfterSetPin, memory>>

(* READ and WRITE while a read is in progress are protocol errors.         *)
DecodeNotIdle(p) ==
  /\ UCP_state \in {"READING_CMD", "READING"}
  /\ p.bytes[0] \in {UCP_CMD_READ, UCP_CMD_WRITE}
  /\ UCP_state' = "IDLE"
  /\ customReport' = ErrorReport(p.bytes, UCP_ERR_PROTOCOL)
  /\ xfer' = Interrupted
  /\ UNCHANGED <<range, flags, lockAfterSetPin, buffer, memory>>

DecodeSetPin(p) ==
  /\ TakesCommands
  /\ p.bytes[0] = UCP_CMD_SET_PIN
  /\ UCP_state' = "WRITE_EEPROM"
  /\ customReport' = p.bytes
  /\ readOffset' = LockHash /\ readEnd' = LockHash + HashSize
  /\ lockAfterSetPin' = 1
  /\ xfer' = Begin("write", "eeprom", LockHash, HashSize)
  /\ UNCHANGED <<readType, flags, buffer, memory>>

DecodeReadPin(p) ==
  /\ TakesCommands
  /\ p.bytes[0] = UCP_CMD_READ_PIN
  /\ UCP_state' = "READING_CMD"
  /\ customReport' = p.bytes
  /\ readOffset' = LockHash /\ readEnd' = LockHash + HashSize
  /\ readType' = 2
  /\ xfer' = Begin("read", "eeprom", LockHash, HashSize)
  /\ UNCHANGED <<flags, lockAfterSetPin, buffer, memory>>

DecodeKeyboard(p) ==
  /\ TakesCommands
  /\ p.bytes[0] = UCP_CMD_KEYBOARD
  /\ UCP_state' = "WRITE_EEPROM"
  /\ customReport' = p.bytes
  /\ readOffset' = KeyboardLUT /\ readEnd' = KeyboardLUT + KeyboardSize
  /\ xfer' = Begin("write", "eeprom", KeyboardLUT, KeyboardSize)
  /\ UNCHANGED <<readType, flags, lockAfterSetPin, buffer, memory>>

(* RESET, DATA, INFO and unknown commands only change the answer.          *)
DecodeAnswer(p) ==
  /\ TakesCommands
  /\ p.bytes[0] \notin {UCP_CMD_READ, UCP_CMD_WRITE, UCP_CMD_SET_PIN,
                        UCP_CMD_READ_PIN, UCP_CMD_KEYBOARD}
  /\ customReport' =
       CASE p.bytes[0] \in {UCP_CMD_RESET, UCP_CMD_DATA} -> p.bytes
         [] p.bytes[0] = UCP_CMD_INFO ->
              [i \in Index |-> IF i = 0 THEN p.bytes[0] ELSE InfoData[i]]
         [] OTHER -> ErrorReport(p.bytes, UCP_ERR_CMD)
  /\ UNCHANGED <<UCP_state, range, flags, lockAfterSetPin, buffer, memory, xfer>>

UCP_Decode(p) ==
  \/ DecodeWrongSize(p) \/ DecodeLocked(p)
  \/ DecodeWriteData(p) \/ DecodeWriteAbort(p)
  \/ DecodeEepromData(p) \/ DecodeEepromAbort(p)
  \/ DecodeRead(p) \/ DecodeWrite(p) \/ DecodeNotIdle(p)
  \/ DecodeSetPin(p) \/ DecodeReadPin(p) \/ DecodeKeyboard(p)
  \/ DecodeAnswer(p)

------------------------------------------------------------------------------
(* UCP_Task: a GET_REPORT arrives; the answer is the new customReport.     *)
(* In the states not named here UCP_Task does nothing.                     *)

TaskReadCmd ==
  /\ UCP_state = "READING_CMD"
  /\ UCP_state' = "READING"
  /\ UNCHANGED <<customReport, range, flags, lockAfterSetPin, buffer, memory, xfer>>

ReadBlocks ==
  CASE readType = 0 -> {Block(flash, Wrap(CredBase + readOffset))}
    [] readType = 1 -> RamBlocks
    [] OTHER        -> {Block(eeprom, readOffset)}

TaskRead ==
  /\ UCP_state = "READING"
  /\ readOffset < readEnd
  /\ customReport' \in ReadBlocks
  /\ readOffset' = Wrap(readOffset + PacketSize)
  /\ IF readOffset' >= readEnd
     THEN UCP_state' = "IDLE" /\ xfer' = Ended(Moved(customReport', Share))
     ELSE UNCHANGED UCP_state /\ xfer' = Moved(customReport', Share)
  /\ UNCHANGED <<readEnd, readType, flags, lockAfterSetPin, buffer, memory>>

TaskReadEmpty ==
  /\ UCP_state = "READING"
  /\ readOffset >= readEnd
  /\ UCP_state' = "IDLE"
  /\ customReport' = ErrorReport(customReport, UCP_ERR_PROTOCOL)
  /\ xfer' = Interrupted
  /\ UNCHANGED <<range, flags, lockAfterSetPin, buffer, memory>>

(* The host has read the packet back: it may be stored.                    *)
TaskWrite ==
  /\ UCP_state = "WRITTING"
  /\ usbWriteAccepted = 1
  /\ usbWrite' = 1 /\ usbWriteAccepted' = 0
  /\ xfer' = Moved(xfer.sent, Share)
  /\ UNCHANGED <<UCP_state, customReport, range, lockAfterSetPin, buffer, memory>>

UCP_Task == TaskReadCmd \/ TaskRead \/ TaskReadEmpty \/ TaskWrite

------------------------------------------------------------------------------
(* UCP_WriteTask: the loop over the bytes of customReport, in closed form. *)
(* After its i-th byte the loop writes the buffer when readOffset is a     *)
(* multiple of the page or the end is reached, and it breaks at the end.   *)

Ends_fault(i) == Wrap(readOffset + i) > readEnd

Ends(i) == Wrap(readOffset + i) >= readEnd

Flushes_fault(i) == Ends(i)

Flushes(i) == Wrap(readOffset + i) % PageSize = 0 \/ Ends(i)

(* The loop takes c bytes, and writes the buffer last after byte f.        *)
Takes(c) == (c = PacketSize \/ Ends(c)) /\ \A i \in 1 .. c - 1 : ~Ends(i)
WritesLastAt(f, c) == (f = 0 \/ Flushes(f)) /\ \A i \in f + 1 .. c : ~Flushes(i)

Pending(j) ==
  IF j < buffIndex THEN tempBuff[j] ELSE customReport[j - buffIndex]

(* History: storing a packet left over by another transfer spoils this one. *)
Stored(end) ==
  IF ~(xfer.op = "write" /\ xfer.mem = "flash") THEN Interrupted
  ELSE IF end THEN Ended(xfer) ELSE xfer

UCP_WriteTask ==
  /\ usbWrite = 1
  /\ \E c \in 1 .. PacketSize : \E f \in 0 .. c :
       /\ Takes(c) /\ WritesLastAt(f, c)
       /\ LET m == IF f = 0 THEN 0 ELSE buffIndex + f IN
            /\ flash' = Store(flash, flashWriteAddr,
                              [j \in 0 .. m - 1 |-> Pending(j)], m)
            /\ flashWriteAddr' = Wrap(flashWriteAddr + m)
            /\ buffIndex' = buffIndex + c - m
            /\ tempBuff' = [j \in 0 .. buffIndex + c - m - 1 |-> Pending(j + m)]
       /\ readOffset' = Wrap(readOffset + c)
       /\ IF Ends(c)
          THEN UCP_state' = "IDLE" /\ xfer' = Stored(TRUE)
          ELSE UNCHANGED UCP_state /\ xfer' = Stored(FALSE)
  /\ usbWrite' = 0
  /\ UNCHANGED <<customReport, readEnd, readType, usbWriteAccepted,
                 lockAfterSetPin, eeprom>>

------------------------------------------------------------------------------
(* The menus: USI_Init locks, CRD_fsmStart unlocks, a failed PIN entry may *)
(* reset the hash; and the supply or the watchdog restarts the device.     *)

UCP_Lock ==
  /\ UCP_state' = "DEVICE_LOCKED"
  /\ xfer' = Interrupted
  /\ UNCHANGED <<customReport, range, flags, lockAfterSetPin, buffer, memory>>

UCP_Unlock ==
  /\ UCP_state' = "IDLE"
  /\ xfer' = Interrupted
  /\ UNCHANGED <<customReport, range, flags, lockAfterSetPin, buffer, memory>>

ResetPin ==
  /\ eeprom' = Store(eeprom, LockHash, DefaultHash, HashSize)
  /\ xfer' = Lost
  /\ UNCHANGED <<UCP_state, customReport, range, flags, lockAfterSetPin,
                 buffer, flash>>

Restart ==
  /\ UCP_state' = "DEVICE_LOCKED"
  /\ customReport' = Blank
  /\ readOffset' = 0 /\ readEnd' = 0 /\ readType' = 0
  /\ usbWrite' = 0 /\ usbWriteAccepted' = 0 /\ lockAfterSetPin' = 0
  /\ tempBuff' = Empty /\ buffIndex' = 0 /\ flashWriteAddr' = 0
  /\ xfer' = NoTransfer
  /\ UNCHANGED memory

------------------------------------------------------------------------------
Next ==
  \/ \E p \in Packets : UCP_Decode(p)
  \/ UCP_Task
  \/ UCP_WriteTask
  \/ UCP_Lock \/ UCP_Unlock \/ ResetPin
  \/ Restart

Spec == Init /\ [][Next]_vars

------------------------------------------------------------------------------
(* Properties.                                                             *)

TransferType ==
  [op : {"none", "read", "write"}, mem : {"flash", "eeprom", "ram"},
   start : Nat, len : Nat, n : Nat, bytes : {xfer.bytes},
   sent : [Index -> Byte], quiet : BOOLEAN, intact : BOOLEAN,
   rejected : BOOLEAN, done : BOOLEAN]

(* Every variable keeps its C type; the bytes waiting in tempBuff are      *)
(* exactly those below buffIndex.                                          *)
TypeOK ==
  /\ UCP_state \in UcpStates
  /\ customReport \in [Index -> Byte]
  /\ readOffset \in Addr /\ readEnd \in Addr /\ readType \in Byte
  /\ usbWrite \in {0, 1} /\ usbWriteAccepted \in {0, 1}
  /\ lockAfterSetPin \in {0, 1}
  /\ buffIndex \in Nat
  /\ tempBuff \in [0 .. buffIndex - 1 -> Byte]
  /\ flashWriteAddr \in Addr
  /\ flash \in [Addr -> Byte] /\ eeprom \in [Addr -> Byte]
  /\ xfer \in TransferType
  /\ xfer.bytes \in [0 .. xfer.n - 1 -> Byte]

Memory(mem) == IF mem = "flash" THEN flash ELSE eeprom

(* The memory holds the bytes of the transfer, all of them, in order.      *)
MemoryHolds ==
  /\ xfer.n >= xfer.len
  /\ \A j \in 0 .. xfer.n - 1 :
       Memory(xfer.mem)[xfer.start + j] = xfer.bytes[j]

Complete == xfer.done /\ xfer.intact /\ xfer.op # "none" /\ xfer.mem # "ram"

(* A transfer the device ended by itself moved exactly the bytes the host  *)
(* sent and read back (a write) or was answered (a read): whatever packets *)
(* were repeated, replaced or rejected on the way, and however page        *)
(* boundaries cut them (UCP_Decode, UCP_Task, UCP_WriteTask).              *)
TransferExact == Complete /\ xfer.quiet /\ ~xfer.rejected => MemoryHolds

Covers(a) ==
  /\ xfer.op = "write"
  /\ xfer.start <= a /\ a < xfer.start + xfer.len

WritingFlash == xfer.op = "write" /\ xfer.mem = "flash" /\ ~xfer.done
Ranged == xfer.quiet \/ (WritingFlash /\ xfer.len > 0)

(* While no transfer is spoiled, a byte of flash or EEPROM changes only    *)
(* inside the range of the write in progress.  A packet that was left      *)
(* pending by an earlier write spoils what a write to flash stores, and    *)
(* not where: it goes into the range too (UCP_WriteTask, UCP_Decode).      *)
NothingElseWritten ==
  [][xfer.intact /\ xfer'.intact /\ Ranged =>
       \A a \in Addr :
         /\ flash'[a] # flash[a] => Covers(a) /\ xfer.mem = "flash"
         /\ eeprom'[a] # eeprom[a] => Covers(a) /\ xfer.mem = "eeprom"]_vars

(* tempBuff, one page long, has room for the bytes up to the next multiple *)
(* of the page at which UCP_WriteTask empties it: in every write, also one *)
(* that meets a pending packet of an earlier one, or whose range wraps.    *)
BufferFits == UCP_state = "WRITTING" => buffIndex <= readOffset % PageSize

------------------------------------------------------------------------------
(* What the documentation says, or the code means to do, and what the code *)
(* does not do: TLC refutes these.                                         *)

(* Of a completed write every stored byte came in a packet of the right    *)
(* size: "Validate packet" (ucp.c:103).                                    *)
RejectedNotStored == Complete /\ xfer.quiet => MemoryHolds

(* A write stores the packets of that write, also when an earlier one was  *)
(* interrupted by the menus: "write the credentials" (memtype.adoc:278).   *)
EarlierNotStored == Complete /\ ~xfer.rejected => MemoryHolds

(* tempBuff[SPM_PAGESIZE] (ucp.c:17) has room for every packet that        *)
(* UCP_WriteTask takes, also for one that a lock left pending and that it  *)
(* takes when the write is over, at the offset a later READ left behind.   *)
PendingFits == buffIndex <= PageSize

------------------------------------------------------------------------------
(* The invariant behind TransferExact and NothingElseWritten: where the    *)
(* transfer stands, and where each of its bytes is.  In a write to flash a *)
(* byte the host confirmed is in customReport, then in tempBuff, then in   *)
(* flash, and never in two minds about its address.                        *)

Sound == xfer.intact /\ xfer.quiet
Reading == xfer.op = "read" /\ ~xfer.done
WritingEeprom == xfer.op = "write" /\ xfer.mem = "eeprom" /\ ~xfer.done

Base == IF xfer.mem = "flash" THEN CredBase ELSE 0

(* How many bytes of the transfer are past customReport.                   *)
Position == readOffset + Base - xfer.start

(* How many bytes of customReport a write still has to take.               *)
Cut == IF readEnd - readOffset < PacketSize THEN readEnd - readOffset
       ELSE PacketSize

StateInv ==
  /\ xfer.op = "none" => xfer.done
  /\ UCP_state = "WRITTING" <=> WritingFlash
  /\ UCP_state \in {"READING_CMD", "READING"} <=> Reading
  /\ WritingEeprom => UCP_state = "WRITE_EEPROM"
  /\ UCP_state = "WRITE_EEPROM" => WritingEeprom \/ readOffset >= readEnd
  /\ ~WritingFlash => usbWrite = 0 /\ usbWriteAccepted = 0
  /\ xfer.mem = "ram" => xfer.op = "read"
  /\ Reading => CASE readType = 0 -> xfer.mem = "flash"
                  [] readType = 1 -> xfer.mem = "ram"
                  [] OTHER        -> xfer.mem = "eeprom"

RangeInv ==
  /\ xfer.start + xfer.len + PacketSize < AddrSpace
  /\ xfer.n <= xfer.len
  /\ xfer.done => xfer.n = xfer.len
  /\ ~xfer.done =>
       /\ readEnd + Base = xfer.start + xfer.len
       /\ readOffset <= readEnd
       /\ Position >= 0
       /\ xfer.n = Position + (IF usbWrite = 1 THEN Cut ELSE 0)
  /\ WritingEeprom =>
       \E k \in 0 .. readEnd - readOffset : k * PacketSize = readEnd - readOffset

BufferInv ==
  WritingFlash =>
    /\ usbWriteAccepted = 1 => usbWrite = 0 /\ readOffset < readEnd
    /\ usbWrite = 1 => readOffset < readEnd
    /\ flashWriteAddr + buffIndex = CredBase + readOffset
    /\ buffIndex <= Position

DataInv ==
  IF WritingFlash
  THEN /\ usbWriteAccepted = 1 => customReport = xfer.sent
       /\ usbWrite = 1 =>
            \A j \in 0 .. Cut - 1 : xfer.bytes[Position + j] = customReport[j]
       /\ \A j \in 0 .. buffIndex - 1 :
            xfer.bytes[Position - buffIndex + j] = tempBuff[j]
       /\ \A j \in 0 .. Position - buffIndex - 1 :
            flash[xfer.start + j] = xfer.bytes[j]
  ELSE xfer.mem # "ram" =>
         \A j \in 0 .. xfer.n - 1 :
           Memory(xfer.mem)[xfer.start + j] = xfer.bytes[j]

(* Where an uninterrupted write to flash stands, also when it met a packet *)
(* an earlier write left pending: what is stored next goes to the address  *)
(* of the next byte of the range.                                          *)
PlaceInv ==
  xfer.intact /\ WritingFlash =>
    /\ UCP_state = "WRITTING"
    /\ xfer.start + xfer.len + PacketSize < AddrSpace
    /\ readEnd + CredBase = xfer.start + xfer.len
    /\ readOffset <= readEnd
    /\ xfer.len > 0 => readOffset < readEnd
    /\ xfer.start <= CredBase + readOffset
    /\ flashWriteAddr + buffIndex = CredBase + readOffset
    /\ buffIndex <= CredBase + readOffset - xfer.start

(* In a transfer nothing spoiled, the state, the offsets, the flags and    *)
(* the buffer agree about how far it is, and every byte moved so far is    *)
(* where that says.                                                        *)
TransferInv ==
  /\ PlaceInv
  /\ Sound => /\ StateInv /\ RangeInv /\ BufferInv
              /\ ~xfer.rejected => DataInv

==============================================================================

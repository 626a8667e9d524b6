-------------------------------- MODULE Device --------------------------------
(***************************************************************************)
(* The MemType device: the USB protocol (Ucp) and the menus (Session) as   *)
(* the main loop runs them (main.c:147-158).  Every call is one step: a    *)
(* packet or a request in usbPoll, a button in SCH_Task, UCP_WriteTask     *)
(* when the interrupt endpoint is free.  A handler of one component that   *)
(* calls the other is the conjunction of an action of each; they share     *)
(* UCP_state and the EEPROM.                                               *)
(***************************************************************************)
EXTENDS Integers, Sequences

CONSTANTS
  PacketSize, PageSize, AddrSpace, CredBase, LockHash, HashSize, KeyboardLUT,
  KeyboardSize, DefaultHash, InfoData, Packets, RamBlocks, Flash0, Eeprom0,
  PinSize, Keys, Retries, Hash

VARIABLES
  UCP_state, customReport, readOffset, readEnd, readType, usbWrite,
  usbWriteAccepted, lockAfterSetPin, tempBuff, buffIndex, flashWriteAddr,
  flash, eeprom, xfer,
  UIF_state, UIF_userInputIndex, UIF_optionsIndex, userText, userPin,
  userTextIndex, pin_retries, key, led, halted, entry, verified, misses, touched

U == INSTANCE Ucp
S == INSTANCE Session WITH Memories <- [0 .. AddrSpace - 1 -> 0 .. 255]

(* The hash and the keyboard table are two variables of the EEPROM.        *)
ASSUME PlacesAssumption == LockHash # KeyboardLUT

(* What Ucp and Session assume of what they share.                         *)
ASSUME SharedAssumption ==
  /\ AddrSpace \in Nat /\ PacketSize \in Nat \ {0} /\ PacketSize < AddrSpace
  /\ LockHash \in U!Addr /\ KeyboardLUT \in U!Addr
  /\ Keys \in Nat \ {0}
  /\ HashSize \in Nat /\ DefaultHash \in [0 .. HashSize - 1 -> U!Byte]
  /\ Packets \subseteq U!Packet
  /\ Eeprom0 \in [U!Addr -> U!Byte]

ucpOwn == <<customReport, readOffset, readEnd, readType, usbWrite,
            usbWriteAccepted, lockAfterSetPin, tempBuff, buffIndex,
            flashWriteAddr, flash, xfer>>
entryOwn == <<UIF_optionsIndex, UIF_userInputIndex, userText, userPin,
              userTextIndex, pin_retries, key, led, halted, entry, verified, misses>>
menuOwn == <<UIF_state, entryOwn, touched>>
vars == <<ucpOwn, menuOwn, UCP_state, eeprom>>

Init == U!Init /\ S!Init

------------------------------------------------------------------------------
(* SCH_Task: a button.  The menus lock, unlock and reset through the       *)
(* functions of ucp.h and usi.c.                                           *)

Locking == (S!UifStart \/ S!UsiCancel) /\ U!UCP_Lock

Unlocking == (S!UsiUnlock \/ S!OptCredentials) /\ U!UCP_Unlock

Resetting == (S!UsiErase \/ S!UsiReset) /\ U!ResetPin

Browsing ==
  /\ \/ S!UsiSelect \/ S!UsiAccept \/ S!UsiWrong
     \/ S!CrdOptions \/ S!OptSelect \/ S!OptLock
  /\ UNCHANGED <<ucpOwn, UCP_state, eeprom>>

Button == ~halted /\ (Locking \/ Unlocking \/ Resetting \/ Browsing)

------------------------------------------------------------------------------
(* usbPoll: a packet.  When the last one of a PIN is stored UCP_Decode     *)
(* calls UIF_Init and clears lockAfterSetPin.                              *)

PinWritten == lockAfterSetPin' < lockAfterSetPin

(* Definitions whose names end in _fault are faulty variants of the        *)
(* definition that follows them.  No action uses one; each shows that some *)
(* property would notice the fault.                                        *)

(* The fault: the PIN entry is shown, without USI_Init.                    *)
HostPacket_fault ==
  /\ ~halted
  /\ \E p \in Packets : U!UCP_Decode(p)
  /\ UIF_state' = IF PinWritten THEN "USER_INPUT" ELSE UIF_state
  /\ touched' = (touched \/ (UCP_state = "WRITE_EEPROM" /\ readOffset' # readOffset))
  /\ UNCHANGED entryOwn

HostPacket ==
  /\ ~halted
  /\ \E p \in Packets : U!UCP_Decode(p)
  /\ IF PinWritten THEN S!UIF_Init ELSE UNCHANGED UIF_state
  /\ touched' = (touched \/ (UCP_state = "WRITE_EEPROM" /\ readOffset' # readOffset))
  /\ UNCHANGED entryOwn

HostRequest == ~halted /\ U!UCP_Task /\ UNCHANGED menuOwn

WriteTask == ~halted /\ U!UCP_WriteTask /\ UNCHANGED menuOwn

Restart == U!Restart /\ S!Restart

Watchdog == halted /\ Restart

Next == Button \/ HostPacket \/ HostRequest \/ WriteTask \/ Restart

Spec == Init /\ [][Next]_vars /\ WF_vars(Watchdog)

------------------------------------------------------------------------------
(* Properties.                                                             *)

(* Composed with the protocol the menus take only steps of Session: what   *)
(* Session assumes a host can do to the EEPROM, to UCP_state and to the    *)
(* menu is all that the packets, requests and writes of Ucp do.            *)
ImplementsSession == S!Spec

Refusals ==
  {U!ErrorReport(p.bytes, code) :
     p \in Packets, code \in {U!UCP_ERR_SIZE, U!UCP_ERR_LOCKED}}

(* From power-up until the PIN was entered the device is closed, whatever  *)
(* the host sends: nothing is stored but the default hash, by the menus,   *)
(* and no answer carries anything but an error and what the host itself    *)
(* sent.  UCP_WriteTask and the check of the packet's size do not look at  *)
(* the lock (ucp.c:101-112, ucp.c:219).                                    *)
ClosedUntilPin ==
  [][verified = <<>> =>
       /\ flash' = flash
       /\ eeprom' \in {eeprom, U!Store(eeprom, LockHash, DefaultHash, HashSize)}
       /\ customReport' \in {U!Blank} \cup Refusals]_vars

(* Only the right PIN ends DEVICE_LOCKED, except that a packet the host    *)
(* had confirmed before the lock still ends its write (UCP_WriteTask).     *)
UnlockNeedsPin ==
  [][UCP_state = "DEVICE_LOCKED" /\ UCP_state' # "DEVICE_LOCKED"
       => \/ UIF_state = "USER_INPUT" /\ S!LastDigit
             /\ Hash[userPin] = S!StoredHash
          \/ usbWrite = 1]_vars

(* When the host has written a whole new PIN the menus are closed at once: *)
(* nothing stays open on the old one (ucp.c:137-139).                      *)
NewPinClosesMenus ==
  [][U!Complete' /\ ~xfer.done /\ xfer.op = "write" /\ xfer.mem = "eeprom"
       /\ xfer.start = LockHash => UIF_state' = "START"]_vars

------------------------------------------------------------------------------
(* What the documentation says, or the code means to do, and what the code *)
(* does not do: TLC refutes this.                                          *)

(* While the PIN entry is shown the protocol is locked: "Now you can       *)
(* unlock it entering the PIN" (memtype.adoc:158).                         *)
EntryIsLocked == UIF_state = "USER_INPUT" => UCP_state = "DEVICE_LOCKED"

==============================================================================

----------------------------- MODULE DeviceProofs -----------------------------
(***************************************************************************)
(* Proofs about the main loop, for all packets, PINs, hashes and memories: *)
(* the device is closed until the PIN was entered, the lock ends with the  *)
(* PIN, a new PIN closes the menus, and the menus take only steps of       *)
(* Session.                                                                *)
(***************************************************************************)
EXTENDS Device, SequenceTheorems, TLAPS

------------------------------------------------------------------------------
(* The menus behind the PIN are never open while the protocol is locked.   *)
OpenIsUnlocked ==
  UIF_state \in {"CREDENTIALS", "OPTIONS"} => UCP_state # "DEVICE_LOCKED"

(* No packet, request or write changes whether the device is locked, but   *)
(* for the end of a write.                                                 *)
LEMMA ProtocolLock ==
  ASSUME (\E p \in Packets : U!UCP_Decode(p)) \/ U!UCP_Task \/ U!UCP_WriteTask
  PROVE  /\ UCP_state # "DEVICE_LOCKED" => UCP_state' # "DEVICE_LOCKED"
         /\ UCP_state = "DEVICE_LOCKED" /\ UCP_state' # "DEVICE_LOCKED" =>
              usbWrite = 1
<1>1. ASSUME NEW p \in Packets, U!UCP_Decode(p)
      PROVE  /\ UCP_state # "DEVICE_LOCKED" => UCP_state' # "DEVICE_LOCKED"
             /\ UCP_state = "DEVICE_LOCKED" => UCP_state' = UCP_state
  BY <1>1 DEF U!UCP_Decode, U!DecodeWrongSize, U!DecodeLocked,
       U!DecodeWriteData, U!DecodeWriteAbort, U!DecodeEepromData,
       U!DecodeEepromAbort, U!DecodeRead, U!DecodeWrite, U!DecodeNotIdle,
       U!DecodeSetPin, U!DecodeReadPin, U!DecodeKeyboard, U!DecodeAnswer,
       U!TakesCommands
<1>2. CASE U!UCP_Task
  BY <1>2 DEF U!UCP_Task, U!TaskReadCmd, U!TaskRead, U!TaskReadEmpty, U!TaskWrite
<1>3. CASE U!UCP_WriteTask
  BY <1>3 DEF U!UCP_WriteTask
<1> QED BY <1>1, <1>2, <1>3

(* A step keeps the lock, or ends it in the two ways of UnlockNeedsPin.    *)
UnlockEarned ==
  UCP_state = "DEVICE_LOCKED" /\ UCP_state' # "DEVICE_LOCKED"
    => \/ UIF_state = "USER_INPUT" /\ S!LastDigit
          /\ Hash[userPin] = S!StoredHash
       \/ usbWrite = 1

LEMMA LockStep ==
  ASSUME OpenIsUnlocked, [Next]_vars PROVE OpenIsUnlocked' /\ UnlockEarned
<1>1. CASE Button
  <2>1. CASE Locking
    BY <2>1 DEF Locking, S!UifStart, S!UsiCancel, S!menu, U!UCP_Lock,
         OpenIsUnlocked, UnlockEarned
  <2>2. CASE Unlocking
    BY <2>2 DEF Unlocking, S!UsiUnlock, S!OptCredentials, S!CRD_fsmStart,
         S!Checks, S!Matches, U!UCP_Unlock, OpenIsUnlocked, UnlockEarned
  <2>3. CASE Resetting
    BY <2>3 DEF Resetting, S!UsiErase, S!UsiReset, S!Checks, S!Fails, S!menu,
         U!ResetPin, OpenIsUnlocked, UnlockEarned
  <2>4. CASE Browsing
    BY <2>4 DEF Browsing, S!UsiSelect, S!UsiAccept, S!UsiWrong, S!CrdOptions,
         S!OptSelect, S!OptLock, S!UIF_Init, S!menu, OpenIsUnlocked,
         UnlockEarned
  <2> QED BY <1>1, <2>1, <2>2, <2>3, <2>4 DEF Button
<1>2. CASE HostPacket
  <2>1. UIF_state' = UIF_state \/ UIF_state' = "START"
    BY <1>2 DEF HostPacket, S!UIF_Init
  <2> QED BY <1>2, <2>1, ProtocolLock
          DEF HostPacket, OpenIsUnlocked, UnlockEarned
<1>3. CASE HostRequest \/ WriteTask
  BY <1>3, ProtocolLock
     DEF HostRequest, WriteTask, menuOwn, OpenIsUnlocked, UnlockEarned
<1>4. CASE Restart
  BY <1>4 DEF Restart, S!Restart, S!Boot, OpenIsUnlocked, UnlockEarned
<1>5. CASE UNCHANGED vars
  BY <1>5 DEF vars, menuOwn, OpenIsUnlocked, UnlockEarned
<1> QED BY <1>1, <1>2, <1>3, <1>4, <1>5 DEF Next

(* While the menus behind the PIN are open the protocol is unlocked        *)
(* (UCP_Lock, UCP_Unlock and their callers).                               *)
THEOREM MenusUnlocked == Spec => []OpenIsUnlocked
<1>1. ASSUME Init PROVE OpenIsUnlocked
  BY <1>1 DEF Init, S!Init, OpenIsUnlocked
<1> QED BY <1>1, LockStep, PTL DEF Spec

(* Only the PIN whose hash is stored ends DEVICE_LOCKED, or a packet that  *)
(* the host had confirmed before (usi_pinCheck, UCP_WriteTask).            *)
THEOREM UnlockEarnedAlways == Spec => UnlockNeedsPin
<1>1. ASSUME OpenIsUnlocked, [Next]_vars PROVE UnlockEarned
  BY <1>1, LockStep
<1>2. UnlockEarned =>
        (UCP_state = "DEVICE_LOCKED" /\ UCP_state' # "DEVICE_LOCKED"
           => \/ UIF_state = "USER_INPUT" /\ S!LastDigit
                 /\ Hash[userPin] = S!StoredHash
              \/ usbWrite = 1)
  BY DEF UnlockEarned
<1> QED BY <1>1, <1>2, MenusUnlocked, PTL DEF Spec, UnlockNeedsPin

------------------------------------------------------------------------------
(* Why the device is closed until the PIN was entered: it is locked, no    *)
(* packet waits for UCP_WriteTask, which would unlock it, and the options  *)
(* menu, whose way back unlocks it too, is not open.                       *)
ClosedInv ==
  /\ UIF_userInputIndex \in Nat /\ entry \in Seq(Nat)
  /\ verified = <<>> =>
       /\ UCP_state = "DEVICE_LOCKED" /\ usbWrite = 0
       /\ UIF_state # "OPTIONS" /\ UIF_state # "CREDENTIALS"
       /\ customReport \in {U!Blank} \cup Refusals

(* A step of the closed device.                                            *)
StaysClosed ==
  verified = <<>> =>
    /\ flash' = flash
    /\ eeprom' \in {eeprom, U!Store(eeprom, LockHash, DefaultHash, HashSize)}
    /\ customReport' \in {U!Blank} \cup Refusals

(* The protocol refuses all packets, has nothing to answer and nothing to  *)
(* store.                                                                  *)
LEMMA ProtocolClosed ==
  ASSUME ClosedInv, HostPacket \/ HostRequest \/ WriteTask
  PROVE  ClosedInv' /\ StaysClosed
<1>1. UNCHANGED <<UIF_userInputIndex, entry, verified>>
  BY DEF HostPacket, HostRequest, WriteTask, menuOwn, entryOwn
<1>2. SUFFICES ASSUME verified = <<>> PROVE ClosedInv' /\ StaysClosed
  BY <1>1 DEF ClosedInv, StaysClosed
<1>3. UCP_state = "DEVICE_LOCKED" /\ usbWrite = 0
  BY <1>2 DEF ClosedInv
<1>4. CASE HostPacket
  <2>1. PICK p \in Packets : U!UCP_Decode(p)
    BY <1>4 DEF HostPacket
  <2>2. U!DecodeWrongSize(p) \/ U!DecodeLocked(p)
    BY <1>3, <2>1 DEF U!UCP_Decode, U!DecodeWriteData, U!DecodeWriteAbort,
         U!DecodeEepromData, U!DecodeEepromAbort, U!DecodeRead, U!DecodeWrite,
         U!DecodeNotIdle, U!DecodeSetPin, U!DecodeReadPin, U!DecodeKeyboard,
         U!DecodeAnswer, U!TakesCommands
  <2>3. customReport' \in Refusals
    BY <2>2 DEF U!DecodeWrongSize, U!DecodeLocked, Refusals
  <2>4. UNCHANGED <<UCP_state, usbWrite, flash, eeprom>>
    BY <2>2 DEF U!DecodeWrongSize, U!DecodeLocked, U!flags, U!memory
  <2>5. UIF_state' \in {UIF_state, "START"}
    BY <1>4 DEF HostPacket, S!UIF_Init
  <2> QED BY <1>1, <1>2, <2>3, <2>4, <2>5 DEF ClosedInv, StaysClosed
<1>5. CASE HostRequest
  BY <1>3, <1>5 DEF HostRequest, U!UCP_Task, U!TaskReadCmd, U!TaskRead,
       U!TaskReadEmpty, U!TaskWrite
<1>6. CASE WriteTask
  BY <1>3, <1>6 DEF WriteTask, U!UCP_WriteTask
<1> QED BY <1>4, <1>5, <1>6

(* The digits that open the menus are at least one.                        *)
LEMMA EntryClosed ==
  ASSUME ClosedInv, Button
  PROVE  /\ UIF_userInputIndex' \in Nat /\ entry' \in Seq(Nat)
         /\ verified' = verified \/ verified' # <<>>
<1>0. /\ 0 \in Nat /\ UIF_userInputIndex \in Nat /\ entry \in Seq(Nat)
      /\ <<>> \in Seq(Nat) /\ Append(entry, UIF_userInputIndex) \in Seq(Nat)
      /\ Append(entry, UIF_userInputIndex) # <<>>
  BY AppendProperties DEF ClosedInv
<1>1. CASE Locking \/ Resetting \/ Unlocking
  <2>1. /\ UIF_userInputIndex' = 0 \/ UIF_userInputIndex' = UIF_userInputIndex
        /\ entry' = <<>> \/ entry' = entry
    BY <1>1 DEF Locking, Resetting, Unlocking, S!UifStart, S!UsiCancel,
         S!USI_Init, S!UsiErase, S!UsiReset, S!EntryRestarts, S!UsiUnlock,
         S!OptCredentials, S!typing
  <2>2. verified' = verified \/ verified' = Append(entry, UIF_userInputIndex)
    BY <1>1 DEF Locking, Resetting, Unlocking, S!UifStart, S!UsiCancel,
         S!UsiErase, S!UsiReset, S!UsiUnlock, S!OptCredentials, S!checks
  <2> QED BY <1>0, <2>1, <2>2, Zenon
<1>2. CASE Browsing
  <2>1. verified' = verified
    BY <1>2 DEF Browsing, S!UsiSelect, S!UsiAccept, S!UsiWrong, S!CrdOptions,
         S!OptSelect, S!OptLock, S!checks
  <2>2. entry' \in {<<>>, entry, Append(entry, UIF_userInputIndex)}
    BY <1>2 DEF Browsing, S!UsiSelect, S!UsiAccept, S!UsiWrong, S!CrdOptions,
         S!OptSelect, S!OptLock, S!EntryRestarts, S!typing
  <2>3. UIF_userInputIndex' \in
          {0, UIF_userInputIndex, S!UIF_increment(UIF_userInputIndex, Keys),
           S!UIF_decrement(UIF_userInputIndex, Keys)}
    BY <1>2 DEF Browsing, S!UsiSelect, S!UsiAccept, S!UsiWrong, S!CrdOptions,
         S!OptSelect, S!OptLock, S!EntryRestarts, S!typing
  <2>4. UIF_userInputIndex' \in Nat
    BY <1>0, <2>3, SharedAssumption DEF S!UIF_increment, S!UIF_decrement
  <2> QED BY <1>0, <2>1, <2>2, <2>4
<1> QED BY <1>1, <1>2 DEF Button

LEMMA ButtonClosed ==
  ASSUME ClosedInv, Button
  PROVE  ClosedInv' /\ StaysClosed
<1>1. SUFFICES ASSUME verified = <<>>
      PROVE  /\ verified' = <<>> =>
                  /\ UCP_state' = "DEVICE_LOCKED" /\ usbWrite' = 0
                  /\ UIF_state' # "OPTIONS" /\ UIF_state' # "CREDENTIALS"
             /\ flash' = flash /\ customReport' = customReport
             /\ eeprom' \in {eeprom, U!Store(eeprom, LockHash, DefaultHash, HashSize)}
  BY EntryClosed DEF ClosedInv, StaysClosed
<1>2. /\ UCP_state = "DEVICE_LOCKED" /\ usbWrite = 0
      /\ UIF_state # "OPTIONS" /\ UIF_state # "CREDENTIALS"
  BY <1>1 DEF ClosedInv
<1>3. CASE Locking
  BY <1>2, <1>3 DEF Locking, U!UCP_Lock, U!flags, U!memory, S!UifStart,
       S!UsiCancel, S!menu
<1>4. CASE Unlocking
  <2>1. S!UsiUnlock
    BY <1>2, <1>4 DEF Unlocking, S!OptCredentials
  <2>2. verified' # <<>>
    BY <2>1 DEF S!UsiUnlock, ClosedInv
  <2> QED BY <1>4, <2>2 DEF Unlocking, U!UCP_Unlock, U!memory
<1>5. CASE Resetting
  BY <1>2, <1>5 DEF Resetting, U!ResetPin, U!flags, S!UsiErase, S!UsiReset, S!menu
<1>6. CASE Browsing
  BY <1>2, <1>6 DEF Browsing, ucpOwn, S!UsiSelect, S!UsiAccept, S!UsiWrong,
       S!CrdOptions, S!OptSelect, S!OptLock, S!menu
<1> QED BY <1>3, <1>4, <1>5, <1>6 DEF Button

(* Until the PIN was entered nothing the host sends is stored, and no      *)
(* answer carries anything of the device, for all packets, hashes, PINs    *)
(* and memories (UCP_Decode, UCP_WriteTask, usi_pinCheck).                 *)
THEOREM ClosedToHost == Spec => ClosedUntilPin
<1>1. ASSUME Init PROVE ClosedInv
  BY <1>1 DEF Init, U!Init, S!Init, ClosedInv
<1>2. ASSUME ClosedInv, [Next]_vars PROVE ClosedInv' /\ StaysClosed
  <2>1. CASE Button
    BY <1>2, <2>1, ButtonClosed
  <2>2. CASE HostPacket \/ HostRequest \/ WriteTask
    BY <1>2, <2>2, ProtocolClosed
  <2>3. CASE Restart
    BY <1>2, <2>3 DEF Restart, U!Restart, U!memory, S!Restart, S!Boot, ClosedInv,
         StaysClosed
  <2>4. CASE UNCHANGED vars
    BY <1>2, <2>4 DEF vars, ucpOwn, menuOwn, entryOwn, ClosedInv, StaysClosed
  <2> QED BY <1>2, <2>1, <2>2, <2>3, <2>4 DEF Next
<1>3. ASSUME ClosedInv, [Next]_vars
      PROVE  verified = <<>> =>
               /\ flash' = flash
               /\ eeprom' \in {eeprom, U!Store(eeprom, LockHash, DefaultHash, HashSize)}
               /\ customReport' \in {U!Blank} \cup Refusals
  BY <1>2, <1>3 DEF StaysClosed
<1> QED BY <1>1, <1>2, <1>3, PTL DEF Spec, ClosedUntilPin

------------------------------------------------------------------------------
(* The transfer of a new PIN, which the device has not ended.              *)
NewPin ==
  /\ xfer.op = "write" /\ xfer.mem = "eeprom" /\ xfer.start = LockHash
  /\ ~xfer.done

IsTransfer ==
  xfer = [op |-> xfer.op, mem |-> xfer.mem, start |-> xfer.start,
          len |-> xfer.len, n |-> xfer.n, bytes |-> xfer.bytes,
          sent |-> xfer.sent, quiet |-> xfer.quiet, intact |-> xfer.intact,
          rejected |-> xfer.rejected, done |-> xfer.done]

(* While it lasts, the device is to show the start message at its end.     *)
NewPinInv ==
  /\ IsTransfer
  /\ xfer.intact \in BOOLEAN /\ xfer.done \in BOOLEAN
  /\ ~xfer.intact => xfer.op = "none"
  /\ NewPin => UCP_state = "WRITE_EEPROM" /\ lockAfterSetPin = 1

LEMMA LostInv ==
  ASSUME xfer' = U!Lost PROVE NewPinInv'
BY DEF U!Lost, U!NoTransfer, NewPinInv, IsTransfer, NewPin

LEMMA InterruptedInv ==
  ASSUME NewPinInv, xfer' = U!Interrupted PROVE NewPinInv'
BY DEF U!Interrupted, U!Lost, U!NoTransfer, NewPinInv, IsTransfer, NewPin

LEMMA BeginInv ==
  ASSUME NEW op \in {"read", "write"}, NEW mem, NEW start, NEW len,
         xfer' = U!Begin(op, mem, start, len),
         op = "write" /\ mem = "eeprom" /\ start = LockHash =>
           UCP_state' = "WRITE_EEPROM" /\ lockAfterSetPin' = 1
  PROVE  NewPinInv'
BY DEF U!Begin, U!Lost, U!NoTransfer, NewPinInv, IsTransfer, NewPin

(* The same transfer, perhaps further on.                                  *)
LEMMA KeepInv ==
  ASSUME NewPinInv, IsTransfer',
         xfer'.op = xfer.op, xfer'.mem = xfer.mem, xfer'.start = xfer.start,
         xfer'.intact = xfer.intact, xfer'.done \in {xfer.done, TRUE},
         NewPin' => UCP_state' = UCP_state /\ lockAfterSetPin' = lockAfterSetPin
  PROVE  NewPinInv'
<1>1. NewPin' => NewPin
  BY DEF NewPin, NewPinInv
<1> QED BY <1>1 DEF NewPinInv

Same(x) == /\ x.op = xfer.op /\ x.mem = xfer.mem /\ x.start = xfer.start
           /\ x.intact = xfer.intact
           /\ x = [op |-> x.op, mem |-> x.mem, start |-> x.start,
                   len |-> x.len, n |-> x.n, bytes |-> x.bytes,
                   sent |-> x.sent, quiet |-> x.quiet, intact |-> x.intact,
                   rejected |-> x.rejected, done |-> x.done]

LEMMA MovedSame ==
  ASSUME NewPinInv, NEW s, NEW k
  PROVE  /\ Same(U!Moved(s, k)) /\ U!Moved(s, k).done = xfer.done
         /\ Same(U!Ended(U!Moved(s, k)))
         /\ U!Ended(U!Moved(s, k)).done = (xfer.done \/ xfer.intact)
<1> DEFINE x == U!Moved(s, k)
<1>1. Same(x) /\ x.done = xfer.done
  BY DEF U!Moved, NewPinInv, IsTransfer, Same
<1>2. Same(U!Ended(x)) /\ U!Ended(x).done = (x.done \/ x.intact)
  <2>1. x.done \in BOOLEAN /\ x.intact \in BOOLEAN
    BY <1>1 DEF NewPinInv, Same
  <2> HIDE DEF x
  <2> QED BY <1>1, <2>1 DEF U!Ended, Same
<1> QED BY <1>1, <1>2 DEF Same

(* A step of the protocol that ends the transfer of a new PIN clears       *)
(* lockAfterSetPin.                                                        *)
ClosesPin == NewPin /\ U!Complete' => lockAfterSetPin = 1 /\ lockAfterSetPin' = 0

LEMMA LostCloses ==
  ASSUME NewPinInv, xfer' = U!Interrupted PROVE NewPinInv' /\ ClosesPin
<1>1. NewPinInv'
  BY InterruptedInv
<1>2. NewPin => xfer' = U!Lost
  BY DEF U!Interrupted, NewPin
<1>3. ~ U!Lost.intact
  BY DEF U!Lost, U!NoTransfer
<1> QED BY <1>1, <1>2, <1>3 DEF ClosesPin, U!Complete

LEMMA EepromCloses ==
  ASSUME NewPinInv, NEW p, U!DecodeEepromData(p) PROVE NewPinInv' /\ ClosesPin
<1> DEFINE x == U!Moved(p.bytes, PacketSize)
<1>1. CASE U!EepromEnds
  <2>1. xfer' = U!Ended(x) /\ lockAfterSetPin' = 0
    BY <1>1 DEF U!DecodeEepromData
  <2>2. Same(xfer') /\ xfer'.done = (xfer.done \/ xfer.intact)
    BY <2>1, MovedSame
  <2>3. IsTransfer'
    BY <2>2 DEF Same, IsTransfer
  <2>4. ~ NewPin'
    BY <2>2 DEF Same, NewPin, NewPinInv
  <2>5. NewPinInv'
    BY <2>2, <2>3, <2>4 DEF Same, NewPinInv
  <2> QED BY <2>1, <2>5 DEF ClosesPin, NewPinInv
<1>2. CASE ~ U!EepromEnds
  <2>1. xfer' = x /\ UNCHANGED <<UCP_state, lockAfterSetPin>>
    BY <1>2 DEF U!DecodeEepromData
  <2>2. Same(xfer') /\ xfer'.done = xfer.done
    BY <2>1, MovedSame
  <2>3. IsTransfer'
    BY <2>2 DEF Same, IsTransfer
  <2>4. NewPinInv'
    BY <2>1, <2>2, <2>3, KeepInv DEF Same
  <2> QED BY <2>2, <2>4 DEF ClosesPin, NewPin, NewPinInv, U!Complete
<1> QED BY <1>1, <1>2

LEMMA DecodeCloses ==
  ASSUME NewPinInv, NEW p \in Packets, U!UCP_Decode(p)
  PROVE  NewPinInv' /\ ClosesPin
<1>1. CASE U!DecodeWrongSize(p) \/ U!DecodeWriteData(p)
  <2>1. /\ Same(xfer') /\ xfer'.done = xfer.done
        /\ UNCHANGED <<UCP_state, lockAfterSetPin>>
    BY <1>1 DEF U!DecodeWrongSize, U!DecodeWriteData, NewPinInv, IsTransfer,
         Same
  <2>2. IsTransfer'
    BY <2>1 DEF Same, IsTransfer
  <2>3. NewPinInv'
    BY <2>1, <2>2, KeepInv DEF Same
  <2> QED BY <2>1, <2>3 DEF ClosesPin, NewPin, NewPinInv, U!Complete
<1>2. CASE U!DecodeLocked(p) \/ U!DecodeAnswer(p)
  BY <1>2 DEF U!DecodeLocked, U!DecodeAnswer, NewPinInv, IsTransfer, NewPin,
       ClosesPin, U!Complete
<1>3. CASE U!DecodeWriteAbort(p) \/ U!DecodeEepromAbort(p) \/ U!DecodeNotIdle(p)
  BY <1>3, LostCloses DEF U!DecodeWriteAbort, U!DecodeEepromAbort,
       U!DecodeNotIdle
<1>4. CASE U!DecodeEepromData(p)
  BY <1>4, EepromCloses
<1>5. ASSUME U!TakesCommands \/ UCP_state = "IDLE" PROVE ClosesPin
  BY <1>5 DEF U!TakesCommands, ClosesPin, NewPinInv
<1>6. CASE U!DecodeRead(p) \/ U!DecodeReadPin(p)
  <2>1. \E mem, start, len : xfer' = U!Begin("read", mem, start, len)
    <3>1. CASE U!DecodeReadPin(p)
      BY <3>1 DEF U!DecodeReadPin
    <3>2. CASE U!DecodeRead(p)
      <4>1. CASE p.type = 0
        BY <3>2, <4>1 DEF U!DecodeRead
      <4>2. CASE p.type = 1
        BY <3>2, <4>2 DEF U!DecodeRead
      <4>3. CASE p.type # 0 /\ p.type # 1
        BY <3>2, <4>3 DEF U!DecodeRead
      <4> QED BY <4>1, <4>2, <4>3
    <3> QED BY <1>6, <3>1, <3>2
  <2>2. NewPinInv'
    BY <2>1, BeginInv
  <2> QED BY <1>5, <1>6, <2>2 DEF U!DecodeRead, U!DecodeReadPin
<1>7. CASE U!DecodeWrite(p)
  <2>1. NewPinInv'
    BY <1>7, BeginInv DEF U!DecodeWrite
  <2> QED BY <1>5, <1>7, <2>1 DEF U!DecodeWrite
<1>8. CASE U!DecodeSetPin(p) \/ U!DecodeKeyboard(p)
  <2>1. NewPinInv'
    BY <1>8, PlacesAssumption, BeginInv DEF U!DecodeSetPin, U!DecodeKeyboard
  <2> QED BY <1>5, <1>8, <2>1 DEF U!DecodeSetPin, U!DecodeKeyboard
<1> QED BY <1>1, <1>2, <1>3, <1>4, <1>6, <1>7, <1>8 DEF U!UCP_Decode

(* In another transfer than that of a PIN.                                 *)
LEMMA OtherTransfer ==
  ASSUME NewPinInv, ~NewPin, Same(xfer'), xfer'.done \in {xfer.done, TRUE}
  PROVE  NewPinInv' /\ ClosesPin
<1>1. IsTransfer'
  BY DEF Same, IsTransfer
<1>2. ~ NewPin'
  BY DEF Same, NewPin, NewPinInv
<1>3. NewPinInv'
  BY <1>1, <1>2, KeepInv DEF Same
<1> QED BY <1>3 DEF ClosesPin

LEMMA TaskCloses ==
  ASSUME NewPinInv, U!UCP_Task PROVE NewPinInv' /\ ClosesPin
<1>1. ~NewPin
  BY DEF U!UCP_Task, U!TaskReadCmd, U!TaskRead, U!TaskReadEmpty, U!TaskWrite,
      NewPinInv
<1>2. CASE U!TaskReadCmd
  BY <1>1, <1>2 DEF U!TaskReadCmd, NewPinInv, IsTransfer, NewPin, ClosesPin
<1>3. CASE U!TaskReadEmpty
  BY <1>3, LostCloses DEF U!TaskReadEmpty
<1>4. CASE U!TaskRead \/ U!TaskWrite
  <2>1. \E s, k : xfer' \in {U!Moved(s, k), U!Ended(U!Moved(s, k))}
    BY <1>4 DEF U!TaskRead, U!TaskWrite
  <2>2. Same(xfer') /\ xfer'.done \in {xfer.done, TRUE}
    BY <2>1, MovedSame DEF NewPinInv
  <2> QED BY <1>1, <2>2, OtherTransfer
<1> QED BY <1>2, <1>3, <1>4 DEF U!UCP_Task

LEMMA WriteTaskCloses ==
  ASSUME NewPinInv, U!UCP_WriteTask PROVE NewPinInv' /\ ClosesPin
<1>1. \E end \in BOOLEAN : xfer' = U!Stored(end)
  BY DEF U!UCP_WriteTask
<1>2. CASE ~(xfer.op = "write" /\ xfer.mem = "flash")
  BY <1>1, <1>2, LostCloses DEF U!Stored
<1>3. CASE xfer.op = "write" /\ xfer.mem = "flash"
  <2>1. xfer' \in {xfer, U!Ended(xfer)} /\ ~NewPin
    BY <1>1, <1>3 DEF U!Stored, NewPin
  <2>2. Same(xfer') /\ xfer'.done \in {xfer.done, TRUE}
    BY <2>1 DEF U!Ended, Same, NewPinInv, IsTransfer
  <2> QED BY <2>1, <2>2, OtherTransfer
<1> QED BY <1>2, <1>3

(* The menus change no transfer but by ending it before its time.          *)
LEMMA ButtonCloses ==
  ASSUME NewPinInv, Button PROVE NewPinInv' /\ ~(NewPin /\ U!Complete')
<1>1. CASE Locking \/ Unlocking
  <2>1. xfer' = U!Interrupted /\ lockAfterSetPin' = lockAfterSetPin
    BY <1>1 DEF Locking, Unlocking, U!UCP_Lock, U!UCP_Unlock
  <2> QED BY <2>1, LostCloses DEF ClosesPin
<1>2. CASE Resetting
  <2>1. xfer' = U!Lost
    BY <1>2 DEF Resetting, U!ResetPin
  <2>2. ~ U!Lost.done
    BY DEF U!Lost, U!NoTransfer
  <2> QED BY <2>1, <2>2, LostInv DEF U!Complete
<1>3. CASE Browsing
  <2>1. UNCHANGED <<xfer, lockAfterSetPin, UCP_state>>
    BY <1>3 DEF Browsing, ucpOwn
  <2> QED BY <2>1 DEF NewPinInv, IsTransfer, NewPin, U!Complete
<1> QED BY <1>1, <1>2, <1>3 DEF Button

LEMMA NewPinStep ==
  ASSUME NewPinInv, [Next]_vars
  PROVE  NewPinInv' /\ (NewPin /\ U!Complete' => UIF_state' = "START")
<1>1. CASE Button
  BY <1>1, ButtonCloses
<1>2. CASE HostPacket
  <2>1. NewPinInv' /\ ClosesPin
    BY <1>2, DecodeCloses DEF HostPacket
  <2>2. PinWritten => UIF_state' = "START"
    BY <1>2 DEF HostPacket, S!UIF_Init
  <2> QED BY <2>1, <2>2 DEF ClosesPin, PinWritten
<1>3. CASE HostRequest \/ WriteTask
  <2>1. NewPinInv' /\ ClosesPin
    BY <1>3, TaskCloses, WriteTaskCloses DEF HostRequest, WriteTask
  <2>2. NewPin => lockAfterSetPin' = 1
    BY <1>3 DEF HostRequest, WriteTask, U!UCP_Task, U!UCP_WriteTask,
         U!TaskReadCmd, U!TaskRead, U!TaskReadEmpty, U!TaskWrite, NewPinInv
  <2> QED BY <2>1, <2>2 DEF ClosesPin
<1>4. CASE Restart
  BY <1>4 DEF Restart, U!Restart, U!NoTransfer, U!Complete, NewPinInv,
       IsTransfer, NewPin
<1>5. CASE UNCHANGED vars
  <2>1. UNCHANGED <<xfer, lockAfterSetPin, UCP_state>>
    BY <1>5 DEF vars, ucpOwn
  <2> QED BY <2>1 DEF NewPinInv, IsTransfer, NewPin, U!Complete
<1> QED BY <1>1, <1>2, <1>3, <1>4, <1>5 DEF Next

(* When the host has written a whole new PIN the menus are closed in the   *)
(* same step, for all sizes and packets (ucp.c:137-139).                   *)
THEOREM NewPinCloses == Spec => NewPinClosesMenus
<1>1. ASSUME Init PROVE NewPinInv
  BY <1>1 DEF Init, U!Init, U!NoTransfer, NewPinInv, IsTransfer, NewPin
<1>2. ASSUME NewPinInv, [Next]_vars PROVE NewPinInv'
  BY <1>2, NewPinStep
<1>3. ASSUME NewPinInv, [Next]_vars
      PROVE  U!Complete' /\ ~xfer.done /\ xfer.op = "write"
               /\ xfer.mem = "eeprom" /\ xfer.start = LockHash
               => UIF_state' = "START"
  BY <1>3, NewPinStep DEF NewPin
<1> QED BY <1>1, <1>2, <1>3, PTL DEF Spec, NewPinClosesMenus

------------------------------------------------------------------------------
(* What the menus see of the protocol.                                     *)

(* The types the two components meet in, and those of what the protocol    *)
(* decides by when it calls the menus.                                     *)
SharedType ==
  /\ eeprom \in [U!Addr -> U!Byte]
  /\ readOffset \in U!Addr
  /\ lockAfterSetPin \in {0, 1}
  /\ touched \in BOOLEAN

LEMMA Shared ==
  /\ AddrSpace \in Nat /\ PacketSize \in Nat /\ PacketSize > 0
  /\ PacketSize < AddrSpace
  /\ LockHash \in U!Addr /\ KeyboardLUT \in U!Addr
  /\ \A p \in Packets :
       p.offset \in U!Addr /\ p.bytes \in [0 .. PacketSize - 1 -> U!Byte]
BY SharedAssumption DEF U!Packet, U!Index

LEMMA WrapAddr ==
  ASSUME NEW x \in Nat PROVE U!Wrap(x) \in U!Addr
BY Shared DEF U!Wrap, U!Addr

(* A packet moves readOffset on.                                           *)
LEMMA WrapMoves ==
  ASSUME NEW a \in U!Addr
  PROVE  U!Wrap(a + PacketSize) \in U!Addr /\ U!Wrap(a + PacketSize) # a
<1>1. a \in Nat /\ a < AddrSpace
  BY Shared DEF U!Addr
<1>2. CASE a + PacketSize < AddrSpace
  <2>1. U!Wrap(a + PacketSize) = a + PacketSize
    BY <1>1, <1>2, Shared DEF U!Wrap
  <2> QED BY <1>1, <1>2, <2>1, Shared DEF U!Addr
<1>3. CASE ~(a + PacketSize < AddrSpace)
  <2>1. U!Wrap(a + PacketSize) = a + PacketSize - AddrSpace
    BY <1>1, <1>3, Shared DEF U!Wrap
  <2> QED BY <1>1, <1>3, <2>1, Shared DEF U!Addr
<1> QED BY <1>2, <1>3

LEMMA StoreType ==
  ASSUME NEW mem \in [U!Addr -> U!Byte], NEW a \in U!Addr, NEW m \in Nat,
         NEW s \in [0 .. m - 1 -> U!Byte]
  PROVE  U!Store(mem, a, s, m) \in [U!Addr -> U!Byte]
<1>1. ASSUME NEW x \in U!Addr, U!Distance(a, x) < m
      PROVE  s[U!Distance(a, x)] \in U!Byte
  <2>1. x + AddrSpace - a \in Nat
    BY Shared DEF U!Addr
  <2>2. U!Distance(a, x) \in U!Addr
    BY <2>1, WrapAddr DEF U!Distance
  <2>3. U!Distance(a, x) \in 0 .. m - 1
    BY <1>1, <2>2, Shared DEF U!Addr
  <2> QED BY <2>3
<1> QED BY <1>1 DEF U!Store

(* A packet of the host: what it leaves in the types the components share, *)
(* and which step of the menus it is.                                      *)
Answered ==
  UNCHANGED <<UCP_state, eeprom, lockAfterSetPin, readOffset>>

Moves ==
  /\ UCP_state # "DEVICE_LOCKED" /\ UCP_state # "WRITE_EEPROM"
  /\ UCP_state' \in S!UcpStates \ {"DEVICE_LOCKED"}
  /\ UNCHANGED eeprom
  /\ readOffset' \in U!Addr /\ lockAfterSetPin' \in {lockAfterSetPin, 1}

Aborts ==
  /\ UCP_state # "DEVICE_LOCKED" /\ UCP_state' = "IDLE"
  /\ UNCHANGED <<eeprom, readOffset, lockAfterSetPin>>

Stores ==
  /\ UCP_state = "WRITE_EEPROM"
  /\ eeprom' \in [U!Addr -> U!Byte]
  /\ readOffset' \in U!Addr /\ readOffset' # readOffset
  /\ \/ UCP_state' \in {"WRITE_EEPROM", "IDLE"} /\ lockAfterSetPin' = lockAfterSetPin
     \/ UCP_state' = UCP_state /\ lockAfterSetPin = 1 /\ lockAfterSetPin' = 0

LEMMA DecodeKinds ==
  ASSUME SharedType, NEW p \in Packets, U!UCP_Decode(p)
  PROVE  Answered \/ Moves \/ Aborts \/ Stores
<1>1. CASE U!DecodeWrongSize(p) \/ U!DecodeLocked(p) \/ U!DecodeWriteData(p)
           \/ U!DecodeAnswer(p)
  BY <1>1 DEF U!DecodeWrongSize, U!DecodeLocked, U!DecodeWriteData,
       U!DecodeAnswer, U!range, U!memory, Answered
<1>2. CASE U!DecodeWriteAbort(p) \/ U!DecodeEepromAbort(p) \/ U!DecodeNotIdle(p)
  BY <1>2 DEF U!DecodeWriteAbort, U!DecodeEepromAbort, U!DecodeNotIdle,
       U!range, U!memory, Aborts
<1>3. CASE U!DecodeRead(p) \/ U!DecodeWrite(p)
  BY <1>3, Shared DEF U!DecodeRead, U!DecodeWrite, U!memory, S!UcpStates, Moves
<1>4. CASE U!DecodeSetPin(p) \/ U!DecodeReadPin(p) \/ U!DecodeKeyboard(p)
  BY <1>4, Shared DEF U!DecodeSetPin, U!DecodeReadPin, U!DecodeKeyboard,
       U!TakesCommands, U!memory, S!UcpStates, Moves
<1>5. CASE U!DecodeEepromData(p)
  <2>1. /\ UCP_state = "WRITE_EEPROM"
        /\ eeprom' = U!Store(eeprom, readOffset, p.bytes, PacketSize)
        /\ readOffset' = U!Wrap(readOffset + PacketSize)
    BY <1>5 DEF U!DecodeEepromData
  <2>2. eeprom' \in [U!Addr -> U!Byte]
    BY <2>1, Shared, StoreType DEF SharedType
  <2>3. readOffset' \in U!Addr /\ readOffset' # readOffset
    BY <2>1, WrapMoves DEF SharedType
  <2>4. \/ UCP_state' \in {"WRITE_EEPROM", "IDLE"} /\ lockAfterSetPin' = lockAfterSetPin
        \/ UCP_state' = UCP_state /\ lockAfterSetPin = 1 /\ lockAfterSetPin' = 0
    <3>1. CASE U!EepromEnds
      <4>1. /\ UCP_state' = IF lockAfterSetPin = 1 THEN UCP_state ELSE "IDLE"
            /\ lockAfterSetPin' = 0
        BY <1>5, <3>1 DEF U!DecodeEepromData
      <4> QED BY <4>1 DEF SharedType
    <3>2. CASE ~U!EepromEnds
      BY <1>5, <2>1, <3>2 DEF U!DecodeEepromData
    <3> QED BY <3>1, <3>2
  <2> QED BY <2>1, <2>2, <2>3, <2>4 DEF Stores
<1> QED BY <1>1, <1>2, <1>3, <1>4, <1>5 DEF U!UCP_Decode

(* A request of the host, and the write that the main loop does.           *)
LEMMA TaskKinds ==
  ASSUME SharedType, U!UCP_Task
  PROVE  Answered \/ Moves \/ Aborts
<1>1. CASE U!TaskReadCmd
  BY <1>1 DEF U!TaskReadCmd, U!range, U!memory, SharedType, S!UcpStates, Moves
<1>2. CASE U!TaskRead
  <2>1. readOffset' \in U!Addr
    BY <1>2, WrapMoves DEF U!TaskRead, SharedType
  <2>2. UCP_state' \in {"READING", "IDLE"} /\ UCP_state = "READING"
    BY <1>2 DEF U!TaskRead
  <2> QED BY <1>2, <2>1, <2>2 DEF U!TaskRead, U!memory, S!UcpStates, Moves
<1>3. CASE U!TaskReadEmpty
  BY <1>3 DEF U!TaskReadEmpty, U!range, U!memory, Aborts
<1>4. CASE U!TaskWrite
  BY <1>4 DEF U!TaskWrite, U!range, U!memory, Answered
<1> QED BY <1>1, <1>2, <1>3, <1>4 DEF U!UCP_Task

LEMMA WriteKinds ==
  ASSUME SharedType, U!UCP_WriteTask
  PROVE  /\ UCP_state' \in {UCP_state, "IDLE"}
         /\ UNCHANGED <<eeprom, lockAfterSetPin>> /\ readOffset' \in U!Addr
<1>1. UCP_state' \in {UCP_state, "IDLE"} /\ UNCHANGED <<eeprom, lockAfterSetPin>>
  BY DEF U!UCP_WriteTask
<1>2. PICK c \in 1 .. PacketSize : readOffset' = U!Wrap(readOffset + c)
  BY DEF U!UCP_WriteTask
<1>3. readOffset + c \in Nat
  BY Shared DEF SharedType, U!Addr
<1> QED BY <1>1, <1>2, <1>3, WrapAddr

------------------------------------------------------------------------------
LEMMA PacketStep ==
  ASSUME SharedType, HostPacket
  PROVE  SharedType' /\ (S!Next \/ UNCHANGED S!vars)
<1>1. PICK p \in Packets : U!UCP_Decode(p)
  BY DEF HostPacket
<1>2. /\ ~halted
      /\ IF PinWritten THEN S!UIF_Init ELSE UNCHANGED UIF_state
      /\ touched' = (touched \/ (UCP_state = "WRITE_EEPROM"
                                 /\ readOffset' # readOffset))
      /\ UNCHANGED entryOwn
  BY DEF HostPacket
<1>3. touched' \in BOOLEAN
  BY <1>2 DEF SharedType
<1>4. CASE Answered
  <2>1. ~PinWritten /\ touched' = touched
    BY <1>2, <1>4 DEF Answered, PinWritten, SharedType
  <2>2. UNCHANGED S!vars
    BY <1>2, <1>4, <2>1 DEF Answered, entryOwn, S!vars, S!own, S!menu, S!typing,
         S!checks, S!shared
  <2> QED BY <1>4, <2>1, <2>2 DEF Answered, SharedType
<1>5. CASE Moves
  <2>1. ~PinWritten /\ touched' = touched
    BY <1>2, <1>5 DEF Moves, PinWritten, SharedType
  <2>2. S!ProtocolMoves
    BY <1>2, <1>5, <2>1 DEF Moves, entryOwn, S!ProtocolMoves, S!own, S!menu,
         S!typing, S!checks
  <2> QED BY <1>5, <2>1, <2>2 DEF Moves, SharedType, S!Next, S!Protocol
<1>6. CASE Aborts
  <2>1. ~PinWritten /\ touched' = touched
    BY <1>2, <1>6 DEF Aborts, PinWritten, SharedType
  <2>2. S!ProtocolMoves
    BY <1>2, <1>6, <2>1 DEF Aborts, entryOwn, S!ProtocolMoves, S!own, S!menu,
         S!typing, S!checks, S!UcpStates
  <2> QED BY <1>6, <2>1, <2>2 DEF Aborts, SharedType, S!Next, S!Protocol
<1>7. CASE Stores
  <2>1. touched' = TRUE
    BY <1>2, <1>7 DEF Stores
  <2>2. eeprom' \in [0 .. AddrSpace - 1 -> 0 .. 255]
    BY <1>7 DEF Stores, U!Addr, U!Byte
  <2>3. \/ UCP_state' \in {"WRITE_EEPROM", "IDLE"} /\ UNCHANGED UIF_state
        \/ UNCHANGED UCP_state /\ S!UIF_Init
    BY <1>2, <1>7 DEF Stores, PinWritten, SharedType
  <2>4. S!ProtocolStores
    BY <1>2, <1>7, <2>1, <2>2, <2>3 DEF Stores, entryOwn, S!ProtocolStores,
         S!typing, S!checks
  <2>5. SharedType'
    BY <1>3, <1>7 DEF Stores, SharedType
  <2> QED BY <2>4, <2>5 DEF S!Next, S!Protocol
<1> QED BY <1>1, <1>4, <1>5, <1>6, <1>7, DecodeKinds

LEMMA TaskStep ==
  ASSUME SharedType, HostRequest \/ WriteTask
  PROVE  SharedType' /\ (S!Next \/ UNCHANGED S!vars)
<1>1. ~halted /\ UNCHANGED menuOwn
  BY DEF HostRequest, WriteTask
<1>2. CASE HostRequest
  <2>1. CASE Answered
    BY <1>1, <2>1 DEF Answered, menuOwn, entryOwn, S!vars, S!own, S!menu,
         S!typing, S!checks, S!shared, SharedType
  <2>2. CASE Moves
    BY <1>1, <2>2 DEF Moves, menuOwn, entryOwn, S!ProtocolMoves, S!own, S!menu,
         S!typing, S!checks, SharedType, S!Next, S!Protocol
  <2>3. CASE Aborts
    BY <1>1, <2>3 DEF Aborts, menuOwn, entryOwn, S!ProtocolMoves, S!own, S!menu,
         S!typing, S!checks, SharedType, S!UcpStates, S!Next, S!Protocol
  <2> QED BY <1>2, <2>1, <2>2, <2>3, TaskKinds DEF HostRequest
<1>3. CASE WriteTask
  <2>1. /\ UCP_state' \in {UCP_state, "IDLE"}
        /\ UNCHANGED <<eeprom, lockAfterSetPin>> /\ readOffset' \in U!Addr
    BY <1>3, WriteKinds DEF WriteTask
  <2>2. CASE UCP_state' = UCP_state
    BY <1>1, <2>1, <2>2 DEF menuOwn, entryOwn, S!vars, S!own, S!menu,
         S!typing, S!checks, S!shared, SharedType
  <2>3. CASE UCP_state' = "IDLE"
    BY <1>1, <2>1, <2>3 DEF menuOwn, entryOwn, S!ProtocolEndsWrite, S!own,
         S!menu, S!typing, S!checks, SharedType, S!Next, S!Protocol
  <2> QED BY <2>1, <2>2, <2>3
<1> QED BY <1>2, <1>3

LEMMA ButtonStep ==
  ASSUME SharedType, Button
  PROVE  SharedType' /\ S!Next
<1>1. ~halted
  BY DEF Button
<1>2. CASE Locking
  <2>1. S!UIF_Task
    BY <1>1, <1>2 DEF Locking, S!UIF_Task
  <2>2. UNCHANGED <<eeprom, readOffset, lockAfterSetPin, touched>>
    BY <1>2 DEF Locking, U!UCP_Lock, U!range, U!memory, S!UifStart, S!UsiCancel
  <2> QED BY <2>1, <2>2 DEF SharedType, S!Next
<1>3. CASE Unlocking
  <2>1. S!UIF_Task
    BY <1>1, <1>3 DEF Unlocking, S!UIF_Task
  <2>2. UNCHANGED <<eeprom, readOffset, lockAfterSetPin>> /\ touched' \in {touched, FALSE}
    BY <1>3 DEF Unlocking, U!UCP_Unlock, U!range, U!memory, S!UsiUnlock,
         S!OptCredentials
  <2> QED BY <2>1, <2>2 DEF SharedType, S!Next
<1>4. CASE Resetting
  <2>1. S!UIF_Task
    BY <1>1, <1>4 DEF Resetting, S!UIF_Task
  <2>2. /\ eeprom' = U!Store(eeprom, LockHash, DefaultHash, HashSize)
        /\ UNCHANGED <<readOffset, lockAfterSetPin, touched>>
    BY <1>4 DEF Resetting, U!ResetPin, U!range, S!UsiErase, S!UsiReset
  <2>3. eeprom' \in [U!Addr -> U!Byte]
    BY <2>2, SharedAssumption, StoreType DEF SharedType
  <2> QED BY <2>1, <2>2, <2>3 DEF SharedType, S!Next
<1>5. CASE Browsing
  <2>1. S!UIF_Task
    BY <1>1, <1>5 DEF Browsing, S!UIF_Task
  <2>2. UNCHANGED <<eeprom, readOffset, lockAfterSetPin>>
    BY <1>5 DEF Browsing, ucpOwn
  <2>3. UNCHANGED touched
    BY <1>5 DEF Browsing, S!UsiSelect, S!UsiAccept, S!UsiWrong, S!CrdOptions,
         S!OptSelect, S!OptLock
  <2> QED BY <2>1, <2>2, <2>3 DEF SharedType, S!Next
<1> QED BY <1>2, <1>3, <1>4, <1>5 DEF Button

(* The safety part of ImplementsSession: composed with the protocol the    *)
(* menus take only steps of Session.  Each packet, request and write is    *)
(* one of its abstract steps, or none, whatever the host sends             *)
(* (UCP_Decode, UCP_Task, UCP_WriteTask).                                  *)
THEOREM SessionImplemented == Spec => S!Init /\ [][S!Next]_(S!vars)
<1>1. ASSUME Init PROVE SharedType /\ S!Init
  <2>1. readOffset \in U!Addr
    BY <1>1, Shared DEF Init, U!Init, U!Addr
  <2> QED BY <1>1, <2>1, SharedAssumption DEF Init, U!Init, S!Init, SharedType
<1>2. ASSUME SharedType, [Next]_vars
      PROVE  SharedType' /\ (S!Next \/ UNCHANGED S!vars)
  <2>1. CASE Button
    BY <1>2, <2>1, ButtonStep
  <2>2. CASE HostPacket
    BY <1>2, <2>2, PacketStep
  <2>3. CASE HostRequest \/ WriteTask
    BY <1>2, <2>3, TaskStep
  <2>4. CASE Restart
    <3>1. 0 \in U!Addr
      BY Shared DEF U!Addr
    <3>2. SharedType'
      BY <1>2, <2>4, <3>1 DEF Restart, U!Restart, U!memory, S!Restart, S!Boot,
           SharedType
    <3> QED BY <2>4, <3>2 DEF Restart, S!Next
  <2>5. CASE UNCHANGED vars
    BY <1>2, <2>5 DEF vars, ucpOwn, menuOwn, entryOwn, SharedType, S!vars, S!own,
         S!menu, S!typing, S!checks, S!shared
  <2> QED BY <1>2, <2>1, <2>2, <2>3, <2>4, <2>5 DEF Next
<1> QED BY <1>1, <1>2, PTL DEF Spec
==============================================================================

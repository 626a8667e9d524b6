# MemType in TLA+

MemType is a hardware password keeper: an ATtiny85 that shows itself to a
computer as a USB keyboard. It types messages and credentials, reads a
four-way joystick, and is configured over one HID feature report. The firmware
is one endless loop (`src/main.c`) without threads; its difficulty is that the
host's packets, the host's requests, the joystick and the keyboard endpoint
each run their handler when *they* like, and that the handlers share
variables across these calls.

This directory holds TLA+ modules of the firmware, the configurations with
which TLC checks them, and proofs for TLAPS. Names of actions and variables
are those of the C code. Line numbers are of the files under `src/`.

- [1. Inventory](#1-inventory)
- [2. Modules](#2-modules)
- [3. Runs](#3-runs)
- [4. Fairness](#4-fairness)
- [5. Proofs](#5-proofs)
- [6. What the code does not do](#6-what-the-code-does-not-do)
- [7. Not modelled](#7-not-modelled)
- [8. Plan](#8-plan)

## 1. Inventory

| Component | State | Operations | Hard behaviour | What makes it correct |
|---|---|---|---|---|
| USB protocol, `ucp.c` | `UCP_state`, `customReport`, range, flags, page buffer | `UCP_Decode` (SET_REPORT), `UCP_Task` (GET_REPORT), `UCP_WriteTask` (main loop) | the three come in any order; menus lock and unlock in between; 16-bit wrap; page boundaries | a transfer moves exactly its bytes, and writes nothing else |
| Menus and PIN, `uif.c` `usi.c` `opt.c` | `UIF_state`, indices, `userPin`, `userText`, `pin_retries`, `led` | one handler per menu, called with a button | leftovers of cancelled and failed entries; the host changes the stored hash meanwhile | the PIN checked is the one entered; resets are earned |
| Main loop, `main.c` | idle rate, protocol version, `reportBuffer` | `usbFunctionSetup`, `usbFunctionWrite`; `usbPoll`, `SCH_Task`, then `UCP_WriteTask`, `LED_Task`, `printUpdate` | interleaving of all of the above | menus and protocol keep each other's assumptions |
| USB driver, `usbdrv/` | `usbRxLen`, `usbTxLen`, `usbMsgLen`, addresses, endpoint 1 | the interrupt's packets; `usbPoll` | the interrupt comes between any two steps of `usbPoll`; packets are lost; the host gives up; bus resets | a transfer is served once, whole, and with its own reply |
| Typing queue, `print.c` | `strBuf[5]`, `actString`, `EOS`, `cCount`, `kbd_status` | `print`, `print_deleteStr`, `printUpdate` | a text is asked for while another is typed or deleted; queue and counter at their limits | the device's text is replaced exactly, the user's text is left alone; typing ends |
| Credentials, `crd.c` | selected credential, `position`, `counter` | `CRD_fsm`, `CRD_apply`, `crd_next`, `crd_previous` | fields across cipher blocks, fetched piece by piece; the host rewrites the list | the fields typed are those asked for; moves through the list are undone |
| Keyboard table, `hid_defines.c` | a constant | `print_pressKey` | modifiers and keys share a byte | the host reads the character meant |
| Cipher, `noekeon.S` | `cipher` | encrypt, decrypt | assembly | it decrypts what the list holds |
| Flash writer, `fls.c` | the flash, `tempBuff` | `FLS_write` | loss of the supply between erase and write | a buffer is stored whole or one page is in doubt |
| Buttons, scheduler, `uib.c` `adm.c` `sch.c` | debounce counter and state, `sch_tick` | `SCH_Task`, every 10 ms `ADM_Task`, `UIB_Task`, `UIF_Task` | bouncing at any sample; ticks lost; counters wrap | a button is reported on its schedule and never otherwise |
| Oscillator calibration, `osccal.c` | `OSCCAL`, its EEPROM byte | `OSCCAL_Init`, `OSCCAL_Start` at the end of a bus reset | loops that count in eight bits; the supply fails during the store | it ends, with the best value it can find |
| LED, `led.c` | `led`, a counter | `LED_Task` | set by the menus and by the protocol's lock | it tells the menu |
| Assembler calibration, `osccalASM.S` | | | not run | |

How they interact:

- The interrupt of the USB driver takes a packet from the host or sends one,
  at any point of the main loop. `usbPoll` processes what it took:
  `usbFunctionWrite` → `UCP_Decode`, or `usbFunctionSetup` → `UCP_Task`. When
  a new PIN is complete `UCP_Decode` calls `UIF_Init`. At the end of a bus
  reset `usbPoll` calls `OSCCAL_Start`.
- `SCH_Task` calls `UIF_Task`, which calls the handler of the menu. The menus
  call `UCP_Lock` and `UCP_Unlock` (macros of `ucp.h` that set `UCP_state` and
  the LED) and write the hash in the EEPROM (`usi_resetPin`).
- `UCP_WriteTask` calls `FLS_write` and, at the end of a write, `CRD_Init`.
- Handlers ask for texts with `print_deleteStr` and `printStr`;
  `printUpdate` types them and calls `CRD_apply` for the next piece of a
  credential, which decrypts a block of flash and calls `print_nStr`.
  `print_pressKey` makes a key report of each character, and `main` hands it to
  endpoint 1 of the driver when the one before was sent.

But for the interrupt all of these run in one thread, each to its end, so a
step of the models is a call from the main loop. A step is smaller where
something comes between: in `Usb` the interrupt, in `Fls` and `Osccal` the loss
of the supply, in `Credentials` the pieces that the main loop types one by one
and a search that may not end.

## 2. Modules

### Ucp: the USB protocol

State: the variables of `ucp.c`, flash and EEPROM. A packet is its bytes with
the fields `UCP_Decode` reads out of it (`offset`, `length`, `type`).

| Code | Actions |
|---|---|
| `UCP_Decode`, ucp.c:99-214 | `DecodeWrongSize`, `DecodeLocked`, `DecodeWriteData`, `DecodeWriteAbort`, `DecodeEepromData`, `DecodeEepromAbort`, `DecodeRead`, `DecodeWrite`, `DecodeNotIdle`, `DecodeSetPin`, `DecodeReadPin`, `DecodeKeyboard`, `DecodeAnswer` |
| `UCP_Task`, ucp.c:49-96 | `TaskReadCmd`, `TaskRead`, `TaskReadEmpty`, `TaskWrite` |
| `UCP_WriteTask`, ucp.c:216-245 | `UCP_WriteTask`, its loop in closed form |
| `UCP_Lock`, `UCP_Unlock`, `usi_resetPin` | `UCP_Lock`, `UCP_Unlock`, `ResetPin` |
| reset of the controller | `Restart` |

The loop of `UCP_WriteTask` is written in closed form so that it can be
reasoned about; `WriteTaskIsTheLoop` in `MCUcp` compares it, step by step, with
the loop as the code writes it. `tempBuff` is a function on `0 .. buffIndex - 1`:
what is beyond is never read.

`xfer` is history: the transfer the host asked for, the bytes it sent or was
answered, and whether something spoiled it. `intact` is FALSE when another
command, a menu or a restart interrupted it or its range wraps; `quiet` is
FALSE when it began with a flag of an earlier one still set; `rejected` is TRUE
when a packet of the wrong size came while one was pending. The last two are
what section 6 is about.

### Session: menus and PIN

An action is one call of `UIF_Task` with a button down. `UifStart` is the start
message, `UsiCancel` to `UsiReset` the PIN entry (`UsiErase` is PIN 9999, after
which the code stands in `while (1)`), `CrdOptions` to `OptLock` the menus
behind the PIN. `Hash` is an uninterpreted function of the PIN. Buttons that
change nothing here (moving among credentials, typing one) are not steps of
this module. The protocol's steps are abstract: `ProtocolMoves`,
`ProtocolEndsWrite`, `ProtocolStores`; `Device` shows that they are all it
does. History: `entry`, the digits the user accepted; `verified`, those that
opened the menus; `misses`; `touched`, whether the host wrote to the EEPROM.

### Device: the main loop

`Device` instantiates `Ucp` and `Session` over shared `UCP_state` and `eeprom`.
A handler that calls the other component is the conjunction of an action of
each: `Locking`, `Unlocking`, `Resetting`, and `HostPacket`, which includes
`UIF_Init` when a PIN is complete. By construction every step here is one of
`Ucp` or leaves its variables alone, so what holds in `Ucp` holds in the device.
That the steps are those of `Session` too is a statement about the code,
`ImplementsSession`: what `Session` assumes a host may do to the menu, to
`UCP_state` and to the EEPROM has to cover what the packets, the requests and
the write task do. `SharedAssumption` gives the constants that both modules take
their types.

### Typing: print.c and the texts of the menus

`printUpdate` is split by `kbd_status` and its conditions: `WaitInit` to
`DeleteRelease`. The menus are reduced to what they ask for: a text in flash,
`userText`, or fields of a credential (`ShowFlash`, `ShowUserText`,
`CRD_printDetail`), with `UIF_state` deciding who may ask. `CRD_apply` is an
operator, called from a request and from `EndPiece`. A slot keeps `callback`,
`len` and its pointer when it is emptied, as in the code. The decrypted
credential is `Cred`, by record; how it is decrypted is in `Credentials`. The
host's write of a new list is `RecordWritten` for each page on the way, after
which a record holds the bytes of another one, also while its name or its fields
are being typed, and `CredentialsWritten` at the end, where `CRD_Init` selects
the first record. `Names` are the records and the contents a record can have.

`screen` is a text editor at the host that applies the reports; `eaten` says
that a backspace found nothing of the device's to delete, so it took a
character of the user's. `shown` is the text asked for last, as it looks when
it is typed: `Visible` leaves the pauses out of a text, `Fields` takes the
fields out of a credential. Both are the first of the suffixes that `From`
joins, one for each position, so that what is still to come has a name too.
`flaws` records the circumstances in which the code does not show it (section 6):
`hasty`, `cut`, `nul`, `added`, `reloaded`, `rewritten`. Two more are flaws of
the texts, not of the requests, and no text of the run has them: `backspace`, a
text with a backspace in it, and `long`, one in which `cCount` wraps.

### Credentials, Noekeon and Keyboard: what a credential is

`Credentials` holds the list as bytes of flash: name, offset of the next
record, four encrypted fields. `crd_next` follows the offset; `crd_previous`
is a loop in the code and here a search in steps, `SearchStep` and
`SearchEnds`, which only `Restart` (the watchdog) may end otherwise. `PrintAll`,
`PrintUser` and `PrintPass` are the three calls of `CRD_printDetail`, `Continue`
is the next call of `CRD_apply`, `Finish` the end of the last piece. The host
replaces the list page by page (`StartWrite`, `WritePage`), at whose end
`CRD_Init` loads the first record. A piece is decrypted with
`N!noekeon_decrypt` of `Noekeon`, typed with `print_pressKey` of `Keyboard`, and
read back by `HostReads`, a host with the Spanish layout: `typed` is what the
user sees. Past the end of `credentials[]` the code reads whatever flash
follows; the model reads zeros there.

`Noekeon` has the subroutines of `noekeon.S` as operators on words. A word is
the set of its one bits, so that xor is a symmetric difference and a rotation
is a shift of the positions. `MCCredentials` assumes, and TLC evaluates, that
the model encrypts PIN 0000 to the hash in usi.c:13-15; the list of crd.c:24 is
decrypted to what it is said to hold.

The constant `Lists` gives each list as bytes, with the plain fields of each
record. What the model assumes of them (`ListsAssumption`, `RingAssumption`,
`CipherAssumption`) is what the clients write and the code relies on; section 5
says what for.

History: `history.back` is the record DOWN came from, `history.exact` whether
the list stood still since the credential was asked for.

### Storage and Fls: the flash writer

`Storage` is what a caller may rely on: `Write` stores the buffer in one step,
`Fail` leaves the pages before one written, those after it untouched, and that
page in doubt byte by byte. `Fls` is `FLS_write` page by page: `CopyPage`,
`fls_erasePage`, `Fill` (which stands for `fls_loadPage` too), `fls_writePage`,
`Return`, and `PowerLoss` in between or in the middle of an operation. The
refinement hides the flash until the call is over:
`flash <- IF pc = "idle" THEN flash ELSE before`. `Ucp` stores a buffer with
`Store`, which is the `Write` of `Storage`.

### Buttons: scheduler, ADC and debouncing

`Time` advances the timer, `SCH_Task` is `SchCount` or, when the period is
over, `SchTask`: sample, `UIB_Task`, `UIF_Task`. `taken` is the button
`UIF_Task` acts on. The main loop may come up to `MaxLag` milliseconds late and
then counts one tick. `since` is history: the milliseconds since the task ran,
whatever `sch_tick` counted of them. So is `held`: how often the same button
was read again. The specification is `ButtonsSpec`, and its parts are named
likewise, since `ClockProofs` extends this module and `Osccal`.

### Usb: the driver, the requests and the host

`Usb` is V-USB as `usbconfig.h` selects it. The main loop is cut where the
interrupt matters: `usbProcessRx` (with one operator per request for
`usbDriverSetup` and `usbFunctionSetup`), `ReleaseRx` (`usbRxLen = 0`),
`usbBuildTxBlock`, `Send` (`usbTxLen` is set last, and admits the interrupt),
`CheckLine` (the bus reset), `usbSetInterrupt`. The interrupt and the host are one
action per transaction: `Setup`, `Out`, `In`, `StatusOut`, `In1`. The host
repeats what was not acknowledged, drops a packet with the toggle of the one
before, gives up at any point (`GiveUp`), resets the bus (`BusReset`,
`ResetEnds`); `Restart` is the watchdog or the plug. `InLost` loses data,
`AckLost` an acknowledgement. A flash address stands for the byte at it, and
`customReport` and `reportBuffer` are a number each call changes, so that a reply
shows where and when it was read. A request (`Request`) has the fields the code
looks at; `RequestsAssumption` says that its direction is that of `bRequest`,
that an address has seven bits, that a report the host sets is not empty, and
that the data the host sends fit in one packet, as the feature report's do.

The driver does not check data toggles (usbconfig.h:199), so a packet repeated
after a lost acknowledgement reaches `UCP_Decode` twice; `Ucp` allows for that.
Its header says that it assumes error-free communication: bytes that arrive
are right, and only whole packets are lost.

### Osccal: the oscillator

`OSCCAL_Start` begins the search; `SearchStep`, `SearchEnds`, `Compare` and
`LoopEnds` are its two loops, `Store` the write of EEPROM. `frameLength` is what
`usbMeasureFrameLength` would return for each value: it rises in each half of
the range and falls back where the upper half begins, as the oscillator of the
controller does. It changes with every `Restart`, and a restart during `Store`
leaves any value in EEPROM. `Fine` says that one step of the register never
more than doubles the frequency; osccal.c:36 relies on it, where a length takes
the place of a deviation ("this is certainly far away from optimum").

### Definitions that end in `_fault`

They are variants of the definition after them with a fault a programmer could
make there. No action uses one. For each property of a run there is one that
breaks it, so that it is known what each property would notice.

## 3. Runs

Eleven runs pass and one shows a violation. Every passing run explores its whole
state space.

| Run | Module | Checks | Instance |
|---|---|---|---|
| `ucp_flash` | MCUcp | `TransferExact`, `TransferInv`, `BufferFits`, `NothingElseWritten`, `WriteTaskIsTheLoop` | three writes, of 5 and 3 bytes and one whose range wraps |
| `ucp_commands` | MCUcp | `TypeOK`, `TransferExact` | PIN, keyboard, reads, edges |
| `session_menus` | MCSession | `TypeOK`, `PinIsEntry`, `KeyIsVerifiedPin`, `LedTellsMenu`, `ResetIsEarned`, `EraseRecovers` | PINs of 2 digits out of 3 |
| `device_pin` | MCDevice | `ImplementsSession`, `NewPinClosesMenus` | the host sets a PIN or writes the keyboard table |
| `device_write` | MCDevice | `ClosedUntilPin`, `UnlockNeedsPin` | the host writes a credential |
| `device_lock` | MCDevice | `EntryIsLocked` is violated | as `device_write` |
| `typing_texts` | MCTyping | `TypeOK`, `SettledShowsLast`, `CountIsShown`, `TypingEnds` | 5 requests, 2 credentials, 2 slots |
| `fls_power` | MCFls | `TypeOK`, `ErasedIsCopied`, `ImplementsStorage`, `WriteReturns` | 2 pages of 3 bytes, 4 writes |
| `buttons_joystick` | MCButtons | `ReportsOnSchedule`, `ReadInTime`, `HeldIsTaken` | 3 samples, lag of 2 |
| `usb_host` | MCUsb | `TypeOK`, `AddressAgrees`, `TransferServed`, `ReportsInOrder`, `TransferEnds` | 11 requests, 1 lost packet, 2 resets |
| `credentials_list` | MCCredentials | `SpellsCredential`, `SearchIsShort`, `UpUndoesDown` | two lists, of 3 and 2 records |
| `osccal` | MCOsccal | `ResultIsBest`, `StoredIsUsed`, `CalibrationEnds` | `OSCCAL` of 4 bits, 52 oscillators |

What the bounds are and why they are enough:

- **Ucp.** Packets of 2 bytes, pages of 4, 16 addresses. Credentials start at
  address 1, so pages of flash, pages of offsets and packets are never aligned
  with each other; the 5-byte write begins inside a page, crosses one and ends
  inside a packet, the 3-byte one fills a page with its first byte, and the
  range of the third ends past the last address. Every command is also a possible
  data packet. The proofs of section 5 cover all
  sizes; the runs show that the cases happen.
- **Session.** Two digits are enough for a first, a last and a next one. The
  EEPROM holds the default hash, a new one, or half of it. `Retries` is 2 as in
  the code.
- **Device.** PINs of one digit: the default, the host's and the erasing one;
  one retry. `device_pin` has the packets of both transfers to the EEPROM, so
  that a keyboard transfer meets the `lockAfterSetPin` of a PIN that was broken
  off; `device_write` has a write. With all at once the histories multiply. A
  write meets the transfers to the EEPROM only through the flags and offsets one
  leaves to the other, and the proofs cover those for all packets.
- **Typing.** Texts of one or two characters, blocks of 3 bytes instead of 16,
  so that a field spans two blocks, ends with its block, or is empty; one of the
  two credentials has each, and a page written by the host may turn one into the
  other at any time. `STRBUF_SIZE = 2` instead of 5 and `CountSize = 8`
  instead of 256: `MaxRequests = 5` then fills the queue, and the texts reach
  the largest count that `cCount` can hold. Beyond it the deletion is too short
  (flaw `long`), and no text of the run is longer. `InitDebounce` and
  `IdleTimeout` are 1 instead of 50 and only stretch time.
- **Fls.** Writes that cross into the second page, fill it, change one byte and
  do nothing. Each write has bytes of its own, so a byte that is lost or
  misplaced makes the step a step of no write.
- **Buttons.** A period of 3 in 8 ticks keeps that the ticks are not a multiple
  of the period; debounce times 2, 4, 3 keep that the second is the longest.
  The samples are on both sides of the lowest threshold and above the highest.
- **Usb.** The requests have a reply of three blocks that ends short, a reply
  that fills its block, empty ones, and data for report 2 and for another
  report; they enumerate and use the device in full. One lost packet at any
  point is what brings a repeated SETUP, a repeated OUT and a block the host
  misses; a second one only repeats that. Two resets or restarts, one of which
  may come in the enumeration that follows the other. Reports and the contents
  of `customReport` are told apart modulo 2, since the driver has one buffer of
  each.
- **Credentials.** The cipher, its blocks of 16 bytes and `position` have their
  real size. The first list is the one the program comes with (crd.c:24), the
  second has every printable character, a field that ends with its block and a
  record of 256 bytes, the most `position` can count. Pages of 128 bytes make a
  list four pages, enough to be half written inside a record. `MaxSearch = 5`
  is more than the records of both lists together can need.
- **Osccal.** Each half has 8 values. The oscillators meet the target in the
  lower half, the upper, both, neither, with their first value or their last
  ones, and each restart may change to another.

What they show:

- `TransferExact`: a transfer the device ended by itself moved exactly the
  bytes of its range, whatever packets were repeated, rejected or came too
  early. `NothingElseWritten`: what is written lies in that range, also when a
  packet left over from an earlier write goes into it. `BufferFits`: in every
  write `tempBuff` holds what the offset is past a page and no more, also with
  such a packet and with a range that wraps. `TransferInv` is the inductive
  invariant of the proof.
- `PinIsEntry`: what is checked, and what is shown, is what the user entered,
  however often entries were cancelled or failed before. `KeyIsVerifiedPin`:
  the key that decrypts the credentials is the PIN that opened the menus.
  `LedTellsMenu`: LED and menu go together. `ResetIsEarned`: the menus reset the
  stored hash only after the retries or for PIN 9999. `EraseRecovers`: from the
  endless loop after that the watchdog brings the device back with the default
  PIN.
- `ClosedUntilPin`: from power-up until the PIN was entered nothing the host
  sends is stored, and every answer is an error; what was under way when the
  supply failed does not go on. `NewPinClosesMenus`, `UnlockNeedsPin`: what menus
  and protocol owe each other. `ImplementsSession`: the protocol does to the
  menus nothing that `Session` does not allow for.
- `SettledShowsLast`, `CountIsShown`: requests that come one at a time replace
  each other exactly, at whatever character they come, and `cCount` is the
  length of the device's own text. `TypingEnds` holds for all requests.
- `ImplementsStorage`, `ErasedIsCopied`, `WriteReturns`: for its caller
  `FLS_write` is one step, also when the supply fails; what a page held is in
  RAM while the page is erased.
- `ReportsOnSchedule`, `ReadInTime`, `HeldIsTaken`: a button is reported after
  5 equal samples, 100 more, and every 25 after that; the joystick is read at
  the latest every `Period * MaxLag` milliseconds, although a late main loop
  counts one tick for all it missed and `sch_tick` wraps in the middle of a
  period; a held button is acted on again and again.
- `TransferServed`: the transfer the host completes was served, once but for
  the acknowledgements that were lost, with the reply to that request and not
  with blocks of an earlier one. `AddressAgrees`: the new address comes into
  force neither too early nor too late. `ReportsInOrder`: no key report is
  overwritten. `TransferEnds`: nobody waits for the other for ever.
- `SpellsCredential`: the user sees exactly the fields asked for, wherever they
  lie in their blocks. `UpUndoesDown`, `SearchIsShort`: the search for the
  record before ends, at the right one, also after the host replaced the list.
- `ResultIsBest`, `StoredIsUsed`, `CalibrationEnds`: the calibration ends with
  the best value of the half it searched, and never stores the one that the
  next start takes for none.

## 4. Fairness

| Module | Fairness | Why the code justifies it |
|---|---|---|
| Session, Device | `WF(Watchdog)` | `wdt_enable(WDTO_1S)`, main.c:122: a loop that stands is reset after a second |
| Typing | `WF(printUpdate)` | the host polls the interrupt endpoint of a keyboard; each poll frees it and main.c:152-156 runs `printUpdate` |
| Fls | `WF(FLS_write)` | the processor executes the call; a loss of the supply ends it too |
| Buttons | `WF(Time)`, `WF(SCH_Task)` | the timer counts by itself, the main loop calls `SCH_Task` in every turn |
| Usb | `WF(MainLoop)` | the loop of main.c runs on |
| Usb | `WF(ResetEnds)`, `WF(In)`, `WF(StatusOut)`, `WF(Setup /\ UNCHANGED bound)`, `WF(Out /\ UNCHANGED bound)` | a host ends a reset, and repeats a transaction until it is answered; the loss of a packet is never the only thing that can happen |
| Osccal | `WF(Calibrate)` | the main loop is inside of `OSCCAL_Start` until it returns |
| Ucp, Credentials | none | all their properties are about safety |

Nothing is assumed of what the host asks for or of the user's buttons: `Start`,
`GiveUp` and the resets have no fairness, nor has the packet of any command in
`Ucp`. `HeldIsTaken` assumes, in its formula, a button that stays pressed;
`CalibrationEnds` assumes an oscillator that reaches the target before its last
value; `TransferEnds` leaves out a transfer whose data were lost, which only
the host can end. That typing ends does not mean that the host goes on asking:
after the last request the menus are silent (`MaxRequests`).

## 5. Proofs

All theorems hold for all sizes, packets, memories, PINs, requests, texts,
credentials, samples and oscillators that satisfy the assumptions of the module
they are about.

| Module | Theorem | States |
|---|---|---|
| `UcpProofs` | `TypeCorrect` | `Spec => []TypeOK` |
| | `TransferInvariant` | `Spec => []TransferInv` |
| | `TransferCorrect` | `Spec => []TransferExact` |
| | `OnlyRangeWritten` | `Spec => NothingElseWritten` |
| | `BufferHolds` | `Spec => []BufferFits` |
| `SessionProofs` | `TypeCorrect` | `Spec => []TypeOK` |
| | `EntryChecked` | `Spec => []PinIsEntry` |
| | `KeyVerified` | `Spec => []KeyIsVerifiedPin` |
| | `LedCorrect` | `Spec => []LedTellsMenu` |
| | `ResetEarned` | `Spec => ResetIsEarned` |
| `DeviceProofs` | `ClosedToHost` | `Spec => ClosedUntilPin` |
| | `SessionImplemented` | `Spec => S!Init /\ [][S!Next]_(S!vars)` |
| | `UnlockEarnedAlways` | `Spec => UnlockNeedsPin` |
| | `NewPinCloses` | `Spec => NewPinClosesMenus` |
| `TypingProofs` | `TypeCorrect` | `Spec => []TypeOK` |
| | `TypingInvariant` | `Spec => []TypingInv` |
| | `CountShown` | `Spec => []CountIsShown` |
| | `LastShown` | `Spec => []SettledShowsLast` |
| `FlsProofs` | `TypeCorrect` | `Spec => []TypeOK` |
| | `ErasedCopied` | `Spec => []ErasedIsCopied` |
| | `StorageImplemented` | `Spec => ImplementsStorage` |
| `UsbProofs` | `UsbInvariant` | `Spec => []Inv` |
| | `TypeCorrect` | `Spec => []TypeOK` |
| | `AddressesAgree` | `Spec => []AddressAgrees` |
| | `TransfersServed` | `Spec => TransferServed` |
| | `ReportsAreInOrder` | `Spec => ReportsInOrder` |
| `CredentialsProofs` | `MovesInvariant` | `Spec => []CredInv` |
| | `ShowsListed` | `Spec => []RecordIsListed` |
| | `SearchShort` | `Spec => []SearchIsShort` |
| | `PreviousFound` | `Spec => PreviousLeadsHere` |
| | `UpAfterDown` | `Spec => UpUndoesDown` |
| | `EachIsRead` | a host reads each character of `Characters` as itself, and 0 as nothing |
| | `CredentialSpelled` | `Spec => []SpellsCredential` |
| `ClockProofs` | `ButtonsReported` | `ButtonsSpec => []ReportsOnSchedule` |
| | `JoystickRead` | `ButtonsSpec => []ReadInTime` |
| | `TypeCorrect` | `Spec => []TypeOK` (Osccal) |
| | `StoredUsed` | `Spec => []StoredIsUsed` |
| | `BestStored` | `Spec => []ResultIsBest` |

**Ucp.** Assumptions: `SizesAssumption` (packets have room for an error code,
the hash and the keyboard table lie inside the EEPROM with a packet to spare),
`WholePacketsAssumption` (16 and 128 are multiples of 8: otherwise the last
packet would write behind them), `DataAssumption` (types of the constants).
`TransferExact` is about the end of a transfer and is not inductive: how the
bytes got there has to be said at every step before. `TransferInv` says it, for
a transfer that nothing spoiled: `StateInv` ties `UCP_state` to what the
transfer does, `RangeInv` ties `readOffset` and `readEnd` to its range and to
the `n` bytes moved so far, `BufferInv` ties the flags, `buffIndex` and
`flashWriteAddr` to the page the write is in, and `DataInv` says for each byte
where it is: in `customReport`, in `tempBuff`, or in memory. Steps that begin,
interrupt or do not concern a transfer are disposed of together; the work is in
`TaskRead`, `DecodeEepromData`, `DecodeWriteData`, `TaskWrite` and
`UCP_WriteTask`, of which the last one has to follow bytes over up to two page
writes. The range of a sound transfer does not wrap (`Begin`), which is what
makes the 16-bit arithmetic exact. `TransferExact` then follows from `DataInv`,
and `NothingElseWritten` from the addresses in `PlaceInv`, a part of it that
says where the buffer goes and holds of a write with a left-over packet too.
`BufferFits` needs no more than `TypeOK` besides, since it is about every write
and not only about sound ones: where a packet meets no multiple of the page the
remainder of the offset grows with `buffIndex` (`NoMultipleBetween`), where it
does the buffer starts anew; and the 0 to which the 16-bit offset wraps is a
multiple too.

**Session.** Assumption: `MenuAssumption` (types; the hash lies in the EEPROM).
The inductive invariant `MenuInv` is the conjunction of `TypeOK`, `PinIsEntry`,
`KeyIsVerifiedPin`, `LedTellsMenu` and `RetriesCount`, which says that misses
and `pin_retries` add up to `Retries`; from it `ResetIsEarned` follows step by
step. `PinIsEntry` is inductive because it speaks of all digits at once, also
of those an earlier entry left behind.

**Device.** Assumptions: those of `Ucp` and `Session`, `PlacesAssumption`, that
the hash and the keyboard table are two places of the EEPROM, and
`SharedAssumption`. `ClosedToHost` rests on `ClosedInv`: as long as no PIN was
verified the protocol is locked, no packet waits to be written, and no menu
that could unlock it is shown; and a PIN that is verified has a digit, so that
the condition of the property ends there. `SessionImplemented` maps every step
of the composition to one of the menus: every packet, request and turn of the
write task, by the kinds of `UCP_Decode`, `UCP_Task` and `UCP_WriteTask`, moves
the protocol among the states in which it is open, ends a write, or stores in
the EEPROM (`ProtocolMoves`, `ProtocolEndsWrite`, `ProtocolStores`), or changes
nothing the menus share. It is the safety part of `ImplementsSession`; the rest
of that is fairness. `UnlockNeedsPin` needs `OpenIsUnlocked` (menus behind the
PIN are open only while the protocol is unlocked), since those menus call
`UCP_Unlock` without asking for a PIN. `NewPinInv` says that while a new PIN is
being written `lockAfterSetPin` is set and the state is `WRITE_EEPROM`,
whatever came before.

**Typing.** Assumption: `TypingAssumption`: types; no text has a `\0` in it, and
the four fields of a credential, each with its `\0`, fit in the values of
`position`, which is what the client writes and `crd.c` relies on. `CountIsShown`
and `SettledShowsLast` are about requests that come one at a time (`Calm`), and
their invariant has to say what then waits.
`QueueInv`: nothing but the text at `actString` and, while that is deleted, the
one behind it, so that a new text finds the slot that is typed next. `HeldInv`:
a text under way is still in its slot, and is no piece of a credential when it
is deleted, so that emptying its slot loses no piece. `PieceInv`: as long as
fields are still to come (`counter < crdStop`) a piece waits whose end fetches
the next one; a request made then is a `cut`. `CountInv`: `cCount` is the length
of what the device has in the editor, and is 0 where a text begins, since then
`PressKey` sets it to 1 instead of adding to it. `ReportInv`: the host sees
each key go up before the next one goes down, so that no key, and no backspace,
is lost on it. The slot `print` takes is the first free one from `actString` on,
which is a least element; that it exists comes from the well-foundedness of `<`
(`MinLeast`). The type invariant holds for hasty requests too. A page the host
writes, and the end of a write, leave what waits and what is typed alone unless
they are a flaw (`ListWritten`).

`ShowInv` is what `SettledShowsLast` needs: at every step the editor's content,
with what is still to be typed of the slot at `actString`, is the text asked for
last, and while the device deletes, that is true of the slot that follows and an
empty editor (`Gives`). Of a text it is the suffix from the slot's pointer on. Of
a piece of a credential it is the suffix of the fields from some position `q`
(`PieceAt`): the piece holds the characters from `q` to the end of their field
or of the cipher block, `position` and `counter` are past them, and where
`position` is within a block, the rest of that block lies decrypted in
`cipher.plain` (`Ahead`), which is why `CRD_apply` may decrypt only at
`position % 16 == 0`. `ApplyPiece` shows that `CRD_apply` makes such a piece, or
a slot without a character (a flaw); `GivesNext` and `GivesUp` follow a key down
and up, `PieceDone` the end of a piece. That the suffixes exist at all, `From`
being recursive, is proved from the last one back (`JoinsExtends`, `FromJoins`),
without an induction principle: were one missing, there would be a least
number of parts from the end at which it is. TLC checked `ShowInv` before it was
proved.

**Fls.** Assumption: `WritesAssumption` (memory is whole pages; a call is no
longer than a page and fits). `FlsInv` has three parts. `LoopInv`: between two
pages the first `i` bytes of the call are in flash, and `i` is at a page or at
an end. `PageInv`: which bytes of the call belong to the page at hand.
`CopyInv`: `tempBuff` is the page as it was, then as it will be. With them
`Return` is a step of `Storage!Write`, `PowerLoss` one of `Storage!Fail` with
the page of the next byte in doubt, and all others stutter.

**Buttons.** Assumption: `ButtonsAssumption`. `ClockInv`: the milliseconds
since the task ran are at most `MaxLag` for each tick that `sch_tick` is past a
multiple of `Period`, and those the timer is ahead of the last call; where
`sch_tick` wraps, the task runs, however few ticks there were. `DebounceInv`
ties `held` to the state and the counter of the debouncing.

**Usb.** Assumptions: `BoundsAssumption`, `RequestsAssumption`. `TransferServed`
speaks of the step that completes a transfer, and nothing in that step shows
how the reply was put together. `ReplyInv` says it at every step before: once
the request was served, and as long as none of its data were lost, what the host
has got, the block in `usbTxBuf` and the rest of the reply are the answer, and the
block bears the toggle the host expects. A reply in flash may be read piece by
piece; one in RAM is read whole by the pass of the main loop that made it
(`BlockInv`), so it is not overwritten meanwhile. `PacketInv` tells whose packet
is in `usbRxBuf`: one of this transfer, or one of an earlier transfer that the
next SETUP replaces. `CountInv` adds the packets that were served and those that
wait, and bounds them by those acknowledged and the acknowledgements lost.
`AddrInv` follows `usbNewDeviceAddr` through SET_ADDRESS, `LineInv` the bus
reset, `KeyInv` the report in endpoint 1. TLC checked the whole invariant before
it was proved. The steps are taken one by one; those of `usbProcessRx` split by
request (`RequestKinds`).

**Credentials.** Assumptions: `SizesAssumption`; `ListsAssumption`, that a record
has four fields of characters that have a key, and no more of them than
`position` can count; `RingAssumption`, that the records of a list lead to
each other one to one, without which `crd_previous` has no record to end at;
and `CipherAssumption`, that what the code decrypts from a record, place by
place, are its fields, each with a `\0` behind it. The list of crd.c:24 is one
that satisfies them, and TLC evaluates them for both lists of the run, with
`noekeon_decrypt` and the bytes: this is where the cipher is computed, and the
proofs are about all that the code does around it.

`CredInv` is about the moves. `RecordIsListed`: in a list that is not half
written `credential` is one of its records as `crd_loadCredential` reads it,
and not one that leads only to itself (unless it is the first), since from such
a record `crd_previous` would go to record 0. `SearchInv`: the records a search
has met are as many as its steps, and one; each of them but the first was
reached from another of them (`Met`). A step to a record that was met before
would make two records lead to the same one, or to the one the search started
at, where it ends; so `SearchIsShort` follows from the number of records, and
`PreviousLeadsHere` from where the search ends. `HistoryInv`: the record DOWN
came from leads to the one it went to, which `UpUndoesDown` needs, with the
ring.

`TextInv` is about what is typed. With `F` the fields of the record, `counter` and
`position` say that `d` characters of one field were looked at (`Reached`):
`position` is where that field begins (`Begin`), plus `d`; if it is within a block,
that block is what `cipher.plain` holds; and what the host has read is the
fields before, and `d` characters of this one, as far as they were asked for.
That `CRD_apply` keeps it is `ApplyReaches`: `crd_find` cuts off what is left of the
field, or of the block (`CutFacts`, from `RestShows`); in the first case
`position` comes to the next field, perhaps at the start of a block, in the
second it always does (`NextPlace`), so the next block is decrypted when it is
needed and not before. That `position` does not wrap is in `BeginBound`. The host
reads the piece as it stands because it reads each character so (`EachIsRead`,
from the key table, code by code), and what is skipped or empty is typed as 0,
which has no key. `FlattenSeq` of the community modules is defined by a
recursive function; what it does with one more sequence (`FlattenMore`) is
proved without an induction principle, from the least number of sequences at
which it would do something else. TLC checked `CredInv` and `TextInv` before they
were proved.

**Osccal.** Assumptions: `HalfAssumption`, a register of two to eight bits, and
`CurvesAssumption`. `CalibrationInv` has the target bracketed: the frequency of
`trialValue` is too low and that of `trialValue + 2 * step` is not (`Above`),
and what is left of the search fits above `trialValue`. So when the step is 1
the target lies between two neighbours (`Found`), and every other value of the
half that was searched is farther away (`BestOfHalf`). The second loop begins
with the length that was measured last in place of a deviation; that it is no
smaller than the deviation of `trialValue` (`FarAway`) needs `Fine`. Of the
values the loop tries it keeps the best (`NeighbourInv`). A search that ends
with the last two values never leaves the loop, so it stores nothing; one that
ends at 0 does not enter it.

Only model-checked:

- Liveness, which needs ENABLED: `EraseRecovers`, `TypingEnds`, `WriteReturns`,
  `HeldIsTaken`, `TransferEnds`, `CalibrationEnds`; and the fairness that is
  part of `ImplementsSession`.
- `WriteTaskIsTheLoop`, whose reference is recursive.
- `Noekeon`: its operators are evaluated by TLC, against the hash in usi.c:13-15
  and in `CipherAssumption`. What a cipher of 16 rounds decrypts is computed,
  not proved.

## 6. What the code does not do

One disagreement has a run:

- **A lock is undone by a write** (`device_lock`). The user locks the device
  between the host's GET_REPORT and `UCP_WriteTask`; the end of the write sets
  `UCP_state = IDLE` (ucp.c:236), while the PIN entry is shown, with which
  memtype.adoc:158 says the device is to be unlocked.

The modules also state these, which TLC refutes when the definition is listed
in the configuration named:

| Definition | Configuration | What happens |
|---|---|---|
| `RejectedNotStored` (Ucp) | `MCUcp_flash` | a packet is copied into `customReport` before its size is checked (ucp.c:101-107); when a data packet is pending there, the error answer is stored in its place |
| `EarlierNotStored` (Ucp) | `MCUcp_flash` | `usbWrite` and `usbWriteAccepted` survive a lock and unlock: a stale packet becomes the first one of the next write (ucp.c:86, 219) |
| `PendingFits` (Ucp) | `MCUcp_flash`, with `Packets <- mcPendingPackets` | a lock leaves a confirmed packet pending as long as the host does not poll the keyboard; `UCP_WriteTask` takes it after a READ that moved `readOffset` back (ucp.c:162, 219-224), so the multiple of the page at which `tempBuff` would be emptied does not come: `tempBuff` is overrun |
| `StartIsLocked` (Session) | `MCSession_menus` | two movements back show the start message, but `opt_lock` does not lock the protocol (opt.c:86-90; memtype.adoc:181-183) |
| `StartIsRed` (Session) | `MCSession_menus` | the LED is off after power-up (main.c:127; memtype.adoc:146-147) |
| `CutIsInvalidated` (Typing) | `MCTyping_texts` | the slot of a text that is invalidated keeps `callback` and `len` (print.c:189-193); when the queue comes round to it the rest of the credential is typed behind another text |
| `OnlyOwnDeleted` (Typing) | `MCTyping_texts` | a field that is skipped, empty or ends with its block is queued as one character without a key (crd.c:103), which `cCount` counts; the deletion then takes a character of the user's |
| `HastyIsReplaced` (Typing) | `MCTyping_texts` | two texts asked for during one deletion are both typed, and the first one stays (print.c:189) |
| `AddedIsReplaced` (Typing) | `MCTyping_texts` | after a new PIN `UIF_Init` prints without a deletion (ucp.c:138) |
| `TaskIsCyclic` (Buttons) | `MCButtons_joystick` | `sch_tick` wraps at 256, which is not a multiple of 10 (sch.c:53) |

The conditions `quiet` and `~rejected` in Ucp and `Calm` in Typing exclude these
from `TransferExact`, `SettledShowsLast` and `CountIsShown`. `NothingElseWritten`
and `BufferFits` have neither condition for a write to flash: a packet of the
wrong size or of an earlier write spoils what is stored and not where. `BufferFits`
ends with the write, so `PendingFits` is not covered.

Met while modelling, and excluded by a condition or an assumption of a module:

- A credential that is being typed while the host finishes a new list goes on
  from the first record of that list: `CRD_Init` moves `credential.encrypt`, and
  `position` stays (flaw `reloaded` in Typing, `exact` in Credentials). A page
  stored before that changes a name while it is typed from flash, and the pieces
  of the selected record that are still to come (flaw `rewritten`).
- `crd_previous` on a list that is only half written may follow the old list
  into the new one and never come back; the watchdog ends it.
- `position` wraps in records longer than 256 bytes (`ListsAssumption`).
- A calibration that ends its search with the last two values never leaves its
  second loop (osccal.c:39), and one that ends with 0 does not enter it.
- Endpoint 1 keeps its data toggle over `SET_CONFIGURATION` and a bus reset;
  only `SET_INTERFACE` and a restart bring it back. The first report after
  that may be dropped by the host; `ReportsInOrder` speaks of what is sent.
- A bus reset that is shorter than a turn of the main loop would let a
  `SET_ADDRESS` from before it be processed after it. The model takes a reset,
  10 ms or more, to be longer (`Passes`).

## 7. Not modelled

- **Host protocol without sequence numbers.** A request repeated because its
  answer was lost advances a read by 8 bytes, and a packet delivered twice is
  stored twice. The properties of `Ucp` speak of the packets as they arrive,
  those of `Usb` of how often they do.
- **`LED_Task`** puts `led` on two pins and toggles them in the blinking
  states; it reads nothing else and nothing reads it. The status is part of
  `Session`.
- **The wire**: bits, timing, CRC and the assembler of the interrupt below a
  whole packet, and the code of the driver for other configurations.
- **Keys that the table does not use** (most of `hid_defines.h`); other layouts
  than the Spanish one.
- **`osccalASM.S`** is an alternative to `osccal.c`; usbconfig.h:218 calls the
  latter.
- **Register settings** of the timer, the converter and the pins.
- **Two truncations of the composition.** `Usb` counts the calls of `UCP_Task` and
  `UCP_Decode` and does not have their state, and `Typing` has the menus only as
  far as they ask for texts: the product of these modules with `Device` is out
  of TLC's reach. What each assumes of the other is that any of its calls may
  come at any time, which is weaker than what the other does.
- **External in the models**: the host, the timer, the converter, the supply,
  the watchdog, the frame length, the editor at the host.

## 8. Plan

Done: the protocol, the menus, their composition, typing, credentials with the
cipher, the driver, the flash writer, buttons and calibration; the proofs of
section 5. What would come next:

1. `Led`: the blinking phases, composed with the status of `Session`.
2. `Typing` against an abstract specification in which the editor shows the
   text asked for last, with the flaws of section 6 as its extra steps, and the
   step from it to `Typing` as a theorem, from `ShowInv`.

------------------------------- MODULE Session -------------------------------
(***************************************************************************)
(* The menus of the MemType firmware: the start message and the dispatch   *)
(* of buttons (uif.c), PIN entry and PIN check (usi.c), the options menu   *)
(* (opt.c) and the way in and out of the credentials menu (crd.c).         *)
(*                                                                         *)
(* Each action is one UIF_Task call with a button down; the handler runs   *)
(* to completion.  Which credential is selected and what is typed are the  *)
(* state of crd.c and print.c and no menu decision reads them: UP, DOWN    *)
(* and RIGHT in the credentials menu change nothing here.                  *)
(*                                                                         *)
(* The menus share UCP_state and the EEPROM with the USB protocol, whose   *)
(* steps are abstract here (Protocol...).                                  *)
(***************************************************************************)
EXTENDS Integers, Sequences

CONSTANTS
  PinSize,        \* sizeof(userPin): 4
  Keys,           \* sizeof(USI_keys): 10
  Retries,        \* USI_PIN_RETRIES: 2
  Hash,           \* noekeon_encrypt of a PIN as key and plain text
  AddrSpace,      \* number of uint16_t addresses
  LockHash,       \* EEPROM address of LOCK_HASH[]
  HashSize,       \* sizeof(LOCK_HASH): 16
  DefaultHash,    \* LOCK_HASH_PGM, the hash of PIN 0000
  Eeprom0,        \* the EEPROM as programmed
  Memories        \* what the EEPROM may hold after a packet of the host

Byte == 0 .. 255
Addr == 0 .. AddrSpace - 1
Digit == 0 .. Keys - 1
PinIndex == 0 .. PinSize - 1
Pin == [PinIndex -> Digit]

(* Characters of userText after "PIN: ": the digits, then * and \0.        *)
Star == Keys
Nul == Keys + 1
Char == 0 .. Nul

ASSUME MenuAssumption ==
  /\ PinSize \in Nat \ {0} /\ Keys \in Nat \ {0} /\ Retries \in Nat
  /\ AddrSpace \in Nat /\ LockHash \in Addr /\ HashSize \in Nat \ {0}
  /\ LockHash + HashSize <= AddrSpace
  /\ Hash \in [Pin -> [0 .. HashSize - 1 -> Byte]]
  /\ DefaultHash \in [0 .. HashSize - 1 -> Byte]
  /\ Eeprom0 \in [Addr -> Byte]
  /\ Memories \subseteq [Addr -> Byte]

erasePin == [i \in PinIndex |-> Keys - 1]

MAX_OPT_SIZE == 2

menuStates == {"START", "CREDENTIALS", "OPTIONS", "USER_INPUT"}
ledStatus == {"OFF", "RED", "GREEN", "BLINK_RED", "BLINK_GREEN", "BLINK_BOTH"}
UcpStates == {"IDLE", "READING_CMD", "READING", "WRITTING",
              "DEVICE_LOCKED", "WRITE_EEPROM"}

VARIABLES
  UIF_state, UIF_userInputIndex, UIF_optionsIndex,
  userText, userPin, userTextIndex, pin_retries,
  key,              \* cipher.key, repeated four times there
  led,
  halted,           \* while(1) in usi_pinCheck
  UCP_state, eeprom,
  entry,            \* history: the digits the user accepted in this entry
  verified,         \* history: the digits that opened the menus last
  misses,           \* history: failed checks since the retries were full
  touched           \* history: the host wrote to the EEPROM since then

menu == <<UIF_state, UIF_optionsIndex>>
typing == <<UIF_userInputIndex, userText, userPin, userTextIndex, entry>>
checks == <<pin_retries, key, verified, misses>>
own == <<menu, typing, checks, led, halted>>
shared == <<UCP_state, eeprom>>
vars == <<own, shared, touched>>

StoredHash == [i \in 0 .. HashSize - 1 |-> eeprom[LockHash + i]]

------------------------------------------------------------------------------
Init ==
  /\ UIF_state = "START" /\ UIF_optionsIndex = 0
  /\ UIF_userInputIndex = 0 /\ userTextIndex = 0
  /\ userText = [i \in 0 .. PinSize |-> Nul]
  /\ userPin = [i \in PinIndex |-> Nul]
  /\ pin_retries = Retries
  /\ key = [i \in PinIndex |-> Nul]
  /\ led = "OFF" /\ halted = FALSE
  /\ UCP_state = "DEVICE_LOCKED" /\ eeprom = Eeprom0
  /\ entry = <<>> /\ verified = <<>> /\ misses = 0 /\ touched = FALSE

------------------------------------------------------------------------------
(* The functions the handlers share.                                       *)

UCP_Lock == UCP_state' = "DEVICE_LOCKED" /\ led' = "RED"
UCP_Unlock == UCP_state' = "IDLE" /\ led' = "GREEN"

(* Definitions whose names end in _fault are faulty variants of the        *)
(* definition that follows them.  No action uses one; each shows that some *)
(* property would notice the fault.                                        *)

usi_print_fault(i, k, text) ==
  /\ userPin' = [userPin EXCEPT ![i] = k]
  /\ userText' = [text EXCEPT ![i] = k]

(* usi_print with digit i of the PIN at k, after text is in userText.      *)
usi_print(i, k, text) ==
  /\ userPin' = [userPin EXCEPT ![i] = k]
  /\ userText' = [text EXCEPT ![i] = k, ![i + 1] = Nul]

USI_Init ==
  /\ userTextIndex' = 0 /\ UIF_userInputIndex' = 0
  /\ usi_print(0, 0, userText)
  /\ entry' = <<>>
  /\ UCP_Lock

UIF_Init == UIF_state' = "START"

CRD_fsmStart_fault ==
  /\ UIF_state' = "CREDENTIALS"
  /\ UCP_state' = "IDLE" /\ UNCHANGED led

CRD_fsmStart ==
  /\ UIF_state' = "CREDENTIALS"
  /\ UCP_Unlock

usi_resetPin_fault ==
  eeprom' = [a \in Addr |-> IF a \in LockHash .. LockHash + HashSize - 2
                            THEN DefaultHash[a - LockHash] ELSE eeprom[a]]

usi_resetPin ==
  eeprom' = [a \in Addr |-> IF a \in LockHash .. LockHash + HashSize - 1
                            THEN DefaultHash[a - LockHash] ELSE eeprom[a]]

UIF_increment_fault(val, max) == IF val = max THEN 0 ELSE val + 1

UIF_increment(val, max) == (val + 1) % max
UIF_decrement(val, max) == IF val = 0 THEN max - 1 ELSE val - 1

------------------------------------------------------------------------------
(* uif.c: any button leaves the start message.                             *)
UifStart ==
  /\ UIF_state = "START"
  /\ UIF_state' = "USER_INPUT"
  /\ USI_Init
  /\ UNCHANGED <<UIF_optionsIndex, checks, halted, eeprom, touched>>

------------------------------------------------------------------------------
(* usi.c: entering a PIN.                                                  *)

UsiCancel ==
  /\ UIF_state = "USER_INPUT"
  /\ USI_Init
  /\ UNCHANGED <<menu, checks, halted, eeprom, touched>>

UsiSelect ==
  /\ UIF_state = "USER_INPUT"
  /\ UIF_userInputIndex' \in {UIF_increment(UIF_userInputIndex, Keys),
                              UIF_decrement(UIF_userInputIndex, Keys)}
  /\ usi_print(userTextIndex, UIF_userInputIndex', userText)
  /\ UNCHANGED <<menu, userTextIndex, entry, checks, led, halted, shared, touched>>

LastDigit == userTextIndex = PinSize - 1

UsiAccept ==
  /\ UIF_state = "USER_INPUT" /\ ~LastDigit
  /\ userTextIndex' = userTextIndex + 1
  /\ usi_print(userTextIndex + 1, UIF_userInputIndex,
               [userText EXCEPT ![userTextIndex] = Star])
  /\ entry' = Append(entry, UIF_userInputIndex)
  /\ UNCHANGED <<menu, UIF_userInputIndex, checks, led, halted, shared, touched>>

(* RIGHT on the last digit: usi_pinCheck.                                  *)
Checks == UIF_state = "USER_INPUT" /\ LastDigit

(* PIN 9999 resets the hash and waits for the watchdog.                    *)
UsiErase ==
  /\ Checks /\ userPin = erasePin
  /\ usi_resetPin
  /\ halted' = TRUE
  /\ UNCHANGED <<menu, typing, checks, led, UCP_state, touched>>

Matches_fault(pin) ==
  \E i \in 0 .. HashSize - 1 : Hash[pin][i] = StoredHash[i]

Matches(pin) == Hash[pin] = StoredHash

UsiUnlock ==
  /\ Checks /\ userPin # erasePin
  /\ Matches(userPin)
  /\ key' = userPin
  /\ CRD_fsmStart
  /\ verified' = Append(entry, UIF_userInputIndex) /\ touched' = FALSE
  /\ UNCHANGED <<UIF_optionsIndex, typing, pin_retries, misses, halted, eeprom>>

(* The next digit to accept is '0' again, which is not shown: the text is  *)
(* the error message.                                                      *)
EntryRestarts ==
  /\ userTextIndex' = 0 /\ UIF_userInputIndex' = 0
  /\ userPin' = [userPin EXCEPT ![0] = 0]
  /\ userText' = [userText EXCEPT ![0] = Nul]
  /\ entry' = <<>>

Fails == Checks /\ userPin # erasePin /\ ~Matches(userPin)

UsiWrong ==
  /\ Fails /\ pin_retries > 0
  /\ key' = userPin
  /\ pin_retries' = pin_retries - 1
  /\ misses' = misses + 1
  /\ EntryRestarts
  /\ UNCHANGED <<menu, verified, led, halted, shared, touched>>

UsiReset_fault ==
  /\ Fails
  /\ key' = userPin
  /\ usi_resetPin
  /\ pin_retries' = Retries
  /\ misses' = 0
  /\ EntryRestarts
  /\ UNCHANGED <<menu, verified, led, halted, UCP_state, touched>>

UsiReset ==
  /\ Fails /\ pin_retries = 0
  /\ key' = userPin
  /\ usi_resetPin
  /\ pin_retries' = Retries
  /\ misses' = 0
  /\ EntryRestarts
  /\ UNCHANGED <<menu, verified, led, halted, UCP_state, touched>>

------------------------------------------------------------------------------
(* crd.c and opt.c: the menus behind the PIN.                              *)

CrdOptions ==
  /\ UIF_state = "CREDENTIALS"
  /\ UIF_state' = "OPTIONS" /\ UIF_optionsIndex' = 0
  /\ led' = "BLINK_BOTH"
  /\ UNCHANGED <<typing, checks, halted, shared, touched>>

(* opt_apply: entry 0 types the password, entry 1 the user name.           *)
OptSelect ==
  /\ UIF_state = "OPTIONS"
  /\ UIF_optionsIndex' \in {UIF_increment(UIF_optionsIndex, MAX_OPT_SIZE),
                            UIF_decrement(UIF_optionsIndex, MAX_OPT_SIZE)}
  /\ led' = IF UIF_optionsIndex' = 0 THEN "BLINK_RED" ELSE "BLINK_GREEN"
  /\ UNCHANGED <<UIF_state, typing, checks, halted, shared, touched>>

OptCredentials ==
  /\ UIF_state = "OPTIONS"
  /\ CRD_fsmStart
  /\ UNCHANGED <<UIF_optionsIndex, typing, checks, halted, eeprom, touched>>

OptLock ==
  /\ UIF_state = "OPTIONS"
  /\ UIF_Init
  /\ led' = "OFF"
  /\ UNCHANGED <<UIF_optionsIndex, typing, checks, halted, shared, touched>>

UIF_Task ==
  /\ ~halted
  /\ \/ UifStart \/ UsiCancel \/ UsiSelect \/ UsiAccept
     \/ UsiErase \/ UsiUnlock \/ UsiWrong \/ UsiReset
     \/ CrdOptions \/ OptSelect \/ OptCredentials \/ OptLock

------------------------------------------------------------------------------
(* What the USB protocol does to the shared state.                         *)

(* A packet or a request moves an unlocked protocol between its states.    *)
ProtocolMoves ==
  /\ ~halted
  /\ UCP_state # "DEVICE_LOCKED"
  /\ UCP_state' \in UcpStates \ {"DEVICE_LOCKED"}
  /\ UNCHANGED <<own, eeprom, touched>>

(* The last packet of a write ends it, also after a lock.                  *)
ProtocolEndsWrite ==
  /\ ~halted
  /\ UCP_state' = "IDLE"
  /\ UNCHANGED <<own, eeprom, touched>>

(* A packet is stored in the EEPROM; the last one of a PIN shows the start *)
(* message.                                                                *)
ProtocolStores ==
  /\ ~halted
  /\ UCP_state = "WRITE_EEPROM"
  /\ eeprom' \in Memories
  /\ touched' = TRUE
  /\ \/ UCP_state' \in {"WRITE_EEPROM", "IDLE"} /\ UNCHANGED UIF_state
     \/ UNCHANGED UCP_state /\ UIF_Init
  /\ UNCHANGED <<UIF_optionsIndex, typing, checks, led, halted>>

Protocol == ProtocolMoves \/ ProtocolEndsWrite \/ ProtocolStores

------------------------------------------------------------------------------
(* The supply fails, or the watchdog expires because the main loop stands. *)
Boot ==
  /\ UIF_state' = "START" /\ UIF_optionsIndex' = 0
  /\ UIF_userInputIndex' = 0 /\ userTextIndex' = 0
  /\ userText' = [i \in 0 .. PinSize |-> Nul]
  /\ userPin' = [i \in PinIndex |-> Nul]
  /\ pin_retries' = Retries
  /\ key' = [i \in PinIndex |-> Nul]
  /\ led' = "OFF" /\ halted' = FALSE
  /\ UCP_state' = "DEVICE_LOCKED"
  /\ entry' = <<>> /\ verified' = <<>> /\ misses' = 0 /\ touched' = FALSE

Restart == Boot /\ UNCHANGED eeprom
Watchdog == halted /\ Restart

Next == UIF_Task \/ Protocol \/ Restart

Spec == Init /\ [][Next]_vars /\ WF_vars(Watchdog)

------------------------------------------------------------------------------
(* Properties.                                                             *)

TypeOK ==
  /\ UIF_state \in menuStates
  /\ UIF_optionsIndex \in 0 .. MAX_OPT_SIZE - 1
  /\ UIF_userInputIndex \in Digit
  /\ userTextIndex \in PinIndex
  /\ userText \in [0 .. PinSize -> Char]
  /\ userPin \in [PinIndex -> Digit \cup {Nul}]
  /\ key \in [PinIndex -> Digit \cup {Nul}]
  /\ pin_retries \in 0 .. Retries
  /\ led \in ledStatus
  /\ halted \in BOOLEAN /\ touched \in BOOLEAN
  /\ UCP_state \in UcpStates
  /\ eeprom \in [Addr -> Byte]
  /\ entry \in Seq(Digit) /\ verified \in Seq(Digit)
  /\ misses \in Nat

(* The PIN under check is, digit by digit, what the user accepted, and the *)
(* next digit is the one RIGHT will accept; the text shows a star for each *)
(* accepted digit and then that digit, or, after an error, nothing, and    *)
(* ends there.  So it is however often the entry was cancelled, failed or  *)
(* left with the menus (usi.c).                                            *)
PinIsEntry ==
  UIF_state = "USER_INPUT" =>
    /\ Len(entry) = userTextIndex
    /\ \A i \in 0 .. userTextIndex - 1 :
         userPin[i] = entry[i + 1] /\ userText[i] = Star
    /\ userPin[userTextIndex] = UIF_userInputIndex
    /\ \/ /\ userText[userTextIndex] = UIF_userInputIndex
          /\ userText[userTextIndex + 1] = Nul
       \/ userTextIndex = 0 /\ UIF_userInputIndex = 0 /\ userText[0] = Nul

Opened == UIF_state \in {"CREDENTIALS", "OPTIONS"}

(* While the menus behind the PIN are open, cipher.key is the PIN the user *)
(* entered to open them, and its hash is the stored one unless the host    *)
(* wrote to the EEPROM since (usi_pinCheck, CRD_fsmStart).                 *)
KeyIsVerifiedPin ==
  Opened => /\ verified = [i \in 1 .. PinSize |-> key[i - 1]]
            /\ ~touched => Hash[key] = StoredHash

(* The menus reset the stored hash only at the failed check that follows   *)
(* Retries failed ones since power-up or the last reset, or for PIN 9999   *)
(* (usi_resetPin and its callers).                                         *)
ResetIsEarned ==
  [][UIF_state = "USER_INPUT" /\ UIF_state' = "USER_INPUT" /\ eeprom' # eeprom
       => \/ UCP_state = "WRITE_EEPROM"
          \/ misses = Retries
          \/ Append(entry, UIF_userInputIndex) = [i \in 1 .. PinSize |-> Keys - 1]]_vars

(* The LED tells the menu: red while a PIN is entered, green among the     *)
(* credentials, blinking in the options (led.h, UCP_Lock, UCP_Unlock).     *)
LedTellsMenu ==
  /\ UIF_state = "USER_INPUT" => led = "RED"
  /\ UIF_state = "CREDENTIALS" => led = "GREEN"
  /\ UIF_state = "OPTIONS" =>
       led = "BLINK_BOTH" \/ led = IF UIF_optionsIndex = 0 THEN "BLINK_RED"
                                   ELSE "BLINK_GREEN"

(* The device that was erased with PIN 9999 comes back with the default    *)
(* hash: the watchdog ends the endless loop (usi.c:126-127).               *)
EraseRecovers ==
  halted ~> (~halted /\ UIF_state = "START" /\ StoredHash = DefaultHash)

------------------------------------------------------------------------------
(* What the documentation says, or the code means to do, and what the code *)
(* does not do: TLC refutes these.                                         *)

(* The start message comes with the red LED: "You'll see the red led       *)
(* turning on indicating it's being powered correctly and it's locked".    *)
StartIsRed == UIF_state = "START" => led = "RED"

(* Two movements back lock the device: "lock the device with one more      *)
(* [back] movement (2 in total)"; the protocol is locked then.             *)
StartIsLocked == UIF_state = "START" => UCP_state = "DEVICE_LOCKED"

==============================================================================

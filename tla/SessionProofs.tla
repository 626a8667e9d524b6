---------------------------- MODULE SessionProofs ----------------------------
(***************************************************************************)
(* Proofs about the menus: for PINs of every length, every number of keys  *)
(* and retries and every hash function.                                    *)
(***************************************************************************)
EXTENDS Session, SequenceTheorems, TLAPS

USE DEF menu, typing, checks, own, shared

LEMMA Sizes ==
  /\ PinSize \in Nat /\ PinSize > 0
  /\ Keys \in Nat /\ Keys > 0 /\ Retries \in Nat
  /\ 0 \in PinIndex /\ 0 \in Digit /\ Keys - 1 \in Digit /\ Nul \in Char
  /\ Digit \subseteq Char /\ Star \in Char
BY MenuAssumption DEF PinIndex, Digit, Char, Nul, Star

LEMMA DefaultHashType == DefaultHash \in [0 .. HashSize - 1 -> Byte]
BY MenuAssumption

LEMMA ResetType ==
  ASSUME TypeOK, usi_resetPin PROVE eeprom' \in [Addr -> Byte]
<1>1. ASSUME NEW a \in Addr, a \in LockHash .. LockHash + HashSize - 1
      PROVE  DefaultHash[a - LockHash] \in Byte
  <2>1. LockHash \in Int /\ HashSize \in Int
    BY MenuAssumption DEF Addr
  <2>2. a - LockHash \in 0 .. HashSize - 1
    BY <1>1, <2>1
  <2> QED BY <2>2, DefaultHashType
<1> QED BY <1>1 DEF TypeOK, usi_resetPin

(* Moving through the digits or the options stays in range.                *)
LEMMA MoveType ==
  ASSUME NEW max \in Nat \ {0}, NEW val \in 0 .. max - 1
  PROVE  UIF_increment(val, max) \in 0 .. max - 1
         /\ UIF_decrement(val, max) \in 0 .. max - 1
BY DEF UIF_increment, UIF_decrement

LEMMA PrintType ==
  ASSUME TypeOK, NEW i \in PinIndex, NEW k \in Digit,
         NEW text \in [0 .. PinSize -> Char], usi_print(i, k, text)
  PROVE  /\ userPin' \in [PinIndex -> Digit \cup {Nul}]
         /\ userText' \in [0 .. PinSize -> Char]
<1>1. userPin' \in [PinIndex -> Digit \cup {Nul}]
  BY DEF TypeOK, usi_print
<1>2. [text EXCEPT ![i] = k] \in [0 .. PinSize -> Char]
  BY Sizes DEF PinIndex
<1>3. userText' = [[text EXCEPT ![i] = k] EXCEPT ![i + 1] = Nul]
  BY DEF usi_print
<1> QED BY <1>1, <1>2, <1>3, Sizes

(* What RIGHT on the last digit checks is what the user entered.           *)
LEMMA EntryIsPin ==
  ASSUME TypeOK, PinIsEntry, Checks
  PROVE  Append(entry, UIF_userInputIndex) = [i \in 1 .. PinSize |-> userPin[i - 1]]
<1>1. /\ Len(entry) = PinSize - 1 /\ entry \in Seq(Digit)
      /\ userPin[PinSize - 1] = UIF_userInputIndex
      /\ \A i \in 0 .. PinSize - 2 : userPin[i] = entry[i + 1]
  BY Sizes DEF PinIsEntry, Checks, LastDigit, TypeOK
<1> DEFINE a == Append(entry, UIF_userInputIndex)
<1>2. /\ a \in Seq(Digit) /\ Len(a) = PinSize
      /\ a[PinSize] = UIF_userInputIndex
      /\ \A i \in 1 .. PinSize - 1 : a[i] = entry[i]
  BY <1>1, Sizes DEF TypeOK
<1>3. ASSUME NEW i \in 1 .. PinSize PROVE a[i] = userPin[i - 1]
  <2>1. CASE i = PinSize
    BY <1>1, <1>2, <2>1
  <2>2. CASE i # PinSize
    <3>1. i \in 1 .. PinSize - 1 /\ i - 1 \in 0 .. PinSize - 2
      BY <2>2, Sizes
    <3>2. (i - 1) + 1 = i
      OBVIOUS
    <3> QED BY <1>1, <1>2, <3>1, <3>2
  <2> QED BY <2>1, <2>2
<1>4. a = [i \in 1 .. PinSize |-> a[i]]
  BY <1>2, LenProperties
<1> QED BY <1>3, <1>4

------------------------------------------------------------------------------
(* Types                                                                   *)

LEMMA UsiInitType ==
  ASSUME TypeOK, USI_Init
  PROVE  /\ userTextIndex' \in PinIndex /\ UIF_userInputIndex' \in Digit
         /\ userPin' \in [PinIndex -> Digit \cup {Nul}]
         /\ userText' \in [0 .. PinSize -> Char]
         /\ entry' \in Seq(Digit) /\ UCP_state' \in UcpStates /\ led' \in ledStatus
<1>1. usi_print(0, 0, userText) /\ userText \in [0 .. PinSize -> Char]
  BY DEF USI_Init, TypeOK
<1>2. /\ userPin' \in [PinIndex -> Digit \cup {Nul}]
      /\ userText' \in [0 .. PinSize -> Char]
  BY <1>1, PrintType, Sizes
<1> QED BY <1>2, Sizes DEF USI_Init, UCP_Lock, UcpStates, ledStatus

LEMMA RestartsType ==
  ASSUME TypeOK, EntryRestarts
  PROVE  /\ userTextIndex' \in PinIndex /\ UIF_userInputIndex' \in Digit
         /\ userPin' \in [PinIndex -> Digit \cup {Nul}]
         /\ userText' \in [0 .. PinSize -> Char] /\ entry' \in Seq(Digit)
BY Sizes DEF TypeOK, EntryRestarts

LEMMA EntryType ==
  ASSUME TypeOK, UifStart \/ UsiCancel \/ UsiSelect \/ UsiAccept
  PROVE  TypeOK'
<1>1. CASE UifStart \/ UsiCancel
  <2>1. USI_Init
    BY <1>1 DEF UifStart, UsiCancel
  <2> QED BY <1>1, <2>1, UsiInitType DEF UifStart, UsiCancel, TypeOK, menuStates
<1>2. CASE UsiSelect
  <2>1. /\ userTextIndex \in PinIndex /\ userText \in [0 .. PinSize -> Char]
        /\ usi_print(userTextIndex, UIF_userInputIndex', userText)
    BY <1>2 DEF UsiSelect, TypeOK
  <2>2. UIF_userInputIndex' \in Digit
    <3>1. Keys \in Nat \ {0} /\ UIF_userInputIndex \in 0 .. Keys - 1
      BY Sizes DEF TypeOK, Digit
    <3> QED BY <1>2, <3>1, MoveType DEF UsiSelect, Digit
  <2>3. /\ userPin' \in [PinIndex -> Digit \cup {Nul}]
        /\ userText' \in [0 .. PinSize -> Char]
    BY <2>1, <2>2, PrintType
  <2> QED BY <1>2, <2>2, <2>3 DEF UsiSelect, TypeOK
<1>3. CASE UsiAccept
  <2>1. userTextIndex + 1 \in PinIndex
    BY <1>3, Sizes DEF UsiAccept, LastDigit, TypeOK, PinIndex
  <2> DEFINE text == [userText EXCEPT ![userTextIndex] = Star]
  <2>2. text \in [0 .. PinSize -> Char]
    BY Sizes DEF TypeOK, PinIndex
  <2>3. usi_print(userTextIndex + 1, UIF_userInputIndex, text)
    BY <1>3 DEF UsiAccept
  <2>4. UIF_userInputIndex \in Digit
    BY DEF TypeOK
  <2> HIDE DEF text
  <2>5. /\ userPin' \in [PinIndex -> Digit \cup {Nul}]
        /\ userText' \in [0 .. PinSize -> Char]
    BY <2>1, <2>2, <2>3, <2>4, PrintType
  <2>6. entry' \in Seq(Digit)
    BY <1>3, <2>4, AppendProperties DEF UsiAccept, TypeOK
  <2> QED BY <1>3, <2>1, <2>5, <2>6 DEF UsiAccept, TypeOK
<1> QED BY <1>1, <1>2, <1>3

LEMMA CheckType ==
  ASSUME TypeOK, UsiErase \/ UsiUnlock \/ UsiWrong \/ UsiReset
  PROVE  TypeOK'
<1>1. CASE UsiErase
  <2>1. eeprom' \in [Addr -> Byte]
    BY <1>1, ResetType DEF UsiErase
  <2> QED BY <1>1, <2>1 DEF UsiErase, TypeOK
<1>2. CASE UsiUnlock
  <2>1. verified' \in Seq(Digit)
    BY <1>2, AppendProperties DEF UsiUnlock, TypeOK
  <2> QED BY <1>2, <2>1 DEF UsiUnlock, CRD_fsmStart, UCP_Unlock, TypeOK,
                            menuStates, UcpStates, ledStatus
<1>3. CASE UsiWrong
  <2>1. EntryRestarts /\ pin_retries > 0
    BY <1>3 DEF UsiWrong
  <2>2. pin_retries' \in 0 .. Retries /\ misses' \in Nat
    BY <1>3, <2>1, Sizes DEF UsiWrong, TypeOK
  <2> QED BY <1>3, <2>1, <2>2, RestartsType DEF UsiWrong, TypeOK
<1>4. CASE UsiReset
  <2>1. EntryRestarts /\ usi_resetPin
    BY <1>4 DEF UsiReset
  <2>2. pin_retries' \in 0 .. Retries
    BY <1>4, Sizes DEF UsiReset
  <2> QED BY <1>4, <2>1, <2>2, RestartsType, ResetType DEF UsiReset, TypeOK
<1> QED BY <1>1, <1>2, <1>3, <1>4

LEMMA MenuType ==
  ASSUME TypeOK, CrdOptions \/ OptSelect \/ OptCredentials \/ OptLock
  PROVE  TypeOK'
<1>1. CASE CrdOptions
  BY <1>1 DEF CrdOptions, TypeOK, menuStates, ledStatus, MAX_OPT_SIZE
<1>2. CASE OptSelect
  <2>1. MAX_OPT_SIZE \in Nat \ {0} /\ UIF_optionsIndex \in 0 .. MAX_OPT_SIZE - 1
    BY DEF TypeOK, MAX_OPT_SIZE
  <2>2. UIF_optionsIndex' \in 0 .. MAX_OPT_SIZE - 1
    BY <1>2, <2>1, MoveType DEF OptSelect
  <2>3. led' \in ledStatus
    BY <1>2 DEF OptSelect, ledStatus
  <2> QED BY <1>2, <2>2, <2>3 DEF OptSelect, TypeOK
<1>3. CASE OptCredentials
  BY <1>3 DEF OptCredentials, CRD_fsmStart, UCP_Unlock, TypeOK, menuStates,
              UcpStates, ledStatus
<1>4. CASE OptLock
  BY <1>4 DEF OptLock, UIF_Init, TypeOK, menuStates, ledStatus
<1> QED BY <1>1, <1>2, <1>3, <1>4

LEMMA ProtocolType ==
  ASSUME TypeOK, Protocol PROVE TypeOK'
<1>1. CASE ProtocolMoves \/ ProtocolEndsWrite
  BY <1>1 DEF ProtocolMoves, ProtocolEndsWrite, TypeOK, UcpStates
<1>2. CASE ProtocolStores
  <2>1. eeprom' \in [Addr -> Byte]
    BY <1>2, MenuAssumption DEF ProtocolStores
  <2> QED BY <1>2, <2>1 DEF ProtocolStores, UIF_Init, TypeOK, UcpStates, menuStates
<1> QED BY <1>1, <1>2 DEF Protocol

(* What the variables start with.                                          *)
LEMMA StartType ==
  /\ "START" \in menuStates /\ "OFF" \in ledStatus /\ "DEVICE_LOCKED" \in UcpStates
  /\ 0 \in 0 .. MAX_OPT_SIZE - 1 /\ 0 \in Digit /\ 0 \in PinIndex
  /\ [i \in 0 .. PinSize |-> Nul] \in [0 .. PinSize -> Char]
  /\ [i \in PinIndex |-> Nul] \in [PinIndex -> Digit \cup {Nul}]
  /\ Retries \in 0 .. Retries
  /\ <<>> \in Seq(Digit)
BY Sizes DEF menuStates, ledStatus, UcpStates, MAX_OPT_SIZE

LEMMA RestartType ==
  ASSUME TypeOK, Restart PROVE TypeOK'
<1>1. eeprom' \in [Addr -> Byte]
  BY DEF Restart, TypeOK
<1> QED BY <1>1, StartType DEF Restart, Boot, TypeOK

LEMMA InitType ==
  ASSUME Init PROVE TypeOK
<1>1. Eeprom0 \in [Addr -> Byte]
  BY MenuAssumption
<1> QED BY <1>1, StartType DEF Init, TypeOK

LEMMA StepType == TypeOK /\ [Next]_vars => TypeOK'
<1> SUFFICES ASSUME TypeOK, [Next]_vars PROVE TypeOK'
  OBVIOUS
<1>1. CASE UNCHANGED vars
  BY <1>1 DEF vars, TypeOK
<1>2. CASE UIF_Task
  BY <1>2, EntryType, CheckType, MenuType DEF UIF_Task
<1>3. CASE Protocol
  BY <1>3, ProtocolType
<1>4. CASE Restart
  BY <1>4, RestartType
<1> QED BY <1>1, <1>2, <1>3, <1>4 DEF Next

(* The variables of the menus keep their types: every index stays inside   *)
(* its array, in any order of buttons, host writes and restarts.           *)
THEOREM TypeCorrect == Spec => []TypeOK
<1>1. Init => TypeOK
  BY InitType
<1> QED BY <1>1, StepType, PTL DEF Spec

------------------------------------------------------------------------------
(* The entry                                                               *)

(* After USI_Init the entry is empty and shows the digit 0.                *)
LEMMA UsiInitEntry ==
  ASSUME TypeOK, USI_Init PROVE PinIsEntry'
<1>1. /\ userPin'[0] = 0
      /\ userText' = [[userText EXCEPT ![0] = 0] EXCEPT ![0 + 1] = Nul]
  BY Sizes DEF USI_Init, usi_print, TypeOK
<1>2. userText'[0] = 0 /\ userText'[1] = Nul
  BY <1>1, Sizes DEF TypeOK
<1>3. userTextIndex' = 0 /\ UIF_userInputIndex' = 0 /\ Len(entry') = 0
  BY DEF USI_Init
<1> QED BY <1>1, <1>2, <1>3 DEF PinIsEntry

LEMMA SelectEntry ==
  ASSUME TypeOK, TypeOK', PinIsEntry, UsiSelect PROVE PinIsEntry'
<1> DEFINE k == UIF_userInputIndex'
<1>1. /\ UIF_state = "USER_INPUT" /\ UIF_state' = "USER_INPUT"
      /\ userTextIndex' = userTextIndex /\ entry' = entry
      /\ userPin' = [userPin EXCEPT ![userTextIndex] = k]
      /\ userText' = [[userText EXCEPT ![userTextIndex] = k] EXCEPT ![userTextIndex + 1] = Nul]
  BY DEF UsiSelect, usi_print
<1>2. /\ userTextIndex \in 0 .. PinSize - 1 /\ PinSize \in Nat
      /\ userText \in [0 .. PinSize -> Char]
      /\ userPin \in [0 .. PinSize - 1 -> Digit \cup {Nul}]
  BY Sizes DEF TypeOK, PinIndex
<1>3. /\ userText'[userTextIndex] = k /\ userText'[userTextIndex + 1] = Nul
      /\ userPin'[userTextIndex] = k
  BY <1>1, <1>2
<1>4. ASSUME NEW i \in 0 .. userTextIndex - 1
      PROVE  userPin'[i] = entry'[i + 1] /\ userText'[i] = Star
  <2>1. i # userTextIndex /\ i # userTextIndex + 1 /\ i \in 0 .. PinSize - 1 /\ i \in 0 .. PinSize
    BY <1>2
  <2>2. userPin'[i] = userPin[i] /\ userText'[i] = userText[i]
    BY <1>1, <1>2, <2>1
  <2> QED BY <1>1, <2>2 DEF PinIsEntry
<1>5. Len(entry') = userTextIndex'
  BY <1>1 DEF PinIsEntry
<1> QED BY <1>1, <1>3, <1>4, <1>5 DEF PinIsEntry

LEMMA AcceptEntry ==
  ASSUME TypeOK, PinIsEntry, UsiAccept PROVE PinIsEntry'
<1> DEFINE n == userTextIndex
           k == UIF_userInputIndex
<1>1. /\ UIF_state = "USER_INPUT" /\ UIF_state' = "USER_INPUT"
      /\ userTextIndex' = n + 1 /\ UIF_userInputIndex' = k
      /\ entry' = Append(entry, k)
      /\ userPin' = [userPin EXCEPT ![n + 1] = k]
      /\ userText' = [[[userText EXCEPT ![n] = Star] EXCEPT ![n + 1] = k]
                                                  EXCEPT ![n + 1 + 1] = Nul]
  BY DEF UsiAccept, usi_print
<1>2. /\ n \in 0 .. PinSize - 2 /\ PinSize \in Nat /\ k \in Digit
      /\ userText \in [0 .. PinSize -> Char]
      /\ userPin \in [0 .. PinSize - 1 -> Digit \cup {Nul}]
  BY Sizes DEF TypeOK, PinIndex, UsiAccept, LastDigit
<1>3. /\ Len(entry) = n /\ entry \in Seq(Digit)
      /\ \A i \in 0 .. n - 1 : userPin[i] = entry[i + 1] /\ userText[i] = Star
      /\ userPin[n] = k
  BY <1>1 DEF PinIsEntry, TypeOK
<1>4. /\ userText'[n] = Star /\ userText'[n + 1] = k /\ userText'[n + 1 + 1] = Nul
      /\ userPin'[n + 1] = k /\ userPin'[n] = userPin[n]
  BY <1>1, <1>2
<1>5. Len(entry') = n + 1 /\ entry'[n + 1] = k /\ \A i \in 1 .. n : entry'[i] = entry[i]
  BY <1>1, <1>2, <1>3, AppendProperties
<1>6. ASSUME NEW i \in 0 .. (n + 1) - 1
      PROVE  userPin'[i] = entry'[i + 1] /\ userText'[i] = Star
  <2>1. CASE i = n
    BY <1>3, <1>4, <1>5, <2>1
  <2>2. CASE i # n
    <3>1. /\ i \in 0 .. n - 1 /\ i + 1 \in 1 .. n
          /\ i \in 0 .. PinSize - 1 /\ i \in 0 .. PinSize
          /\ i # n + 1 /\ i # n + 1 + 1
      BY <1>2, <2>2
    <3>2. userPin'[i] = userPin[i] /\ userText'[i] = userText[i]
      BY <1>1, <1>2, <2>2, <3>1
    <3> QED BY <1>3, <1>5, <3>1, <3>2
  <2> QED BY <2>1, <2>2
<1>7. /\ Len(entry') = userTextIndex'
      /\ \A i \in 0 .. userTextIndex' - 1 :
           userPin'[i] = entry'[i + 1] /\ userText'[i] = Star
      /\ userPin'[userTextIndex'] = UIF_userInputIndex'
      /\ userText'[userTextIndex'] = UIF_userInputIndex'
      /\ userText'[userTextIndex' + 1] = Nul
  BY <1>1, <1>4, <1>5, <1>6
<1> QED BY <1>7 DEF PinIsEntry

LEMMA RestartsEntry ==
  ASSUME TypeOK, EntryRestarts PROVE PinIsEntry'
<1>1. userPin'[0] = 0 /\ userText'[0] = Nul
  BY Sizes DEF TypeOK, EntryRestarts
<1>2. userTextIndex' = 0 /\ UIF_userInputIndex' = 0 /\ Len(entry') = 0
  BY DEF EntryRestarts
<1> QED BY <1>1, <1>2 DEF PinIsEntry

LEMMA StepEntry ==
  ASSUME TypeOK, TypeOK', PinIsEntry, [Next]_vars PROVE PinIsEntry'
<1>1. CASE UNCHANGED <<UIF_state, typing>>
  BY <1>1 DEF PinIsEntry
<1>2. CASE UIF_state' # "USER_INPUT"
  BY <1>2 DEF PinIsEntry
<1>3. CASE USI_Init
  BY <1>3, UsiInitEntry
<1>4. CASE EntryRestarts
  BY <1>4, RestartsEntry
<1>5. CASE UsiSelect
  BY <1>5, SelectEntry
<1>6. CASE UsiAccept
  BY <1>6, AcceptEntry
<1>7. ASSUME UIF_Task
      PROVE  \/ UNCHANGED <<UIF_state, typing>> \/ UIF_state' # "USER_INPUT"
             \/ USI_Init \/ EntryRestarts \/ UsiSelect \/ UsiAccept
  BY <1>7 DEF UIF_Task, UifStart, UsiCancel, UsiErase, UsiUnlock, UsiWrong, UsiReset,
              CRD_fsmStart, CrdOptions, OptSelect, OptCredentials, OptLock, UIF_Init
<1>8. ASSUME Protocol \/ Restart \/ UNCHANGED vars
      PROVE  UNCHANGED <<UIF_state, typing>> \/ UIF_state' # "USER_INPUT"
  BY <1>8 DEF Protocol, ProtocolMoves, ProtocolEndsWrite, ProtocolStores, UIF_Init,
              Restart, Boot, vars
<1> QED BY <1>1, <1>2, <1>3, <1>4, <1>5, <1>6, <1>7, <1>8 DEF Next

------------------------------------------------------------------------------
(* Key, retries and LED                                                    *)

(* While the menus are open their key is the PIN that opened them: the     *)
(* entry is left behind, but the key and the record of it stay.            *)
LEMMA StepKey ==
  ASSUME TypeOK, PinIsEntry, KeyIsVerifiedPin, [Next]_vars
  PROVE  KeyIsVerifiedPin'
<1>1. CASE UsiUnlock
  <2>1. /\ verified' = [i \in 1 .. PinSize |-> userPin[i - 1]]
        /\ key' = userPin /\ Hash[key'] = StoredHash
        /\ UNCHANGED eeprom
    BY <1>1, EntryIsPin DEF UsiUnlock, Matches, CRD_fsmStart
  <2> QED BY <2>1 DEF KeyIsVerifiedPin, StoredHash
<1>2. CASE ~Opened'
  BY <1>2 DEF KeyIsVerifiedPin
<1>3. CASE Opened /\ UNCHANGED <<verified, key>> /\ (touched' \/ UNCHANGED <<touched, eeprom>>)
  <2>1. verified' = [i \in 1 .. PinSize |-> key'[i - 1]]
    BY <1>3 DEF KeyIsVerifiedPin
  <2>2. ASSUME ~touched' PROVE Hash[key'] = StoredHash'
    <3>1. Hash[key] = StoredHash /\ UNCHANGED <<key, eeprom>>
      BY <1>3, <2>2 DEF KeyIsVerifiedPin
    <3> QED BY <3>1 DEF StoredHash
  <2> QED BY <2>1, <2>2 DEF KeyIsVerifiedPin
<1>4. ASSUME UIF_Task
      PROVE  \/ UsiUnlock \/ ~Opened'
             \/ Opened /\ UNCHANGED <<verified, key, touched, eeprom>>
  BY <1>4 DEF UIF_Task, UifStart, USI_Init, UsiCancel, UsiSelect, UsiAccept, UsiErase, UsiWrong,
              UsiReset, Fails, Checks, CRD_fsmStart, CrdOptions, OptSelect, OptCredentials,
              OptLock, UIF_Init, Opened
<1>5. ASSUME Protocol \/ Restart \/ UNCHANGED vars
      PROVE  \/ ~Opened'
             \/ /\ Opened /\ UNCHANGED <<verified, key>>
                /\ touched' \/ UNCHANGED <<touched, eeprom>>
  BY <1>5 DEF Protocol, ProtocolMoves, ProtocolEndsWrite, ProtocolStores, UIF_Init,
              Restart, Boot, vars, Opened
<1> QED BY <1>1, <1>2, <1>3, <1>4, <1>5 DEF Next

LEMMA StepLed ==
  ASSUME LedTellsMenu, [Next]_vars PROVE LedTellsMenu'
<1>1. CASE UIF_Task
  BY <1>1 DEF UIF_Task, UifStart, USI_Init, UCP_Lock, UsiCancel, UsiSelect, UsiAccept, UsiErase,
              UsiUnlock, UsiWrong, UsiReset, Fails, Checks, CRD_fsmStart, UCP_Unlock,
              CrdOptions, OptSelect, OptCredentials, OptLock, UIF_Init, LedTellsMenu
<1>2. CASE Protocol \/ Restart \/ UNCHANGED vars
  BY <1>2 DEF Protocol, ProtocolMoves, ProtocolEndsWrite, ProtocolStores, UIF_Init,
              Restart, Boot, vars, LedTellsMenu
<1> QED BY <1>1, <1>2 DEF Next

(* Every failed check uses up one retry.                                   *)
RetriesCount == misses + pin_retries = Retries

LEMMA StepRetries ==
  ASSUME TypeOK, RetriesCount, [Next]_vars PROVE RetriesCount'
<1>1. CASE UNCHANGED <<misses, pin_retries>>
  BY <1>1 DEF RetriesCount
<1>2. CASE misses' = 0 /\ pin_retries' = Retries
  BY <1>2, Sizes DEF RetriesCount
<1>3. CASE misses' = misses + 1 /\ pin_retries' = pin_retries - 1
  BY <1>3, Sizes DEF RetriesCount, TypeOK
<1>4. ASSUME UIF_Task
      PROVE  \/ UNCHANGED <<misses, pin_retries>>
             \/ misses' = 0 /\ pin_retries' = Retries
             \/ misses' = misses + 1 /\ pin_retries' = pin_retries - 1
  BY <1>4 DEF UIF_Task, UifStart, UsiCancel, UsiSelect, UsiAccept, UsiErase, UsiUnlock,
              UsiWrong, UsiReset, CrdOptions, OptSelect, OptCredentials, OptLock
<1>5. ASSUME Protocol \/ Restart \/ UNCHANGED vars
      PROVE  \/ UNCHANGED <<misses, pin_retries>>
             \/ misses' = 0 /\ pin_retries' = Retries
  BY <1>5 DEF Protocol, ProtocolMoves, ProtocolEndsWrite, ProtocolStores,
              Restart, Boot, vars
<1> QED BY <1>1, <1>2, <1>3, <1>4, <1>5 DEF Next

MenuInv == TypeOK /\ PinIsEntry /\ KeyIsVerifiedPin /\ LedTellsMenu /\ RetriesCount

LEMMA InitInv == ASSUME Init PROVE MenuInv
<1>1. TypeOK
  BY InitType
<1>2. RetriesCount
  BY Sizes DEF Init, RetriesCount
<1>3. UIF_state = "START"
  BY DEF Init
<1> QED BY <1>1, <1>2, <1>3 DEF MenuInv, PinIsEntry, KeyIsVerifiedPin, Opened, LedTellsMenu

LEMMA StepInv == MenuInv /\ [Next]_vars => MenuInv'
BY StepType, StepEntry, StepKey, StepLed, StepRetries DEF MenuInv

(* The invariant of the menus: types, the entry, the key, the LED and the  *)
(* count of retries.                                                       *)
THEOREM MenuInvariant == Spec => []MenuInv
<1>1. Init => MenuInv
  BY InitInv
<1> QED BY <1>1, StepInv, PTL DEF Spec

(* Whatever is entered, cancelled or refused before, the PIN under check   *)
(* is the one the user accepted digit by digit, and the one that is shown. *)
THEOREM EntryChecked == Spec => []PinIsEntry
<1>1. MenuInv => PinIsEntry
  BY DEF MenuInv
<1> QED BY <1>1, MenuInvariant, PTL

(* The key that decrypts the credentials is always the PIN that opened the *)
(* menus, for every hash function.                                         *)
THEOREM KeyVerified == Spec => []KeyIsVerifiedPin
<1>1. MenuInv => KeyIsVerifiedPin
  BY DEF MenuInv
<1> QED BY <1>1, MenuInvariant, PTL

(* The LED shows which menu is open, in every order of menus and packets.  *)
THEOREM LedCorrect == Spec => []LedTellsMenu
<1>1. MenuInv => LedTellsMenu
  BY DEF MenuInv
<1> QED BY <1>1, MenuInvariant, PTL

(* The menus never reset the stored hash before the retries are used up,   *)
(* unless the erase PIN is entered.                                        *)
THEOREM ResetEarned == Spec => ResetIsEarned
<1> DEFINE Earned ==
      UIF_state = "USER_INPUT" /\ UIF_state' = "USER_INPUT" /\ eeprom' # eeprom
      => \/ UCP_state = "WRITE_EEPROM"
         \/ misses = Retries
         \/ Append(entry, UIF_userInputIndex) = [i \in 1 .. PinSize |-> Keys - 1]
<1>1. ASSUME MenuInv, [Next]_vars PROVE Earned
  <2>1. CASE UsiErase
    <3>1. userPin = erasePin /\ Checks
      BY <2>1 DEF UsiErase
    <3>2. Append(entry, UIF_userInputIndex) = [i \in 1 .. PinSize |-> userPin[i - 1]]
      BY <1>1, <3>1, EntryIsPin DEF MenuInv
    <3>3. ASSUME NEW i \in 1 .. PinSize PROVE userPin[i - 1] = Keys - 1
      <4>1. i - 1 \in PinIndex
        BY Sizes DEF PinIndex
      <4> QED BY <3>1, <4>1 DEF erasePin
    <3> QED BY <3>2, <3>3
  <2>2. CASE UsiReset
    BY <1>1, <2>2, Sizes DEF UsiReset, MenuInv, RetriesCount, TypeOK
  <2>3. CASE ProtocolStores
    BY <2>3 DEF ProtocolStores
  <2>4. CASE UNCHANGED eeprom
    BY <2>4
  <2>5. ASSUME UIF_Task PROVE UsiErase \/ UsiReset \/ UNCHANGED eeprom
    BY <2>5 DEF UIF_Task, UifStart, UsiCancel, UsiSelect, UsiAccept, UsiUnlock, UsiWrong,
                CrdOptions, OptSelect, OptCredentials, OptLock
  <2>6. ASSUME Protocol \/ Restart \/ UNCHANGED vars
        PROVE  ProtocolStores \/ UNCHANGED eeprom
    BY <2>6 DEF Protocol, ProtocolMoves, ProtocolEndsWrite, Restart, vars
  <2> QED BY <1>1, <2>1, <2>2, <2>3, <2>4, <2>5, <2>6 DEF Next
<1>2. MenuInv /\ [Next]_vars => [Earned]_vars
  BY <1>1
<1> QED BY <1>2, MenuInvariant, PTL DEF Spec, ResetIsEarned
==============================================================================

-------------------------------- MODULE Typing --------------------------------
(***************************************************************************)
(* How the MemType firmware talks: it types texts on the keyboard it shows *)
(* to the host, and deletes them with backspaces (print.c), fetching the   *)
(* fields of a credential piece by piece (CRD_apply in crd.c).             *)
(*                                                                         *)
(* printUpdate runs once for every keyboard report the host takes and      *)
(* makes one key event.  The menus ask for texts between two such steps:   *)
(* print_deleteStr starts the deletion, print queues the new text.  Here   *)
(* the menus are reduced to the texts each handler asks for; Session has   *)
(* their state.                                                            *)
(***************************************************************************)
EXTENDS Integers, SequencesExt

CONSTANTS
  STRBUF_SIZE,    \* slots in strBuf: 5
  CountSize,      \* values of cCount: 256
  InitDebounce, IdleTimeout,       \* INIT_DEBOUNCE and IDLE_TIMEOUT: 50
  BlockSize,      \* sizeof(cipher.plain): 16
  Positions,      \* values of position: 256
  Flash,          \* the texts in flash: a sequence of characters by name
  Names,          \* which of them are the names of credentials
  First,          \* the credential at the start of credentials[]
  PinStr,         \* "PIN: "
  Entries,        \* what "PIN: " and the digits may read: a set of sequences
  Cred,           \* the decrypted bytes of each credential, by position
  Hashed,         \* what the PIN check leaves in cipher.plain
  MaxRequests     \* bound of the model: requests of the menus

Nul == 0
Backspace == 8
SYNCHRONOUS_IDLE_KEY == 22
Char == 0 .. 127

(* crd.h: the fields of a credential *)
CRD_USER == 0
CRD_PASS == 2
CRD_END == 4

Slots == 0 .. STRBUF_SIZE - 1
Sources == DOMAIN Flash \cup {"userText", "plain", "nul"}

ASSUME TypingAssumption ==
  /\ STRBUF_SIZE \in Nat \ {0, 1} /\ CountSize \in Nat \ {0, 1}
  /\ InitDebounce \in Nat /\ IdleTimeout \in Nat
  /\ BlockSize \in Nat \ {0} /\ Positions \in Nat \ {0}
  /\ {"init", "pinErr", "options"} \cup Names \subseteq DOMAIN Flash
  /\ DOMAIN Flash \cap {"userText", "plain", "nul"} = {}
  /\ \A t \in DOMAIN Flash : Flash[t] \in Seq(Char \ {Nul})
  /\ First \in Names
  /\ PinStr \in Seq(Char \ {Nul}) /\ Entries \subseteq Seq(Char \ {Nul})
  /\ Cred \in [Names -> [0 .. Positions - 1 -> Char]]
  /\ \A n \in Names :
       Cardinality({j \in 0 .. Positions - 1 : Cred[n][j] = Nul}) >= CRD_END
  /\ Hashed \in [0 .. BlockSize - 1 -> Char]
  /\ MaxRequests \in Nat

VARIABLES
  strBuf, actString, cCount, EOS, debounceCount, kbd_status,
  userText, plain, position, counter, crdStart, crdStop,
  selected,       \* the credential the fields are of
  UIF_state,
  report,         \* the key in reportBuffer
  screen, eaten,  \* the editor: what was typed, and whether more was deleted
  shown,          \* history: the text the device was last asked to show
  flaws,          \* history: what makes it unsure that it does
  asked

queue == <<strBuf, actString>>
keys == <<cCount, EOS, debounceCount, kbd_status>>
source == <<userText, plain, selected>>
piece == <<position, counter, crdStart, crdStop>>
editor == <<report, screen, eaten>>
history == <<shown, flaws, asked>>
vars == <<queue, keys, source, piece, editor, UIF_state, history>>

At(s, i) == IF i < Len(s) THEN s[i + 1] ELSE Nul

Byte(text, at) ==
  CASE text = "userText" -> At(userText, at)
    [] text = "plain"    -> IF at < BlockSize THEN plain[at] ELSE Nul
    [] text = "nul"      -> Nul
    [] OTHER             -> At(Flash[text], at)

Current == strBuf[actString]
ascii == IF Current.info = "EMPTY" THEN Nul ELSE Byte(Current.text, Current.at)

------------------------------------------------------------------------------
(* print: the text goes to the first empty slot from actString on; if      *)
(* there is none it is lost.                                               *)

Slot(text, at, len) ==
  [info |-> "FULL", text |-> text, at |-> at, len |-> len,
   callback |-> IF len # 0 THEN 1 ELSE 0]

Queued(buf, slot) ==
  LET free == {k \in Slots : buf[(actString + k) % STRBUF_SIZE].info = "EMPTY"}
  IN IF free = {} THEN buf
     ELSE [buf EXCEPT ![(actString + Min(free)) % STRBUF_SIZE] = slot]

(* CRD_apply: the next piece of the credential, up to its \0 or the end of *)
(* the block, whichever is first.                                          *)
CRD_apply(buf, pos, cnt, start, stop) ==
  /\ crdStart' = start /\ crdStop' = stop
  /\ \/ /\ cnt >= stop
        /\ strBuf' = buf /\ position' = pos /\ counter' = cnt
        /\ UNCHANGED plain
     \/ /\ cnt < stop
        /\ plain' = IF pos % BlockSize = 0
                    THEN [i \in 0 .. BlockSize - 1 |->
                            Cred[selected][(pos + i) % Positions]]
                    ELSE plain
        /\ LET buffpos == pos % BlockSize
               ends == {i \in buffpos .. BlockSize - 1 : plain'[i] = Nul}
               size == Min(ends \cup {BlockSize}) - buffpos
               whole == IF ends # {} THEN 1 ELSE 0    \* the field ends here
           IN /\ strBuf' = Queued(buf, IF cnt >= start /\ size # 0
                                       THEN Slot("plain", buffpos, size)
                                       ELSE Slot("nul", 0, 1))
              /\ counter' = cnt + whole
              /\ position' = (pos + size + whole) % Positions

(* The text that parts 0 to n - 1 make from each of them on.               *)
From(parts, n) ==
  LET from[i \in 0 .. n] == IF i = n THEN <<>> ELSE parts[i] \o from[i + 1]
  IN from

(* What the user sees of a character: a pause is none.                     *)
Seen(c) == IF c = SYNCHRONOUS_IDLE_KEY THEN <<>> ELSE <<c>>

VisibleFrom(text) ==
  From([i \in 0 .. Len(text) - 1 |-> Seen(text[i + 1])], Len(text))
Visible(text) == VisibleFrom(text)[0]

(* The characters of fields start to stop - 1 of a credential.             *)
Before(c, i) == Cardinality({j \in 0 .. i - 1 : c[j] = Nul})
FieldsFrom(c, start, stop) ==
  From([i \in 0 .. Positions - 1 |->
          IF c[i] # Nul /\ Before(c, i) \in start .. stop - 1 THEN Seen(c[i])
                                                             ELSE <<>>], Positions)
Fields(c, start, stop) == FieldsFrom(c, start, stop)[0]

------------------------------------------------------------------------------
Init ==
  /\ strBuf = [k \in Slots |->
                 IF k = 0 THEN Slot("init", 0, 0)
                 ELSE [Slot("nul", 0, 0) EXCEPT !.info = "EMPTY"]]
  /\ actString = 0 /\ cCount = 0 /\ EOS = 0
  /\ debounceCount = 0 /\ kbd_status = "INIT"
  /\ userText = <<>> /\ plain = [i \in 0 .. BlockSize - 1 |-> Nul]
  /\ position = 0 /\ counter = 0 /\ crdStart = CRD_USER /\ crdStop = CRD_USER
  /\ selected = First
  /\ UIF_state = "START"
  /\ report = Nul /\ screen = <<>> /\ eaten = FALSE
  /\ shown = Visible(Flash["init"]) /\ flaws = {} /\ asked = 0

------------------------------------------------------------------------------
(* What the menus ask for.                                                 *)

(* History: a request is hasty when the one before is still waiting, and   *)
(* it cuts a credential when pieces of that are still to come.             *)
Waiting == EOS = 1 /\ \E k \in Slots : strBuf[k].info # "EMPTY"
Hasty == kbd_status \in {"DELETE", "DELETE_PRESSED"} \/ Waiting
Cuts == Current.callback = 1 /\ EOS = 0

Asked(text) ==
  /\ asked < MaxRequests /\ asked' = asked + 1
  /\ shown' = text

(* print_deleteStr.                                                        *)
DeleteStr ==
  /\ kbd_status' = "DELETE"
  /\ flaws' = flaws \cup (IF Hasty THEN {"hasty"} ELSE {})
                    \cup (IF Cuts THEN {"cut"} ELSE {})
  /\ UNCHANGED <<actString, cCount, EOS, debounceCount, editor>>

ShowFlash(text) ==
  /\ DeleteStr /\ Asked(Visible(Flash[text]))
  /\ strBuf' = Queued(strBuf, Slot(text, 0, 0))
  /\ UNCHANGED piece

ShowUserText(text) ==
  /\ DeleteStr /\ Asked(Visible(text))
  /\ userText' = text
  /\ strBuf' = Queued(strBuf, Slot("userText", 0, 0))
  /\ UNCHANGED <<piece, plain, selected>>

CRD_printDetail(start, stop) ==
  /\ DeleteStr /\ Asked(Fields(Cred[selected], start, stop))
  /\ CRD_apply(strBuf, 0, 0, start, stop)
  /\ UNCHANGED <<userText, selected, UIF_state>>

(* uif.c, usi.c: PIN entry.                                                *)
UifStart ==
  /\ UIF_state = "START" /\ UIF_state' = "USER_INPUT"
  /\ \E text \in Entries : ShowUserText(text)

UsiEntry ==
  /\ UIF_state = "USER_INPUT"
  /\ \E text \in Entries : ShowUserText(text)
  /\ UNCHANGED UIF_state

(* "pinErr" stands for "PIN ERR" and for "PIN RESET to 0000".              *)
UsiWrong ==
  /\ UIF_state = "USER_INPUT"
  /\ ShowFlash("pinErr")
  /\ plain' = Hashed
  /\ userText' = PinStr
  /\ UNCHANGED <<selected, UIF_state>>

UsiUnlock ==
  /\ UIF_state = "USER_INPUT" /\ UIF_state' = "CREDENTIALS"
  /\ ShowFlash(selected)
  /\ plain' = Hashed
  /\ UNCHANGED <<userText, selected>>

(* crd.c, opt.c: the menus behind the PIN.                                 *)
CrdMove ==
  /\ UIF_state = "CREDENTIALS"
  /\ selected' \in Names
  /\ ShowFlash(selected')
  /\ UNCHANGED <<userText, plain, UIF_state>>

CrdDetails ==
  /\ UIF_state = "CREDENTIALS"
  /\ CRD_printDetail(CRD_USER, CRD_END)

CrdOptions ==
  /\ UIF_state = "CREDENTIALS" /\ UIF_state' = "OPTIONS"
  /\ ShowFlash("options")
  /\ UNCHANGED source

OptDetail ==
  /\ UIF_state = "OPTIONS"
  /\ \E field \in {CRD_USER, CRD_PASS} : CRD_printDetail(field, field + 1)

OptCredentials ==
  /\ UIF_state = "OPTIONS" /\ UIF_state' = "CREDENTIALS"
  /\ ShowFlash(selected)
  /\ UNCHANGED source

OptLock ==
  /\ UIF_state = "OPTIONS" /\ UIF_state' = "START"
  /\ ShowFlash("init")
  /\ UNCHANGED source

(* The end of SET_PIN in UCP_Decode: UIF_Init without print_deleteStr.  It *)
(* comes when the protocol is unlocked, which it may be in every menu.     *)
PinWritten ==
  /\ UIF_state' = "START"
  /\ Asked(Visible(Flash["init"]))
  /\ strBuf' = Queued(strBuf, Slot("init", 0, 0))
  /\ flaws' = flaws \cup {"added"}
  /\ UNCHANGED <<actString, keys, source, piece, editor>>

(* The end of a write in UCP_WriteTask: CRD_Init loads the first one.      *)
CredentialsWritten ==
  /\ Asked(shown)
  /\ selected' = First
  /\ flaws' = IF counter < crdStop THEN flaws \cup {"reloaded", "rewritten"} ELSE flaws
  /\ UNCHANGED <<queue, keys, userText, plain, piece, editor, UIF_state>>

(* A page that UCP_WriteTask stores in the middle of a write: the bytes of *)
(* record n become those of m, also under a name that is being typed from  *)
(* flash and under a credential of which pieces are still to come.         *)
TypedFrom(n) == {k \in Slots : strBuf[k].info = "FULL" /\ strBuf[k].text = n}

RecordWritten(n, m) ==
  /\ Asked(shown)
  /\ selected' = IF selected = n THEN m ELSE selected
  /\ strBuf' = [k \in Slots |-> IF k \in TypedFrom(n)
                                THEN [strBuf[k] EXCEPT !.text = m] ELSE strBuf[k]]
  /\ flaws' = IF TypedFrom(n) # {} \/ (selected = n /\ counter < crdStop)
              THEN flaws \cup {"rewritten"} ELSE flaws
  /\ UNCHANGED <<actString, keys, userText, plain, piece, editor, UIF_state>>

Request ==
  \/ UifStart \/ UsiEntry \/ UsiWrong \/ UsiUnlock
  \/ CrdMove \/ CrdDetails \/ CrdOptions
  \/ OptDetail \/ OptCredentials \/ OptLock
  \/ PinWritten \/ CredentialsWritten
  \/ \E n \in Names : \E m \in Names \ {n} : RecordWritten(n, m)

------------------------------------------------------------------------------
(* Definitions whose names end in _fault are faulty variants of the        *)
(* definition that follows them.  No action uses one; each shows that some *)
(* property would notice the fault.                                        *)

(* printUpdate, and the report as the host takes it: a key counts when it  *)
(* was not in the report before.                                           *)

Reports(k) ==
  /\ report' = k
  /\ screen' = IF k \in {report, Nul} THEN screen
               ELSE IF k # Backspace THEN Append(screen, k)
               ELSE IF screen = <<>> THEN screen ELSE Front(screen)
  /\ eaten' = (eaten \/ (k = Backspace /\ k # report /\ screen = <<>>))

Emptied == [strBuf EXCEPT ![actString].info = "EMPTY"]
NextString == (actString + 1) % STRBUF_SIZE
CharDone == [strBuf EXCEPT ![actString].len = IF @ > 0 THEN @ - 1 ELSE @]

Wait(limit) ==
  /\ debounceCount < limit
  /\ debounceCount' = debounceCount + 1
  /\ Reports(Nul)
  /\ UNCHANGED <<queue, cCount, EOS, kbd_status, plain, piece, flaws>>

WaitInit == kbd_status = "INIT" /\ Wait(InitDebounce)

EndInit ==
  /\ kbd_status = "INIT" /\ debounceCount >= InitDebounce
  /\ kbd_status' = "RELEASED" /\ debounceCount' = 0
  /\ UNCHANGED <<queue, cCount, EOS, editor, plain, piece, flaws>>

WaitIdle == kbd_status = "IDLE" /\ Wait(IdleTimeout)

EndIdle ==
  /\ kbd_status = "IDLE" /\ debounceCount >= IdleTimeout
  /\ kbd_status' = "RELEASED" /\ debounceCount' = 0
  /\ strBuf' = CharDone
  /\ UNCHANGED <<actString, cCount, EOS, editor, plain, piece, flaws>>

Release ==
  /\ kbd_status = "PRESSED"
  /\ Reports(Nul)
  /\ kbd_status' = "RELEASED"
  /\ strBuf' = CharDone
  /\ UNCHANGED <<actString, cCount, EOS, debounceCount, plain, piece, flaws>>

EndsString == Current.callback = 0 /\ ascii = Nul
EndsPiece == Current.callback # 0 /\ Current.len = 0

(* The fault: the slot is not freed.                                       *)
EndString_fault ==
  /\ kbd_status = "RELEASED" /\ EndsString
  /\ EOS' = 1
  /\ actString' = NextString
  /\ UNCHANGED <<strBuf, cCount, debounceCount, kbd_status, editor, plain, piece,
                 flaws>>

EndString ==
  /\ kbd_status = "RELEASED" /\ EndsString
  /\ EOS' = 1
  /\ strBuf' = Emptied /\ actString' = NextString
  /\ UNCHANGED <<cCount, debounceCount, kbd_status, editor, plain, piece, flaws>>

EndPiece ==
  /\ kbd_status = "RELEASED" /\ EndsPiece
  /\ CRD_apply(Emptied, position, counter, crdStart, crdStop)
  /\ EOS' = IF strBuf'[actString].info = "EMPTY" THEN 1 ELSE EOS
  /\ UNCHANGED <<actString, cCount, debounceCount, kbd_status, editor, flaws>>

Advanced == [strBuf EXCEPT ![actString].at = @ + 1]

StartIdle ==
  /\ kbd_status = "RELEASED" /\ ~EndsString /\ ~EndsPiece
  /\ ascii = SYNCHRONOUS_IDLE_KEY
  /\ strBuf' = Advanced
  /\ kbd_status' = "IDLE"
  /\ UNCHANGED <<actString, cCount, EOS, debounceCount, editor, plain, piece, flaws>>

PressKey ==
  /\ kbd_status = "RELEASED" /\ ~EndsString /\ ~EndsPiece
  /\ ascii # SYNCHRONOUS_IDLE_KEY
  /\ strBuf' = Advanced
  /\ Reports(ascii)
  /\ cCount' = IF EOS = 0 THEN (cCount + 1) % CountSize ELSE 1
  /\ EOS' = 0
  /\ kbd_status' = "PRESSED"
  /\ flaws' = flaws \cup (IF ascii = Nul THEN {"nul"} ELSE {})
                    \cup (IF ascii = Backspace THEN {"backspace"} ELSE {})
                    \cup (IF EOS = 0 /\ cCount' = 0 THEN {"long"} ELSE {})
  /\ UNCHANGED <<actString, debounceCount, plain, piece>>

(* The fault: one backspace too many.                                      *)
DeleteKey_fault ==
  /\ kbd_status = "DELETE"
  /\ Reports(Backspace)
  /\ cCount' = cCount - 1
  /\ kbd_status' = "DELETE_PRESSED"
  /\ UNCHANGED <<queue, EOS, debounceCount, plain, piece, flaws>>

DeleteKey ==
  /\ kbd_status = "DELETE" /\ cCount > 0
  /\ Reports(Backspace)
  /\ cCount' = cCount - 1
  /\ kbd_status' = "DELETE_PRESSED"
  /\ UNCHANGED <<queue, EOS, debounceCount, plain, piece, flaws>>

(* The fault: the text under way is not invalidated.                       *)
EndDelete_fault ==
  /\ kbd_status = "DELETE" /\ cCount = 0
  /\ Reports(Nul)
  /\ kbd_status' = "RELEASED"
  /\ EOS' = 1
  /\ UNCHANGED <<queue, cCount, debounceCount, plain, piece, flaws>>

EndDelete ==
  /\ kbd_status = "DELETE" /\ cCount = 0
  /\ Reports(Nul)
  /\ kbd_status' = "RELEASED"
  /\ EOS' = 1
  /\ strBuf' = IF EOS = 0 THEN Emptied ELSE strBuf
  /\ actString' = IF EOS = 0 THEN NextString ELSE actString
  /\ UNCHANGED <<cCount, debounceCount, plain, piece, flaws>>

(* The fault: the key is not released between two backspaces.              *)
DeleteRelease_fault ==
  /\ kbd_status = "DELETE_PRESSED"
  /\ kbd_status' = "DELETE"
  /\ UNCHANGED <<queue, cCount, EOS, debounceCount, editor, plain, piece, flaws>>

DeleteRelease ==
  /\ kbd_status = "DELETE_PRESSED"
  /\ Reports(Nul)
  /\ kbd_status' = "DELETE"
  /\ UNCHANGED <<queue, cCount, EOS, debounceCount, plain, piece, flaws>>

printUpdate ==
  /\ \/ WaitInit \/ EndInit \/ WaitIdle \/ EndIdle
     \/ Release \/ EndString \/ EndPiece \/ StartIdle \/ PressKey
     \/ DeleteKey \/ EndDelete \/ DeleteRelease
  /\ UNCHANGED <<userText, selected, UIF_state, shown, asked>>

------------------------------------------------------------------------------
(* After a restart what stands in the editor is the user's.                *)
Restart ==
  /\ asked < MaxRequests /\ asked' = asked + 1
  /\ strBuf' = [k \in Slots |->
                  IF k = 0 THEN Slot("init", 0, 0)
                  ELSE [Slot("nul", 0, 0) EXCEPT !.info = "EMPTY"]]
  /\ actString' = 0 /\ cCount' = 0 /\ EOS' = 0
  /\ debounceCount' = 0 /\ kbd_status' = "INIT"
  /\ userText' = <<>> /\ plain' = [i \in 0 .. BlockSize - 1 |-> Nul]
  /\ position' = 0 /\ counter' = 0 /\ crdStart' = CRD_USER /\ crdStop' = CRD_USER
  /\ selected' = First
  /\ UIF_state' = "START"
  /\ report' = Nul /\ screen' = <<>> /\ eaten' = FALSE
  /\ shown' = Visible(Flash["init"]) /\ flaws' = {}

Next == Request \/ printUpdate \/ Restart

Spec == Init /\ [][Next]_vars /\ WF_vars(printUpdate)
------------------------------------------------------------------------------
(* Properties.                                                             *)

SlotType == [info : {"EMPTY", "FULL"}, text : Sources, at : Nat,
             len : 0 .. BlockSize, callback : {0, 1}]

TypeOK ==
  /\ strBuf \in [Slots -> SlotType]
  /\ actString \in Slots
  /\ cCount \in 0 .. CountSize - 1 /\ EOS \in {0, 1}
  /\ debounceCount \in Nat
  /\ kbd_status \in {"INIT", "PRESSED", "RELEASED", "IDLE", "DELETE",
                     "DELETE_PRESSED"}
  /\ userText \in Seq(Char \ {Nul}) /\ plain \in [0 .. BlockSize - 1 -> Char]
  /\ position \in 0 .. Positions - 1 /\ counter \in 0 .. CRD_END
  /\ crdStart \in 0 .. CRD_END /\ crdStop \in 0 .. CRD_END
  /\ selected \in Names
  /\ UIF_state \in {"START", "USER_INPUT", "CREDENTIALS", "OPTIONS"}
  /\ report \in Char
  /\ screen \in Seq(Char) /\ eaten \in BOOLEAN
  /\ shown \in Seq(Char) /\ asked \in 0 .. MaxRequests
  /\ flaws \subseteq {"hasty", "cut", "nul", "backspace", "long", "added",
                     "reloaded", "rewritten"}

(* Nothing is left to type or to delete.                                   *)
Settled ==
  /\ kbd_status = "RELEASED" /\ EOS = 1
  /\ \A k \in Slots : strBuf[k].info = "EMPTY"
  /\ Current.callback = 1 => counter >= crdStop

Calm == flaws = {}

(* Of requests that came one at a time, each when the one before had begun *)
(* to be typed, the last one is shown and nothing else: however far the    *)
(* ones before had got (printUpdate, CRD_apply).                           *)
SettledShowsLast == Calm /\ Settled => screen = shown

(* cCount is the length of the device's own text in the editor, so that    *)
(* print_deleteStr removes that text and nothing of the user's.            *)
CountIsShown == Calm => cCount = Len(screen) /\ ~eaten

(* Whatever was asked for, and however hastily, typing ends: no field is   *)
(* fetched for ever and no deletion is left half done, and of requests     *)
(* that came one at a time none is left waiting (printUpdate).             *)
TypingEnds == <>[](kbd_status = "RELEASED" /\ (Calm => Settled))

------------------------------------------------------------------------------
(* What the documentation says, or the code means to do, and what the code *)
(* does not do: TLC refutes these.                                         *)

(* A credential that was cut short is not typed on: "INVALIDATE CURRENT    *)
(* TYPING" (print.c:191).                                                  *)
CutIsInvalidated == flaws \subseteq {"cut"} /\ Settled => screen = shown

(* The device deletes only what it wrote: "it deletes it's own text".      *)
OnlyOwnDeleted == flaws \subseteq {"nul"} => ~eaten

(* A new text replaces the one before, also when it is asked for before    *)
(* that one is typed: "it deletes it's own text to write new one".         *)
HastyIsReplaced == flaws \subseteq {"hasty"} /\ Settled => screen = shown

(* ... and also when the host caused it, with a new PIN.                   *)
AddedIsReplaced == flaws \subseteq {"added"} /\ Settled => screen = shown

==============================================================================

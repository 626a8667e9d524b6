---------------------------- MODULE TypingProofs ----------------------------
(***************************************************************************)
(* Proofs about typing and deleting, for queues, texts, blocks and         *)
(* counters of every size: the variables keep their types, cCount is the   *)
(* number of the device's own characters in the editor, and when typing is *)
(* over the text that was asked for last stands there.                     *)
(*                                                                         *)
(* The last needs what is still to come to be known at every step: Gives   *)
(* says, of a slot, that what the editor holds and the rest of the slot's  *)
(* text, or of the credential that its piece is cut from, make the text    *)
(* that was asked for.                                                     *)
(***************************************************************************)
EXTENDS Typing, TLAPS, WellFoundedInduction, SequenceTheorems,
        FiniteSetTheorems

LEMMA Sizes ==
  /\ STRBUF_SIZE \in Nat /\ STRBUF_SIZE >= 2
  /\ CountSize \in Nat /\ CountSize >= 2
  /\ InitDebounce \in Nat /\ IdleTimeout \in Nat
  /\ BlockSize \in Nat /\ BlockSize >= 1
  /\ Positions \in Nat /\ Positions >= 1
  /\ {"init", "pinErr", "options"} \cup Names \subseteq DOMAIN Flash
  /\ \A t \in DOMAIN Flash : Flash[t] \in Seq(Char)
  /\ Seq(Char \ {Nul}) \subseteq Seq(Char)
  /\ First \in Names /\ PinStr \in Seq(Char \ {Nul})
  /\ Entries \subseteq Seq(Char \ {Nul})
  /\ Cred \in [Names -> [0 .. Positions - 1 -> Char]]
  /\ Hashed \in [0 .. BlockSize - 1 -> Char]
  /\ MaxRequests \in Nat
<1>1. Seq(Char \ {Nul}) \subseteq Seq(Char)
  OBVIOUS
<1> QED BY <1>1, TypingAssumption

(* The least element of a set of numbers.                                  *)
LEMMA MinLeast ==
  ASSUME NEW T, T \subseteq Nat, T # {}
  PROVE  Min(T) \in T /\ \A y \in T : Min(T) <= y
<1>1. \E x \in T : \A y \in T : ~ (<<y, x>> \in OpToRel(<, Nat))
  BY NatLessThanWellFounded, WFMin
<1>2. PICK x \in T : \A y \in T : ~ (<<y, x>> \in OpToRel(<, Nat))
  BY <1>1
<1>3. \A y \in T : x <= y
  <2>1. ASSUME NEW y \in T PROVE ~(y < x)
    <3>1. y \in Nat /\ x \in Nat
      OBVIOUS
    <3>2. y < x => <<y, x>> \in OpToRel(<, Nat)
      BY <3>1 DEF OpToRel
    <3> QED BY <1>2, <3>2
  <2> QED BY <2>1
<1> QED BY <1>2, <1>3 DEF Min

------------------------------------------------------------------------------
(* The queue.                                                              *)

Buffers == [Slots -> SlotType]
Other(k) == k \in Slots /\ k # actString

LEMMA Places ==
  ASSUME actString \in Slots
  PROVE  /\ actString \in Nat /\ actString < STRBUF_SIZE
         /\ NextString \in Slots /\ NextString # actString
         /\ (actString + 0) % STRBUF_SIZE = actString
         /\ 0 \in Slots /\ 1 \in Slots
<1>1. /\ actString \in Nat /\ actString < STRBUF_SIZE
      /\ STRBUF_SIZE \in Nat /\ STRBUF_SIZE >= 2
  BY Sizes DEF Slots
<1>2. CASE actString + 1 < STRBUF_SIZE
  <2>1. NextString = actString + 1
    BY <1>1, <1>2 DEF NextString
  <2> QED BY <1>1, <1>2, <2>1 DEF Slots
<1>3. CASE actString + 1 = STRBUF_SIZE
  <2>1. NextString = 0
    BY <1>1, <1>3 DEF NextString
  <2> QED BY <1>1, <1>3, <2>1 DEF Slots
<1> QED BY <1>1, <1>2, <1>3

LEMMA QueuedType ==
  ASSUME NEW buf \in Buffers, NEW slot \in SlotType
  PROVE  Queued(buf, slot) \in Buffers
BY DEF Queued, Buffers

(* A text for an empty slot at actString goes there.                       *)
LEMMA QueuedHere ==
  ASSUME actString \in Slots, NEW buf \in Buffers, NEW slot,
         buf[actString].info = "EMPTY"
  PROVE  Queued(buf, slot) = [buf EXCEPT ![actString] = slot]
<1> DEFINE free == {k \in Slots : buf[(actString + k) % STRBUF_SIZE].info = "EMPTY"}
<1>1. 0 \in free /\ free \subseteq Nat
  BY Places DEF Slots
<1> HIDE DEF free
<1>2. Min(free) \in Nat /\ Min(free) <= 0
  BY <1>1, MinLeast
<1>3. Min(free) = 0
  BY <1>2
<1>4. Queued(buf, slot)
        = [buf EXCEPT ![(actString + Min(free)) % STRBUF_SIZE] = slot]
  BY <1>1 DEF Queued, free
<1>5. (actString + Min(free)) % STRBUF_SIZE = actString
  BY <1>3, Places
<1> QED BY <1>4, <1>5

(* While a text is typed and no other waits, the next one goes behind it.  *)
LEMMA QueuedNext ==
  ASSUME actString \in Slots, NEW buf \in Buffers, NEW slot,
         buf[actString].info # "EMPTY",
         \A k \in Slots : Other(k) => buf[k].info = "EMPTY"
  PROVE  Queued(buf, slot) = [buf EXCEPT ![NextString] = slot]
<1> DEFINE free == {k \in Slots : buf[(actString + k) % STRBUF_SIZE].info = "EMPTY"}
<1>1. free \subseteq Nat /\ 0 \notin free
  BY Places DEF Slots
<1>2. buf[(actString + 1) % STRBUF_SIZE].info = "EMPTY"
  BY Places DEF Other, NextString
<1>3. 1 \in free
  BY <1>2, Places
<1> HIDE DEF free
<1>4. Min(free) \in free /\ Min(free) \in Nat /\ Min(free) <= 1
  BY <1>1, <1>3, MinLeast
<1>5. Min(free) = 1
  <2>1. Min(free) # 0
    BY <1>1, <1>4
  <2> QED BY <1>4, <2>1
<1>6. Queued(buf, slot)
        = [buf EXCEPT ![(actString + Min(free)) % STRBUF_SIZE] = slot]
  BY <1>3 DEF Queued, free
<1> QED BY <1>5, <1>6 DEF NextString

LEMMA SlotFacts ==
  ASSUME NEW r \in SlotType
  PROVE  /\ [r EXCEPT !.info = "EMPTY"] \in SlotType
         /\ [r EXCEPT !.info = "EMPTY"].info = "EMPTY"
         /\ [r EXCEPT !.info = "EMPTY"].callback = r.callback
         /\ [r EXCEPT !.at = @ + 1] \in SlotType
         /\ [r EXCEPT !.at = @ + 1].info = r.info
         /\ [r EXCEPT !.at = @ + 1].callback = r.callback
         /\ [r EXCEPT !.len = IF @ > 0 THEN @ - 1 ELSE @] \in SlotType
         /\ [r EXCEPT !.len = IF @ > 0 THEN @ - 1 ELSE @].info = r.info
         /\ [r EXCEPT !.len = IF @ > 0 THEN @ - 1 ELSE @].callback = r.callback
         /\ r.info \in {"EMPTY", "FULL"} /\ r.text \in Sources /\ r.at \in Nat
         /\ r.len \in 0 .. BlockSize /\ r.callback \in {0, 1}
<1>1. /\ r.info \in {"EMPTY", "FULL"} /\ r.text \in Sources /\ r.at \in Nat
      /\ r.len \in 0 .. BlockSize /\ r.callback \in {0, 1}
  BY DEF SlotType
<1>2. /\ r.at + 1 \in Nat
      /\ (IF r.len > 0 THEN r.len - 1 ELSE r.len) \in 0 .. BlockSize
  BY <1>1, Sizes
<1> HIDE DEF Sources
<1> QED BY <1>1, <1>2 DEF SlotType

(* What printUpdate does to the slot at actString.                         *)
LEMMA CurrentFacts ==
  ASSUME strBuf \in Buffers, actString \in Slots
  PROVE  /\ Emptied \in Buffers /\ Emptied[actString].info = "EMPTY"
         /\ Emptied[actString].callback = Current.callback
         /\ \A k \in Slots : Other(k) => Emptied[k] = strBuf[k]
         /\ CharDone \in Buffers
         /\ \A k \in Slots : /\ CharDone[k].info = strBuf[k].info
                             /\ CharDone[k].callback = strBuf[k].callback
         /\ Advanced \in Buffers
         /\ \A k \in Slots : /\ Advanced[k].info = strBuf[k].info
                             /\ Advanced[k].callback = strBuf[k].callback
         /\ Current \in SlotType
<1> DEFINE c == strBuf[actString]
<1>1. c \in SlotType
  BY DEF Buffers
<1>2. /\ Emptied = [strBuf EXCEPT ![actString] = [c EXCEPT !.info = "EMPTY"]]
      /\ CharDone = [strBuf EXCEPT ![actString] =
                       [c EXCEPT !.len = IF @ > 0 THEN @ - 1 ELSE @]]
      /\ Advanced = [strBuf EXCEPT ![actString] = [c EXCEPT !.at = @ + 1]]
  BY DEF Emptied, CharDone, Advanced
<1>3. /\ [c EXCEPT !.info = "EMPTY"] \in SlotType
      /\ [c EXCEPT !.info = "EMPTY"].info = "EMPTY"
      /\ [c EXCEPT !.info = "EMPTY"].callback = c.callback
      /\ [c EXCEPT !.at = @ + 1] \in SlotType
      /\ [c EXCEPT !.at = @ + 1].info = c.info
      /\ [c EXCEPT !.at = @ + 1].callback = c.callback
      /\ [c EXCEPT !.len = IF @ > 0 THEN @ - 1 ELSE @] \in SlotType
      /\ [c EXCEPT !.len = IF @ > 0 THEN @ - 1 ELSE @].info = c.info
      /\ [c EXCEPT !.len = IF @ > 0 THEN @ - 1 ELSE @].callback = c.callback
  BY <1>1, SlotFacts
<1> DEFINE e == [c EXCEPT !.info = "EMPTY"]
           d == [c EXCEPT !.len = IF @ > 0 THEN @ - 1 ELSE @]
           a == [c EXCEPT !.at = @ + 1]
<1>4. /\ Emptied = [strBuf EXCEPT ![actString] = e]
      /\ CharDone = [strBuf EXCEPT ![actString] = d]
      /\ Advanced = [strBuf EXCEPT ![actString] = a]
  BY <1>2
<1>5. /\ e \in SlotType /\ e.info = "EMPTY" /\ e.callback = c.callback
      /\ d \in SlotType /\ d.info = c.info /\ d.callback = c.callback
      /\ a \in SlotType /\ a.info = c.info /\ a.callback = c.callback
  BY <1>3
<1> HIDE DEF e, d, a
<1> QED BY <1>1, <1>4, <1>5 DEF Buffers, Other, Current

------------------------------------------------------------------------------
(* Characters.                                                             *)

LEMMA CharFacts == Nul \in Char /\ Backspace \in Char /\ Backspace # Nul
BY DEF Nul, Backspace, Char

LEMMA AtType ==
  ASSUME NEW t \in Seq(Char), NEW i \in Nat PROVE At(t, i) \in Char
BY CharFacts DEF At

LEMMA ByteType ==
  ASSUME TypeOK, NEW t \in Sources, NEW i \in Nat PROVE Byte(t, i) \in Char
<1>1. CASE t = "userText"
  <2>1. Byte(t, i) = At(userText, i)
    BY <1>1 DEF Byte
  <2>2. userText \in Seq(Char)
    BY Sizes DEF TypeOK
  <2> QED BY <2>1, <2>2, AtType
<1>2. CASE t = "plain"
  <2>1. Byte(t, i) = IF i < BlockSize THEN plain[i] ELSE Nul
    BY <1>2 DEF Byte
  <2>2. i < BlockSize => plain[i] \in Char
    BY Sizes DEF TypeOK
  <2> QED BY <2>1, <2>2, CharFacts
<1>3. CASE t = "nul"
  <2>1. Byte(t, i) = Nul
    BY <1>3 DEF Byte
  <2> QED BY <2>1, CharFacts
<1>4. CASE t \notin {"userText", "plain", "nul"}
  <2>1. t \in DOMAIN Flash
    BY <1>4 DEF Sources
  <2>2. Byte(t, i) = At(Flash[t], i)
    BY <1>4 DEF Byte
  <2>3. Flash[t] \in Seq(Char)
    BY <2>1, Sizes
  <2> QED BY <2>2, <2>3, AtType
<1> QED BY <1>1, <1>2, <1>3, <1>4

LEMMA AsciiType ==
  ASSUME TypeOK PROVE ascii \in Char /\ (Current.info = "EMPTY" => ascii = Nul)
<1>1. Current.text \in Sources /\ Current.at \in Nat
  BY CurrentFacts, SlotFacts DEF TypeOK, Buffers
<1>2. Byte(Current.text, Current.at) \in Char
  BY <1>1, ByteType
<1> QED BY <1>2, CharFacts DEF ascii

LEMMA FrontFacts ==
  ASSUME NEW s \in Seq(Char), s # <<>>
  PROVE  /\ Len(s) \in Nat /\ Len(s) > 0
         /\ Front(s) \in Seq(Char) /\ Len(Front(s)) = Len(s) - 1
<1>1. Len(s) \in Nat \ {0}
  BY EmptySeq
<1>2. \A i \in 1 .. Len(s) - 1 : s[i] \in Char
  BY <1>1
<1> DEFINE n == Len(s)
<1>3. Front(s) = SubSeq(s, 1, n - 1)
  BY DEF Front
<1>4. n \in Nat \ {0} /\ \A i \in 1 .. n - 1 : s[i] \in Char
  BY <1>1, <1>2
<1> HIDE DEF n
<1>5. 1 \in Int /\ n - 1 \in Int
  BY <1>4
<1>6. /\ SubSeq(s, 1, n - 1) \in Seq(Char)
      /\ Len(SubSeq(s, 1, n - 1)) = IF 1 <= n - 1 THEN (n - 1) - 1 + 1 ELSE 0
  BY <1>4, <1>5, SubSeqProperties
<1>7. (IF 1 <= n - 1 THEN (n - 1) - 1 + 1 ELSE 0) = n - 1
  BY <1>4
<1>8. Front(s) \in Seq(Char) /\ Len(Front(s)) = n - 1
  BY <1>3, <1>6, <1>7
<1> QED BY <1>1, <1>8 DEF n

(* What a report does to the editor.                                       *)
LEMMA ReportsFacts ==
  ASSUME TypeOK, NEW k \in Char, Reports(k)
  PROVE  /\ report' = k /\ screen' \in Seq(Char) /\ eaten' \in BOOLEAN
         /\ k \in {report, Nul} => screen' = screen /\ Len(screen') = Len(screen)
         /\ k \notin {report, Nul, Backspace} => Len(screen') = Len(screen) + 1
         /\ k = Backspace /\ k # report /\ Len(screen) > 0 =>
              Len(screen') = Len(screen) - 1
         /\ k # Backspace \/ Len(screen) > 0 => eaten' = eaten
<1>1. screen \in Seq(Char) /\ eaten \in BOOLEAN
  BY DEF TypeOK
<1>2. report' = k
  BY DEF Reports
<1>3. CASE k \in {report, Nul}
  <2>1. screen' = screen
    BY <1>3 DEF Reports
  <2> QED BY <1>1, <1>2, <1>3, <2>1, CharFacts DEF Reports
<1>4. CASE k \notin {report, Nul} /\ k # Backspace
  <2>1. screen' = Append(screen, k)
    BY <1>4 DEF Reports
  <2> QED BY <1>1, <1>2, <1>4, <2>1 DEF Reports
<1>5. CASE k \notin {report, Nul} /\ k = Backspace
  <2>1. screen' = IF screen = <<>> THEN screen ELSE Front(screen)
    BY <1>5 DEF Reports
  <2>2. CASE screen = <<>>
    BY <1>1, <1>2, <1>5, <2>1, <2>2 DEF Reports
  <2>3. CASE screen # <<>>
    <3>1. screen' = Front(screen)
      BY <2>1, <2>3
    <3>2. /\ Len(screen) > 0
          /\ screen' \in Seq(Char) /\ Len(screen') = Len(screen) - 1
      BY <1>1, <2>3, <3>1, FrontFacts
    <3>3. eaten' = eaten
      BY <1>1, <2>3 DEF Reports
    <3> QED BY <1>1, <1>2, <1>5, <3>2, <3>3
  <2> QED BY <2>2, <2>3
<1> QED BY <1>3, <1>4, <1>5

------------------------------------------------------------------------------
(* A piece of a credential.                                                *)

LEMMA Remainder ==
  ASSUME NEW a \in Nat, NEW m \in Nat, m >= 1 PROVE a % m \in 0 .. m - 1
OBVIOUS

LEMMA NextRemainder ==
  ASSUME NEW n \in Nat, NEW m \in Nat, n < m
  PROVE  (n + 1) % m = IF n + 1 = m THEN 0 ELSE n + 1
<1>1. CASE n + 1 = m
  <2>1. m % m = 0
    OBVIOUS
  <2> QED BY <1>1, <2>1
<1>2. CASE n + 1 # m
  <2>1. n + 1 < m
    BY <1>2
  <2> QED BY <1>2, <2>1
<1> QED BY <1>1, <1>2

LEMMA DivisionUnique ==
  ASSUME NEW k \in Nat, NEW m \in Nat, m >= 1, NEW r \in 0 .. m - 1
  PROVE  (m * k + r) % m = r
OBVIOUS

(* The place e in its block of the byte that is d after one at place r.    *)
LEMMA BlockOffset ==
  ASSUME NEW p \in Nat, NEW m \in Nat, m >= 1, NEW d \in Nat, NEW r \in Nat, NEW e,
         r = p % m, e = (p + d) % m, r + d <= m
  PROVE  e = IF r + d = m THEN 0 ELSE r + d
<1>1. r \in 0 .. m - 1
  OBVIOUS
<1>2. PICK q \in Nat : q = p \div m
  OBVIOUS
<1>3. p = m * q + r
  BY <1>2
<1>4. CASE r + d = m
  <2>1. p + d = m * (q + 1) + 0
    BY <1>3, <1>4
  <2>2. q + 1 \in Nat /\ 0 \in 0 .. m - 1
    OBVIOUS
  <2>3. (m * (q + 1) + 0) % m = 0
    BY <2>2, DivisionUnique
  <2> QED BY <1>4, <2>1, <2>3
<1>5. CASE r + d < m
  <2>1. p + d = m * q + (r + d)
    BY <1>3
  <2>2. r + d \in 0 .. m - 1
    BY <1>5
  <2>3. (m * q + (r + d)) % m = r + d
    BY <2>2, DivisionUnique
  <2> QED BY <1>5, <2>1, <2>3
<1> QED BY <1>4, <1>5

(* The position of a byte, and its place in the block.                     *)
Wrapped(x) == x % Positions
Place(x) == x % BlockSize

LEMMA PlaceFacts ==
  ASSUME NEW x \in Nat
  PROVE  /\ Place(x) \in 0 .. BlockSize - 1 /\ Place(x) \in Nat
         /\ x < Positions => Wrapped(x) = x
         /\ \A d \in Nat : Place(x) + d <= BlockSize =>
              Place(x + d) = IF Place(x) + d = BlockSize THEN 0 ELSE Place(x) + d
<1>1. /\ Positions \in Nat /\ Positions >= 1
      /\ BlockSize \in Nat /\ BlockSize >= 1
  BY Sizes
<1>2. x % BlockSize \in 0 .. BlockSize - 1
  BY <1>1, Remainder
<1>3. PICK r \in Nat : r = x % BlockSize
  BY <1>1, <1>2
<1>4. ASSUME NEW d \in Nat, r + d <= BlockSize
      PROVE  (x + d) % BlockSize = IF r + d = BlockSize THEN 0 ELSE r + d
  <2>1. PICK e : e = (x + d) % BlockSize
    OBVIOUS
  <2>2. e = IF r + d = BlockSize THEN 0 ELSE r + d
    BY <1>1, <1>3, <1>4, <2>1, BlockOffset, Zenon
  <2> QED BY <2>1, <2>2
<1>5. x < Positions => x % Positions = x
  BY <1>1
<1> QED BY <1>2, <1>3, <1>4, <1>5 DEF Place, Wrapped

LEMMA SlotMade ==
  ASSUME NEW text \in Sources, NEW at \in Nat, NEW len \in 0 .. BlockSize
  PROVE  /\ Slot(text, at, len) \in SlotType
         /\ Slot(text, at, len).info = "FULL"
         /\ Slot(text, at, len).callback = IF len # 0 THEN 1 ELSE 0
<1> DEFINE c == IF len # 0 THEN 1 ELSE 0
<1>1. c \in {0, 1}
  OBVIOUS
<1>2. Slot(text, at, len) = [info |-> "FULL", text |-> text, at |-> at,
                             len |-> len, callback |-> c]
  BY DEF Slot
<1> HIDE DEF c, Sources
<1>3. /\ Slot(text, at, len) \in SlotType
      /\ Slot(text, at, len).info = "FULL" /\ Slot(text, at, len).callback = c
  BY <1>1, <1>2 DEF SlotType
<1> QED BY <1>3 DEF c

(* The block that is decrypted, and how much of it is one field's.         *)
Block(pos) == [i \in 0 .. BlockSize - 1 |-> Cred[selected][(pos + i) % Positions]]

LEMMA BlockType ==
  ASSUME selected \in Names, NEW pos \in Nat
  PROVE  Block(pos) \in [0 .. BlockSize - 1 -> Char]
<1>1. ASSUME NEW i \in 0 .. BlockSize - 1
      PROVE  Cred[selected][(pos + i) % Positions] \in Char
  <2>1. pos + i \in Nat
    BY Sizes
  <2>2. (pos + i) % Positions \in 0 .. Positions - 1
    BY <2>1, Remainder, Sizes
  <2>3. Cred[selected] \in [0 .. Positions - 1 -> Char]
    BY Sizes
  <2> QED BY <2>2, <2>3
<1> QED BY <1>1 DEF Block

LEMMA PieceSize ==
  ASSUME NEW buffpos \in 0 .. BlockSize - 1,
         NEW ends, ends \subseteq buffpos .. BlockSize - 1
  PROVE  Min(ends \cup {BlockSize}) - buffpos \in 0 .. BlockSize
<1> DEFINE T == ends \cup {BlockSize}
<1>1. T \subseteq Nat /\ T # {} /\ \A x \in T : buffpos <= x /\ x <= BlockSize
  BY Sizes
<1> HIDE DEF T
<1>2. Min(T) \in T
  BY <1>1, MinLeast
<1>3. Min(T) \in Nat /\ buffpos <= Min(T) /\ Min(T) <= BlockSize
  BY <1>1, <1>2
<1>4. Min(T) - buffpos \in 0 .. BlockSize
  BY <1>3, Sizes
<1> QED BY <1>4 DEF T

(* The ends of fields in a block from place b on, and how much is left of  *)
(* the field at b.                                                         *)
EndsIn(P, b) == {i \in b .. BlockSize - 1 : P[i] = Nul}
SizeIn(P, b) == Min(EndsIn(P, b) \cup {BlockSize}) - b
WholeIn(P, b) == IF EndsIn(P, b) # {} THEN 1 ELSE 0

LEMMA Cut ==
  ASSUME NEW b \in 0 .. BlockSize - 1, NEW P
  PROVE  /\ SizeIn(P, b) \in Nat /\ b + SizeIn(P, b) <= BlockSize
         /\ \A i \in 0 .. SizeIn(P, b) - 1 : P[b + i] # Nul
         /\ WholeIn(P, b) \in {0, 1}
         /\ WholeIn(P, b) = 1 =>
              b + SizeIn(P, b) < BlockSize /\ P[b + SizeIn(P, b)] = Nul
         /\ WholeIn(P, b) = 0 => b + SizeIn(P, b) = BlockSize
<1> DEFINE ends == EndsIn(P, b)
           size == SizeIn(P, b)
<1> DEFINE T == ends \cup {BlockSize}
<1>1. /\ b \in Nat /\ BlockSize \in Nat /\ BlockSize \in T
      /\ \A x \in ends : x \in Nat /\ b <= x /\ x < BlockSize /\ P[x] = Nul
      /\ \A x \in Nat : b <= x /\ x < BlockSize /\ P[x] = Nul => x \in ends
  BY Sizes DEF EndsIn
<1>2. T \subseteq Nat /\ T # {}
  BY <1>1
<1>3. \A x \in T : x \in ends \/ x = BlockSize
  OBVIOUS
<1>4. \A x \in ends : x \in T
  OBVIOUS
<1>5. size = Min(T) - b
  BY DEF SizeIn
<1>6. WholeIn(P, b) = IF ends # {} THEN 1 ELSE 0
  BY DEF WholeIn
<1> HIDE DEF T, ends, size
<1>7. PICK m \in T : m = Min(T) /\ \A y \in T : m <= y
  BY <1>2, MinLeast
<1>8. m \in Nat /\ b <= m /\ m <= BlockSize
  BY <1>1, <1>3
<1>9. size \in Nat /\ b + size = m
  BY <1>1, <1>5, <1>7, <1>8
<1>10. ASSUME NEW i \in 0 .. size - 1 PROVE P[b + i] # Nul
  <2>1. b + i \in Nat /\ b <= b + i /\ b + i < BlockSize /\ b + i < m
    BY <1>1, <1>8, <1>9
  <2>2. b + i \notin ends
    BY <1>4, <1>7, <1>8, <2>1
  <2> QED BY <1>1, <2>1, <2>2
<1>11. ASSUME ends # {} PROVE b + size < BlockSize /\ P[b + size] = Nul
  <2>1. PICK x \in ends : x \in T /\ x < BlockSize /\ x \in Nat
    BY <1>1, <1>4, <1>11
  <2>2. m <= x
    BY <1>7, <2>1
  <2>3. m # BlockSize
    BY <1>1, <1>8, <2>1, <2>2
  <2>4. m \in ends
    BY <1>3, <2>3
  <2> QED BY <1>1, <1>9, <2>4
<1>12. ASSUME ends = {} PROVE b + size = BlockSize
  BY <1>3, <1>9, <1>12
<1> QED BY <1>8, <1>9, <1>10, <1>11, <1>12, <1>6 DEF size

LEMMA ApplyFacts ==
  ASSUME TypeOK, NEW buf \in Buffers, NEW pos \in 0 .. Positions - 1,
         NEW cnt \in 0 .. CRD_END, NEW start, NEW stop \in 0 .. CRD_END,
         CRD_apply(buf, pos, cnt, start, stop)
  PROVE  /\ crdStart' = start /\ crdStop' = stop
         /\ plain' \in [0 .. BlockSize - 1 -> Char]
         /\ position' \in 0 .. Positions - 1
         /\ counter' \in 0 .. CRD_END
         /\ strBuf' \in Buffers
         /\ cnt >= stop => strBuf' = buf /\ counter' = cnt
         /\ cnt < stop => \E slot \in SlotType :
              /\ slot.info = "FULL" /\ slot.callback = 1
              /\ strBuf' = Queued(buf, slot)
<1>1. crdStart' = start /\ crdStop' = stop
  BY DEF CRD_apply
<1>2. plain \in [0 .. BlockSize - 1 -> Char] /\ selected \in Names
  BY DEF TypeOK
<1>3. CASE cnt >= stop
  <2>1. strBuf' = buf /\ position' = pos /\ counter' = cnt /\ plain' = plain
    BY <1>3 DEF CRD_apply, CRD_END
  <2> QED BY <1>1, <1>2, <1>3, <2>1 DEF CRD_END
<1>4. CASE cnt < stop
  <2> DEFINE buffpos == pos % BlockSize
             ends == {i \in buffpos .. BlockSize - 1 : plain'[i] = Nul}
             size == Min(ends \cup {BlockSize}) - buffpos
             whole == IF ends # {} THEN 1 ELSE 0
             slot == IF cnt >= start /\ size # 0 THEN Slot("plain", buffpos, size)
                                                ELSE Slot("nul", 0, 1)
  <2>1. /\ plain' = IF pos % BlockSize = 0 THEN Block(pos) ELSE plain
        /\ strBuf' = Queued(buf, slot)
        /\ counter' = cnt + whole
        /\ position' = (pos + size + whole) % Positions
    BY <1>4 DEF CRD_apply, CRD_END, Block
  <2>2. plain' \in [0 .. BlockSize - 1 -> Char]
    BY <1>2, <2>1, BlockType, Sizes
  <2>3. pos \in Nat /\ buffpos \in 0 .. BlockSize - 1
    BY Remainder, Sizes
  <2>4. ends \subseteq buffpos .. BlockSize - 1 /\ whole \in {0, 1}
    OBVIOUS
  <2> HIDE DEF buffpos, ends, whole
  <2>5. size \in 0 .. BlockSize
    BY <2>3, <2>4, PieceSize
  <2>6. slot \in SlotType /\ slot.info = "FULL" /\ slot.callback = 1
    <3>1. "plain" \in Sources /\ "nul" \in Sources
      BY DEF Sources
    <3>2. CASE cnt >= start /\ size # 0
      <4>1. slot = Slot("plain", buffpos, size)
        BY <3>2
      <4>2. buffpos \in Nat
        BY <2>3, Sizes
      <4>3. size # 0
        BY <3>2
      <4> HIDE DEF size
      <4> QED BY <2>5, <3>1, <4>1, <4>2, <4>3, SlotMade
    <3>3. CASE ~(cnt >= start /\ size # 0)
      <4>1. slot = Slot("nul", 0, 1)
        BY <3>3
      <4>2. 0 \in Nat /\ 1 \in 0 .. BlockSize /\ 1 # 0
        BY Sizes
      <4> QED BY <3>1, <4>1, <4>2, SlotMade
    <3> QED BY <3>2, <3>3
  <2> HIDE DEF size, slot
  <2>7. strBuf' \in Buffers
    BY <2>1, <2>6, QueuedType
  <2>8. counter' \in 0 .. CRD_END
    BY <1>4, <2>1, <2>4 DEF CRD_END
  <2>9. position' \in 0 .. Positions - 1
    <3>1. pos + size + whole \in Nat
      BY <2>3, <2>4, <2>5, Sizes
    <3> QED BY <2>1, <3>1, Remainder, Sizes
  <2>10. ~(cnt >= stop)
    BY <1>4 DEF CRD_END
  <2> QED BY <1>1, <2>1, <2>2, <2>6, <2>7, <2>8, <2>9, <2>10
<1>5. cnt >= stop \/ cnt < stop
  BY DEF CRD_END
<1> QED BY <1>3, <1>4, <1>5

------------------------------------------------------------------------------
(* The text that is to be shown.                                           *)

(* What the function From is.                                              *)
Joins(f, parts, m, n) ==
  /\ f \in [m .. n -> Seq(Char)] /\ f[n] = <<>>
  /\ \A i \in m .. n - 1 : f[i] = parts[i] \o f[i + 1]

LEMMA JoinsExtends ==
  ASSUME NEW n \in Nat, NEW m \in 0 .. n - 1, NEW parts \in [0 .. n - 1 -> Seq(Char)],
         NEW f, Joins(f, parts, m + 1, n)
  PROVE  \E g : Joins(g, parts, m, n)
<1> DEFINE g == [i \in m .. n |-> IF i = m THEN parts[m] \o f[m + 1] ELSE f[i]]
<1>1. f \in [m + 1 .. n -> Seq(Char)] /\ f[n] = <<>>
      /\ \A i \in m + 1 .. n - 1 : f[i] = parts[i] \o f[i + 1]
  BY DEF Joins
<1>2. parts[m] \in Seq(Char) /\ f[m + 1] \in Seq(Char)
  BY <1>1
<1>3. parts[m] \o f[m + 1] \in Seq(Char)
  BY <1>2, ConcatProperties
<1> DEFINE h == parts[m] \o f[m + 1]
<1>4. g = [i \in m .. n |-> IF i = m THEN h ELSE f[i]]
  OBVIOUS
<1> HIDE DEF g, h
<1>5. g \in [m .. n -> Seq(Char)]
  <2>1. ASSUME NEW i \in m .. n PROVE (IF i = m THEN h ELSE f[i]) \in Seq(Char)
    BY <1>1, <1>3 DEF h
  <2> QED BY <1>4, <2>1
<1>6. g[n] = <<>>
  BY <1>1, <1>4
<1>7. ASSUME NEW i \in m .. n - 1 PROVE g[i] = parts[i] \o g[i + 1]
  <2>1. g[i + 1] = f[i + 1]
    BY <1>4
  <2>2. CASE i = m
    BY <1>4, <2>1, <2>2 DEF h
  <2>3. CASE i # m
    <3>1. i \in m + 1 .. n - 1 /\ g[i] = f[i]
      BY <1>4, <2>3
    <3> QED BY <1>1, <2>1, <3>1
  <2> QED BY <2>2, <2>3
<1> QED BY <1>5, <1>6, <1>7 DEF Joins

LEMMA JoinsExists ==
  ASSUME NEW n \in Nat, NEW parts \in [0 .. n - 1 -> Seq(Char)]
  PROVE  \E f : Joins(f, parts, 0, n)
<1> DEFINE Bad == {k \in 0 .. n : ~ \E f : Joins(f, parts, n - k, n)}
<1>1. SUFFICES ASSUME Bad # {} PROVE FALSE
  <2>1. Bad = {} => n \notin Bad
    OBVIOUS
  <2>2. n - n = 0 /\ n \in 0 .. n
    OBVIOUS
  <2> QED BY <1>1, <2>1, <2>2
<1>2. Bad \subseteq Nat
  OBVIOUS
<1>3. PICK k \in Bad : \A y \in Bad : k <= y
  <2> HIDE DEF Bad
  <2> QED BY <1>1, <1>2, MinLeast
<1>4. k \in 0 .. n /\ ~ \E f : Joins(f, parts, n - k, n)
  OBVIOUS
<1>5. CASE k = 0
  <2>1. Joins([i \in n .. n |-> <<>>], parts, n, n)
    <3>1. [i \in n .. n |-> <<>>] \in [n .. n -> Seq(Char)]
      BY EmptySeq
    <3>2. n \in n .. n /\ n .. n - 1 = {}
      OBVIOUS
    <3> QED BY <3>1, <3>2 DEF Joins
  <2>2. n - k = n
    BY <1>5
  <2> QED BY <1>4, <2>1, <2>2
<1>6. CASE k > 0
  <2>1. k - 1 \in 0 .. n /\ ~(k <= k - 1)
    BY <1>4, <1>6
  <2>2. k - 1 \notin Bad
    BY <1>3, <2>1
  <2>3. PICK f : Joins(f, parts, n - (k - 1), n)
    BY <2>1, <2>2
  <2>4. n - k \in 0 .. n - 1 /\ n - (k - 1) = (n - k) + 1
    BY <1>4, <1>6
  <2>5. Joins(f, parts, (n - k) + 1, n)
    BY <2>3, <2>4
  <2> HIDE DEF Bad
  <2>6. \E g : Joins(g, parts, n - k, n)
    BY <2>4, <2>5, JoinsExtends
  <2> QED BY <1>4, <2>6
<1> QED BY <1>4, <1>5, <1>6

LEMMA FromFixed ==
  ASSUME NEW n, NEW parts,
         \E h : h = [i \in 0 .. n |-> IF i = n THEN <<>> ELSE parts[i] \o h[i + 1]]
  PROVE  From(parts, n)
           = [i \in 0 .. n |-> IF i = n THEN <<>> ELSE parts[i] \o From(parts, n)[i + 1]]
BY Zenon DEF From

(* Every function that solves the recursion is typed.                      *)
LEMMA FixedJoins ==
  ASSUME NEW n \in Nat, NEW parts \in [0 .. n - 1 -> Seq(Char)], NEW g,
         g[n] = <<>>, DOMAIN g = 0 .. n, g = [i \in DOMAIN g |-> g[i]],
         \A i \in 0 .. n - 1 : g[i] = parts[i] \o g[i + 1]
  PROVE  Joins(g, parts, 0, n)
<1>1. g[n] = <<>> /\ \A i \in 0 .. n - 1 : g[i] = parts[i] \o g[i + 1]
  OBVIOUS
<1> DEFINE Bad == {k \in 0 .. n : g[n - k] \notin Seq(Char)}
<1>2. CASE Bad = {}
  <2>1. ASSUME NEW i \in 0 .. n PROVE g[i] \in Seq(Char)
    <3>1. n - i \in 0 .. n /\ n - (n - i) = i
      OBVIOUS
    <3> QED BY <1>2, <3>1
  <2>2. g \in [0 .. n -> Seq(Char)]
    BY <2>1
  <2> QED BY <1>1, <2>2 DEF Joins
<1>3. CASE Bad # {}
  <2>1. Bad \subseteq Nat
    OBVIOUS
  <2>2. PICK k \in Bad : \A y \in Bad : k <= y
    <3> HIDE DEF Bad
    <3> QED BY <1>3, <2>1, MinLeast
  <2>3. k \in 0 .. n /\ g[n - k] \notin Seq(Char)
    OBVIOUS
  <2>4. k # 0
    <3>1. k = 0 => g[n - k] = <<>>
      BY <1>1
    <3> QED BY <2>3, <3>1, EmptySeq
  <2>5. k - 1 \in 0 .. n /\ ~(k <= k - 1)
    BY <2>3, <2>4
  <2>6. g[n - (k - 1)] \in Seq(Char)
    BY <2>2, <2>5
  <2>7. n - k \in 0 .. n - 1 /\ n - (k - 1) = (n - k) + 1
    BY <2>3, <2>4
  <2>8. g[n - k] = parts[n - k] \o g[n - (k - 1)] /\ parts[n - k] \in Seq(Char)
    BY <1>1, <2>7
  <2>9. g[n - k] \in Seq(Char)
    BY <2>6, <2>8, ConcatProperties
  <2> QED BY <2>3, <2>9
<1> QED BY <1>2, <1>3

LEMMA FromJoins ==
  ASSUME NEW n \in Nat, NEW parts \in [0 .. n - 1 -> Seq(Char)]
  PROVE  Joins(From(parts, n), parts, 0, n)
<1>1. PICK f : Joins(f, parts, 0, n)
  BY JoinsExists
<1>2. f = [i \in 0 .. n |-> IF i = n THEN <<>> ELSE parts[i] \o f[i + 1]]
  <2>1. ASSUME NEW i \in 0 .. n
        PROVE  f[i] = IF i = n THEN <<>> ELSE parts[i] \o f[i + 1]
    <3>1. i = n \/ i \in 0 .. n - 1
      OBVIOUS
    <3> QED BY <1>1, <3>1 DEF Joins
  <2>2. f = [i \in 0 .. n |-> f[i]]
    BY <1>1 DEF Joins
  <2> QED BY <2>1, <2>2
<1>10. \E h : h = [i \in 0 .. n |-> IF i = n THEN <<>> ELSE parts[i] \o h[i + 1]]
  BY <1>2, Zenon
<1>3. From(parts, n)
        = [i \in 0 .. n |-> IF i = n THEN <<>> ELSE parts[i] \o From(parts, n)[i + 1]]
  BY <1>10, FromFixed, Zenon
<1>4. PICK g : g = From(parts, n)
  OBVIOUS
<1>5. g = [i \in 0 .. n |-> IF i = n THEN <<>> ELSE parts[i] \o g[i + 1]]
  BY <1>3, <1>4, Zenon
<1>6. /\ DOMAIN g = 0 .. n /\ g = [i \in DOMAIN g |-> g[i]]
      /\ \A i \in 0 .. n : g[i] = IF i = n THEN <<>> ELSE parts[i] \o g[i + 1]
  BY <1>5, Zenon
<1>7. /\ n \in 0 .. n
      /\ \A i \in 0 .. n - 1 : i \in 0 .. n /\ i # n
  OBVIOUS
<1>8. g[n] = <<>> /\ \A i \in 0 .. n - 1 : g[i] = parts[i] \o g[i + 1]
  BY <1>6, <1>7, Zenon
<1>9. Joins(g, parts, 0, n)
  BY <1>6, <1>8, FixedJoins
<1> QED BY <1>4, <1>9

LEMMA FromFacts ==
  ASSUME NEW n \in Nat, NEW parts \in [0 .. n - 1 -> Seq(Char)]
  PROVE  /\ \A i \in 0 .. n : From(parts, n)[i] \in Seq(Char)
         /\ From(parts, n)[n] = <<>>
         /\ \A i \in 0 .. n - 1 : From(parts, n)[i] = parts[i] \o From(parts, n)[i + 1]
<1>1. PICK f : f = From(parts, n)
  OBVIOUS
<1>2. Joins(f, parts, 0, n)
  BY <1>1, FromJoins
<1>3. /\ \A i \in 0 .. n : f[i] \in Seq(Char)
      /\ f[n] = <<>>
      /\ \A i \in 0 .. n - 1 : f[i] = parts[i] \o f[i + 1]
  BY <1>2 DEF Joins
<1> QED BY <1>1, <1>3

LEMMA FromEmpty ==
  ASSUME NEW n \in Nat, NEW parts \in [0 .. n - 1 -> Seq(Char)],
         NEW q \in 0 .. n, \A i \in q .. n - 1 : parts[i] = <<>>
  PROVE  From(parts, n)[q] = <<>>
<1>1. PICK f : f = From(parts, n)
  OBVIOUS
<1>2. /\ \A i \in 0 .. n : f[i] \in Seq(Char)
      /\ f[n] = <<>>
      /\ \A i \in 0 .. n - 1 : f[i] = parts[i] \o f[i + 1]
  BY <1>1, FromFacts
<1> DEFINE Bad == {k \in 0 .. n - q : f[n - k] # <<>>}
<1>3. CASE Bad = {}
  <2>1. n - q \in 0 .. n - q /\ n - (n - q) = q
    OBVIOUS
  <2> QED BY <1>1, <1>3, <2>1
<1>4. CASE Bad # {}
  <2>1. Bad \subseteq Nat
    OBVIOUS
  <2>2. PICK k \in Bad : \A y \in Bad : k <= y
    <3> HIDE DEF Bad
    <3> QED BY <1>4, <2>1, MinLeast
  <2>3. k \in 0 .. n - q /\ f[n - k] # <<>>
    OBVIOUS
  <2>4. k # 0
    <3>1. k = 0 => f[n - k] = <<>>
      BY <1>2
    <3> QED BY <2>3, <3>1
  <2>5. k - 1 \in 0 .. n - q /\ ~(k <= k - 1)
    BY <2>3, <2>4
  <2>6. f[n - (k - 1)] = <<>>
    BY <2>2, <2>5
  <2>7. /\ n - k \in 0 .. n - 1 /\ n - k \in q .. n - 1
        /\ n - (k - 1) = (n - k) + 1
    BY <2>3, <2>4
  <2>8. f[n - k] = parts[n - k] \o f[(n - k) + 1]
    BY <1>2, <2>7
  <2>9. parts[n - k] = <<>> /\ f[(n - k) + 1] = <<>>
    BY <2>6, <2>7
  <2>10. <<>> \o <<>> = <<>>
    BY EmptySeq, ConcatEmptySeq
  <2> QED BY <2>3, <2>8, <2>9, <2>10
<1> QED BY <1>3, <1>4

LEMMA SeenType == ASSUME NEW c \in Char PROVE Seen(c) \in Seq(Char)
BY EmptySeq DEF Seen

LEMMA VisibleFacts ==
  ASSUME NEW text \in Seq(Char)
  PROVE  /\ Len(text) \in Nat /\ Visible(text) \in Seq(Char)
         /\ \A i \in 0 .. Len(text) : VisibleFrom(text)[i] \in Seq(Char)
         /\ VisibleFrom(text)[Len(text)] = <<>>
         /\ \A i \in 0 .. Len(text) - 1 :
              VisibleFrom(text)[i] = Seen(text[i + 1]) \o VisibleFrom(text)[i + 1]
<1>1. PICK n \in Nat : n = Len(text)
  BY LenProperties
<1>2. ASSUME NEW i \in 0 .. n - 1 PROVE Seen(text[i + 1]) \in Seq(Char)
  <2>1. i + 1 \in 1 .. Len(text)
    BY <1>1
  <2>2. text[i + 1] \in Char
    BY <2>1
  <2> QED BY <2>2, SeenType
<1> DEFINE parts == [i \in 0 .. n - 1 |-> Seen(text[i + 1])]
<1>3. /\ parts \in [0 .. n - 1 -> Seq(Char)]
      /\ \A i \in 0 .. n - 1 : parts[i] = Seen(text[i + 1])
  BY <1>2
<1>4. VisibleFrom(text) = From(parts, n)
  BY <1>1 DEF VisibleFrom
<1> HIDE DEF parts
<1>5. /\ \A i \in 0 .. n : From(parts, n)[i] \in Seq(Char)
      /\ From(parts, n)[n] = <<>>
      /\ \A i \in 0 .. n - 1 : From(parts, n)[i] = parts[i] \o From(parts, n)[i + 1]
  BY <1>3, FromFacts
<1>6. /\ \A i \in 0 .. n : VisibleFrom(text)[i] \in Seq(Char)
      /\ VisibleFrom(text)[n] = <<>>
      /\ \A i \in 0 .. n - 1 :
           VisibleFrom(text)[i] = Seen(text[i + 1]) \o VisibleFrom(text)[i + 1]
  BY <1>3, <1>4, <1>5
<1>7. Visible(text) \in Seq(Char)
  BY <1>6 DEF Visible
<1> QED BY <1>1, <1>6, <1>7

(* How many fields of a credential end before a position.                  *)
Credential == [0 .. Positions - 1 -> Char]
Ends(c, i) == {j \in 0 .. i - 1 : c[j] = Nul}

LEMMA EndsFinite ==
  ASSUME NEW c, NEW i \in Nat
  PROVE  IsFiniteSet(Ends(c, i)) /\ Before(c, i) = Cardinality(Ends(c, i))
         /\ Before(c, i) \in Nat
<1>1. IsFiniteSet(0 .. i - 1)
  BY FS_Interval
<1>2. Ends(c, i) \in SUBSET (0 .. i - 1)
  BY DEF Ends
<1>3. IsFiniteSet(Ends(c, i))
  BY <1>1, <1>2, FS_Subset
<1>4. Before(c, i) = Cardinality(Ends(c, i))
  BY DEF Before, Ends
<1> QED BY <1>3, <1>4, FS_CardinalityType

LEMMA BeforeFacts ==
  ASSUME NEW c, NEW i \in Nat
  PROVE  /\ Before(c, i) \in Nat
         /\ c[i] = Nul => Before(c, i + 1) = Before(c, i) + 1
         /\ \A k \in Nat : i <= k => Before(c, i) <= Before(c, k)
         /\ \A k \in Nat : i <= k /\ (\A j \in i .. k - 1 : c[j] # Nul)
              => Before(c, k) = Before(c, i)
<1>1. /\ IsFiniteSet(Ends(c, i)) /\ Before(c, i) = Cardinality(Ends(c, i))
      /\ Before(c, i) \in Nat
  BY EndsFinite
<1>2. ASSUME c[i] = Nul PROVE Before(c, i + 1) = Before(c, i) + 1
  <2>1. Ends(c, i + 1) = Ends(c, i) \cup {i} /\ i \notin Ends(c, i)
    BY <1>2 DEF Ends
  <2>2. Before(c, i + 1) = Cardinality(Ends(c, i + 1))
    BY EndsFinite
  <2> QED BY <1>1, <2>1, <2>2, FS_AddElement
<1>3. ASSUME NEW k \in Nat, i <= k PROVE Before(c, i) <= Before(c, k)
  <2>1. /\ IsFiniteSet(Ends(c, k)) /\ Before(c, k) = Cardinality(Ends(c, k))
    BY EndsFinite
  <2>2. Ends(c, i) \in SUBSET Ends(c, k)
    BY <1>3 DEF Ends
  <2> QED BY <1>1, <2>1, <2>2, FS_Subset
<1>4. ASSUME NEW k \in Nat, i <= k, \A j \in i .. k - 1 : c[j] # Nul
      PROVE  Before(c, k) = Before(c, i)
  <2>1. Ends(c, k) = Ends(c, i)
    BY <1>4 DEF Ends
  <2>2. Before(c, k) = Cardinality(Ends(c, k))
    BY EndsFinite
  <2> QED BY <1>1, <2>1, <2>2
<1> QED BY <1>1, <1>2, <1>3, <1>4

LEMMA BeforeSame ==
  ASSUME NEW c, NEW i \in Nat, NEW k \in Nat, i <= k,
         \A j \in i .. k - 1 : c[j] # Nul
  PROVE  Before(c, k) = Before(c, i)
BY BeforeFacts, Zenon

LEMMA FieldsFacts ==
  ASSUME NEW c \in Credential, NEW start \in Nat, NEW stop \in Nat
  PROVE  /\ Fields(c, start, stop) \in Seq(Char)
         /\ \A q \in 0 .. Positions : FieldsFrom(c, start, stop)[q] \in Seq(Char)
         /\ \A q \in 0 .. Positions : Before(c, q) >= stop =>
              FieldsFrom(c, start, stop)[q] = <<>>
         /\ \A q \in 0 .. Positions - 1 : c[q] = Nul =>
              FieldsFrom(c, start, stop)[q] = FieldsFrom(c, start, stop)[q + 1]
         /\ \A q \in 0 .. Positions - 1 :
              c[q] # Nul /\ Before(c, q) \in start .. stop - 1 =>
                FieldsFrom(c, start, stop)[q]
                  = Seen(c[q]) \o FieldsFrom(c, start, stop)[q + 1]
<1> DEFINE n == Positions
           part(q) == IF c[q] # Nul /\ Before(c, q) \in start .. stop - 1
                      THEN Seen(c[q]) ELSE <<>>
           parts == [q \in 0 .. n - 1 |-> part(q)]
           f == From(parts, n)
<1>1. n \in Nat /\ n >= 1
  BY Sizes
<1>2. FieldsFrom(c, start, stop) = f
  BY DEF FieldsFrom
<1>3. ASSUME NEW q \in 0 .. n - 1 PROVE part(q) \in Seq(Char)
  <2>1. c[q] \in Char
    BY DEF Credential
  <2> QED BY <2>1, SeenType, EmptySeq
<1>4. /\ parts \in [0 .. n - 1 -> Seq(Char)]
      /\ \A q \in 0 .. n - 1 : parts[q] = part(q)
  BY <1>3
<1> HIDE DEF parts, n
<1>5. /\ \A q \in 0 .. n : f[q] \in Seq(Char)
      /\ \A q \in 0 .. n - 1 : f[q] = parts[q] \o f[q + 1]
  BY <1>1, <1>4, FromFacts
<1>6. ASSUME NEW q \in 0 .. n, Before(c, q) >= stop PROVE f[q] = <<>>
  <2>1. ASSUME NEW i \in q .. n - 1 PROVE parts[i] = <<>>
    <3>1. i \in Nat /\ q \in Nat /\ q <= i /\ i \in 0 .. n - 1
      BY <1>1
    <3>2. Before(c, q) \in Nat /\ Before(c, i) \in Nat /\ Before(c, q) <= Before(c, i)
      BY <3>1, BeforeFacts
    <3>3. Before(c, i) \notin start .. stop - 1
      BY <1>6, <3>2
    <3> QED BY <1>4, <3>1, <3>3
  <2> QED BY <1>1, <1>4, <2>1, FromEmpty
<1> HIDE DEF f
<1>7. ASSUME NEW q \in 0 .. n - 1, c[q] = Nul PROVE f[q] = f[q + 1]
  <2>1. parts[q] = <<>>
    BY <1>4, <1>7
  <2>2. q + 1 \in 0 .. n
    BY <1>1
  <2> QED BY <1>5, <2>1, <2>2, ConcatEmptySeq
<1>8. ASSUME NEW q \in 0 .. n - 1, c[q] # Nul, Before(c, q) \in start .. stop - 1
      PROVE  f[q] = Seen(c[q]) \o f[q + 1]
  <2>1. parts[q] = Seen(c[q])
    BY <1>4, <1>8
  <2> QED BY <1>5, <2>1
<1>9. 0 \in 0 .. n
  BY <1>1
<1> HIDE DEF part
<1> QED BY <1>2, <1>5, <1>6, <1>7, <1>8, <1>9 DEF Fields, n

------------------------------------------------------------------------------
(* What is still to be typed of a slot.                                    *)

Texts == DOMAIN Flash \cup {"userText"}
TextOf(t) == IF t = "userText" THEN userText ELSE Flash[t]

(* The rest of the block of position pos, when it is decrypted already.    *)
Ahead(pos) ==
  LET b == Place(pos)
  IN b # 0 => \A i \in 0 .. BlockSize - 1 - b :
                plain[b + i] = Cred[selected][Wrapped(pos + i)]

(* The next rem characters are those of credential n from position q on.   *)
(* They end with their field (w is 1) or with the block.                   *)
PieceAt(n, q, at, rem, w) ==
  /\ rem \in Nat /\ q + rem < Positions /\ at + rem <= BlockSize
  /\ \A i \in 0 .. rem - 1 : plain[at + i] = Cred[n][q + i] /\ Cred[n][q + i] # Nul
  /\ Before(Cred[n], q) \in crdStart .. crdStop - 1
  /\ counter = Before(Cred[n], q) + w
  /\ position = Wrapped(q + rem + w)
  /\ w = 1 => Cred[n][q + rem] = Nul
  /\ w = 0 => Place(position) = 0
  /\ counter < crdStop => n = selected /\ Ahead(position)

(* With slot s typed to its end, and the pieces after it, an editor that   *)
(* holds scr will show what it should.  While the key of a character is    *)
(* down (down is 1), its slot is past it and still counts it.  A slot with *)
(* no character stands for a flaw.                                         *)
NoText(s, down) == s.text = "nul" /\ s.callback = 1 /\ s.len # 0 /\ down = 0

Text(s, scr) ==
  /\ s.callback = 0 /\ s.text \in Texts /\ s.at <= Len(TextOf(s.text))
  /\ scr \o VisibleFrom(TextOf(s.text))[s.at] = shown

Piece(s, down, scr) ==
  /\ s.callback = 1 /\ s.text = "plain"
  /\ \E n \in Names, q \in 0 .. Positions - 1, w \in {0, 1} :
       /\ PieceAt(n, q, s.at, s.len - down, w)
       /\ scr \o FieldsFrom(Cred[n], crdStart, crdStop)[q] = shown

Gives(s, down, scr) == NoText(s, down) \/ Text(s, scr) \/ Piece(s, down, scr)

LEMMA CountersType ==
  ASSUME TypeOK
  PROVE  counter \in Int /\ crdStop \in Int /\ EOS \in {0, 1} /\ cCount \in Nat
BY DEF TypeOK, CRD_END

LEMMA GivesKept ==
  ASSUME NEW s, NEW down, NEW scr, Gives(s, down, scr),
         UNCHANGED <<userText, plain, position, counter, crdStart, crdStop, shown>>,
         selected' = selected \/ ~(counter < crdStop)
  PROVE  Gives(s, down, scr)'
<1>1. CASE NoText(s, down)
  BY <1>1 DEF Gives, NoText
<1>2. CASE Text(s, scr)
  BY <1>2 DEF Gives, Text, TextOf
<1>3. CASE Piece(s, down, scr)
  <2>1. PICK n \in Names, q \in 0 .. Positions - 1, w \in {0, 1} :
          /\ PieceAt(n, q, s.at, s.len - down, w)
          /\ scr \o FieldsFrom(Cred[n], crdStart, crdStop)[q] = shown
    BY <1>3 DEF Piece
  <2>2. PICK r : r = s.len - down
    OBVIOUS
  <2>3. PieceAt(n, q, s.at, r, w)'
    BY <2>1, <2>2 DEF PieceAt, Ahead
  <2>4. Piece(s, down, scr)'
    BY <1>3, <2>1, <2>2, <2>3 DEF Piece
  <2> QED BY <2>4 DEF Gives
<1> QED BY <1>1, <1>2, <1>3 DEF Gives

LEMMA TextOfType ==
  ASSUME TypeOK, NEW t \in Texts
  PROVE  /\ TextOf(t) \in Seq(Char \ {Nul}) /\ TextOf(t) \in Seq(Char)
         /\ t \notin {"plain", "nul"} /\ t \in Sources
         /\ \A i : Byte(t, i) = At(TextOf(t), i)
<1>1. TextOf(t) \in Seq(Char \ {Nul})
  BY TypingAssumption DEF Texts, TextOf, TypeOK
<1>2. t \notin {"plain", "nul"} /\ t \in Sources
  BY TypingAssumption DEF Texts, Sources
<1>3. ASSUME NEW i PROVE Byte(t, i) = At(TextOf(t), i)
  <2>1. CASE t = "userText"
    <3>1. Byte("userText", i) = At(userText, i) /\ TextOf("userText") = userText
      BY DEF Byte, TextOf
    <3> QED BY <2>1, <3>1
  <2>2. CASE t # "userText"
    <3>1. Byte(t, i) = At(Flash[t], i) /\ TextOf(t) = Flash[t]
      BY <1>2, <2>2 DEF Byte, TextOf
    <3> QED BY <3>1
  <2> QED BY <2>1, <2>2
<1> QED BY <1>1, <1>2, <1>3, Sizes

(* The end of a text is reached when it has no character left.             *)
LEMMA TextByte ==
  ASSUME NEW t \in Seq(Char \ {Nul}), NEW i \in Nat, i <= Len(t)
  PROVE  /\ i < Len(t) => At(t, i) = t[i + 1] /\ At(t, i) # Nul
         /\ At(t, i) = Nul => i = Len(t)
<1>1. i < Len(t) => t[i + 1] \in Char \ {Nul}
  <2>1. i < Len(t) => i + 1 \in 1 .. Len(t)
    OBVIOUS
  <2> QED BY <2>1
<1> QED BY <1>1 DEF At

LEMMA Associative ==
  ASSUME NEW x \in Seq(Char), NEW y \in Seq(Char), NEW z \in Seq(Char)
  PROVE  (x \o y) \o z = x \o (y \o z)
BY ConcatAssociative

LEMMA OneLess ==
  ASSUME NEW q \in Nat, NEW l \in Nat, NEW p \in Nat, NEW w \in {0, 1},
         NEW N \in Nat, NEW B \in Nat, q + (l + 1) < N, p + (l + 1) <= B
  PROVE  /\ q + 0 = q /\ p + 0 = p /\ 0 \in 0 .. (l + 1) - 1 /\ p < B
         /\ q \in 0 .. N - 1 /\ q + 1 \in 0 .. N - 1
         /\ q + 1 \in Nat /\ q + 1 \in 0 .. N
         /\ (q + 1) + l < N /\ (p + 1) + l <= B /\ (q + 1) + l = q + (l + 1)
         /\ (q + 1) + l + w = q + (l + 1) + w
         /\ \A i \in 0 .. l - 1 : /\ i + 1 \in 0 .. (l + 1) - 1
                                /\ (p + 1) + i = p + (i + 1)
                                /\ (q + 1) + i = q + (i + 1)
OBVIOUS

(* One character of the slot goes to the editor.                           *)
LEMMA GivesNext ==
  ASSUME TypeOK, NEW s \in SlotType, NEW scr \in Seq(Char), NEW a \in Char,
         a = Byte(s.text, s.at), a # Nul, ~(s.callback # 0 /\ s.len = 0),
         Gives(s, 0, scr)
  PROVE  Gives([s EXCEPT !.at = @ + 1], 1, scr \o Seen(a))
<1> DEFINE z == [s EXCEPT !.at = @ + 1]
<1>1. /\ z.at = s.at + 1 /\ z.text = s.text /\ z.len = s.len
      /\ z.callback = s.callback
      /\ s.at \in Nat /\ s.len \in Nat
  BY Sizes DEF SlotType
<1> HIDE DEF z
<1>2. Seen(a) \in Seq(Char)
  BY SeenType
<1>3. ~NoText(s, 0)
  <2>1. s.text = "nul" => Byte(s.text, s.at) = Nul
    BY DEF Byte
  <2> QED BY <2>1 DEF NoText
<1>4. CASE Text(s, scr)
  <2>1. PICK t : t = TextOf(s.text)
    OBVIOUS
  <2>2. /\ t \in Seq(Char \ {Nul}) /\ t \in Seq(Char) /\ s.at <= Len(t)
        /\ a = At(t, s.at) /\ scr \o VisibleFrom(t)[s.at] = shown
    BY <1>4, <2>1, TextOfType DEF Text
  <2>3. Len(t) \in Nat /\ s.at # Len(t)
    BY <1>1, <2>2, LenProperties DEF At
  <2>4. s.at < Len(t)
    BY <1>1, <2>2, <2>3
  <2>5. a = t[s.at + 1]
    BY <1>1, <2>2, <2>4, TextByte
  <2>6. /\ VisibleFrom(t)[s.at] = Seen(a) \o VisibleFrom(t)[s.at + 1]
        /\ VisibleFrom(t)[s.at + 1] \in Seq(Char)
    <3>1. s.at \in 0 .. Len(t) - 1 /\ s.at + 1 \in 0 .. Len(t)
      BY <1>1, <2>3, <2>4
    <3> QED BY <2>2, <2>5, <3>1, VisibleFacts
  <2>7. (scr \o Seen(a)) \o VisibleFrom(t)[s.at + 1] = shown
    <3>1. PICK y, r, v, h : /\ y = Seen(a) /\ r = VisibleFrom(t)[s.at + 1]
                            /\ v = VisibleFrom(t)[s.at] /\ h = shown
      OBVIOUS
    <3>2. y \in Seq(Char) /\ r \in Seq(Char) /\ v = y \o r /\ scr \o v = h
      BY <1>2, <2>2, <2>6, <3>1
    <3>3. (scr \o y) \o r = scr \o (y \o r)
      BY <3>2, Associative, Zenon
    <3>4. scr \o (y \o r) = h
      BY <3>2, Zenon
    <3> QED BY <3>1, <3>3, <3>4, Zenon
  <2>8. z.at <= Len(t)
    BY <1>1, <2>3, <2>4
  <2>9. Text(z, scr \o Seen(a))
    BY <1>1, <1>4, <2>1, <2>7, <2>8 DEF Text
  <2> QED BY <2>9 DEF Gives, z
<1>5. CASE Piece(s, 0, scr)
  <2>1. PICK n \in Names, q \in 0 .. Positions - 1, w \in {0, 1} :
          /\ PieceAt(n, q, s.at, s.len - 0, w)
          /\ scr \o FieldsFrom(Cred[n], crdStart, crdStop)[q] = shown
    BY <1>5 DEF Piece
  <2>2. PICK c \in Credential : c = Cred[n]
    BY Sizes DEF Credential
  <2>3. /\ s.callback = 1 /\ s.text = "plain" /\ s.len > 0
    BY <1>1, <1>5 DEF Piece
  <2>4. PICK l \in Nat, p \in Nat : /\ l = s.len - 1 /\ p = s.at
                                   /\ s.len = l + 1
    BY <1>1, <2>3
  <2>5. /\ PieceAt(n, q, p, l + 1, w) /\ a = Byte("plain", p)
        /\ q \in Nat /\ Positions \in Nat /\ BlockSize \in Nat
    BY <2>1, <2>3, <2>4, Sizes
  <2>6. /\ q + (l + 1) < Positions /\ p + (l + 1) <= BlockSize
        /\ \A i \in 0 .. (l + 1) - 1 : plain[p + i] = c[q + i] /\ c[q + i] # Nul
        /\ Before(c, q) \in crdStart .. crdStop - 1
        /\ counter = Before(c, q) + w
        /\ position = Wrapped(q + (l + 1) + w)
        /\ w = 1 => c[q + (l + 1)] = Nul
        /\ w = 0 => Place(position) = 0
        /\ counter < crdStop => n = selected /\ Ahead(position)
    BY <2>2, <2>5 DEF PieceAt
  <2>7. /\ q + 0 = q /\ p + 0 = p /\ 0 \in 0 .. (l + 1) - 1 /\ p < BlockSize
        /\ q \in 0 .. Positions - 1 /\ q + 1 \in 0 .. Positions - 1
        /\ q + 1 \in Nat /\ q + 1 \in 0 .. Positions
        /\ (q + 1) + l < Positions /\ (p + 1) + l <= BlockSize
        /\ (q + 1) + l = q + (l + 1) /\ (q + 1) + l + w = q + (l + 1) + w
        /\ \A i \in 0 .. l - 1 : /\ i + 1 \in 0 .. (l + 1) - 1
                               /\ (p + 1) + i = p + (i + 1)
                               /\ (q + 1) + i = q + (i + 1)
    BY <2>5, <2>6, OneLess
  <2>8. a = c[q] /\ c[q] # Nul
    <3>1. Byte("plain", p) = IF p < BlockSize THEN plain[p] ELSE Nul
      BY DEF Byte
    <3>2. plain[p + 0] = c[q + 0] /\ c[q + 0] # Nul
      BY <2>6, <2>7
    <3> QED BY <2>5, <2>7, <3>1, <3>2
  <2>9. Before(c, q + 1) = Before(c, q)
    <3>1. \A j \in q .. (q + 1) - 1 : c[j] # Nul
      BY <2>5, <2>8
    <3>2. q + 1 \in Nat /\ q <= q + 1
      BY <2>5
    <3> QED BY <2>5, <3>1, <3>2, BeforeSame
  <2>10. ASSUME NEW i \in 0 .. l - 1
         PROVE  plain[(p + 1) + i] = c[(q + 1) + i] /\ c[(q + 1) + i] # Nul
    <3>1. plain[p + (i + 1)] = c[q + (i + 1)] /\ c[q + (i + 1)] # Nul
      BY <2>6, <2>7
    <3> QED BY <2>7, <3>1
  <2>11. PieceAt(n, q + 1, p + 1, l, w)
    BY <2>2, <2>6, <2>7, <2>9, <2>10 DEF PieceAt
  <2>12. /\ FieldsFrom(c, crdStart, crdStop)[q]
              = Seen(a) \o FieldsFrom(c, crdStart, crdStop)[q + 1]
         /\ FieldsFrom(c, crdStart, crdStop)[q + 1] \in Seq(Char)
    <3>1. PICK b \in Nat, e \in Nat : b = crdStart /\ e = crdStop
      BY DEF TypeOK, CRD_END
    <3>2. PICK f : f = FieldsFrom(c, b, e)
      OBVIOUS
    <3>3. /\ \A i \in 0 .. Positions : f[i] \in Seq(Char)
          /\ \A i \in 0 .. Positions - 1 :
               c[i] # Nul /\ Before(c, i) \in b .. e - 1 => f[i] = Seen(c[i]) \o f[i + 1]
      BY <3>2, FieldsFacts, Zenon
    <3>4. c[q] # Nul /\ Before(c, q) \in b .. e - 1
      BY <2>6, <2>8, <3>1
    <3>5. f[q + 1] \in Seq(Char) /\ f[q] = Seen(a) \o f[q + 1]
      BY <2>7, <2>8, <3>3, <3>4
    <3> QED BY <3>1, <3>2, <3>5
  <2>13. (scr \o Seen(a)) \o FieldsFrom(c, crdStart, crdStop)[q + 1] = shown
    <3>1. PICK y, r, v, h : /\ y = Seen(a) /\ h = shown
                            /\ r = FieldsFrom(c, crdStart, crdStop)[q + 1]
                            /\ v = FieldsFrom(c, crdStart, crdStop)[q]
      OBVIOUS
    <3>2. y \in Seq(Char) /\ r \in Seq(Char) /\ v = y \o r /\ scr \o v = h
      BY <1>2, <2>1, <2>2, <2>12, <3>1
    <3>3. (scr \o y) \o r = scr \o (y \o r)
      BY <3>2, Associative, Zenon
    <3>4. scr \o (y \o r) = h
      BY <3>2, Zenon
    <3> QED BY <3>1, <3>3, <3>4, Zenon
  <2>14. Piece(z, 1, scr \o Seen(a))
    <3>1. z.at = p + 1 /\ z.len - 1 = l
      BY <1>1, <2>4
    <3> QED BY <1>1, <2>2, <2>3, <2>7, <2>11, <2>13, <3>1 DEF Piece
  <2> QED BY <2>14 DEF Gives, z
<1> QED BY <1>3, <1>4, <1>5 DEF Gives

(* The key of a character goes up.                                         *)
LEMMA GivesUp ==
  ASSUME NEW s \in SlotType, NEW scr, Gives(s, 1, scr)
  PROVE  Gives([s EXCEPT !.len = IF @ > 0 THEN @ - 1 ELSE @], 0, scr)
<1> DEFINE z == [s EXCEPT !.len = IF @ > 0 THEN @ - 1 ELSE @]
<1>1. /\ z.at = s.at /\ z.text = s.text /\ z.callback = s.callback
      /\ z.len = IF s.len > 0 THEN s.len - 1 ELSE s.len
      /\ s.len \in Nat
  BY Sizes DEF SlotType
<1> HIDE DEF z
<1>2. CASE Text(s, scr)
  <2>1. Text(z, scr)
    BY <1>1, <1>2 DEF Text
  <2> QED BY <2>1 DEF Gives, z
<1>3. CASE Piece(s, 1, scr)
  <2>1. PICK n \in Names, q \in 0 .. Positions - 1, w \in {0, 1} :
          /\ PieceAt(n, q, s.at, s.len - 1, w)
          /\ scr \o FieldsFrom(Cred[n], crdStart, crdStop)[q] = shown
    BY <1>3 DEF Piece
  <2>2. s.len - 1 \in Nat
    BY <2>1 DEF PieceAt
  <2>3. z.len - 0 = s.len - 1
    BY <1>1, <2>2
  <2>4. Piece(z, 0, scr)
    BY <1>1, <1>3, <2>1, <2>3 DEF Piece
  <2> QED BY <2>4 DEF Gives, z
<1> QED BY <1>2, <1>3 DEF Gives, NoText

(* A text without a character left is shown.                               *)
LEMMA GivesAll ==
  ASSUME TypeOK, NEW s \in SlotType, NEW scr \in Seq(Char), Gives(s, 0, scr),
         s.callback = 0, Byte(s.text, s.at) = Nul
  PROVE  scr = shown
<1>1. Text(s, scr)
  BY DEF Gives, NoText, Piece
<1>2. PICK t : t = TextOf(s.text)
  OBVIOUS
<1>3. /\ t \in Seq(Char \ {Nul}) /\ t \in Seq(Char) /\ s.at <= Len(t)
      /\ At(t, s.at) = Nul /\ scr \o VisibleFrom(t)[s.at] = shown
  BY <1>1, <1>2, TextOfType DEF Text
<1>4. s.at \in Nat
  BY DEF SlotType
<1>5. s.at = Len(t)
  BY <1>3, <1>4, TextByte
<1>6. VisibleFrom(t)[s.at] = <<>>
  BY <1>3, <1>5, VisibleFacts
<1> QED BY <1>3, <1>6, ConcatEmptySeq

(* The next size bytes of a block are those of a field.                    *)
Agrees(P, b, c, pos, size) ==
  \A i \in 0 .. size - 1 : P[b + i] = c[Wrapped(pos + i)] /\ P[b + i] # Nul
Within(c, pos, size) == \A i \in 0 .. size - 1 : c[pos + i] # Nul

(* No field reaches behind the end of the credential.                      *)
LEMMA FieldFits ==
  ASSUME NEW c \in Credential, NEW pos \in 0 .. Positions - 1, NEW size \in Nat,
         NEW P, NEW b \in Nat, Before(c, pos) < Before(c, Positions),
         Agrees(P, b, c, pos, size)
  PROVE  /\ pos + size < Positions
         /\ \A i \in 0 .. size - 1 : P[b + i] = c[pos + i] /\ c[pos + i] # Nul
<1>1. pos \in Nat /\ Positions \in Nat /\ Positions >= 1
  BY Sizes
<1>2. \A x \in 0 .. Positions - 1 : Wrapped(x) = x
  BY <1>1, PlaceFacts
<1>3. CASE pos + size < Positions
  <2>1. ASSUME NEW i \in 0 .. size - 1
        PROVE  P[b + i] = c[pos + i] /\ c[pos + i] # Nul
    <3>1. pos + i \in 0 .. Positions - 1
      BY <1>1, <1>3
    <3>2. Wrapped(pos + i) = pos + i
      BY <1>2, <3>1
    <3>3. P[b + i] = c[Wrapped(pos + i)] /\ P[b + i] # Nul
      BY DEF Agrees
    <3> QED BY <3>2, <3>3
  <2> QED BY <1>3, <2>1
<1>4. CASE pos + size >= Positions
  <2>1. ASSUME NEW j \in pos .. Positions - 1 PROVE c[j] # Nul
    <3>1. PICK i \in 0 .. size - 1 : pos + i = j
      <4>1. j - pos \in 0 .. size - 1 /\ pos + (j - pos) = j
        BY <1>1, <1>4
      <4> QED BY <4>1
    <3>2. j \in 0 .. Positions - 1
      BY <1>1
    <3>3. Wrapped(pos + i) = j
      BY <1>2, <3>1, <3>2
    <3>4. P[b + i] = c[Wrapped(pos + i)] /\ P[b + i] # Nul
      BY DEF Agrees
    <3> QED BY <3>3, <3>4
  <2>2. Before(c, Positions) = Before(c, pos)
    BY <1>1, <2>1, BeforeSame
  <2>3. Before(c, pos) \in Nat
    BY <1>1, BeforeFacts
  <2> QED BY <2>2, <2>3
<1> QED BY <1>1, <1>3, <1>4

LEMMA FieldsEnd ==
  ASSUME NEW n \in Names
  PROVE  Cred[n] \in Credential /\ Before(Cred[n], Positions) >= CRD_END
BY TypingAssumption DEF Credential, Before

(* Where the next piece begins.                                            *)
LEMMA PieceEnd ==
  ASSUME NEW c \in Credential, Before(c, Positions) >= CRD_END,
         NEW pos \in 0 .. Positions - 1, NEW size \in Nat, NEW w \in {0, 1},
         pos + size < Positions, Within(c, pos, size), w = 1 => c[pos + size] = Nul
  PROVE  /\ Before(c, pos + size + w) = Before(c, pos) + w
         /\ Before(c, pos) + w < CRD_END =>
              /\ pos + size + w \in 0 .. Positions - 1
              /\ Wrapped(pos + size + w) = pos + size + w
<1>1. pos \in Nat /\ Positions \in Nat /\ pos + size \in Nat
  BY Sizes
<1>2. Before(c, pos + size) = Before(c, pos)
  <2>1. ASSUME NEW j \in pos .. (pos + size) - 1 PROVE c[j] # Nul
    <3>1. PICK i \in 0 .. size - 1 : pos + i = j
      <4>1. j - pos \in 0 .. size - 1 /\ pos + (j - pos) = j
        BY <1>1
      <4> QED BY <4>1
    <3> QED BY <3>1 DEF Within
  <2>2. pos <= pos + size
    BY <1>1
  <2> QED BY <1>1, <2>1, <2>2, BeforeSame
<1>3. Before(c, pos) \in Nat
  BY <1>1, BeforeFacts
<1>4. CASE w = 0
  <2>1. pos + size + w = pos + size /\ Before(c, pos) + w = Before(c, pos)
    BY <1>1, <1>3, <1>4
  <2>2. pos + size \in 0 .. Positions - 1
    BY <1>1
  <2>3. Wrapped(pos + size) = pos + size
    BY <1>1, <2>2, PlaceFacts
  <2> QED BY <1>2, <2>1, <2>2, <2>3
<1>5. CASE w = 1
  <2>1. PICK e \in Nat : e = pos + size
    BY <1>1
  <2>2. pos + size + w = e + 1 /\ e + 1 <= Positions
    BY <1>1, <1>5, <2>1
  <2>3. c[e] = Nul
    BY <1>5, <2>1
  <2>4. Before(c, e + 1) = Before(c, e) + 1
    BY <2>3, BeforeFacts
  <2>5. Before(c, e + 1) = Before(c, pos) + w
    BY <1>2, <1>5, <2>1, <2>4
  <2>6. ASSUME Before(c, pos) + w < CRD_END
        PROVE  e + 1 \in 0 .. Positions - 1 /\ Wrapped(e + 1) = e + 1
    <3>1. e + 1 # Positions
      <4>1. SUFFICES ASSUME e + 1 = Positions PROVE FALSE
        OBVIOUS
      <4>2. Before(c, Positions) = Before(c, pos) + w
        BY <2>5, <4>1
      <4> QED BY <1>3, <2>6, <4>2 DEF CRD_END
    <3>2. e + 1 \in 0 .. Positions - 1
      BY <1>1, <2>2, <3>1
    <3> QED BY <1>1, <3>2, PlaceFacts
  <2> QED BY <2>2, <2>5, <2>6
<1> QED BY <1>4, <1>5

(* A piece that is fetched stands for the rest of its field or of its      *)
(* block, and the rest of the block for what follows in the credential.    *)
LEMMA NextPiece ==
  ASSUME NEW c \in Credential, Before(c, Positions) >= CRD_END,
         NEW pos \in 0 .. Positions - 1, Before(c, pos) < CRD_END,
         NEW b, b = Place(pos), NEW P,
         \A i \in 0 .. BlockSize - 1 - b : P[b + i] = c[Wrapped(pos + i)],
         NEW size, size = SizeIn(P, b), NEW w, w = WholeIn(P, b),
         NEW y, y = Wrapped(pos + size + w), NEW z, z = Place(y)
  PROVE  /\ b \in Nat /\ size \in 0 .. BlockSize /\ w \in {0, 1}
         /\ pos + size < Positions /\ b + size <= BlockSize
         /\ \A i \in 0 .. size - 1 : P[b + i] = c[pos + i] /\ c[pos + i] # Nul
         /\ w = 1 => c[pos + size] = Nul
         /\ w = 0 => z = 0
         /\ Before(c, pos) + w < CRD_END /\ z # 0 =>
              \A i \in 0 .. BlockSize - 1 - z : P[z + i] = c[Wrapped(y + i)]
<1>1. /\ pos \in Nat /\ Positions \in Nat /\ BlockSize \in Nat /\ BlockSize >= 1
      /\ CRD_END \in Nat
  BY Sizes DEF CRD_END
<1>2. b \in 0 .. BlockSize - 1 /\ b \in Nat
  BY <1>1, PlaceFacts
<1>3. /\ size \in Nat /\ b + size <= BlockSize
      /\ \A i \in 0 .. size - 1 : P[b + i] # Nul
      /\ w \in {0, 1}
      /\ w = 1 => b + size < BlockSize /\ P[b + size] = Nul
      /\ w = 0 => b + size = BlockSize
  BY <1>2, Cut
<1>4. /\ pos + size < Positions
      /\ \A i \in 0 .. size - 1 : P[b + i] = c[pos + i] /\ c[pos + i] # Nul
  <2>1. \A i \in 0 .. size - 1 : i \in 0 .. BlockSize - 1 - b
    BY <1>1, <1>2, <1>3
  <2>2. Agrees(P, b, c, pos, size)
    BY <1>3, <2>1 DEF Agrees
  <2>3. Before(c, pos) < Before(c, Positions)
    <3>1. Before(c, Positions) \in Nat /\ Before(c, pos) \in Nat
      BY <1>1, BeforeFacts
    <3> QED BY <1>1, <3>1
  <2>4. size \in Nat /\ b \in Nat
    BY <1>2, <1>3
  <2> QED BY <2>2, <2>3, <2>4, FieldFits
<1>5. w = 1 => c[pos + size] = Nul
  <2>1. ASSUME w = 1 PROVE c[pos + size] = Nul
    <3>1. size \in 0 .. BlockSize - 1 - b
      BY <1>1, <1>2, <1>3, <2>1
    <3>2. Wrapped(pos + size) = pos + size
      BY <1>1, <1>3, <1>4, PlaceFacts
    <3> QED BY <1>3, <2>1, <3>1, <3>2
  <2> QED BY <2>1
<1>6. ASSUME NEW d \in Nat, b + d <= BlockSize, y = pos + d
      PROVE  z = IF b + d = BlockSize THEN 0 ELSE b + d
  <2>1. z = Place(pos + d)
    BY <1>6
  <2> QED BY <1>1, <1>2, <1>6, <2>1, PlaceFacts
<1>7. w = 0 => z = 0
  <2>1. ASSUME w = 0 PROVE z = 0
    <3>1. pos + size + w = pos + size /\ Wrapped(pos + size) = pos + size
      BY <1>1, <1>3, <1>4, <2>1, PlaceFacts
    <3>2. y = pos + size
      BY <3>1
    <3> QED BY <1>3, <1>6, <2>1, <3>2
  <2> QED BY <2>1
<1>8. ASSUME Before(c, pos) + w < CRD_END, z # 0, NEW i \in 0 .. BlockSize - 1 - z
      PROVE  P[z + i] = c[Wrapped(y + i)]
  <2>1. w = 1
    BY <1>3, <1>7, <1>8
  <2>2. PICK d \in Nat : d = size + 1
    BY <1>3
  <2>3. y = pos + d
    <3>1. Within(c, pos, size)
      BY <1>4 DEF Within
    <3>2. Wrapped(pos + size + w) = pos + size + w
      <4>1. /\ size \in Nat /\ w \in {0, 1} /\ pos + size < Positions
            /\ w = 1 => c[pos + size] = Nul
        BY <1>3, <1>4, <1>5
      <4> QED BY <1>8, <3>1, <4>1, PieceEnd
    <3> QED BY <1>1, <1>3, <2>1, <2>2, <3>2
  <2>4. z = b + d /\ b + d < BlockSize
    <3>1. b + d <= BlockSize
      BY <1>1, <1>2, <1>3, <2>1, <2>2
    <3>2. z = IF b + d = BlockSize THEN 0 ELSE b + d
      BY <1>6, <2>3, <3>1
    <3>3. b + d # BlockSize
      BY <1>8, <3>2
    <3> QED BY <1>1, <1>2, <3>1, <3>2, <3>3
  <2>5. /\ d + i \in 0 .. BlockSize - 1 - b
        /\ b + (d + i) = z + i /\ pos + (d + i) = y + i
    BY <1>1, <1>2, <2>3, <2>4
  <2>6. P[b + (d + i)] = c[Wrapped(pos + (d + i))]
    BY <2>5
  <2> QED BY <2>5, <2>6
<1>9. size \in 0 .. BlockSize
  BY <1>1, <1>2, <1>3
<1> QED BY <1>2, <1>3, <1>4, <1>5, <1>7, <1>8, <1>9

(* ... as it is in CRD_apply.                                              *)
LEMMA ApplyPiece ==
  ASSUME TypeOK, NEW n \in Names, n = selected, selected' = selected, NEW buf,
         NEW pos \in 0 .. Positions - 1, NEW cnt \in Nat, NEW start \in Nat,
         NEW stop \in 0 .. CRD_END, cnt < stop, cnt = Before(Cred[n], pos),
         Ahead(pos), CRD_apply(buf, pos, cnt, start, stop)
  PROVE  \E slot \in SlotType :
           /\ slot.info = "FULL" /\ slot.callback = 1
           /\ strBuf' = Queued(buf, slot)
           /\ \/ NoText(slot, 0)
              \/ /\ slot.text = "plain"
                 /\ \E w \in {0, 1} : PieceAt(n, pos, slot.at, slot.len - 0, w)'
<1> DEFINE place == Place(pos)
           left == SizeIn(plain', place)
           more == WholeIn(plain', place)
           made == IF cnt >= start /\ left # 0 THEN Slot("plain", place, left)
                                              ELSE Slot("nul", 0, 1)
<1>1. /\ plain' = IF place = 0 THEN Block(pos) ELSE plain
      /\ strBuf' = Queued(buf, made)
      /\ counter' = cnt + more
      /\ position' = Wrapped(pos + left + more)
      /\ crdStart' = start /\ crdStop' = stop
  BY DEF CRD_apply, CRD_END, Block, EndsIn, SizeIn, WholeIn, Place, Wrapped
<1>2. PICK b, size, w, slot, P, y, z :
        /\ b = place /\ size = left /\ w = more /\ slot = made
        /\ P = plain' /\ y = position' /\ z = Place(y)
  OBVIOUS
<1>3. b = Place(pos) /\ size = SizeIn(P, b) /\ w = WholeIn(P, b)
      /\ z = Place(y)
  BY <1>2
<1>4. slot = IF cnt >= start /\ size # 0 THEN Slot("plain", b, size)
                                        ELSE Slot("nul", 0, 1)
  BY <1>2
<1>5. /\ P = IF b = 0 THEN Block(pos) ELSE plain
      /\ P = plain' /\ y = position'
      /\ strBuf' = Queued(buf, slot)
      /\ counter' = cnt + w
      /\ y = Wrapped(pos + size + w)
      /\ crdStart' = start /\ crdStop' = stop
  BY <1>1, <1>2
<1> HIDE DEF place, left, more, made
<1>6. PICK c \in Credential : c = Cred[n] /\ Before(c, Positions) >= CRD_END
  BY FieldsEnd
<1>7. /\ pos \in Nat /\ BlockSize \in Nat /\ BlockSize >= 1
      /\ stop \in Nat /\ stop <= CRD_END /\ CRD_END \in Nat
  BY Sizes DEF CRD_END
<1>8. \A i \in 0 .. BlockSize - 1 - b : P[b + i] = c[Wrapped(pos + i)]
  <2>1. CASE b = 0
    <3>1. P = [i \in 0 .. BlockSize - 1 |-> c[Wrapped(pos + i)]]
      BY <1>5, <1>6, <2>1 DEF Block, Wrapped
    <3>2. \A i \in 0 .. BlockSize - 1 - b : i \in 0 .. BlockSize - 1 /\ b + i = i
      BY <1>7, <2>1
    <3> QED BY <3>1, <3>2
  <2>2. CASE b # 0
    BY <1>3, <1>5, <1>6, <2>2 DEF Ahead
  <2> QED BY <2>1, <2>2
<1>9. /\ b \in Nat /\ size \in 0 .. BlockSize /\ w \in {0, 1}
      /\ pos + size < Positions /\ b + size <= BlockSize
      /\ \A i \in 0 .. size - 1 : P[b + i] = c[pos + i] /\ c[pos + i] # Nul
      /\ w = 1 => c[pos + size] = Nul
      /\ w = 0 => z = 0
      /\ Before(c, pos) + w < CRD_END /\ z # 0 =>
           \A i \in 0 .. BlockSize - 1 - z : P[z + i] = c[Wrapped(y + i)]
  <2>1. Before(c, pos) < CRD_END
    BY <1>6, <1>7
  <2> QED BY <1>3, <1>5, <1>6, <1>8, <2>1, NextPiece
<1>10. counter' < stop => Ahead(position)'
  <2>1. counter' < stop => Before(c, pos) + w < CRD_END
    BY <1>5, <1>6, <1>7, <1>9
  <2>2. Cred[selected'] = c
    BY <1>6
  <2>3. z = Place(position)'
    BY <1>3, <1>5
  <2> QED BY <1>5, <1>9, <2>1, <2>2, <2>3 DEF Ahead
<1>11. CASE cnt >= start /\ size # 0
  <2>1. slot = Slot("plain", b, size)
    BY <1>4, <1>11
  <2>2. "plain" \in Sources /\ size - 0 = size /\ size \in Nat
    BY <1>7, <1>9 DEF Sources
  <2>3. slot \in SlotType /\ slot.info = "FULL" /\ slot.callback = 1
    BY <1>9, <1>11, <2>1, <2>2, SlotMade
  <2>4. slot.text = "plain" /\ slot.at = b /\ slot.len - 0 = size
    BY <2>1, <2>2 DEF Slot
  <2>5. PieceAt(n, pos, b, size, w)'
    <3>1. Before(c, pos) \in crdStart' .. crdStop' - 1
      BY <1>5, <1>6, <1>7, <1>11
    <3>2. counter' = Before(c, pos) + w
      BY <1>5, <1>6
    <3>3. counter' < crdStop' => n = selected' /\ Ahead(position)'
      BY <1>5, <1>10
    <3>4. z = Place(position)'
      BY <1>3, <1>5
    <3> QED BY <1>5, <1>6, <1>9, <2>2, <3>1, <3>2, <3>3, <3>4 DEF PieceAt
  <2>6. PieceAt(n, pos, slot.at, slot.len - 0, w)'
    BY <2>4, <2>5
  <2> QED BY <1>5, <1>9, <2>3, <2>4, <2>6
<1>12. CASE ~(cnt >= start /\ size # 0)
  <2>1. slot = Slot("nul", 0, 1)
    BY <1>4, <1>12
  <2>2. "nul" \in Sources /\ 0 \in Nat /\ 1 \in 0 .. BlockSize /\ 1 # 0
    BY <1>7 DEF Sources
  <2>3. slot \in SlotType /\ slot.info = "FULL" /\ slot.callback = 1
    BY <2>1, <2>2, SlotMade
  <2>4. NoText(slot, 0)
    BY <2>1, <2>3 DEF NoText, Slot
  <2> QED BY <1>5, <2>3, <2>4
<1> QED BY <1>11, <1>12

(* A piece is typed: what is still to be shown begins where the next one   *)
(* does.                                                                   *)
LEMMA PieceDone ==
  ASSUME TypeOK, NEW n \in Names, NEW q \in 0 .. Positions - 1, NEW w \in {0, 1},
         NEW at, NEW rem, rem = 0, PieceAt(n, q, at, rem, w), NEW f,
         f = FieldsFrom(Cred[n], crdStart, crdStop)
  PROVE  /\ counter < crdStop => /\ n = selected /\ Ahead(position)
                                 /\ counter = Before(Cred[n], position)
                                 /\ f[position] = f[q]
         /\ ~(counter < crdStop) => f[q] = <<>>
<1>1. PICK c \in Credential : c = Cred[n] /\ Before(c, Positions) >= CRD_END
  BY FieldsEnd
<1>2. /\ q \in Nat /\ q < Positions /\ q + 0 = q /\ Positions \in Nat
      /\ q \in 0 .. Positions
      /\ Before(c, q) \in crdStart .. crdStop - 1
      /\ counter = Before(c, q) + w
      /\ position = Wrapped(q + 0 + w)
      /\ w = 1 => c[q + 0] = Nul
      /\ counter < crdStop => n = selected /\ Ahead(position)
  BY <1>1, Sizes DEF PieceAt
<1>3. PICK start \in Nat, stop \in 0 .. CRD_END :
        start = crdStart /\ stop = crdStop /\ stop \in Nat /\ stop <= CRD_END
  <2>1. crdStart \in 0 .. CRD_END /\ crdStop \in 0 .. CRD_END
    BY DEF TypeOK
  <2>2. \A x \in 0 .. CRD_END : x \in Nat /\ x <= CRD_END
    BY DEF CRD_END
  <2> QED BY <2>1, <2>2
<1>4. f = FieldsFrom(c, start, stop)
  BY <1>1, <1>3
<1>5. /\ \A i \in 0 .. Positions : Before(c, i) >= stop => f[i] = <<>>
      /\ \A i \in 0 .. Positions - 1 : c[i] = Nul => f[i] = f[i + 1]
  <2>1. PICK g : g = FieldsFrom(c, start, stop)
    OBVIOUS
  <2>2. /\ \A i \in 0 .. Positions : Before(c, i) >= stop => g[i] = <<>>
        /\ \A i \in 0 .. Positions - 1 : c[i] = Nul => g[i] = g[i + 1]
    BY <1>3, <2>1, FieldsFacts
  <2> QED BY <1>4, <2>1, <2>2
<1>6. /\ Before(c, q + 0 + w) = Before(c, q) + w
      /\ Before(c, q) + w < CRD_END => /\ q + 0 + w \in 0 .. Positions - 1
                                       /\ Wrapped(q + 0 + w) = q + 0 + w
  <2>1. 0 \in Nat /\ Within(c, q, 0)
    BY DEF Within
  <2>2. q + 0 < Positions
    BY <1>2
  <2> QED BY <1>1, <1>2, <2>1, <2>2, PieceEnd
<1>7. PICK e \in Nat : e = q + 0 + w /\ e \in 0 .. Positions
  BY <1>2
<1>8. f[e] = f[q]
  <2>1. CASE w = 0
    <3>1. e = q
      BY <1>2, <1>7, <2>1
    <3> QED BY <3>1
  <2>2. CASE w = 1
    <3>1. e = q + 1 /\ c[q] = Nul
      BY <1>2, <1>7, <2>2
    <3> QED BY <1>5, <3>1
  <2> QED BY <2>1, <2>2
<1>9. Before(c, e) = counter
  BY <1>2, <1>6, <1>7
<1>10. ASSUME counter < crdStop
       PROVE  counter = Before(Cred[n], position) /\ f[position] = f[q]
  <2>1. Before(c, q) + w < CRD_END
    BY <1>2, <1>3, <1>10 DEF CRD_END
  <2>2. position = e
    BY <1>2, <1>6, <1>7, <2>1
  <2> QED BY <1>1, <1>8, <1>9, <2>2
<1>11. ASSUME ~(counter < crdStop) PROVE f[q] = <<>>
  <2>1. counter \in Int /\ stop \in Int
    BY <1>3, CountersType
  <2>2. Before(c, e) >= stop
    BY <1>3, <1>9, <1>11, <2>1
  <2> QED BY <1>5, <1>7, <1>8, <2>2
<1> QED BY <1>2, <1>10, <1>11

------------------------------------------------------------------------------
(* What the menus ask for.                                                 *)

(* A text is queued behind the deletion of the one before.  A credential   *)
(* is begun with a piece of it, which asks for the next one.               *)
Shows ==
  /\ DeleteStr
  /\ \E slot \in SlotType :
       /\ slot.info = "FULL" /\ strBuf' = Queued(strBuf, slot)
       /\ slot.callback = 1 \/ UNCHANGED <<counter, crdStop>>
       /\ Gives(slot, 0, <<>>)'

Sourced ==
  /\ userText' \in Seq(Char \ {Nul}) /\ plain' \in [0 .. BlockSize - 1 -> Char]
  /\ selected' \in Names
  /\ UIF_state' \in {"START", "USER_INPUT", "CREDENTIALS", "OPTIONS"}

LEMMA SourcesOK ==
  ASSUME TypeOK
  PROVE  /\ userText \in Seq(Char \ {Nul}) /\ plain \in [0 .. BlockSize - 1 -> Char]
         /\ selected \in Names
BY DEF TypeOK

(* A text that is to be typed from its first character on.                 *)
LEMMA TextStart ==
  ASSUME NEW t \in Seq(Char \ {Nul})
  PROVE  /\ Visible(t) \in Seq(Char) /\ 0 <= Len(t)
         /\ <<>> \o VisibleFrom(t)[0] = Visible(t)
<1>1. t \in Seq(Char)
  <2>1. \A x \in Seq(Char \ {Nul}) : x \in Seq(Char)
    BY Sizes
  <2> QED BY <2>1
<1>2. Visible(t) \in Seq(Char) /\ 0 <= Len(t)
  <2>1. Visible(t) \in Seq(Char)
    BY <1>1, VisibleFacts, Zenon
  <2>2. Len(t) \in Nat
    BY <1>1, LenProperties
  <2> QED BY <2>1, <2>2
<1>3. <<>> \o Visible(t) = Visible(t)
  BY <1>2, ConcatEmptySeq
<1> QED BY <1>2, <1>3 DEF Visible

LEMMA FlashStart ==
  ASSUME NEW t \in DOMAIN Flash
  PROVE  /\ t \in Texts /\ t # "userText" /\ t \in Sources
         /\ Flash[t] \in Seq(Char \ {Nul})
         /\ Slot(t, 0, 0) \in SlotType /\ Slot(t, 0, 0).info = "FULL"
         /\ Slot(t, 0, 0).callback = 0 /\ Slot(t, 0, 0).text = t
         /\ Slot(t, 0, 0).at = 0
<1>1. t # "userText" /\ Flash[t] \in Seq(Char \ {Nul})
  BY TypingAssumption
<1>2. t \in Texts /\ t \in Sources
  BY DEF Texts, Sources
<1>3. 0 \in Nat /\ 0 \in 0 .. BlockSize
  BY Sizes
<1>4. /\ Slot(t, 0, 0) \in SlotType /\ Slot(t, 0, 0).info = "FULL"
      /\ Slot(t, 0, 0).callback = 0
  BY <1>2, <1>3, SlotMade
<1>5. Slot(t, 0, 0).text = t /\ Slot(t, 0, 0).at = 0
  BY DEF Slot
<1> QED BY <1>1, <1>2, <1>4, <1>5

LEMMA FlashGives ==
  ASSUME NEW t \in DOMAIN Flash, shown' = Visible(Flash[t])
  PROVE  shown' \in Seq(Char) /\ Gives(Slot(t, 0, 0), 0, <<>>)'
<1>1. PICK f, slot : f = Flash[t] /\ slot = Slot(t, 0, 0)
  OBVIOUS
<1>2. /\ t \in Texts /\ t # "userText" /\ f \in Seq(Char \ {Nul})
      /\ slot.callback = 0 /\ slot.text = t /\ slot.at = 0
  BY <1>1, FlashStart
<1>3. /\ Visible(f) \in Seq(Char) /\ 0 <= Len(f)
      /\ <<>> \o VisibleFrom(f)[0] = Visible(f)
  BY <1>2, TextStart
<1>4. Text(slot, <<>>)'
  BY <1>1, <1>2, <1>3 DEF Text, TextOf
<1> QED BY <1>1, <1>3, <1>4 DEF Gives

LEMMA PieceGives ==
  ASSUME NEW n \in Names, NEW q \in 0 .. Positions - 1, NEW s, NEW scr,
         s.callback = 1,
         \/ NoText(s, 0)
         \/ /\ s.text = "plain"
            /\ \E w \in {0, 1} : PieceAt(n, q, s.at, s.len - 0, w)',
         scr \o FieldsFrom(Cred[n], crdStart', crdStop')[q] = shown'
  PROVE  Gives(s, 0, scr)'
<1>1. CASE NoText(s, 0)
  BY <1>1 DEF Gives, NoText
<1>2. CASE /\ s.text = "plain"
           /\ \E w \in {0, 1} : PieceAt(n, q, s.at, s.len - 0, w)'
  <2>1. PICK w \in {0, 1} : PieceAt(n, q, s.at, s.len - 0, w)'
    BY <1>2
  <2>2. Piece(s, 0, scr)'
    BY <1>2, <2>1 DEF Piece
  <2> QED BY <2>2 DEF Gives
<1> QED BY <1>1, <1>2

LEMMA ShownType ==
  ASSUME TypeOK, NEW slot \in SlotType, slot.info = "FULL",
         strBuf' = Queued(strBuf, slot), DeleteStr, Sourced, shown' \in Seq(Char),
         Gives(slot, 0, <<>>)',
         UNCHANGED piece, asked < MaxRequests, asked' = asked + 1
  PROVE  TypeOK' /\ Shows
<1>1. strBuf \in Buffers
  BY DEF TypeOK, Buffers
<1>2. PICK b : b = strBuf
  OBVIOUS
<1>3. strBuf' \in Buffers
  BY <1>1, <1>2, QueuedType
<1>4. Shows
  BY DEF Shows, piece
<1>5. asked' \in 0 .. MaxRequests
  BY Sizes DEF TypeOK
<1> QED BY <1>3, <1>4, <1>5 DEF TypeOK, DeleteStr, Sourced, piece, editor, Buffers

LEMMA FlashShown ==
  ASSUME TypeOK, NEW text \in DOMAIN Flash, ShowFlash(text), Sourced
  PROVE  TypeOK' /\ Shows
<1>1. /\ strBuf' = Queued(strBuf, Slot(text, 0, 0)) /\ DeleteStr
      /\ UNCHANGED piece /\ asked < MaxRequests /\ asked' = asked + 1
      /\ shown' = Visible(Flash[text])
  BY DEF ShowFlash, Asked
<1>2. PICK slot : slot = Slot(text, 0, 0)
  OBVIOUS
<1>3. slot \in SlotType /\ slot.info = "FULL"
  BY <1>2, FlashStart
<1>4. shown' \in Seq(Char) /\ Gives(slot, 0, <<>>)'
  BY <1>1, <1>2, FlashGives
<1> QED BY <1>1, <1>2, <1>3, <1>4, ShownType

LEMMA TextShown ==
  ASSUME TypeOK, NEW text \in Seq(Char \ {Nul}), ShowUserText(text),
         UIF_state' \in {"START", "USER_INPUT", "CREDENTIALS", "OPTIONS"}
  PROVE  TypeOK' /\ Shows
<1>1. /\ strBuf' = Queued(strBuf, Slot("userText", 0, 0)) /\ DeleteStr
      /\ UNCHANGED piece /\ asked < MaxRequests /\ asked' = asked + 1
      /\ userText' = text /\ UNCHANGED <<plain, selected>>
      /\ shown' = Visible(text)
  BY DEF ShowUserText, Asked
<1>2. /\ "userText" \in Sources /\ "userText" \in Texts
      /\ 0 \in Nat /\ 0 \in 0 .. BlockSize
  BY Sizes DEF Sources, Texts
<1>3. PICK slot : slot = Slot("userText", 0, 0)
  OBVIOUS
<1>4. slot \in SlotType /\ slot.info = "FULL" /\ slot.callback = 0
  BY <1>2, <1>3, SlotMade
<1>5. slot.text = "userText" /\ slot.at = 0
  BY <1>3 DEF Slot
<1>6. /\ Visible(text) \in Seq(Char) /\ 0 <= Len(text)
      /\ <<>> \o VisibleFrom(text)[0] = Visible(text)
  BY TextStart
<1>7. Text(slot, <<>>)'
  BY <1>1, <1>2, <1>4, <1>5, <1>6 DEF Text, TextOf
<1>8. Sourced
  BY <1>1, SourcesOK DEF Sourced
<1>9. Gives(slot, 0, <<>>)' /\ shown' \in Seq(Char)
  BY <1>1, <1>6, <1>7 DEF Gives
<1> QED BY <1>1, <1>3, <1>4, <1>8, <1>9, ShownType

LEMMA DetailShown ==
  ASSUME TypeOK, NEW start \in 0 .. CRD_END, NEW stop \in 1 .. CRD_END,
         CRD_printDetail(start, stop)
  PROVE  TypeOK' /\ Shows
<1>1. /\ DeleteStr /\ CRD_apply(strBuf, 0, 0, start, stop)
      /\ asked < MaxRequests /\ asked' = asked + 1
      /\ shown' = Fields(Cred[selected], start, stop)
      /\ UNCHANGED <<userText, selected, UIF_state>>
  BY DEF CRD_printDetail, Asked
<1>2. /\ 0 \in 0 .. Positions - 1 /\ 0 \in 0 .. CRD_END /\ stop \in 0 .. CRD_END
      /\ 0 < stop /\ start \in Nat /\ stop \in Nat /\ 0 \in Nat
  BY Sizes DEF CRD_END
<1>3. strBuf \in Buffers
  BY DEF TypeOK, Buffers
<1>4. PICK n \in Names : n = selected
  BY DEF TypeOK
<1>5. PICK b : b = strBuf
  OBVIOUS
<1>6. b \in Buffers /\ CRD_apply(b, 0, 0, start, stop)
  BY <1>1, <1>3, <1>5
<1>7. /\ crdStart' = start /\ crdStop' = stop
      /\ plain' \in [0 .. BlockSize - 1 -> Char]
      /\ position' \in 0 .. Positions - 1 /\ counter' \in 0 .. CRD_END
      /\ strBuf' \in Buffers
  BY <1>2, <1>6, ApplyFacts
<1>8. 0 = Before(Cred[n], 0)
  <2>1. {j \in 0 .. 0 - 1 : Cred[n][j] = Nul} = {}
    OBVIOUS
  <2> QED BY <2>1, FS_EmptySet DEF Before
<1>9. Ahead(0)
  <2>1. Place(0) = 0
    BY Sizes DEF Place
  <2> QED BY <2>1 DEF Ahead
<1>10. PICK slot \in SlotType :
        /\ slot.info = "FULL" /\ slot.callback = 1
        /\ strBuf' = Queued(b, slot)
        /\ \/ NoText(slot, 0)
           \/ /\ slot.text = "plain"
              /\ \E w \in {0, 1} : PieceAt(n, 0, slot.at, slot.len - 0, w)'
  BY <1>1, <1>2, <1>4, <1>6, <1>8, <1>9, ApplyPiece
<1>11. PICK f : f = FieldsFrom(Cred[n], start, stop)[0]
  OBVIOUS
<1>12. f \in Seq(Char) /\ shown' = f
  <2>1. Cred[n] \in Credential
    BY FieldsEnd
  <2>2. Fields(Cred[n], start, stop) \in Seq(Char)
    BY <1>2, <2>1, FieldsFacts
  <2> QED BY <1>1, <1>4, <1>11, <2>2 DEF Fields
<1>13. <<>> \o f = shown'
  BY <1>12, ConcatEmptySeq
<1>14. Gives(slot, 0, <<>>)'
  <2>1. <<>> \o FieldsFrom(Cred[n], crdStart', crdStop')[0] = shown'
    BY <1>7, <1>11, <1>13
  <2> QED BY <1>2, <1>10, <2>1, PieceGives
<1>15. Shows
  BY <1>1, <1>5, <1>10, <1>14 DEF Shows
<1>16. asked' \in 0 .. MaxRequests
  BY <1>1, Sizes DEF TypeOK
<1> QED BY <1>1, <1>2, <1>7, <1>12, <1>15, <1>16
        DEF TypeOK, DeleteStr, editor, Buffers

(* What the write of a page, or the end of a write, leaves alone unless it *)
(* is a flaw: everything but the selected record, of which then no piece   *)
(* is still to come.                                                       *)
ListWritten ==
  /\ flaws \subseteq flaws'
  /\ Calm' => /\ UNCHANGED <<queue, keys, userText, plain, piece, editor, shown>>
              /\ selected' = selected \/ ~(counter < crdStop)

LEMMA RecordWrittenFacts ==
  ASSUME TypeOK, NEW n \in Names, NEW m \in Names, RecordWritten(n, m)
  PROVE  TypeOK' /\ ListWritten
<1>1. m \in Sources
  BY Sizes DEF Sources
<1>2. strBuf \in [Slots -> SlotType] /\ selected \in Names
  BY DEF TypeOK
<1>3. ASSUME NEW k \in Slots PROVE [strBuf[k] EXCEPT !.text = m] \in SlotType
  BY <1>1, <1>2 DEF SlotType
<1>4. asked' \in 0 .. MaxRequests /\ shown' = shown
  <2>1. Asked(shown)
    BY DEF RecordWritten
  <2>2. asked \in 0 .. MaxRequests
    BY DEF TypeOK
  <2> QED BY <2>1, <2>2, Sizes DEF Asked
<1>5. strBuf' \in [Slots -> SlotType]
  BY <1>2, <1>3 DEF RecordWritten
<1>6. selected' \in Names
  BY <1>2 DEF RecordWritten
<1>7. flaws' = flaws \/ flaws' = flaws \cup {"rewritten"}
  BY DEF RecordWritten
<1>8. TypeOK'
  <2>1. flaws' \subseteq {"hasty", "cut", "nul", "backspace", "long", "added",
                         "reloaded", "rewritten"}
    BY <1>7 DEF TypeOK
  <2>2. shown' \in Seq(Char)
    BY <1>4 DEF TypeOK
  <2>3. UNCHANGED <<actString, cCount, EOS, debounceCount, kbd_status, userText,
                    plain, position, counter, crdStart, crdStop, UIF_state,
                    report, screen, eaten>>
    BY DEF RecordWritten, keys, piece, editor
  <2> QED BY <1>4, <1>5, <1>6, <2>1, <2>2, <2>3 DEF TypeOK
<1>9. ASSUME Calm' PROVE UNCHANGED strBuf /\ (selected' = selected \/ ~(counter < crdStop))
  <2>1. TypedFrom(n) = {} /\ ~(selected = n /\ counter < crdStop)
    BY <1>9 DEF RecordWritten, Calm
  <2>2. strBuf' = [k \in Slots |-> strBuf[k]]
    BY <2>1 DEF RecordWritten
  <2> QED BY <1>2, <2>1, <2>2 DEF RecordWritten
<1> QED BY <1>4, <1>7, <1>8, <1>9 DEF RecordWritten, ListWritten, queue

LEMMA RequestFacts ==
  ASSUME TypeOK, Request
  PROVE  TypeOK' /\ (Shows \/ PinWritten \/ ListWritten)
<1>1. /\ "init" \in DOMAIN Flash /\ "pinErr" \in DOMAIN Flash
      /\ "options" \in DOMAIN Flash /\ Names \subseteq DOMAIN Flash
      /\ Entries \subseteq Seq(Char \ {Nul})
      /\ PinStr \in Seq(Char \ {Nul}) /\ Hashed \in [0 .. BlockSize - 1 -> Char]
  BY Sizes
<1>2. /\ userText \in Seq(Char \ {Nul}) /\ plain \in [0 .. BlockSize - 1 -> Char]
      /\ selected \in Names /\ selected \in DOMAIN Flash
  BY <1>1, SourcesOK
<1>3. CASE UifStart
  <2>1. PICK text \in Entries : ShowUserText(text)
    BY <1>3 DEF UifStart
  <2>2. UIF_state' = "USER_INPUT"
    BY <1>3 DEF UifStart
  <2>3. text \in Seq(Char \ {Nul})
    BY <1>1
  <2> QED BY <2>1, <2>2, <2>3, TextShown
<1>4. CASE UsiEntry
  <2>1. PICK text \in Entries : ShowUserText(text)
    BY <1>4 DEF UsiEntry
  <2>2. UIF_state' = "USER_INPUT"
    BY <1>4 DEF UsiEntry
  <2>3. text \in Seq(Char \ {Nul})
    BY <1>1
  <2> QED BY <2>1, <2>2, <2>3, TextShown
<1>5. CASE UsiWrong
  <2>1. ShowFlash("pinErr") /\ Sourced
    BY <1>1, <1>2, <1>5 DEF UsiWrong, Sourced
  <2> QED BY <1>1, <2>1, FlashShown
<1>6. CASE UsiUnlock
  <2>1. ShowFlash(selected) /\ Sourced
    BY <1>1, <1>2, <1>6 DEF UsiUnlock, Sourced
  <2>2. PICK n \in DOMAIN Flash : n = selected
    BY <1>2
  <2> QED BY <2>1, <2>2, FlashShown
<1>7. CASE CrdMove
  <2>1. PICK n \in DOMAIN Flash : n = selected'
    BY <1>1, <1>7 DEF CrdMove
  <2>2. ShowFlash(n) /\ Sourced
    BY <1>2, <1>7, <2>1 DEF CrdMove, Sourced
  <2> QED BY <2>2, FlashShown
<1>8. CASE CrdDetails
  <2>1. CRD_USER \in 0 .. CRD_END /\ CRD_END \in 1 .. CRD_END
    BY DEF CRD_USER, CRD_END
  <2> QED BY <1>8, <2>1, DetailShown DEF CrdDetails
<1>9. CASE CrdOptions
  <2>1. ShowFlash("options") /\ Sourced
    BY <1>2, <1>9 DEF CrdOptions, Sourced, source
  <2> QED BY <1>1, <2>1, FlashShown
<1>10. CASE OptDetail
  <2>1. PICK field \in {CRD_USER, CRD_PASS} : CRD_printDetail(field, field + 1)
    BY <1>10 DEF OptDetail
  <2>2. field \in 0 .. CRD_END /\ field + 1 \in 1 .. CRD_END
    BY DEF CRD_USER, CRD_PASS, CRD_END
  <2> QED BY <2>1, <2>2, DetailShown
<1>11. CASE OptCredentials
  <2>1. ShowFlash(selected) /\ Sourced
    BY <1>1, <1>2, <1>11 DEF OptCredentials, Sourced, source
  <2>2. PICK n \in DOMAIN Flash : n = selected
    BY <1>2
  <2> QED BY <2>1, <2>2, FlashShown
<1>12. CASE OptLock
  <2>1. ShowFlash("init") /\ Sourced
    BY <1>2, <1>12 DEF OptLock, Sourced, source
  <2> QED BY <1>1, <2>1, FlashShown
<1>13. CASE PinWritten
  <2>1. 0 \in Nat /\ 0 \in 0 .. BlockSize /\ "init" \in Sources
    BY <1>1, Sizes DEF Sources
  <2>2. Slot("init", 0, 0) \in SlotType
    BY <2>1, SlotMade
  <2>3. strBuf \in Buffers
    BY DEF TypeOK, Buffers
  <2>4. PICK b : b = strBuf
    OBVIOUS
  <2>5. strBuf' \in Buffers
    BY <1>13, <2>2, <2>3, <2>4, QueuedType DEF PinWritten
  <2>6. asked' \in 0 .. MaxRequests
    BY <1>13, Sizes DEF PinWritten, Asked, TypeOK
  <2>7. shown' \in Seq(Char)
    BY <1>1, <1>13, FlashGives DEF PinWritten, Asked
  <2> QED BY <1>13, <2>5, <2>6, <2>7
          DEF PinWritten, TypeOK, Buffers, keys, source, piece, editor
<1>14. CASE CredentialsWritten
  <2>1. asked' \in 0 .. MaxRequests
    BY <1>14, Sizes DEF CredentialsWritten, Asked, TypeOK
  <2>2. selected' \in Names
    BY <1>14, Sizes DEF CredentialsWritten
  <2>3. shown' = shown
    BY <1>14 DEF CredentialsWritten, Asked
  <2>4. TypeOK'
    BY <1>14, <2>1, <2>2, <2>3
       DEF CredentialsWritten, TypeOK, queue, keys, piece, editor
  <2> QED BY <1>14, <2>3, <2>4 DEF CredentialsWritten, ListWritten, Calm
<1>15. ASSUME NEW n \in Names, NEW m \in Names, RecordWritten(n, m)
       PROVE  TypeOK' /\ ListWritten
  BY <1>15, RecordWrittenFacts
<1> QED BY <1>3, <1>4, <1>5, <1>6, <1>7, <1>8, <1>9, <1>10, <1>11, <1>12,
           <1>13, <1>14, <1>15 DEF Request

------------------------------------------------------------------------------
(* The keyboard.                                                           *)

LEMMA UpdateType ==
  ASSUME TypeOK, printUpdate
  PROVE  TypeOK'
<1>1. /\ UNCHANGED <<userText, selected, UIF_state, shown, asked>>
      /\ strBuf \in Buffers /\ actString \in Slots /\ NextString \in Slots
      /\ cCount \in 0 .. CountSize - 1 /\ debounceCount \in Nat
      /\ ascii \in Char
  BY Places, AsciiType DEF printUpdate, TypeOK, Buffers
<1>2. Emptied \in Buffers /\ CharDone \in Buffers /\ Advanced \in Buffers
  BY <1>1, CurrentFacts
<1>3. ASSUME NEW k \in Char, Reports(k)
      PROVE  report' \in Char /\ screen' \in Seq(Char) /\ eaten' \in BOOLEAN
  BY <1>3, ReportsFacts
<1>4. Nul \in Char /\ Backspace \in Char
  BY CharFacts
<1>5. ASSUME NEW limit, Wait(limit) PROVE TypeOK'
  <2>1. report' \in Char /\ screen' \in Seq(Char) /\ eaten' \in BOOLEAN
    BY <1>3, <1>4, <1>5 DEF Wait
  <2>2. debounceCount' \in Nat
    BY <1>1, <1>5 DEF Wait
  <2> QED BY <1>1, <1>5, <2>1, <2>2 DEF Wait, TypeOK, queue, piece
<1>6. CASE WaitInit \/ WaitIdle
  BY <1>5, <1>6 DEF WaitInit, WaitIdle
<1>7. CASE EndInit
  BY <1>1, <1>7 DEF EndInit, TypeOK, queue, piece, editor
<1>8. CASE EndIdle
  BY <1>1, <1>2, <1>8 DEF EndIdle, TypeOK, Buffers, piece, editor
<1>9. CASE Release
  <2>1. report' \in Char /\ screen' \in Seq(Char) /\ eaten' \in BOOLEAN
    BY <1>3, <1>4, <1>9 DEF Release
  <2> QED BY <1>1, <1>2, <1>9, <2>1 DEF Release, TypeOK, Buffers, piece
<1>10. CASE EndString
  BY <1>1, <1>2, <1>10 DEF EndString, TypeOK, Buffers, piece, editor
<1>11. CASE EndPiece
  <2>1. CRD_apply(Emptied, position, counter, crdStart, crdStop)
    BY <1>11 DEF EndPiece
  <2>2. PICK b, p, c, s, t : /\ b = Emptied /\ p = position /\ c = counter
                             /\ s = crdStart /\ t = crdStop
    OBVIOUS
  <2>3. /\ b \in Buffers /\ p \in 0 .. Positions - 1 /\ c \in 0 .. CRD_END
        /\ s \in 0 .. CRD_END /\ t \in 0 .. CRD_END
    BY <1>2, <2>2 DEF TypeOK
  <2>4. CRD_apply(b, p, c, s, t)
    BY <2>1, <2>2
  <2>5. /\ crdStart' \in 0 .. CRD_END /\ crdStop' \in 0 .. CRD_END
        /\ plain' \in [0 .. BlockSize - 1 -> Char]
        /\ position' \in 0 .. Positions - 1 /\ counter' \in 0 .. CRD_END
        /\ strBuf' \in Buffers
    BY <2>3, <2>4, ApplyFacts
  <2> QED BY <1>1, <1>11, <2>5 DEF EndPiece, TypeOK, Buffers, editor
<1>12. CASE StartIdle
  BY <1>1, <1>2, <1>12 DEF StartIdle, TypeOK, Buffers, piece, editor
<1>13. CASE PressKey
  <2>1. report' \in Char /\ screen' \in Seq(Char) /\ eaten' \in BOOLEAN
    BY <1>1, <1>3, <1>13 DEF PressKey
  <2>2. cCount' \in 0 .. CountSize - 1
    <3>1. /\ CountSize \in Nat /\ CountSize >= 1
          /\ cCount + 1 \in Nat /\ 1 \in 0 .. CountSize - 1
      BY <1>1, Sizes
    <3>2. PICK n \in Nat : n = cCount + 1
      BY <3>1
    <3>3. n % CountSize \in 0 .. CountSize - 1
      BY <3>1, Remainder
    <3> QED BY <1>13, <3>1, <3>2, <3>3 DEF PressKey
  <2> QED BY <1>1, <1>2, <1>13, <2>1, <2>2
          DEF PressKey, TypeOK, Buffers, piece
<1>14. CASE DeleteKey
  <2>1. report' \in Char /\ screen' \in Seq(Char) /\ eaten' \in BOOLEAN
    BY <1>3, <1>4, <1>14 DEF DeleteKey
  <2>2. cCount' \in 0 .. CountSize - 1
    BY <1>1, <1>14, Sizes DEF DeleteKey
  <2> QED BY <1>1, <1>14, <2>1, <2>2 DEF DeleteKey, TypeOK, queue, piece
<1>15. CASE EndDelete
  <2>1. report' \in Char /\ screen' \in Seq(Char) /\ eaten' \in BOOLEAN
    BY <1>3, <1>4, <1>15 DEF EndDelete
  <2>2. strBuf' \in Buffers /\ actString' \in Slots
    BY <1>1, <1>2, <1>15 DEF EndDelete
  <2> QED BY <1>1, <1>15, <2>1, <2>2 DEF EndDelete, TypeOK, Buffers, piece
<1>16. CASE DeleteRelease
  <2>1. report' \in Char /\ screen' \in Seq(Char) /\ eaten' \in BOOLEAN
    BY <1>3, <1>4, <1>16 DEF DeleteRelease
  <2> QED BY <1>1, <1>16, <2>1 DEF DeleteRelease, TypeOK, queue, piece
<1> QED BY <1>6, <1>7, <1>8, <1>9, <1>10, <1>11, <1>12, <1>13, <1>14, <1>15,
           <1>16 DEF printUpdate

------------------------------------------------------------------------------
(* While every request came when the one before had begun to be typed.     *)

Deleting == kbd_status \in {"DELETE", "DELETE_PRESSED"}

(* Nothing waits but the text at actString, and behind it the one that     *)
(* replaces it; and the rest of a credential is asked for by a piece of it *)
(* that waits.                                                             *)
QueueInv ==
  \A k \in Slots : strBuf[k].info # "EMPTY" =>
    k = actString \/ (EOS = 0 /\ Deleting /\ k = NextString)

PieceInv == counter < crdStop =>
  \E k \in Slots : strBuf[k].info # "EMPTY" /\ strBuf[k].callback = 1

(* A text that is under way is still in its slot, and is no piece of a     *)
(* credential when it is deleted.                                          *)
HeldInv == EOS = 0 =>
  Current.info # "EMPTY" /\ (Deleting => Current.callback = 0)

(* What the device typed is counted, and gone when the next text begins.   *)
CountInv ==
  /\ cCount = Len(screen) /\ ~eaten
  /\ EOS = 1 /\ ~Deleting /\ Current.info # "EMPTY" => cCount = 0

(* The host sees each key go up before the next one goes down.             *)
ReportInv ==
  /\ kbd_status \in {"INIT", "RELEASED", "IDLE"} => report = Nul
  /\ kbd_status # "DELETE_PRESSED" => report # Backspace

(* What is in the editor, with what is still to be typed, is the text the  *)
(* device was last asked to show; and while it deletes, that text waits.   *)
Down == IF kbd_status \in {"PRESSED", "IDLE"} THEN 1 ELSE 0
Following == strBuf[IF EOS = 0 THEN NextString ELSE actString]

ShowInv ==
  IF Deleting THEN Following.info # "EMPTY" /\ Gives(Following, 0, <<>>)
  ELSE IF Current.info = "EMPTY" THEN screen = shown
  ELSE Gives(Current, Down, screen)

Kept == QueueInv /\ PieceInv /\ HeldInv /\ CountInv /\ ReportInv
TypingInv == TypeOK /\ (Calm => Kept /\ ShowInv)

LEMMA ShownBy ==
  ASSUME ~Deleting', NEW z, NEW d, NEW v, z = Current', d = Down', v = screen',
         z.info # "EMPTY", Gives(z, d, v)'
  PROVE  ShowInv'
<1>1. CASE NoText(z, d)'
  BY <1>1 DEF ShowInv, Gives, NoText
<1>2. CASE Text(z, v)'
  BY <1>2 DEF ShowInv, Gives, Text, TextOf
<1>3. CASE Piece(z, d, v)'
  BY <1>3 DEF ShowInv, Gives, Piece, PieceAt
<1> QED BY <1>1, <1>2, <1>3 DEF Gives

LEMMA ShownNext ==
  ASSUME Deleting', NEW z, z = Following', z.info # "EMPTY", Gives(z, 0, <<>>)'
  PROVE  ShowInv'
<1>1. CASE NoText(z, 0)'
  BY <1>1 DEF ShowInv, Gives, NoText
<1>2. CASE Text(z, <<>>)'
  BY <1>2 DEF ShowInv, Gives, Text, TextOf
<1>3. CASE Piece(z, 0, <<>>)'
  BY <1>3 DEF ShowInv, Gives, Piece, PieceAt
<1> QED BY <1>1, <1>2, <1>3 DEF Gives

(* The same, before a step.                                                *)
LEMMA ShownNow ==
  ASSUME ShowInv, ~Deleting, NEW z, NEW d, NEW v, z = Current, d = Down, v = screen,
         z.info # "EMPTY"
  PROVE  Gives(z, d, v)
BY DEF ShowInv

(* Nothing that the texts to come are made of changes.                     *)
Stays ==
  UNCHANGED <<userText, plain, position, counter, crdStart, crdStop, selected,
              shown>>

(* A step that leaves the text under way in its slot.                      *)
LEMMA StepShown ==
  ASSUME ShowInv, ~Deleting, ~Deleting', Stays,
         NEW z, NEW d, NEW v, z = Current', d = Down', v = screen',
         z.info = Current.info,
         Current.info = "EMPTY" => screen' = screen,
         Current.info # "EMPTY" => Gives(z, d, v)
  PROVE  ShowInv'
<1>1. CASE Current.info = "EMPTY"
  BY <1>1 DEF ShowInv, Stays
<1>2. CASE Current.info # "EMPTY"
  <2>1. Gives(z, d, v)
    BY <1>2
  <2>2. Gives(z, d, v)'
    BY <2>1, GivesKept DEF Stays
  <2> QED BY <1>2, <2>2, ShownBy
<1> QED BY <1>1, <1>2

LEMMA CurrentBecomes ==
  ASSUME TypeOK, actString' = actString
  PROVE  /\ Current \in SlotType
         /\ strBuf' = CharDone =>
              Current' = [Current EXCEPT !.len = IF @ > 0 THEN @ - 1 ELSE @]
         /\ strBuf' = Advanced => Current' = [Current EXCEPT !.at = @ + 1]
         /\ strBuf' = strBuf => Current' = Current
<1>1. strBuf \in Buffers /\ actString \in Slots
  BY DEF TypeOK, Buffers
<1>2. Current \in SlotType
  BY <1>1, CurrentFacts
<1> QED BY <1>1, <1>2 DEF Current, CharDone, Advanced, Buffers

LEMMA TypedScreen ==
  ASSUME TypeOK
  PROVE  screen \in Seq(Char) /\ screen \o <<>> = screen
<1>1. screen \in Seq(Char)
  BY DEF TypeOK
<1> QED BY <1>1, ConcatEmptySeq

LEMMA WaitShown ==
  ASSUME TypeOK, ShowInv, WaitInit \/ EndInit \/ WaitIdle \/ EndIdle,
         screen' = screen, UNCHANGED <<userText, selected, shown>>
  PROVE  ShowInv'
<1>1. Stays /\ ~Deleting /\ ~Deleting' /\ actString' = actString
  BY DEF Stays, Deleting, WaitInit, EndInit, WaitIdle, EndIdle, Wait, queue, piece
<1>2. PICK c, z, d, v : c = Current /\ z = Current' /\ d = Down' /\ v = screen
  OBVIOUS
<1>3. CASE strBuf' = strBuf /\ Down' = Down
  <2>1. z = c
    BY <1>1, <1>2, <1>3, CurrentBecomes
  <2>2. Current.info # "EMPTY" => Gives(z, d, v)
    BY <1>1, <1>2, <1>3, <2>1, ShownNow
  <2> QED BY <1>1, <1>2, <2>1, <2>2, StepShown
<1>4. CASE EndIdle
  <2>1. Down = 1 /\ Down' = 0 /\ strBuf' = CharDone
    BY <1>4 DEF EndIdle, Down
  <2>2. /\ c \in SlotType
        /\ z = [c EXCEPT !.len = IF @ > 0 THEN @ - 1 ELSE @]
    BY <1>1, <1>2, <2>1, CurrentBecomes
  <2>3. z.info = c.info
    BY <2>2, SlotFacts
  <2>4. ASSUME c.info # "EMPTY" PROVE Gives(z, d, v)
    <3>1. Gives(c, 1, v)
      BY <1>1, <1>2, <2>1, <2>4, ShownNow
    <3>2. Gives(z, 0, v)
      BY <2>2, <3>1, GivesUp
    <3> QED BY <1>2, <2>1, <3>2
  <2> QED BY <1>1, <1>2, <2>3, <2>4, StepShown
<1>5. (strBuf' = strBuf /\ Down' = Down) \/ EndIdle
  BY DEF WaitInit, EndInit, WaitIdle, Wait, queue, Down
<1> QED BY <1>3, <1>4, <1>5

LEMMA ReleaseShown ==
  ASSUME TypeOK, ShowInv, Release \/ StartIdle,
         screen' = screen, UNCHANGED <<userText, selected, shown>>
  PROVE  ShowInv'
<1>1. Stays /\ ~Deleting /\ ~Deleting' /\ actString' = actString
  BY DEF Stays, Deleting, Release, StartIdle, piece
<1>2. PICK c, z, d, v : c = Current /\ z = Current' /\ d = Down' /\ v = screen
  OBVIOUS
<1>3. CASE Release
  <2>1. Down = 1 /\ Down' = 0 /\ strBuf' = CharDone
    BY <1>3 DEF Release, Down
  <2>2. /\ c \in SlotType
        /\ z = [c EXCEPT !.len = IF @ > 0 THEN @ - 1 ELSE @]
    BY <1>1, <1>2, <2>1, CurrentBecomes
  <2>3. z.info = c.info
    BY <2>2, SlotFacts
  <2>4. ASSUME c.info # "EMPTY" PROVE Gives(z, d, v)
    <3>1. Gives(c, 1, v)
      BY <1>1, <1>2, <2>1, <2>4, ShownNow
    <3>2. Gives(z, 0, v)
      BY <2>2, <3>1, GivesUp
    <3> QED BY <1>2, <2>1, <3>2
  <2> QED BY <1>1, <1>2, <2>3, <2>4, StepShown
<1>4. CASE StartIdle
  <2>1. /\ Down = 0 /\ Down' = 1 /\ strBuf' = Advanced
        /\ ascii = SYNCHRONOUS_IDLE_KEY /\ ~EndsPiece
    BY <1>4 DEF StartIdle, Down
  <2>2. c \in SlotType /\ z = [c EXCEPT !.at = @ + 1]
    BY <1>1, <1>2, <2>1, CurrentBecomes
  <2>3. z.info = c.info
    BY <2>2, SlotFacts
  <2>4. c.info # "EMPTY" /\ SYNCHRONOUS_IDLE_KEY = Byte(c.text, c.at)
    BY <1>2, <2>1 DEF ascii, SYNCHRONOUS_IDLE_KEY, Nul
  <2>5. Gives(c, 0, v)
    BY <1>1, <1>2, <2>1, <2>4, ShownNow
  <2>6. /\ v \in Seq(Char) /\ v \o Seen(SYNCHRONOUS_IDLE_KEY) = v
        /\ SYNCHRONOUS_IDLE_KEY \in Char /\ SYNCHRONOUS_IDLE_KEY # Nul
    BY <1>2, TypedScreen DEF Seen, Char, SYNCHRONOUS_IDLE_KEY, Nul
  <2>7. ~(c.callback # 0 /\ c.len = 0)
    BY <1>2, <2>1 DEF EndsPiece
  <2>8. Gives(z, 1, v \o Seen(SYNCHRONOUS_IDLE_KEY))
    BY <2>2, <2>4, <2>5, <2>6, <2>7, GivesNext
  <2>9. Gives(z, d, v)
    BY <1>2, <2>1, <2>6, <2>8
  <2> QED BY <1>1, <1>2, <2>3, <2>9, StepShown
<1> QED BY <1>3, <1>4

LEMMA PressShown ==
  ASSUME TypeOK, ShowInv, PressKey, ascii # Nul, screen' = Append(screen, ascii),
         UNCHANGED <<userText, selected, shown>>
  PROVE  ShowInv'
<1>1. /\ Stays /\ ~Deleting /\ ~Deleting' /\ actString' = actString
      /\ Down = 0 /\ Down' = 1 /\ strBuf' = Advanced /\ ~EndsPiece
      /\ ascii # SYNCHRONOUS_IDLE_KEY
  BY DEF Stays, Deleting, PressKey, piece, Down
<1>2. PICK c, z, d, v, a : /\ c = Current /\ z = Current' /\ d = Down'
                           /\ v = screen /\ a = ascii
  OBVIOUS
<1>3. c \in SlotType /\ z = [c EXCEPT !.at = @ + 1]
  BY <1>1, <1>2, CurrentBecomes
<1>4. z.info = c.info
  BY <1>3, SlotFacts
<1>5. c.info # "EMPTY" /\ a = Byte(c.text, c.at) /\ a # Nul /\ a \in Char
  BY <1>2, AsciiType DEF ascii
<1>6. Gives(c, 0, v)
  BY <1>1, <1>2, <1>5, ShownNow
<1>7. ~(c.callback # 0 /\ c.len = 0)
  BY <1>1, <1>2 DEF EndsPiece
<1>8. v \in Seq(Char)
  BY <1>2, TypedScreen
<1>9. Gives(z, 1, v \o Seen(a))
  BY <1>3, <1>5, <1>6, <1>7, <1>8, GivesNext
<1>10. v \o Seen(a) = screen'
  <2>1. Seen(a) = <<a>>
    BY <1>1, <1>2 DEF Seen
  <2>2. v \o <<a>> = Append(v, a)
    BY <1>5, <1>8
  <2> QED BY <1>2, <2>1, <2>2
<1>11. PICK y : y = screen'
  OBVIOUS
<1>12. Gives(z, d, y)
  BY <1>1, <1>2, <1>9, <1>10, <1>11
<1> QED BY <1>1, <1>2, <1>4, <1>5, <1>11, <1>12, StepShown

LEMMA SlotOf ==
  ASSUME TypeOK, NEW k \in Slots
  PROVE  /\ strBuf[k].info \in {"EMPTY", "FULL"} /\ strBuf[k].callback \in {0, 1}
         /\ actString \in Slots /\ NextString \in Slots /\ NextString # actString
<1>1. strBuf[k] \in SlotType
  BY DEF TypeOK
<1>2. actString \in Slots
  BY DEF TypeOK
<1> QED BY <1>1, <1>2, SlotFacts, Places

(* A text asked for when the one before has begun to be typed, and is no   *)
(* piece of a credential, is the only one that waits.                      *)
LEMMA ShowsKept ==
  ASSUME TypeOK, Calm => Kept /\ ShowInv, Shows, Calm'
  PROVE  Kept' /\ ShowInv'
<1>1. Calm /\ ~Hasty /\ ~Cuts
  BY DEF Shows, DeleteStr, Calm
<1>2. QueueInv /\ PieceInv /\ HeldInv /\ CountInv /\ ReportInv
  BY <1>1 DEF Kept
<1>3. /\ kbd_status' = "DELETE" /\ kbd_status \notin {"DELETE", "DELETE_PRESSED"}
      /\ UNCHANGED <<actString, cCount, EOS, report, screen, eaten>>
  BY <1>1 DEF Shows, DeleteStr, Hasty, editor
<1>4. ~Deleting /\ Deleting'
  BY <1>3 DEF Deleting
<1>5. PICK slot \in SlotType :
        /\ slot.info = "FULL" /\ strBuf' = Queued(strBuf, slot)
        /\ slot.callback = 1 \/ UNCHANGED <<counter, crdStop>>
        /\ Gives(slot, 0, <<>>)'
  BY DEF Shows
<1>6. PICK b \in Buffers : b = strBuf
  BY DEF TypeOK, Buffers
<1>7. actString \in Slots /\ NextString \in Slots /\ NextString # actString
  BY Places DEF TypeOK
<1>8. \A k \in Slots : strBuf[k].info # "EMPTY" => k = actString
  BY <1>2, <1>4 DEF QueueInv
<1>9. CountInv' /\ ReportInv'
  BY <1>2, <1>3, <1>4 DEF CountInv, ReportInv
<1>10. ~(counter < crdStop)
  <2>1. CASE EOS = 1
    <3>1. \A k \in Slots : strBuf[k].info = "EMPTY"
      BY <1>1, <2>1 DEF Hasty, Waiting
    <3> QED BY <1>2, <3>1 DEF PieceInv
  <2>2. CASE EOS = 0
    <3>1. Current.callback # 1
      BY <1>1, <2>2 DEF Cuts
    <3> QED BY <1>2, <1>8, <3>1 DEF PieceInv, Current
  <2> QED BY <2>1, <2>2, CountersType
<1>11. ASSUME NEW p \in Slots, strBuf' = [strBuf EXCEPT ![p] = slot] PROVE PieceInv'
  <2>1. strBuf'[p] = slot
    BY <1>6, <1>11 DEF Buffers
  <2>2. strBuf'[p].info # "EMPTY"
    BY <1>5, <2>1
  <2>3. counter' < crdStop' => slot.callback = 1
    BY <1>5, <1>10
  <2> QED BY <2>1, <2>2, <2>3 DEF PieceInv
<1>12. CASE EOS = 1
  <2>1. \A k \in Slots : strBuf[k].info = "EMPTY"
    BY <1>1, <1>12 DEF Hasty, Waiting
  <2>2. strBuf' = [strBuf EXCEPT ![actString] = slot]
    BY <1>5, <1>6, <1>7, <2>1, QueuedHere
  <2>3. \A k \in Slots : k # actString => strBuf'[k].info = "EMPTY"
    BY <1>6, <2>1, <2>2 DEF Buffers
  <2>4. QueueInv'
    BY <1>3, <2>3 DEF QueueInv
  <2>5. HeldInv'
    BY <1>3, <1>12 DEF HeldInv
  <2>6. slot = Following'
    BY <1>3, <1>6, <1>7, <1>12, <2>2 DEF Following, Buffers
  <2>7. ShowInv'
    BY <1>4, <1>5, <2>6, ShownNext
  <2> QED BY <1>7, <1>9, <1>11, <2>2, <2>4, <2>5, <2>7 DEF Kept
<1>13. CASE EOS = 0
  <2>1. Current.info # "EMPTY" /\ Current.callback = 0
    <3>1. Current.callback \in {0, 1} /\ Current.callback # 1
      BY <1>1, <1>7, <1>13, SlotOf DEF Cuts, Current
    <3> QED BY <1>2, <1>13, <3>1 DEF HeldInv
  <2>2. /\ b[actString].info # "EMPTY"
        /\ \A k \in Slots : Other(k) => b[k].info = "EMPTY"
    BY <1>6, <1>8, <2>1 DEF Other, Current
  <2>3. strBuf' = [strBuf EXCEPT ![NextString] = slot]
    BY <1>5, <1>6, <1>7, <2>2, QueuedNext
  <2>4. \A k \in Slots : k # NextString => strBuf'[k] = strBuf[k]
    BY <1>6, <2>3 DEF Buffers
  <2>5. NextString' = NextString
    BY <1>3 DEF NextString
  <2>6. QueueInv'
    BY <1>3, <1>4, <1>8, <1>13, <2>4, <2>5 DEF QueueInv
  <2>7. Current' = Current
    BY <1>3, <1>7, <2>4 DEF Current
  <2>8. HeldInv'
    BY <2>1, <2>7 DEF HeldInv
  <2>9. slot = Following'
    BY <1>3, <1>6, <1>7, <1>13, <2>3, <2>5 DEF Following, Buffers
  <2>10. ShowInv'
    BY <1>4, <1>5, <2>9, ShownNext
  <2> QED BY <1>7, <1>9, <1>11, <2>3, <2>6, <2>8, <2>10 DEF Kept
<1> QED BY <1>12, <1>13, CountersType

(* A key event that leaves the texts where they are.                       *)
LEMMA SlotsKept ==
  ASSUME TypeOK, QueueInv, PieceInv, HeldInv,
         UNCHANGED <<actString, counter, crdStop>>,
         \A k \in Slots : /\ strBuf'[k].info = strBuf[k].info
                           /\ strBuf'[k].callback = strBuf[k].callback,
         EOS = 0 /\ Deleting => EOS' = 0 /\ Deleting',
         EOS' = 0 => Current.info # "EMPTY" /\ (Deleting' => EOS = 0 /\ Deleting)
  PROVE  QueueInv' /\ PieceInv' /\ HeldInv'
<1>1. actString \in Slots /\ NextString' = NextString
  BY DEF TypeOK, NextString
<1>2. QueueInv'
  BY <1>1 DEF QueueInv
<1>3. PieceInv'
  BY DEF PieceInv
<1>4. Current'.info = Current.info /\ Current'.callback = Current.callback
  BY <1>1 DEF Current
<1>5. HeldInv'
  BY <1>4 DEF HeldInv
<1> QED BY <1>2, <1>3, <1>5

(* What a key event does to the slots, when they keep their texts.         *)
LEMMA SlotsSame ==
  ASSUME TypeOK, strBuf' \in {strBuf, CharDone, Advanced}
  PROVE  \A k \in Slots : /\ strBuf'[k].info = strBuf[k].info
                           /\ strBuf'[k].callback = strBuf[k].callback
<1>1. strBuf \in Buffers /\ actString \in Slots
  BY DEF TypeOK, Buffers
<1>2. /\ \A k \in Slots : /\ CharDone[k].info = strBuf[k].info
                           /\ CharDone[k].callback = strBuf[k].callback
      /\ \A k \in Slots : /\ Advanced[k].info = strBuf[k].info
                           /\ Advanced[k].callback = strBuf[k].callback
  BY <1>1, CurrentFacts
<1> QED BY <1>2

(* Waiting, and the end of a wait.                                         *)
LEMMA WaitKept ==
  ASSUME TypeOK, Kept, ShowInv, UNCHANGED <<userText, selected, shown>>,
         WaitInit \/ EndInit \/ WaitIdle \/ EndIdle
  PROVE  Kept' /\ ShowInv'
<1>1. QueueInv /\ PieceInv /\ HeldInv /\ CountInv /\ ReportInv
  BY DEF Kept
<1>2. /\ kbd_status \in {"INIT", "IDLE"}
      /\ kbd_status' \in {"INIT", "IDLE", "RELEASED"}
      /\ strBuf' \in {strBuf, CharDone}
      /\ UNCHANGED <<actString, cCount, EOS, counter, crdStop>>
  BY DEF WaitInit, EndInit, WaitIdle, EndIdle, Wait, queue, piece
<1>3. ~Deleting /\ ~Deleting'
  BY <1>2 DEF Deleting
<1>4. report' = Nul /\ screen' = screen /\ eaten' = eaten
  <2>1. CASE Reports(Nul)
    BY <1>1, <2>1, ReportsFacts, CharFacts DEF Reports, CountInv
  <2>2. CASE UNCHANGED editor
    BY <1>1, <1>2, <2>2 DEF ReportInv, editor
  <2> QED BY <2>1, <2>2 DEF WaitInit, EndInit, WaitIdle, EndIdle, Wait
<1>5. \A k \in Slots : /\ strBuf'[k].info = strBuf[k].info
                       /\ strBuf'[k].callback = strBuf[k].callback
  BY <1>2, SlotsSame
<1>6. QueueInv' /\ PieceInv' /\ HeldInv'
  <2>1. EOS' = 0 => Current.info # "EMPTY"
    BY <1>1, <1>2 DEF HeldInv
  <2> QED BY <1>1, <1>2, <1>3, <1>5, <2>1, SlotsKept
<1>7. Current'.info = Current.info
  BY <1>2, <1>5 DEF Current, TypeOK
<1>8. CountInv' /\ ReportInv'
  BY <1>1, <1>2, <1>3, <1>4, <1>7, CharFacts DEF CountInv, ReportInv
<1>9. ShowInv'
  BY <1>4, WaitShown
<1> QED BY <1>6, <1>8, <1>9 DEF Kept

(* A key goes up, or a pause begins.                                       *)
LEMMA ReleaseKept ==
  ASSUME TypeOK, Kept, ShowInv, UNCHANGED <<userText, selected, shown>>,
         Release \/ StartIdle
  PROVE  Kept' /\ ShowInv'
<1>1. QueueInv /\ PieceInv /\ HeldInv /\ CountInv /\ ReportInv
  BY DEF Kept
<1>2. /\ kbd_status \in {"PRESSED", "RELEASED"}
      /\ kbd_status' \in {"RELEASED", "IDLE"}
      /\ strBuf' \in {CharDone, Advanced}
      /\ UNCHANGED <<actString, cCount, EOS, counter, crdStop>>
  BY DEF Release, StartIdle, piece
<1>3. ~Deleting /\ ~Deleting'
  BY <1>2 DEF Deleting
<1>4. report' = Nul /\ screen' = screen /\ eaten' = eaten
  <2>1. CASE Release
    BY <2>1, ReportsFacts, CharFacts DEF Reports, Release, CountInv
  <2>2. CASE StartIdle
    BY <1>1, <2>2 DEF ReportInv, editor, StartIdle
  <2> QED BY <2>1, <2>2
<1>5. \A k \in Slots : /\ strBuf'[k].info = strBuf[k].info
                       /\ strBuf'[k].callback = strBuf[k].callback
  BY <1>2, SlotsSame
<1>6. QueueInv' /\ PieceInv' /\ HeldInv'
  <2>1. EOS' = 0 => Current.info # "EMPTY"
    BY <1>1, <1>2 DEF HeldInv
  <2> QED BY <1>1, <1>2, <1>3, <1>5, <2>1, SlotsKept
<1>7. Current'.info = Current.info
  BY <1>2, <1>5 DEF Current, TypeOK
<1>8. CountInv' /\ ReportInv'
  BY <1>1, <1>2, <1>3, <1>4, <1>7, CharFacts DEF CountInv, ReportInv
<1>9. ShowInv'
  BY <1>4, ReleaseShown
<1> QED BY <1>6, <1>8, <1>9 DEF Kept

(* A key goes down: one character more in the editor.                      *)
LEMMA PressKept ==
  ASSUME TypeOK, Kept, ShowInv, UNCHANGED <<userText, selected, shown>>,
         PressKey, Calm'
  PROVE  Kept' /\ ShowInv'
<1>1. QueueInv /\ PieceInv /\ HeldInv /\ CountInv /\ ReportInv
  BY DEF Kept
<1>2. /\ kbd_status = "RELEASED" /\ kbd_status' = "PRESSED"
      /\ strBuf' = Advanced /\ EOS' = 0
      /\ UNCHANGED <<actString, counter, crdStop>>
  BY DEF PressKey, piece
<1>3. ~Deleting /\ ~Deleting'
  BY <1>2 DEF Deleting
<1>4. /\ ascii # Nul /\ ascii # Backspace
      /\ ~(EOS = 0 /\ cCount' = 0)
  BY DEF PressKey, Calm
<1>5. ascii \in Char /\ Current.info # "EMPTY"
  BY <1>4, AsciiType
<1>6. report = Nul
  BY <1>1, <1>2 DEF ReportInv
<1>7. PICK k \in Char : k = ascii
  BY <1>5
<1>8. /\ report' = k /\ Len(screen') = Len(screen) + 1 /\ eaten' = eaten
  <2>1. Reports(k) /\ k \notin {report, Nul, Backspace}
    BY <1>4, <1>6, <1>7 DEF PressKey
  <2> QED BY <2>1, ReportsFacts
<1>9. cCount' = Len(screen')
  <2>1. PICK n \in Nat : n = cCount
    BY CountersType
  <2>2. n < CountSize
    BY <2>1, Sizes DEF TypeOK
  <2>3. CASE EOS = 0
    <3>1. cCount' = (n + 1) % CountSize /\ cCount' # 0
      BY <1>4, <2>1, <2>3 DEF PressKey
    <3>2. (n + 1) % CountSize = IF n + 1 = CountSize THEN 0 ELSE n + 1
      BY <2>2, NextRemainder, Sizes
    <3>3. cCount' = n + 1
      BY <3>1, <3>2
    <3> QED BY <1>1, <1>8, <2>1, <3>1, <3>3 DEF CountInv
  <2>4. CASE EOS = 1
    <3>1. cCount' = 1
      BY <2>4 DEF PressKey
    <3>2. cCount = 0
      BY <1>1, <1>3, <1>5, <2>4 DEF CountInv
    <3> QED BY <1>1, <1>8, <3>1, <3>2 DEF CountInv
  <2> QED BY <2>3, <2>4, CountersType
<1>10. CountInv'
  BY <1>1, <1>2, <1>8, <1>9 DEF CountInv
<1>11. ReportInv'
  BY <1>2, <1>4, <1>7, <1>8 DEF ReportInv
<1>12. QueueInv' /\ PieceInv' /\ HeldInv'
  <2>1. \A q \in Slots : /\ strBuf'[q].info = strBuf[q].info
                         /\ strBuf'[q].callback = strBuf[q].callback
    BY <1>2, SlotsSame
  <2> QED BY <1>1, <1>2, <1>3, <1>5, <2>1, SlotsKept
<1>13. ShowInv'
  <2>1. screen' = Append(screen, ascii)
    BY <1>4, <1>6 DEF PressKey, Reports
  <2> QED BY <1>4, <2>1, PressShown
<1> QED BY <1>10, <1>11, <1>12, <1>13 DEF Kept

(* A text ends: its slot is free, and none waits.                          *)
LEMMA StringEndKept ==
  ASSUME TypeOK, Kept, ShowInv, UNCHANGED <<userText, selected, shown>>,
         EndString
  PROVE  Kept' /\ ShowInv'
<1>1. QueueInv /\ PieceInv /\ HeldInv /\ CountInv /\ ReportInv
  BY DEF Kept
<1>2. /\ kbd_status = "RELEASED" /\ kbd_status' = "RELEASED"
      /\ Current.callback = 0 /\ EOS' = 1
      /\ strBuf' = Emptied /\ actString' = NextString
      /\ UNCHANGED <<cCount, counter, crdStop, report, screen, eaten>>
  BY DEF EndString, EndsString, piece, editor
<1>3. ~Deleting /\ ~Deleting'
  BY <1>2 DEF Deleting
<1>4. strBuf \in Buffers /\ actString \in Slots /\ NextString \in Slots
  BY Places DEF TypeOK, Buffers
<1>5. \A k \in Slots : strBuf[k].info # "EMPTY" => k = actString
  BY <1>1, <1>3 DEF QueueInv
<1>6. \A k \in Slots : strBuf'[k].info = "EMPTY"
  BY <1>2, <1>4, <1>5, CurrentFacts DEF Other
<1>7. QueueInv'
  BY <1>6 DEF QueueInv
<1>8. PieceInv'
  BY <1>1, <1>2, <1>5 DEF PieceInv, Current
<1>9. HeldInv'
  BY <1>2 DEF HeldInv
<1>10. Current'.info = "EMPTY"
  BY <1>2, <1>4, <1>6 DEF Current
<1>11. CountInv' /\ ReportInv'
  BY <1>1, <1>2, <1>10 DEF CountInv, ReportInv
<1>12. ShowInv'
  <2>1. screen = shown
    <3>1. CASE Current.info = "EMPTY"
      BY <1>3, <3>1 DEF ShowInv
    <3>2. CASE Current.info # "EMPTY"
      <4>1. PICK c, v : c = Current /\ v = screen
        OBVIOUS
      <4>2. /\ c \in SlotType /\ v \in Seq(Char) /\ c.callback = 0
            /\ Byte(c.text, c.at) = Nul
        BY <1>4, <3>2, <4>1, CurrentFacts, TypedScreen
           DEF EndString, EndsString, ascii
      <4>3. Gives(c, 0, v)
        <5>1. Down = 0
          BY <1>2 DEF Down
        <5> QED BY <1>3, <3>2, <4>1, <5>1, ShownNow
      <4> QED BY <4>1, <4>2, <4>3, GivesAll
    <3> QED BY <3>1, <3>2
  <2> QED BY <1>2, <1>3, <1>10, <2>1 DEF ShowInv
<1> QED BY <1>7, <1>8, <1>9, <1>11, <1>12 DEF Kept

(* A piece ends: the credential goes on, or the whole text is shown.       *)
LEMMA PieceOver ==
  ASSUME TypeOK, ShowInv, ~Deleting, kbd_status = "RELEASED", EndsPiece,
         Current.info # "EMPTY"
  PROVE  /\ ~(counter < crdStop) => screen = shown
         /\ counter < crdStop => \E n \in Names :
              /\ n = selected /\ Ahead(position)
              /\ counter = Before(Cred[n], position)
              /\ screen \o FieldsFrom(Cred[n], crdStart, crdStop)[position] = shown
<1>1. PICK c, v : c = Current /\ v = screen
  OBVIOUS
<1>2. /\ c.info # "EMPTY" /\ c.callback # 0 /\ c.len = 0
      /\ v \in Seq(Char) /\ v \o <<>> = v
  BY <1>1, TypedScreen DEF EndsPiece
<1>3. Gives(c, 0, v)
  <2>1. Down = 0
    BY DEF Down
  <2> QED BY <1>1, <1>2, <2>1, ShownNow
<1>4. Piece(c, 0, v)
  BY <1>2, <1>3 DEF Gives, NoText, Text
<1>5. PICK n \in Names, q \in 0 .. Positions - 1, w \in {0, 1} :
        /\ PieceAt(n, q, c.at, c.len - 0, w)
        /\ v \o FieldsFrom(Cred[n], crdStart, crdStop)[q] = shown
  BY <1>4 DEF Piece
<1>6. PICK f, at, rem : /\ f = FieldsFrom(Cred[n], crdStart, crdStop)
                        /\ at = c.at /\ rem = c.len - 0
  OBVIOUS
<1>7. rem = 0 /\ PieceAt(n, q, at, rem, w) /\ v \o f[q] = shown
  BY <1>2, <1>5, <1>6
<1>8. /\ counter < crdStop => /\ n = selected /\ Ahead(position)
                              /\ counter = Before(Cred[n], position)
                              /\ f[position] = f[q]
      /\ ~(counter < crdStop) => f[q] = <<>>
  BY <1>6, <1>7, PieceDone
<1>9. CASE counter < crdStop
  <2>1. v \o f[position] = shown
    BY <1>7, <1>8, <1>9
  <2> QED BY <1>1, <1>6, <1>8, <1>9, <2>1
<1>10. CASE ~(counter < crdStop)
  BY <1>1, <1>2, <1>7, <1>8, <1>10
<1> QED BY <1>9, <1>10

(* A piece of a credential ends: the next one takes its slot, or none      *)
(* waits.                                                                  *)
LEMMA PieceEndKept ==
  ASSUME TypeOK, Kept, ShowInv, UNCHANGED <<userText, selected, shown>>,
         EndPiece
  PROVE  Kept' /\ ShowInv'
<1>1. QueueInv /\ PieceInv /\ HeldInv /\ CountInv /\ ReportInv
  BY DEF Kept
<1>2. /\ kbd_status = "RELEASED" /\ kbd_status' = "RELEASED"
      /\ CRD_apply(Emptied, position, counter, crdStart, crdStop)
      /\ EOS' = IF strBuf'[actString].info = "EMPTY" THEN 1 ELSE EOS
      /\ UNCHANGED <<actString, cCount, report, screen, eaten>>
  BY DEF EndPiece, editor
<1>3. ~Deleting /\ ~Deleting'
  BY <1>2 DEF Deleting
<1>4. strBuf \in Buffers /\ actString \in Slots
  BY DEF TypeOK, Buffers
<1>5. PICK b, p, c, s, t : /\ b = Emptied /\ p = position /\ c = counter
                           /\ s = crdStart /\ t = crdStop
  OBVIOUS
<1>6. /\ b \in Buffers /\ p \in 0 .. Positions - 1 /\ c \in 0 .. CRD_END
      /\ s \in 0 .. CRD_END /\ t \in 0 .. CRD_END
  BY <1>4, <1>5, CurrentFacts DEF TypeOK
<1>7. CRD_apply(b, p, c, s, t)
  BY <1>2, <1>5
<1>8. /\ crdStart' = s /\ crdStop' = t /\ counter' \in Int
      /\ c >= t => strBuf' = b /\ counter' = c
      /\ c < t => \E slot \in SlotType :
           /\ slot.info = "FULL" /\ slot.callback = 1
           /\ strBuf' = Queued(b, slot)
  BY <1>6, <1>7, ApplyFacts DEF CRD_END
<1>9. \A k \in Slots : b[k].info = "EMPTY"
  <2>1. \A k \in Slots : Other(k) => b[k] = strBuf[k]
    BY <1>4, <1>5, CurrentFacts
  <2>2. b[actString].info = "EMPTY"
    BY <1>4, <1>5, CurrentFacts
  <2>3. \A k \in Slots : strBuf[k].info # "EMPTY" => k = actString
    BY <1>1, <1>3 DEF QueueInv
  <2> QED BY <2>1, <2>2, <2>3 DEF Other
<1>10. ReportInv'
  BY <1>1, <1>2 DEF ReportInv
<1>11. CASE c >= t
  <2>1. /\ \A k \in Slots : strBuf'[k].info = "EMPTY"
        /\ ~(counter' < crdStop')
    BY <1>6, <1>8, <1>9, <1>11 DEF CRD_END
  <2>2. QueueInv' /\ PieceInv'
    BY <2>1 DEF QueueInv, PieceInv
  <2>3. EOS' = 1 /\ Current'.info = "EMPTY"
    BY <1>2, <1>4, <2>1 DEF Current
  <2>4. HeldInv' /\ CountInv'
    BY <1>1, <1>2, <2>3 DEF HeldInv, CountInv
  <2>5. screen = shown
    <3>1. CASE Current.info = "EMPTY"
      BY <1>3, <3>1 DEF ShowInv
    <3>2. CASE Current.info # "EMPTY"
      <4>1. EndsPiece /\ ~(counter < crdStop)
        BY <1>5, <1>6, <1>11 DEF EndPiece, CRD_END
      <4> QED BY <1>2, <1>3, <3>2, <4>1, PieceOver
    <3> QED BY <3>1, <3>2
  <2>6. ShowInv'
    BY <1>2, <1>3, <2>3, <2>5 DEF ShowInv
  <2> QED BY <1>10, <2>2, <2>4, <2>6 DEF Kept
<1>12. CASE c < t
  <2>1. counter < crdStop /\ Current.info # "EMPTY"
    <3>1. counter < crdStop
      BY <1>5, <1>12
    <3>2. PICK k \in Slots : strBuf[k].info # "EMPTY"
      BY <1>1, <3>1 DEF PieceInv
    <3>3. k = actString
      BY <1>1, <1>3, <3>2 DEF QueueInv
    <3> QED BY <3>1, <3>2, <3>3 DEF Current
  <2>2. PICK v : v = screen
    OBVIOUS
  <2>3. PICK n \in Names :
          /\ n = selected /\ Ahead(position)
          /\ counter = Before(Cred[n], position)
          /\ v \o FieldsFrom(Cred[n], crdStart, crdStop)[position] = shown
    <3>1. EndsPiece
      BY DEF EndPiece
    <3> QED BY <1>2, <1>3, <2>1, <2>2, <3>1, PieceOver
  <2>4. /\ n = selected /\ selected' = selected /\ c = Before(Cred[n], p)
        /\ Ahead(p) /\ c \in Nat /\ s \in Nat /\ CRD_apply(b, p, c, s, t)
    BY <1>5, <1>6, <1>7, <2>3 DEF CRD_END
  <2>5. PICK slot \in SlotType :
          /\ slot.info = "FULL" /\ slot.callback = 1
          /\ strBuf' = Queued(b, slot)
          /\ \/ NoText(slot, 0)
             \/ /\ slot.text = "plain"
                /\ \E w \in {0, 1} : PieceAt(n, p, slot.at, slot.len - 0, w)'
    BY <1>6, <1>12, <2>4, ApplyPiece
  <2>6. strBuf' = [b EXCEPT ![actString] = slot]
    BY <1>4, <1>6, <1>9, <2>5, QueuedHere
  <2>7. /\ strBuf'[actString] = slot
        /\ \A k \in Slots : k # actString => strBuf'[k].info = "EMPTY"
    BY <1>4, <1>6, <1>9, <2>6 DEF Buffers
  <2>8. QueueInv'
    BY <1>2, <2>7 DEF QueueInv
  <2>9. PieceInv'
    BY <1>4, <2>5, <2>7 DEF PieceInv
  <2>10. slot = Current' /\ slot.info # "EMPTY" /\ EOS' = EOS
    BY <1>2, <2>5, <2>7 DEF Current
  <2>11. HeldInv'
    BY <1>3, <2>10 DEF HeldInv
  <2>12. CountInv'
    BY <1>1, <1>2, <1>3, <2>1, <2>10 DEF CountInv
  <2>13. ShowInv'
    <3>1. v \o FieldsFrom(Cred[n], crdStart', crdStop')[p] = shown'
      BY <1>5, <1>8, <2>3
    <3>2. Gives(slot, 0, v)'
      BY <1>6, <2>5, <3>1, PieceGives
    <3>3. v = screen' /\ 0 = Down'
      BY <1>2, <2>2 DEF Down
    <3> QED BY <1>3, <2>10, <3>2, <3>3, ShownBy
  <2> QED BY <1>10, <2>8, <2>9, <2>11, <2>12, <2>13 DEF Kept
<1> QED BY <1>6, <1>11, <1>12 DEF CRD_END

(* A backspace, and its release.                                           *)
LEMMA DeleteKept ==
  ASSUME TypeOK, Kept, ShowInv, UNCHANGED <<userText, selected, shown>>,
         DeleteKey \/ DeleteRelease
  PROVE  Kept' /\ ShowInv'
<1>1. QueueInv /\ PieceInv /\ HeldInv /\ CountInv /\ ReportInv
  BY DEF Kept
<1>2. UNCHANGED <<strBuf, actString, EOS, counter, crdStop>>
  BY DEF DeleteKey, DeleteRelease, queue, piece
<1>3. Deleting /\ Deleting'
  BY DEF Deleting, DeleteKey, DeleteRelease
<1>4. QueueInv' /\ PieceInv' /\ HeldInv'
  <2>1. EOS' = 0 => Current.info # "EMPTY"
    BY <1>1, <1>2 DEF HeldInv
  <2>2. \A k \in Slots : /\ strBuf'[k].info = strBuf[k].info
                         /\ strBuf'[k].callback = strBuf[k].callback
    BY <1>2
  <2> QED BY <1>1, <1>2, <1>3, <2>1, <2>2, SlotsKept
<1>5. ShowInv'
  <2>1. Stays
    BY DEF Stays, DeleteKey, DeleteRelease, piece
  <2>2. PICK z : z = Following
    OBVIOUS
  <2>3. z = Following'
    BY <1>2, <2>2 DEF Following, NextString
  <2>4. z.info # "EMPTY" /\ Gives(z, 0, <<>>)
    BY <1>3, <2>2 DEF ShowInv
  <2>5. Gives(z, 0, <<>>)'
    BY <2>1, <2>4, GivesKept DEF Stays
  <2> QED BY <1>3, <2>3, <2>4, <2>5, ShownNext
<1>6. CASE DeleteKey
  <2>1. /\ kbd_status = "DELETE" /\ kbd_status' = "DELETE_PRESSED"
        /\ Reports(Backspace) /\ cCount > 0 /\ cCount' = cCount - 1
    BY <1>6 DEF DeleteKey
  <2>2. report # Backspace /\ Len(screen) > 0
    BY <1>1, <2>1 DEF ReportInv, CountInv
  <2>3. Len(screen') = Len(screen) - 1 /\ eaten' = eaten
    BY <2>1, <2>2, ReportsFacts, CharFacts
  <2>4. CountInv' /\ ReportInv'
    BY <1>1, <1>3, <2>1, <2>3 DEF CountInv, ReportInv
  <2> QED BY <1>4, <1>5, <2>4 DEF Kept
<1>7. CASE DeleteRelease
  <2>1. /\ Reports(Nul) /\ cCount' = cCount
    BY <1>7 DEF DeleteRelease
  <2>2. report' = Nul /\ screen' = screen /\ eaten' = eaten
    BY <1>1, <2>1, ReportsFacts, CharFacts DEF Reports, CountInv
  <2>3. CountInv' /\ ReportInv'
    BY <1>1, <1>3, <2>1, <2>2, CharFacts DEF CountInv, ReportInv
  <2> QED BY <1>4, <1>5, <2>3 DEF Kept
<1> QED BY <1>6, <1>7

(* The end of a deletion: the text under way makes room for the next one.  *)
LEMMA DeletedKept ==
  ASSUME TypeOK, Kept, ShowInv, UNCHANGED <<userText, selected, shown>>,
         EndDelete
  PROVE  Kept' /\ ShowInv'
<1>1. QueueInv /\ PieceInv /\ HeldInv /\ CountInv /\ ReportInv
  BY DEF Kept
<1>2. /\ kbd_status = "DELETE" /\ kbd_status' = "RELEASED"
      /\ cCount = 0 /\ cCount' = 0 /\ EOS' = 1 /\ Reports(Nul)
      /\ strBuf' = IF EOS = 0 THEN Emptied ELSE strBuf
      /\ actString' = IF EOS = 0 THEN NextString ELSE actString
      /\ UNCHANGED <<counter, crdStop>>
  BY DEF EndDelete, piece
<1>3. Deleting /\ ~Deleting'
  BY <1>2 DEF Deleting
<1>4. report' = Nul /\ screen' = screen /\ eaten' = eaten
  BY <1>1, <1>2, ReportsFacts, CharFacts DEF Reports, CountInv
<1>5. CountInv' /\ ReportInv'
  BY <1>1, <1>2, <1>4, CharFacts DEF CountInv, ReportInv
<1>6. HeldInv'
  BY <1>2 DEF HeldInv
<1>7. strBuf \in Buffers /\ actString \in Slots
  BY DEF TypeOK, Buffers
<1>8. ShowInv'
  <2>1. Stays
    BY DEF Stays, EndDelete, piece
  <2>2. PICK z, v : z = Following /\ v = <<>>
    OBVIOUS
  <2>3. z = Current'
    <3>1. NextString \in Slots /\ NextString # actString
      BY <1>7, Places
    <3>2. \A k \in Slots : Other(k) => Emptied[k] = strBuf[k]
      BY <1>7, CurrentFacts
    <3> QED BY <1>2, <2>2, <3>1, <3>2 DEF Following, Current, Other
  <2>4. z.info # "EMPTY" /\ Gives(z, 0, v)
    BY <1>3, <2>2 DEF ShowInv
  <2>5. Gives(z, 0, v)'
    BY <2>1, <2>4, GivesKept DEF Stays
  <2>6. v = screen' /\ 0 = Down'
    <3>1. Len(screen) = 0 /\ screen \in Seq(Char)
      BY <1>1, <1>2, TypedScreen DEF CountInv
    <3>2. screen = <<>>
      BY <3>1, EmptySeq
    <3> QED BY <1>2, <1>4, <2>2, <3>2 DEF Down
  <2> QED BY <1>3, <2>3, <2>4, <2>5, <2>6, ShownBy
<1>9. CASE EOS = 0
  <2>1. /\ Emptied[actString].info = "EMPTY"
        /\ \A k \in Slots : Other(k) => Emptied[k] = strBuf[k]
    BY <1>7, CurrentFacts
  <2>2. \A k \in Slots : strBuf[k].info # "EMPTY" => k \in {actString, NextString}
    BY <1>1 DEF QueueInv
  <2>3. strBuf' = Emptied /\ actString' = NextString
    BY <1>2, <1>9
  <2>4. QueueInv'
    BY <2>1, <2>2, <2>3 DEF QueueInv, Other
  <2>5. Current.callback = 0
    BY <1>1, <1>3, <1>9 DEF HeldInv
  <2>6. PieceInv'
    BY <1>1, <1>2, <2>1, <2>3, <2>5 DEF PieceInv, Current, Other
  <2> QED BY <1>5, <1>6, <1>8, <2>4, <2>6 DEF Kept
<1>10. CASE EOS = 1
  <2>1. strBuf' = strBuf /\ actString' = actString
    BY <1>2, <1>10
  <2>2. QueueInv'
    BY <1>1, <1>10, <2>1 DEF QueueInv
  <2>3. PieceInv'
    BY <1>1, <1>2, <2>1 DEF PieceInv
  <2> QED BY <1>5, <1>6, <1>8, <2>2, <2>3 DEF Kept
<1> QED BY <1>9, <1>10, CountersType

------------------------------------------------------------------------------
(* The steps, and the theorems.                                            *)

LEMMA UpdateKept ==
  ASSUME TypeOK, Calm => Kept /\ ShowInv, printUpdate, Calm'
  PROVE  Kept' /\ ShowInv'
<1>1. Calm /\ UNCHANGED <<userText, selected, shown>>
  BY DEF Calm, printUpdate, WaitInit, EndInit, WaitIdle, EndIdle, Wait, Release,
         EndString, EndPiece, StartIdle, PressKey, DeleteKey, EndDelete,
         DeleteRelease
<1> QED BY <1>1, WaitKept, ReleaseKept, StringEndKept, PieceEndKept, PressKept,
           DeleteKept, DeletedKept DEF printUpdate

(* What Init and Restart leave.                                            *)
Started ==
  [k \in Slots |-> IF k = 0 THEN Slot("init", 0, 0)
                  ELSE [Slot("nul", 0, 0) EXCEPT !.info = "EMPTY"]]

LEMMA StartedFacts ==
  /\ Started \in Buffers /\ 0 \in Slots
  /\ Started[0].info = "FULL"
  /\ Started[0].callback = 0 /\ Started[0] = Slot("init", 0, 0)
  /\ \A k \in Slots : k # 0 => Started[k].info = "EMPTY"
<1>1. 0 \in Slots
  BY Sizes DEF Slots
<1>2. /\ "init" \in Sources /\ "nul" \in Sources
      /\ 0 \in Nat /\ 0 \in 0 .. BlockSize
  BY Sizes DEF Sources
<1>3. /\ Slot("init", 0, 0) \in SlotType /\ Slot("init", 0, 0).info = "FULL"
      /\ Slot("init", 0, 0).callback = 0
  BY <1>2, SlotMade
<1>4. Slot("nul", 0, 0) \in SlotType
  BY <1>2, SlotMade
<1>5. /\ [Slot("nul", 0, 0) EXCEPT !.info = "EMPTY"] \in SlotType
      /\ [Slot("nul", 0, 0) EXCEPT !.info = "EMPTY"].info = "EMPTY"
  BY <1>4, SlotFacts
<1> DEFINE e == [Slot("nul", 0, 0) EXCEPT !.info = "EMPTY"]
<1>6. Started = [k \in Slots |-> IF k = 0 THEN Slot("init", 0, 0) ELSE e]
  BY DEF Started
<1>7. e \in SlotType /\ e.info = "EMPTY"
  BY <1>5
<1> HIDE DEF e
<1> QED BY <1>1, <1>3, <1>6, <1>7 DEF Buffers

LEMMA StartValues ==
  /\ <<>> \in Seq(Char) /\ Len(<<>>) = 0 /\ <<>> \in Seq(Char \ {Nul})
  /\ Flash["init"] \in Seq(Char \ {Nul})
  /\ Visible(Flash["init"]) \in Seq(Char)
  /\ [i \in 0 .. BlockSize - 1 |-> Nul] \in [0 .. BlockSize - 1 -> Char]
  /\ 0 \in 0 .. Positions - 1 /\ 0 \in 0 .. CountSize - 1
  /\ CRD_USER \in 0 .. CRD_END /\ 0 \in 0 .. CRD_END
  /\ ~(0 < CRD_USER) /\ First \in Names /\ 0 \in 0 .. MaxRequests
<1>1. /\ 0 \in 0 .. Positions - 1 /\ 0 \in 0 .. CountSize - 1
      /\ First \in Names /\ 0 \in 0 .. MaxRequests
  BY Sizes
<1>2. /\ CRD_USER \in 0 .. CRD_END /\ 0 \in 0 .. CRD_END
      /\ ~(0 < CRD_USER)
  BY DEF CRD_USER, CRD_END
<1>3. <<>> \in Seq(Char) /\ Len(<<>>) = 0 /\ <<>> \in Seq(Char \ {Nul})
  BY EmptySeq
<1>4. [i \in 0 .. BlockSize - 1 |-> Nul] \in [0 .. BlockSize - 1 -> Char]
  BY CharFacts
<1>5. "init" \in DOMAIN Flash
  BY Sizes
<1>6. Flash["init"] \in Seq(Char \ {Nul})
  BY <1>5, FlashStart
<1>7. Visible(Flash["init"]) \in Seq(Char)
  BY <1>6, TextStart
<1> QED BY <1>1, <1>2, <1>3, <1>4, <1>6, <1>7

LEMMA InitTyping == Init => TypingInv
<1> SUFFICES ASSUME Init PROVE TypingInv
  OBVIOUS
<1>1. /\ strBuf = Started /\ actString = 0 /\ cCount = 0 /\ EOS = 0
      /\ debounceCount = 0 /\ kbd_status = "INIT"
      /\ userText = <<>> /\ plain = [i \in 0 .. BlockSize - 1 |-> Nul]
      /\ position = 0 /\ counter = 0 /\ crdStart = CRD_USER
      /\ crdStop = CRD_USER /\ selected = First /\ UIF_state = "START"
      /\ report = Nul /\ screen = <<>> /\ eaten = FALSE
      /\ shown = Visible(Flash["init"]) /\ flaws = {} /\ asked = 0
  BY DEF Init, Started
<1>2. TypeOK
  BY <1>1, StartedFacts, StartValues, CharFacts DEF TypeOK, Buffers
<1>3. ~Deleting
  BY <1>1 DEF Deleting
<1>4. QueueInv /\ HeldInv
  BY <1>1, <1>3, StartedFacts DEF QueueInv, HeldInv, Current
<1>5. PieceInv /\ CountInv /\ ReportInv
  BY <1>1, StartValues, CharFacts DEF PieceInv, CountInv, ReportInv
<1>6. ShowInv
  <2>1. "init" \in DOMAIN Flash
    BY Sizes
  <2>2. PICK f, slot : f = Flash["init"] /\ slot = Slot("init", 0, 0)
    OBVIOUS
  <2>3. /\ "init" \in Texts /\ f \in Seq(Char \ {Nul}) /\ slot.info = "FULL"
        /\ slot.callback = 0 /\ slot.text = "init" /\ slot.at = 0
    BY <2>1, <2>2, FlashStart
  <2>4. 0 <= Len(f) /\ <<>> \o VisibleFrom(f)[0] = Visible(f)
    BY <2>3, TextStart
  <2>5. TextOf("init") = f
    BY <2>2 DEF TextOf
  <2>6. Text(slot, <<>>)
    BY <1>1, <2>2, <2>3, <2>4, <2>5 DEF Text
  <2>7. Current = slot /\ Down = 0
    BY <1>1, <2>2, StartedFacts DEF Current, Down
  <2> QED BY <1>1, <1>3, <2>3, <2>6, <2>7 DEF ShowInv, Gives
<1> QED BY <1>2, <1>4, <1>5, <1>6 DEF TypingInv, Kept

LEMMA RestartTyping ==
  ASSUME TypeOK, Restart PROVE TypingInv'
<1>1. /\ strBuf' = Started /\ actString' = 0 /\ cCount' = 0 /\ EOS' = 0
      /\ debounceCount' = 0 /\ kbd_status' = "INIT"
      /\ userText' = <<>> /\ plain' = [i \in 0 .. BlockSize - 1 |-> Nul]
      /\ position' = 0 /\ counter' = 0 /\ crdStart' = CRD_USER
      /\ crdStop' = CRD_USER /\ selected' = First /\ UIF_state' = "START"
      /\ report' = Nul /\ screen' = <<>> /\ eaten' = FALSE
      /\ shown' = Visible(Flash["init"]) /\ flaws' = {}
  BY DEF Restart, Started
<1>2. asked' \in 0 .. MaxRequests
  <2>1. asked < MaxRequests /\ asked' = asked + 1
    BY DEF Restart
  <2>2. asked \in 0 .. MaxRequests
    BY DEF TypeOK
  <2> QED BY <2>1, <2>2, Sizes
<1>3. TypeOK'
  BY <1>1, <1>2, StartedFacts, StartValues, CharFacts DEF TypeOK, Buffers
<1>4. ~Deleting'
  BY <1>1 DEF Deleting
<1>5. QueueInv' /\ HeldInv'
  BY <1>1, <1>4, StartedFacts DEF QueueInv, HeldInv, Current
<1>6. PieceInv' /\ CountInv' /\ ReportInv'
  BY <1>1, StartValues, CharFacts DEF PieceInv, CountInv, ReportInv
<1>7. ShowInv'
  <2>1. "init" \in DOMAIN Flash
    BY Sizes
  <2>2. PICK slot, v : slot = Slot("init", 0, 0) /\ v = <<>>
    OBVIOUS
  <2>3. Gives(slot, 0, v)'
    BY <1>1, <2>1, <2>2, FlashGives
  <2>4. /\ slot = Current' /\ 0 = Down' /\ v = screen' /\ slot.info # "EMPTY"
    BY <1>1, <2>2, StartedFacts DEF Current, Down
  <2> QED BY <1>4, <2>3, <2>4, ShownBy
<1> QED BY <1>3, <1>5, <1>6, <1>7 DEF TypingInv, Kept

LEMMA ShownStays ==
  ASSUME ShowInv, UNCHANGED <<queue, keys, userText, plain, piece, screen, shown>>,
         selected' = selected \/ ~(counter < crdStop)
  PROVE  ShowInv'
<1>1. UNCHANGED <<userText, plain, position, counter, crdStart, crdStop, shown>>
  BY DEF piece
<1>2. PICK z, d, v : /\ d = Down /\ v = screen
                     /\ z = IF Deleting THEN Following ELSE Current
  OBVIOUS
<1>3. /\ Deleting' <=> Deleting
      /\ Following' = Following /\ Current' = Current
      /\ Down' = d /\ screen' = v
  BY <1>2 DEF queue, keys, Deleting, Following, Current, Down, NextString
<1>4. CASE Deleting
  <2>1. z.info # "EMPTY" /\ Gives(z, 0, <<>>)
    BY <1>2, <1>4 DEF ShowInv
  <2>2. Gives(z, 0, <<>>)'
    BY <1>1, <2>1, GivesKept
  <2> QED BY <1>2, <1>3, <1>4, <2>1, <2>2, ShownNext
<1>5. CASE ~Deleting /\ Current.info # "EMPTY"
  <2>1. z.info # "EMPTY" /\ Gives(z, d, v)
    BY <1>2, <1>5, ShownNow
  <2>2. Gives(z, d, v)'
    BY <1>1, <2>1, GivesKept
  <2> QED BY <1>2, <1>3, <1>5, <2>1, <2>2, ShownBy
<1>6. CASE ~Deleting /\ Current.info = "EMPTY"
  BY <1>1, <1>2, <1>3, <1>6 DEF ShowInv
<1> QED BY <1>4, <1>5, <1>6

LEMMA StepTyping == TypingInv /\ [Next]_vars => TypingInv'
<1> SUFFICES ASSUME TypingInv, [Next]_vars PROVE TypingInv'
  OBVIOUS
<1>1. TypeOK /\ (Calm => Kept /\ ShowInv)
  BY DEF TypingInv
<1>2. CASE Request
  <2>1. TypeOK' /\ (Shows \/ PinWritten \/ ListWritten)
    BY <1>1, <1>2, RequestFacts
  <2>2. CASE Shows
    BY <1>1, <2>1, <2>2, ShowsKept DEF TypingInv
  <2>3. CASE PinWritten
    BY <2>1, <2>3 DEF TypingInv, PinWritten, Calm
  <2>4. CASE ListWritten
    <3>1. Calm' => Calm
      BY <2>4 DEF ListWritten, Calm
    <3>2. ASSUME Calm' PROVE Kept'
      <4>1. UNCHANGED <<queue, keys, piece, editor>> /\ Kept
        BY <1>1, <2>4, <3>1, <3>2 DEF ListWritten
      <4> QED BY <4>1 DEF queue, keys, piece, editor, Kept, QueueInv, PieceInv,
                 HeldInv, CountInv, ReportInv, Deleting, Current, NextString
    <3>3. ASSUME Calm' PROVE ShowInv'
      <4>1. /\ UNCHANGED <<queue, keys, userText, plain, piece, screen, shown>>
            /\ selected' = selected \/ ~(counter < crdStop)
        BY <2>4, <3>3 DEF ListWritten, editor
      <4> QED BY <1>1, <3>1, <3>3, <4>1, ShownStays
    <3> QED BY <2>1, <3>2, <3>3 DEF TypingInv
  <2> QED BY <2>1, <2>2, <2>3, <2>4
<1>3. CASE printUpdate
  BY <1>1, <1>3, UpdateType, UpdateKept DEF TypingInv
<1>4. CASE Restart
  BY <1>1, <1>4, RestartTyping
<1>5. CASE UNCHANGED vars
  <2>1. TypeOK'
    BY <1>1, <1>5 DEF TypeOK, vars, queue, keys, source, piece, editor, history
  <2>2. Kept => Kept'
    BY <1>5 DEF vars, queue, keys, piece, editor, Kept, QueueInv, PieceInv, HeldInv,
                CountInv, ReportInv, Deleting, Current, NextString
  <2>3. Calm' = Calm
    BY <1>5 DEF vars, history, Calm
  <2>4. ShowInv => ShowInv'
    <3>1. /\ UNCHANGED <<queue, keys, userText, plain, piece, screen, shown>>
          /\ selected' = selected
      BY <1>5 DEF vars, source, editor, history
    <3> QED BY <3>1, ShownStays
  <2> QED BY <1>1, <2>1, <2>2, <2>3, <2>4 DEF TypingInv
<1> QED BY <1>2, <1>3, <1>4, <1>5 DEF Next

(* The inductive invariant: while every request comes when the one before  *)
(* has begun to be typed, the queue holds no more than the text under way  *)
(* and the one that replaces it, and what is in the editor and what is     *)
(* still to be typed make the text that was asked for, whatever the menus  *)
(* ask for and however their texts, the host's reports and the restarts    *)
(* interleave (print.c, CRD_apply).                                        *)
THEOREM TypingInvariant == Spec => []TypingInv
<1> QED BY InitTyping, StepTyping, PTL DEF Spec

(* The variables of print.c and crd.c keep their types: no index of strBuf *)
(* or of cipher.plain leaves its array.                                    *)
THEOREM TypeCorrect == Spec => []TypeOK
<1>1. TypingInv => TypeOK
  BY DEF TypingInv
<1> QED BY <1>1, TypingInvariant, PTL

(* cCount is the length of the device's own text in the editor, so that    *)
(* print_deleteStr removes that text and nothing of the user's.            *)
THEOREM CountShown == Spec => []CountIsShown
<1>1. TypingInv => CountIsShown
  BY DEF TypingInv, Kept, CountInv, CountIsShown
<1> QED BY <1>1, TypingInvariant, PTL

(* When nothing is left to type or to delete, the editor shows the text    *)
(* asked for last and nothing else of the device's, however far the ones   *)
(* before had got and at whatever blocks its fields were cut (printUpdate, *)
(* CRD_apply).                                                             *)
THEOREM LastShown == Spec => []SettledShowsLast
<1>1. TypingInv => SettledShowsLast
  <2> SUFFICES ASSUME TypingInv, Calm, Settled PROVE screen = shown
    BY DEF SettledShowsLast
  <2>1. TypeOK /\ ShowInv
    BY DEF TypingInv
  <2>2. Current.info = "EMPTY"
    BY <2>1 DEF Settled, Current, TypeOK
  <2>3. ~Deleting
    BY DEF Settled, Deleting
  <2> QED BY <2>1, <2>2, <2>3 DEF ShowInv
<1> QED BY <1>1, TypingInvariant, PTL

=============================================================================
